---------------------------- MODULE RedisProofs ----------------------------
(***************************************************************************)
(* What holds of the Redis service for every ring, query and pipeline      *)
(* size.  The invariant says where each coroutine may be and what it may   *)
(* be inside of there, and counts the units between the two: what was read *)
(* of the next query, what is in the pipe, and what the request has still  *)
(* to write make up exactly the commands asked and not yet answered.       *)
(***************************************************************************)
EXTENDS Redis, ResponderProofs

Commands == Ordinary \cup Closing

\* Where t goes on after operation o.
After(t, o) ==
  IF t = Request
  THEN CASE o = "READ"     -> {"header", "args"}
         [] o = "WRITE"    -> {"written", "eofwritten"}
         [] o = "FLUSH"    -> {"flushed", "hup", "finally"}
         [] o = "TX_CLOSE" -> {"loopend"}
         [] o = "HUP"      -> {"loopend"}
         [] OTHER          -> {}
  ELSE CASE o = "READ"     -> {"got"}
         [] o = "WRITE"    -> {"replied", "bye"}
         [] o = "FLUSH"    -> {"read", "byeflushed", "out", "sorryflushed"}
         [] o = "TX_CLOSE" -> {"loopend", "end"}
         [] OTHER          -> {}

Last(t)   == IF t = Request THEN "called" ELSE "end"
Caught(t) == IF t = Request THEN "finally" ELSE "sorry"

\* t is at l: inside of an operation that leads there, asleep on nothing
\* read, raised or ended where it may be, and its ring is written out but
\* between a write and the end of a flush.
Place(s, l, t) ==
  /\ s.op[t] \in {"NONE", "READ", "WRITE", "FLUSH", "HUP", "TX_CLOSE"}
  /\ s.inside[t] => l \in After(t, s.op[t])
  /\ s.status[t] = "WAIT" => s.inside[t] /\ s.op[t] # "TX_CLOSE"
  /\ s.status[t] = "WAIT" /\ s.op[t] = "READ" => s.rx[t].data = << >> /\ s.need[t] # 0
  /\ s.status[t] = "ERR" => ~ s.inside[t] /\ l = Caught(t)
  /\ s.status[t] = "END" => ~ s.inside[t] /\ l = Last(t)
  /\ \/ s.tx[t].data = << >> \/ l \in After(t, "WRITE")
     \/ s.inside[t] /\ s.op[t] = "FLUSH"

PlaceInv == \A t \in Threads : Place(p, pc[t], t)

TypeInv ==
  /\ DOMAIN pc = Threads /\ error \in [Threads -> BOOLEAN]
  /\ asked \in Seq(Commands) /\ taken \in Seq(Byte) /\ replies \in Seq(Reply)
  /\ networked \in BOOLEAN /\ shutdown \in BOOLEAN

\* Until the response is played, only the request runs.
StartInv ==
  pc[Request] = "start" =>
    /\ phase = "execute" /\ pc[Response] = "start"
    /\ p.status[Request] = "RUN" /\ p.status[Response] = "RUN"
    /\ p.running # Response /\ ~ p.run_enq[Response]

\* Who is ready runs or is queued, but for a request that waits in vk_call
\* and a response not yet played.
RunInv ==
  \A t \in Threads : p.status[t] \in {"RUN", "ERR"} /\ p.running # t =>
    \/ p.run_enq[t]
    \/ t = Request /\ pc[Request] = "called"
    \/ t = Response /\ pc[Request] = "start"

PhaseInv ==
  /\ phase # "execute" => p.running = NoThread
  /\ Idle => p.run_q = << >>
  /\ phase = "freed" => p.blocked_q = << >>

\* The last command was asked.
Over == Asked > 0 /\ asked[Asked] \in Closing

\* EOF is marked on the pipe only behind the last query.
EofInv ==
  /\ p.tx[Request].eof \/ p.op[Request] \in {"TX_CLOSE", "HUP"} =>
       pc[Request] \in {"loopend", "finally", "called"} /\ Over
  /\ ~ p.tx[Response].eof

AskInv ==
  /\ \A i \in 1 .. Asked - 1 : asked[i] \in Ordinary
  /\ pc[Request] \in {"start", "line", "header", "args", "eof"} /\ Asked > 0 => asked[Asked] \in Ordinary
  /\ pc[Request] \in {"written", "flushed"} => Asked > 0
  /\ pc[Request] \in {"eofwritten", "hup", "loopend"} => Over
  /\ pc[Request] \in {"finally", "called"} => error[Request] \/ Over
  /\ error[Request] => pc[Request] \in {"finally", "called"}

\* What the request has still to write of its query,
Owed == IF p.inside[Request] /\ p.op[Request] = "WRITE" THEN p.need[Request] ELSE 0

\* and what it wrote and the response has not answered.
Pend == IF pc[Response] = "got" THEN taken \o Flow(p, Response) ELSE Flow(p, Response)

Base == Len(replies)

\* The units in q, and the w yet to be written, are those of the commands
\* from b + 1 to a, in order.
Whole(q, w, b, a) ==
  /\ Len(q) + w = (a - b) * QueryLen
  /\ \A i \in 1 .. Len(q) : (q[i] - b - 1) * QueryLen < i /\ i <= (q[i] - b) * QueryLen

Answering == {"start", "read", "got", "replied"}

PendInv ==
  /\ Owed <= QueryLen
  /\ pc[Response] \in Answering =>
       /\ \A i \in 1 .. Base : asked[i] \in Ordinary
       /\ Whole(Pend, Owed, Base, Asked)
  /\ pc[Response] = "got" => /\ p.op[Response] = "READ"
                             /\ Len(taken) + p.need[Response] = QueryLen
                             /\ ~ p.inside[Response] => p.need[Response] = 0

TakenInv == \A i \in 1 .. Len(taken) : taken[i] = taken[1]

DoneInv ==
  /\ Base <= Asked
  /\ pc[Response] \in {"bye", "byeflushed", "loopend", "out", "end"} /\ ~ error[Response] =>
       Over /\ \A i \in 1 .. Asked : Answered(i)
  /\ error[Response] => pc[Response] \in {"sorry", "sorryflushed", "end"}
  /\ pc[Response] \in {"sorry", "sorryflushed"} => error[Response]

\* A networked response ends on a closed descriptor.
EndInv ==
  pc[Response] = "end" /\ (networked \/ error[Response]) =>
    p.closed[Response] \/ (p.inside[Response] /\ p.op[Response] = "TX_CLOSE" /\ p.need[Response] # 0)

\* The database holds the last SET acknowledged, or what came after it.
DbInv == /\ db \in Reply
         /\ (db = NIL /\ Stored(Base + 1) = {}) \/ Current(db, Base + 1)

\* Who runs, is queued or sleeps, and where.
ControlInv == QueueInv /\ SleepInv(p, {}) /\ PlaceInv /\ StartInv /\ RunInv /\ PhaseInv

RedisInv ==
  /\ ControlInv /\ TypeInv
  /\ EofInv /\ AskInv /\ PendInv /\ TakenInv /\ DoneInv /\ EndInv
  /\ RepliesFollowCommands /\ DbInv

----------------------------------------------------------------------------
(* Counting *)

\* A query has some units.
LEMMA Times ==
  ASSUME NEW x \in Int
  PROVE  /\ x * QueryLen \in Int /\ (x + 1) * QueryLen = x * QueryLen + QueryLen
         /\ (x - 1) * QueryLen = x * QueryLen - QueryLen
         /\ x >= 1 => x * QueryLen >= QueryLen
         /\ x <= 0 => x * QueryLen <= 0
<1>1. QueryLen \in Nat /\ QueryLen >= 1
  BY RedisAssumption
<1> QED
  BY <1>1

\* A command more, of which nothing is written.
LEMMA WholeMore ==
  ASSUME NEW q \in Seq(Byte), NEW b \in Nat, NEW a \in Nat, Whole(q, 0, b, a)
  PROVE  Whole(q, QueryLen, b, a + 1)
<1> DEFINE x == a - b
<1>0. x \in Int /\ a + 1 - b = x + 1 /\ QueryLen \in Nat
  BY RedisAssumption
<1>1. Len(q) + 0 = x * QueryLen
  BY DEF Whole
<1>2. \A i \in 1 .. Len(q) : (q[i] - b - 1) * QueryLen < i /\ i <= (q[i] - b) * QueryLen
  BY DEF Whole
<1> HIDE DEF x
<1>3. (x + 1) * QueryLen = x * QueryLen + QueryLen
  BY <1>0, Times
<1>4. Len(q) + QueryLen = (x + 1) * QueryLen
  BY <1>0, <1>1, <1>3
<1> QED
  BY <1>0, <1>2, <1>4 DEF Whole

\* Some of the last command is written.
LEMMA WholePut ==
  ASSUME NEW q \in Seq(Byte), NEW b \in Nat, NEW a \in Nat, NEW w \in Nat, w <= QueryLen,
         NEW n \in Nat, n <= w, Whole(q, w, b, a)
  PROVE  Whole(q \o Bytes(n, a), w - n, b, a)
<1> DEFINE d == Bytes(n, a)
           e == q \o d
           m == (a - b) * QueryLen
<1>1. /\ m \in Int /\ (a - b - 1) * QueryLen = m - QueryLen /\ QueryLen \in Nat
      /\ Len(q) \in Nat
  BY Times, RedisAssumption
<1>0. (a - b) * QueryLen = m
  OBVIOUS
<1>2. d \in Seq(Byte) /\ Len(d) = n /\ \A i \in 1 .. n : d[i] = a
  BY DEF Bytes, Byte
<1> HIDE DEF d
<1>3. /\ Len(e) = Len(q) + n
      /\ \A i \in 1 .. Len(q) : e[i] = q[i]
      /\ \A i \in Len(q) + 1 .. Len(q) + n : e[i] = d[i - Len(q)]
  BY <1>2
<1>4. Len(q) + w = m
  BY DEF Whole
<1> HIDE DEF e, m
<1>5. Len(e) + (w - n) = m
  BY <1>1, <1>3, <1>4
<1>6. ASSUME NEW i \in 1 .. Len(e)
      PROVE  (e[i] - b - 1) * QueryLen < i /\ i <= (e[i] - b) * QueryLen
  <2>1. CASE i <= Len(q)
    <3>1. i \in 1 .. Len(q)
      BY <1>1, <2>1
    <3> QED
      BY <1>3, <3>1 DEF Whole
  <2>2. CASE i > Len(q)
    <3>1. i \in Len(q) + 1 .. Len(q) + n
      BY <1>1, <1>3, <2>2
    <3>2. e[i] = a
      <4>1. i - Len(q) \in 1 .. n
        BY <1>1, <3>1
      <4> QED
        BY <1>2, <1>3, <3>1, <4>1
    <3>3. m - QueryLen < i /\ i <= m
      BY <1>1, <1>4, <3>1
    <3> QED
      BY <1>0, <1>1, <3>2, <3>3
  <2> QED
    BY <1>1, <2>1, <2>2
<1>7. Whole(e, w - n, b, a)
  BY <1>0, <1>5, <1>6 DEF Whole
<1> QED
  BY <1>7 DEF e, d

\* The next query is of the command after the last answered.
LEMMA WholeFirst ==
  ASSUME NEW q \in Seq(Byte), NEW b \in Nat, NEW a \in Nat, NEW w \in Nat, Whole(q, w, b, a)
  PROVE  /\ \A i \in 1 .. Len(q) : i <= QueryLen => q[i] = b + 1
         /\ Len(q) >= QueryLen => b + 1 <= a
<1>0. QueryLen \in Nat /\ QueryLen >= 1
  BY RedisAssumption
<1>1. ASSUME NEW i \in 1 .. Len(q), i <= QueryLen
      PROVE  q[i] = b + 1
  <2> DEFINE v == q[i] - b
  <2>1. v \in Int /\ v - 1 \in Int
    BY DEF Byte
  <2>2. (v - 1) * QueryLen < i /\ i <= v * QueryLen
    BY DEF Whole
  <2>3. /\ v - 1 >= 1 => (v - 1) * QueryLen >= QueryLen
        /\ v <= 0 => v * QueryLen <= 0
    BY <2>1, Times
  <2>4. v * QueryLen \in Int /\ (v - 1) * QueryLen \in Int
    BY <2>1, Times
  <2> HIDE DEF v
  <2>5. ~ (v - 1 >= 1)
    BY <1>0, <1>1, <2>2, <2>3, <2>4
  <2>6. ~ (v <= 0)
    BY <1>0, <1>1, <2>2, <2>3, <2>4
  <2>7. v = 1
    BY <2>1, <2>5, <2>6
  <2> QED
    BY <2>7 DEF v, Byte
<1>2. ASSUME Len(q) >= QueryLen
      PROVE  b + 1 <= a
  <2>1. Len(q) + w = (a - b) * QueryLen
    BY DEF Whole
  <2>2. a - b <= 0 => (a - b) * QueryLen <= 0
    BY Times
  <2>3. ~ (a - b <= 0)
    BY <1>0, <1>2, <2>1, <2>2
  <2> QED
    BY <2>3
<1> QED
  BY <1>1, <1>2

\* That query is answered.
LEMMA WholeDrop ==
  ASSUME NEW f \in Seq(Byte), NEW q \in Seq(Byte), NEW b \in Nat, NEW a \in Nat, NEW w \in Nat,
         Whole(f \o q, w, b, a), Len(f) = QueryLen
  PROVE  Whole(q, w, b + 1, a)
<1> DEFINE e == f \o q
<1>0. QueryLen \in Nat
  BY RedisAssumption
<1>1. Len(e) = QueryLen + Len(q) /\ \A i \in 1 .. Len(q) : e[QueryLen + i] = q[i]
  BY <1>0
<1>2. Len(e) + w = (a - b) * QueryLen
  BY DEF Whole
<1>3. \A i \in 1 .. Len(e) : (e[i] - b - 1) * QueryLen < i /\ i <= (e[i] - b) * QueryLen
  BY DEF Whole
<1> HIDE DEF e
<1>4. Len(q) + w = (a - (b + 1)) * QueryLen
  <2> DEFINE x == a - b
  <2>1. x \in Int /\ a - (b + 1) = x - 1 /\ Len(e) + w = x * QueryLen
    BY <1>2
  <2> HIDE DEF x
  <2>2. (x - 1) * QueryLen = x * QueryLen - QueryLen /\ x * QueryLen \in Int
    BY <2>1, Times
  <2>4. Len(e) = QueryLen + Len(q) /\ Len(q) \in Nat
    BY <1>1
  <2> DEFINE X == x * QueryLen
             Y == (x - 1) * QueryLen
  <2>5. Y = X - QueryLen /\ X \in Int /\ Len(e) + w = X
    BY <2>1, <2>2
  <2> HIDE DEF X, Y
  <2>6. Len(q) + w = Y
    BY <1>0, <2>4, <2>5
  <2>3. Len(q) + w = (x - 1) * QueryLen
    BY <2>6 DEF Y
  <2> QED
    BY <2>1, <2>3
<1>5. ASSUME NEW i \in 1 .. Len(q)
      PROVE  (q[i] - (b + 1) - 1) * QueryLen < i /\ i <= (q[i] - (b + 1)) * QueryLen
  <2> DEFINE v == q[i] - b - 1
  <2>1. v \in Int /\ q[i] - (b + 1) = v /\ q[i] - (b + 1) - 1 = v - 1 /\ q[i] - b - 1 = v /\ q[i] - b = v + 1
    BY DEF Byte
  <2>2. QueryLen + i \in 1 .. Len(e)
    BY <1>0, <1>1
  <2>3. e[QueryLen + i] = q[i]
    BY <1>1
  <2>4. v * QueryLen < QueryLen + i /\ QueryLen + i <= (v + 1) * QueryLen
    BY <1>3, <2>1, <2>2, <2>3
  <2>5. /\ (v + 1) * QueryLen = v * QueryLen + QueryLen /\ (v - 1) * QueryLen = v * QueryLen - QueryLen
        /\ v * QueryLen \in Int
    BY <2>1, Times
  <2> HIDE DEF v
  <2>6. (v - 1) * QueryLen < i /\ i <= v * QueryLen
    BY <1>0, <2>4, <2>5
  <2> QED
    BY <2>1, <2>6
<1> QED
  BY <1>4, <1>5 DEF Whole

\* Less than a query between the two: everything asked was answered.
LEMMA WholeNone ==
  ASSUME NEW q \in Seq(Byte), NEW b \in Nat, NEW a \in Nat, Whole(q, 0, b, a), Len(q) < QueryLen, b <= a
  PROVE  a = b
<1>1. Len(q) + 0 = (a - b) * QueryLen
  BY DEF Whole
<1>2. a - b >= 1 => (a - b) * QueryLen >= QueryLen
  BY Times
<1>3. QueryLen \in Nat
  BY RedisAssumption
<1>4. ~ (a - b >= 1)
  BY <1>1, <1>2, <1>3
<1> QED
  BY <1>4

----------------------------------------------------------------------------
(* Control *)

LEMMA Pipe ==
  /\ Threads = {Request, Response} /\ Request # Response
  /\ Request \in Threads /\ Response \in Threads /\ NoThread \notin Threads
  /\ Source[Request] = FD /\ Sink[Request] = Response /\ Sink[Response] = FD
  /\ Source[Response] = Request /\ Response # FD /\ Request # FD
BY ResponderAssumption, PipeAssumption

\* Who is undisturbed keeps its place.
LEMMA PlaceKept ==
  ASSUME NEW s, NEW u, NEW x, NEW l, Undisturbed(s, u, x), Place(s, l, x)
  PROVE  Place(u, l, x)
BY DEF Undisturbed, Stays, Place

LEMMA SamePlaceUndisturbed ==
  ASSUME NEW s, NEW u, SamePlace(s, u), NEW x, u.status[x] = s.status[x] \/ u.status[x] = "RUN"
  PROVE  Undisturbed(s, u, x)
BY DEF SamePlace, Undisturbed, Stays

\* A step of t inside its function.
Steps(t) == phase = "execute" /\ phase' = "execute" /\ p.running = t /\ Orderly /\ Others(p, p', t)

\* It leaves the control in order when it ends where it may.
LEMMA StepControl ==
  ASSUME ControlInv, NEW t \in Threads, Steps(t), Place(p', pc'[t], t),
         \A x \in Threads \ {t} : pc'[x] = pc[x], pc[Request] # "start", pc'[Request] # "start"
  PROVE  ControlInv'
<1>1. QueueInv' /\ SleepInv(p', {}) /\ p'.running = t
  BY DEF Steps, Orderly, Others, Beside, ControlInv
<1>2. \A x \in Threads \ {t} : Undisturbed(p, p', x)
  BY DEF Steps, Others, Beside
<1>3. PlaceInv'
  <2>1. ASSUME NEW x \in Threads \ {t} PROVE Place(p', pc'[x], x)
    BY <1>2, PlaceKept DEF ControlInv, PlaceInv
  <2> QED
    BY <2>1 DEF PlaceInv
<1>4. StartInv'
  BY DEF StartInv
<1>5. RunInv'
  <2>1. SUFFICES ASSUME NEW x \in Threads, p'.status[x] \in {"RUN", "ERR"}, p'.running # x
                 PROVE  \/ p'.run_enq[x]
                        \/ x = Request /\ pc'[Request] = "called"
                        \/ x = Response /\ pc'[Request] = "start"
    BY DEF RunInv
  <2>2. x \in Threads \ {t}
    BY <1>1, <2>1
  <2>3. /\ p'.status[x] = p.status[x] \/ p'.run_enq[x]
        /\ p.run_enq[x] => p'.run_enq[x]
    BY <2>2 DEF Steps, Others, Beside
  <2>4. ASSUME p'.status[x] = p.status[x]
        PROVE  p.run_enq[x] \/ (x = Request /\ pc[Request] = "called")
    BY <2>1, <2>2, <2>4 DEF ControlInv, RunInv, Steps
  <2>5. x = Request => pc'[Request] = pc[Request]
    BY <2>2
  <2> QED
    BY <2>3, <2>4, <2>5
<1>6. PhaseInv'
  BY DEF PhaseInv, Idle, Steps
<1> QED
  BY <1>1, <1>3, <1>4, <1>5, <1>6 DEF ControlInv

\* Nothing but the place of t in its function changes.
LEMMA StandStill ==
  ASSUME NEW t \in Threads, QueueInv, p.running = t, phase = "execute", UNCHANGED vars
  PROVE  Steps(t) /\ SameFlows(p, p')
<1>1. QueueInv'
  BY DEF QueueInv, vars
<1>2. SleepInv(p, {}) => SleepInv(p', {})
  BY DEF vars
<1>3. Others(p, p', t)
  BY DEF Others, Beside, Undisturbed, Stays, vars
<1>4. SameFlows(p, p')
  BY DEF SameFlows, vars
<1> QED
  BY <1>1, <1>2, <1>3, <1>4 DEF Steps, Orderly, vars

\* Between two operations nothing is left in the ring but after a write.
LEMMA BetweenPlace ==
  ASSUME ControlInv, NEW t \in Threads, NEW l, At(t, l)
  PROVE  /\ phase = "execute" /\ p.running = t /\ p.status[t] = "RUN" /\ ~ p.inside[t]
         /\ pc[t] = l /\ Place(p, l, t) /\ QueueInv
         /\ l \notin After(t, "WRITE") => p.tx[t].data = << >>
         /\ t = Response => pc[Request] # "start"
BY DEF ControlInv, PlaceInv, Place, At, Between, Active, StartInv

LEMMA InsidePlace ==
  ASSUME ControlInv, NEW t \in Threads, NEW o, Inside(t, o)
  PROVE  /\ phase = "execute" /\ p.running = t /\ p.status[t] = "RUN" /\ p.inside[t] /\ p.op[t] = o
         /\ pc[t] \in After(t, o) /\ Place(p, pc[t], t) /\ QueueInv
         /\ t = Response => pc[Request] # "start"
BY DEF ControlInv, PlaceInv, Place, Inside, Active, StartInv

----------------------------------------------------------------------------
(* What one coroutine leaves of the other's *)

\* x and its pipe stay in their place, and no descriptor is opened again.
Aside(x) ==
  /\ p'.op[x] = p.op[x] /\ p'.need[x] = p.need[x] /\ p'.inside[x] = p.inside[x]
  /\ p'.tx[x].eof = p.tx[x].eof
  /\ \A y \in Threads : p.closed[y] => p'.closed[y]

LEMMA StepAside ==
  ASSUME NEW t \in Threads, Steps(t)
  PROVE  \A x \in Threads \ {t} : Aside(x)
BY DEF Steps, Others, Beside, Undisturbed, Stays, Aside

LEMMA Counts ==
  ASSUME RedisInv
  PROVE  /\ Asked \in Nat /\ Base \in Nat /\ Base <= Asked /\ QueryLen \in Nat /\ QueryLen >= 1
         /\ asked \in Seq(Commands) /\ taken \in Seq(Byte) /\ replies \in Seq(Reply)
         /\ Flow(p, Response) \in Seq(Byte) /\ Pend \in Seq(Byte)
         /\ Owed \in Nat /\ Owed <= QueryLen
         /\ \A t \in Threads : p.need[t] \in Nat /\ p.rx[t].data \in Seq(Byte) /\ p.tx[t].data \in Seq(Byte)
<1>1. asked \in Seq(Commands) /\ taken \in Seq(Byte) /\ replies \in Seq(Reply)
  BY DEF RedisInv, TypeInv
<1>2. \A t \in Threads : p.need[t] \in Nat /\ p.rx[t].data \in Seq(Byte) /\ p.tx[t].data \in Seq(Byte)
  BY BufLenAssumption DEF RedisInv, ControlInv, QueueInv, Good, IsProcess, IsRing
<1>3. Flow(p, Response) \in Seq(Byte)
  BY <1>2, Pipe DEF Flow
<1>4. Pend \in Seq(Byte)
  BY <1>1, <1>3 DEF Pend
<1>5. Owed \in Nat /\ Owed <= QueryLen
  BY <1>2, Pipe DEF Owed, RedisInv, PendInv
<1>6. Asked \in Nat /\ Base \in Nat /\ Base <= Asked
  BY <1>1 DEF Asked, Base, RedisInv, DoneInv
<1> QED
  BY <1>1, <1>2, <1>3, <1>4, <1>5, <1>6, RedisAssumption

\* Only inside of a write, or before the flush after it, is a unit owed.
LEMMA OwesNothing ==
  ASSUME PlaceInv, pc[Request] \notin After(Request, "WRITE")
  PROVE  Owed = 0
BY Pipe DEF PlaceInv, Place, Owed

\* The SETs acknowledged are those of commands already answered.
LEMMA StoredKept ==
  ASSUME NEW k \in Nat, k <= Len(asked), k <= Len(replies),
         \A i \in 1 .. k : asked'[i] = asked[i] /\ replies'[i] = replies[i],
         NEW i \in Nat, i <= k + 1
  PROVE  Stored(i)' = Stored(i)
<1>1. \A j \in 1 .. i - 1 : asked'[j] = asked[j] /\ replies'[j] = replies[j]
  OBVIOUS
<1> QED
  BY <1>1 DEF Stored

\* The request went on, perhaps to a further command.
LEMMA RequestRest ==
  ASSUME RedisInv, ControlInv', Aside(Response),
         DOMAIN pc' = Threads, pc'[Response] = pc[Response],
         error' \in [Threads -> BOOLEAN], error'[Response] = error[Response],
         UNCHANGED << taken, rvars >>,
         asked' = asked \/ (~ Over /\ \E c \in Commands : asked' = Append(asked, c)),
         p'.tx[Request].eof \/ p'.op[Request] \in {"TX_CLOSE", "HUP"} =>
           pc'[Request] \in {"loopend", "finally", "called"} /\ Over',
         AskInv', PendInv'
  PROVE  RedisInv'
<1>1. /\ Asked \in Nat /\ Base \in Nat /\ Base <= Asked /\ asked \in Seq(Commands) /\ replies \in Seq(Reply)
  BY Counts
<1>2. /\ asked' \in Seq(Commands) /\ Asked' >= Asked /\ Asked' \in Nat
      /\ \A i \in 1 .. Base : asked'[i] = asked[i]
  <2>1. CASE asked' = asked
    BY <1>1, <2>1 DEF Asked
  <2>2. CASE \E c \in Commands : asked' = Append(asked, c)
    <3>1. PICK c \in Commands : asked' = Append(asked, c)
      BY <2>2
    <3> QED
      BY <1>1, <3>1 DEF Asked
  <2> QED
    BY <2>1, <2>2
<1>3. /\ replies' = replies /\ taken' = taken /\ db' = db /\ networked' = networked /\ shutdown' = shutdown
      /\ Base' = Base
  BY DEF rvars, Base
<1>4. TypeInv'
  BY <1>2, <1>3 DEF TypeInv, RedisInv
<1>5. EofInv'
  BY DEF Aside, EofInv, RedisInv
<1>6. TakenInv'
  BY <1>3 DEF TakenInv, RedisInv
<1>7. DoneInv'
  <2>1. CASE asked' = asked
    BY <1>3, <2>1 DEF DoneInv, RedisInv, Answered, Over, Asked, Base
  <2>2. CASE ~ Over
    <3>1. pc[Response] \in {"bye", "byeflushed", "loopend", "out", "end"} => error[Response]
      BY <2>2 DEF DoneInv, RedisInv
    <3> QED
      BY <1>1, <1>2, <1>3, <3>1 DEF DoneInv, RedisInv
  <2> QED
    BY <2>1, <2>2
<1>8. EndInv'
  BY <1>3, Pipe DEF EndInv, RedisInv, Aside
<1>9. \A i \in Nat : i <= Base + 1 => Stored(i)' = Stored(i)
  <2>1. /\ Base <= Len(asked) /\ Base <= Len(replies)
        /\ \A i \in 1 .. Base : asked'[i] = asked[i] /\ replies'[i] = replies[i]
    BY <1>1, <1>2, <1>3 DEF Base, Asked
  <2>2. ASSUME NEW i \in Nat, i <= Base + 1
        PROVE  Stored(i)' = Stored(i)
    BY <1>1, <2>1, <2>2, StoredKept
  <2> QED
    BY <2>2
<1>10. RepliesFollowCommands'
  <2>1. SUFFICES ASSUME NEW i \in 1 .. Base
                 PROVE  /\ asked'[i] \notin {"SET", "GET"} => replies'[i] = OK
                        /\ asked'[i] = "SET" => replies'[i] \in {OK, ERR}
                        /\ asked'[i] = "GET" => replies'[i] \in {ERR, NIL} \/ Current(replies[i], i)'
    BY <1>3 DEF RepliesFollowCommands, Base
  <2>2. Stored(i)' = Stored(i) /\ asked'[i] = asked[i] /\ replies'[i] = replies[i]
    BY <1>1, <1>2, <1>3, <1>9
  <2> QED
    BY <2>2 DEF RedisInv, RepliesFollowCommands, Base, Current
<1>11. DbInv'
  <2>1. Stored(Base + 1)' = Stored(Base + 1)
    BY <1>1, <1>3, <1>9
  <2> QED
    BY <1>3, <2>1 DEF RedisInv, DbInv, Current
<1> QED
  BY <1>4, <1>5, <1>6, <1>7, <1>8, <1>10, <1>11 DEF RedisInv

\* The response went on, perhaps with an answer.
LEMMA ResponseRest ==
  ASSUME RedisInv, ControlInv', Aside(Request),
         DOMAIN pc' = Threads, pc'[Request] = pc[Request],
         error' \in [Threads -> BOOLEAN], error'[Request] = error[Request],
         UNCHANGED << asked, networked >>,
         taken' \in Seq(Byte), replies' \in Seq(Reply), shutdown' \in BOOLEAN,
         ~ p'.tx[Response].eof,
         PendInv', TakenInv', DoneInv', EndInv', RepliesFollowCommands', DbInv'
  PROVE  RedisInv'
<1>1. TypeInv'
  BY DEF TypeInv, RedisInv
<1>2. EofInv'
  BY DEF Aside, EofInv, RedisInv, Over, Asked
<1>3. AskInv'
  BY DEF AskInv, RedisInv, Over, Asked
<1> QED
  BY <1>1, <1>2, <1>3 DEF RedisInv

\* It answered nothing.
LEMMA ResponseMoves ==
  ASSUME RedisInv, ControlInv', Aside(Request),
         DOMAIN pc' = Threads, pc'[Request] = pc[Request],
         error' \in [Threads -> BOOLEAN], error'[Request] = error[Request],
         UNCHANGED << asked, replies, db, networked >>, shutdown' \in BOOLEAN,
         taken' \in Seq(Byte), ~ p'.tx[Response].eof, PendInv', TakenInv', DoneInv', EndInv'
  PROVE  RedisInv'
<1>1. \A i : Stored(i)' = Stored(i)
  BY DEF Stored
<1>2. RepliesFollowCommands'
  BY <1>1 DEF RepliesFollowCommands, RedisInv, Current
<1>3. DbInv'
  <2>1. Stored(Base + 1)' = Stored(Base + 1)
    BY DEF Stored, Base
  <2> QED
    BY <2>1 DEF DbInv, RedisInv, Current
<1>4. replies' \in Seq(Reply)
  BY DEF RedisInv, TypeInv
<1> QED
  BY <1>2, <1>3, <1>4, ResponseRest

\* The pipe carries what it carried, and as much is owed.
LEMMA PendSame ==
  ASSUME RedisInv, Flow(p', Response) = Flow(p, Response), Owed' = Owed,
         p'.op[Response] = p.op[Response], p'.need[Response] = p.need[Response],
         p'.inside[Response] = p.inside[Response],
         UNCHANGED << asked, taken, replies >>, pc'[Response] = pc[Response]
  PROVE  PendInv'
<1>1. Pend' = Pend /\ Base' = Base /\ Asked' = Asked
  BY DEF Pend, Base, Asked, Flow
<1> QED
  BY <1>1 DEF PendInv, RedisInv

LEMMA OwedSame ==
  ASSUME p'.op[Request] = p.op[Request], p'.need[Request] = p.need[Request],
         p'.inside[Request] = p.inside[Request]
  PROVE  Owed' = Owed
BY DEF Owed

\* The executor or the poller went on.
LEMMA SystemRest ==
  ASSUME RedisInv, ControlInv', UNCHANGED << svars, rvars >>,
         \A x \in Threads : /\ p'.op[x] = p.op[x] /\ p'.need[x] = p.need[x] /\ p'.inside[x] = p.inside[x]
                            /\ p.closed[x] => p'.closed[x],
         p'.tx[Request].eof = p.tx[Request].eof \/ p.op[Request] = "TX_CLOSE",
         ~ p'.tx[Response].eof, SameFlows(p, p')
  PROVE  RedisInv'
<1>1. /\ UNCHANGED << pc, error, asked, taken >> /\ UNCHANGED << replies, db, networked, shutdown >>
      /\ Asked' = Asked /\ Base' = Base
  BY DEF svars, rvars, Asked, Base
<1>2. TypeInv' /\ AskInv' /\ TakenInv' /\ DoneInv'
  BY <1>1 DEF RedisInv, TypeInv, AskInv, TakenInv, DoneInv, Over, Answered
<1>3. EofInv'
  BY <1>1, Pipe DEF RedisInv, EofInv, Over
<1>4. PendInv'
  <2>1. Owed' = Owed
    BY Pipe, OwedSame
  <2>2. Flow(p', Response) = Flow(p, Response)
    BY Pipe DEF SameFlows
  <2> QED
    BY <1>1, <2>1, <2>2, Pipe, PendSame
<1>5. EndInv'
  BY <1>1, Pipe DEF RedisInv, EndInv
<1>6. \A i : Stored(i)' = Stored(i)
  BY <1>1 DEF Stored
<1>7. RepliesFollowCommands'
  BY <1>1, <1>6 DEF RedisInv, RepliesFollowCommands, Current
<1>8. Stored(Base + 1)' = Stored(Base + 1)
  BY <1>1 DEF Stored
<1>9. DbInv'
  BY <1>1, <1>8 DEF RedisInv, DbInv, Current
<1> QED
  BY <1>2, <1>3, <1>4, <1>5, <1>7, <1>9 DEF RedisInv

----------------------------------------------------------------------------
(* The executor and the poller *)

LEMMA QueuedMarks ==
  ASSUME Good(p)
  PROVE  /\ p.run_q # << >> => Head(p.run_q) \in Threads /\ p.run_enq[Head(p.run_q)]
         /\ p.run_q = << >> => \A t \in Threads : ~ p.run_enq[t]
         /\ p.blocked_q = << >> => \A t \in Threads : ~ p.blocked_enq[t]
<1>1. /\ p.run_q \in Seq(Threads) /\ p.blocked_q \in Seq(Threads)
      /\ \A t \in Threads : p.run_enq[t] \in BOOLEAN /\ p.blocked_enq[t] \in BOOLEAN
  BY DEF Good, IsProcess
<1>2. /\ \A t \in Threads : p.run_enq[t] <=> \E i \in 1 .. Len(p.run_q) : p.run_q[i] = t
      /\ \A t \in Threads : p.blocked_enq[t] <=> \E i \in 1 .. Len(p.blocked_q) : p.blocked_q[i] = t
  BY DEF Good, Queued
<1>3. p.run_q # << >> => /\ Head(p.run_q) \in Threads /\ 1 \in 1 .. Len(p.run_q)
                         /\ Head(p.run_q) = p.run_q[1]
  BY <1>1
<1>4. /\ p.run_q = << >> => Len(p.run_q) = 0
      /\ p.blocked_q = << >> => Len(p.blocked_q) = 0
  OBVIOUS
<1> QED
  BY <1>2, <1>3, <1>4

LEMMA DispatchKept ==
  ASSUME RedisInv, Dispatch, UNCHANGED << svars, rvars >>
  PROVE  RedisInv'
<1>0. QueueInv /\ Good(p) /\ phase = "execute" /\ phase' = "execute" /\ p.running = NoThread
      /\ p.run_q # << >>
  BY DEF RedisInv, ControlInv, QueueInv, Dispatch
<1>1. /\ Orderly /\ SamePlace(p, p') /\ p'.status = p.status
      /\ \A x \in Threads : x = p'.running \/ p'.run_enq[x] = p.run_enq[x]
  BY <1>0, DispatchTurn
<1>2. pc' = pc
  BY DEF svars
<1>3. p'.running = Head(p.run_q) /\ p.run_enq[p'.running]
  <2>1. DOMAIN DequeueRun(p) = DOMAIN p /\ "running" \in DOMAIN p
    BY <1>0 DEF DequeueRun, Good, IsProcess
  <2> QED
    BY <1>0, <2>1, QueuedMarks DEF Dispatch
<1>4. PlaceInv'
  BY <1>1, <1>2, SamePlaceUndisturbed, PlaceKept DEF RedisInv, ControlInv, PlaceInv
<1>5. StartInv'
  <2>1. pc[Request] = "start" => ~ p.run_enq[Response]
    BY DEF RedisInv, ControlInv, StartInv
  <2> QED
    BY <1>0, <1>1, <1>2, <1>3, <2>1, Pipe DEF RedisInv, ControlInv, StartInv
<1>6. RunInv'
  BY <1>0, <1>1, <1>2, Pipe DEF RedisInv, ControlInv, RunInv
<1>7. PhaseInv'
  BY <1>0 DEF PhaseInv, Idle
<1>8. ControlInv'
  BY <1>1, <1>4, <1>5, <1>6, <1>7 DEF RedisInv, ControlInv, Orderly
<1>9. SameFlows(p, p')
  BY <1>1 DEF SamePlace, SameFlows, Flow
<1> QED
  BY <1>1, <1>8, <1>9, SystemRest DEF SamePlace, RedisInv, EofInv

LEMMA LeaveKept ==
  ASSUME RedisInv, NEW t \in Threads, Leave(t), UNCHANGED << svars, rvars >>
  PROVE  RedisInv'
<1>0. QueueInv /\ phase = "execute" /\ phase' = "execute"
  BY DEF RedisInv, ControlInv, Leave
<1>1. /\ Orderly /\ SamePlace(p, p') /\ p'.status = p.status /\ p'.running = NoThread
      /\ p'.run_enq = p.run_enq /\ p.running = t /\ p.status[t] \notin {"RUN", "ERR"}
  BY <1>0, LeaveTurn
<1>2. pc' = pc
  BY DEF svars
<1>4. PlaceInv'
  BY <1>1, <1>2, SamePlaceUndisturbed, PlaceKept DEF RedisInv, ControlInv, PlaceInv
<1>5. StartInv'
  BY <1>0, <1>1, <1>2, Pipe DEF RedisInv, ControlInv, StartInv
<1>6. RunInv'
  BY <1>0, <1>1, <1>2 DEF RedisInv, ControlInv, RunInv
<1>7. PhaseInv'
  BY <1>0 DEF PhaseInv, Idle
<1>8. ControlInv'
  BY <1>1, <1>4, <1>5, <1>6, <1>7 DEF RedisInv, ControlInv, Orderly
<1>9. SameFlows(p, p')
  BY <1>1 DEF SamePlace, SameFlows, Flow
<1> QED
  BY <1>1, <1>8, <1>9, SystemRest DEF SamePlace, RedisInv, EofInv

LEMMA PollerKept ==
  ASSUME RedisInv, UNCHANGED << svars, rvars >>,
         ExecuteReturns \/ Poll \/ PostpollReturns \/ Free \/ FdEnds(Request)
  PROVE  RedisInv'
<1>0. QueueInv /\ Good(p)
  BY DEF RedisInv, ControlInv, QueueInv
<1>1. Orderly /\ p' = p
  BY <1>0, PollerTurn, Pipe
<1>2. pc' = pc
  BY DEF svars
<1>4. PlaceInv' /\ RunInv'
  BY <1>1, <1>2 DEF RedisInv, ControlInv, PlaceInv, RunInv
<1>5. StartInv'
  <2>1. ASSUME pc[Request] = "start" PROVE phase' = "execute"
    <3>1. phase = "execute" /\ p.status[Request] = "RUN"
      BY <2>1 DEF RedisInv, ControlInv, StartInv
    <3>2. ~ ExecuteReturns
      <4>1. ASSUME ExecuteReturns PROVE FALSE
        <5>1. p.running = NoThread /\ p.run_q = << >>
          BY <4>1 DEF ExecuteReturns
        <5>2. p.run_enq[Request]
          BY <2>1, <3>1, <5>1, Pipe DEF RedisInv, ControlInv, RunInv
        <5> QED
          BY <1>0, <5>1, <5>2, QueuedMarks, Pipe
      <4> QED
        BY <4>1
    <3> QED
      BY <3>1, <3>2 DEF Poll, PostpollReturns, Free, FdEnds
  <2> QED
    BY <1>1, <1>2, <2>1 DEF RedisInv, ControlInv, StartInv
<1>7. PhaseInv'
  BY <1>1 DEF RedisInv, ControlInv, PhaseInv, Idle, ExecuteReturns, Poll, PostpollReturns, Free, FdEnds
<1>8. ControlInv'
  BY <1>1, <1>4, <1>5, <1>7 DEF RedisInv, ControlInv, Orderly
<1>9. SameFlows(p, p')
  BY <1>1 DEF SameFlows
<1> QED
  BY <1>1, <1>8, <1>9, SystemRest DEF RedisInv, EofInv

LEMMA RetryKept ==
  ASSUME RedisInv, NEW t \in Threads, RetrySocket(t), UNCHANGED << svars, rvars >>
  PROVE  RedisInv'
<1>0. /\ QueueInv /\ phase = "postpoll" /\ phase' = "postpoll" /\ ~ Copies(p, t)
      /\ p.running = NoThread
  BY DEF RedisInv, ControlInv, RetrySocket, PlaceInv, Place, PhaseInv, Copies
<1>1. /\ Orderly /\ SameFlows(p, p') /\ p'.running = p.running
      /\ \A x \in Threads : /\ Undisturbed(p, p', x)
                            /\ p'.status[x] = p.status[x] \/ p'.run_enq[x]
                            /\ p.run_enq[x] => p'.run_enq[x]
                            /\ p.closed[x] => p'.closed[x]
                            /\ p'.tx[x].eof = p.tx[x].eof \/ (p.op[x] = "TX_CLOSE" /\ Sink[x] # FD)
  BY <1>0, RetryTurn
<1>2. pc' = pc
  BY DEF svars
<1>4. PlaceInv'
  BY <1>1, <1>2, PlaceKept DEF RedisInv, ControlInv, PlaceInv
<1>5. StartInv'
  BY <1>0, <1>2 DEF RedisInv, ControlInv, StartInv
<1>6. RunInv'
  <2>1. SUFFICES ASSUME NEW x \in Threads, p'.status[x] \in {"RUN", "ERR"}, ~ p'.run_enq[x]
                 PROVE  \/ x = Request /\ pc[Request] = "called"
                        \/ x = Response /\ pc[Request] = "start"
    BY <1>2 DEF RunInv
  <2>2. p'.status[x] = p.status[x] /\ ~ p.run_enq[x]
    BY <1>1, <2>1
  <2>3. p.running # x
    BY <1>0, Pipe
  <2> QED
    BY <2>1, <2>2, <2>3 DEF RedisInv, ControlInv, RunInv
<1>7. PhaseInv'
  BY <1>0, <1>1 DEF PhaseInv, Idle
<1>8. ControlInv'
  BY <1>1, <1>4, <1>5, <1>6, <1>7 DEF RedisInv, ControlInv, Orderly
<1>9. ~ p'.tx[Response].eof
  BY <1>1, Pipe DEF RedisInv, EofInv
<1> QED
  BY <1>1, <1>8, <1>9, Pipe, SystemRest DEF Undisturbed, Stays

LEMMA AroundKept ==
  ASSUME RedisInv, Around, UNCHANGED rvars
  PROVE  RedisInv'
<1>1. CASE phase = "freed" /\ UNCHANGED << vars, svars >>
  <2>1. /\ UNCHANGED << p, phase, retry, ended, msg, pc, error, asked, taken >>
        /\ UNCHANGED << replies, db, networked, shutdown >>
    BY <1>1 DEF vars, svars, rvars
  <2>2. ControlInv'
    BY <2>1 DEF RedisInv, ControlInv, QueueInv, PlaceInv, StartInv, RunInv, PhaseInv, Idle
  <2>3. SameFlows(p, p')
    BY <2>1 DEF SameFlows
  <2> QED
    BY <1>1, <2>1, <2>2, <2>3, SystemRest DEF RedisInv, EofInv
<1>2. CASE ~ (phase = "freed" /\ UNCHANGED << vars, svars >>)
  <2>1. UNCHANGED svars /\ (System \/ FdEnds(Request))
    BY <1>2 DEF Around
  <2>2. \/ Dispatch \/ (ExecuteReturns \/ Poll \/ PostpollReturns \/ Free \/ FdEnds(Request))
        \/ \E t \in Threads : Leave(t) \/ RetrySocket(t)
    BY <2>1 DEF System
  <2> QED
    BY <2>1, <2>2, DispatchKept, PollerKept, LeaveKept, RetryKept
<1> QED
  BY <1>1, <1>2

----------------------------------------------------------------------------
(* Turns of an operation *)

\* t is where it was in its function.
LEMMA TurnRest ==
  ASSUME RedisInv, NEW t \in Threads, Steps(t), UNCHANGED << svars, rvars >>, pc[Request] # "start",
         Place(p', pc[t], t), p'.op[t] = p.op[t],
         p'.tx[t].eof = p.tx[t].eof \/ (t = Request /\ p.op[t] = "TX_CLOSE"),
         PendInv', t = Response => EndInv'
  PROVE  RedisInv'
<1>1. /\ UNCHANGED << pc, error, asked, taken >> /\ UNCHANGED << replies, db, networked, shutdown >>
      /\ Asked' = Asked /\ Base' = Base
  BY DEF svars, rvars, Asked, Base
<1>2. ControlInv'
  BY <1>1, StepControl DEF RedisInv
<1>3. /\ DOMAIN pc' = Threads /\ error' \in [Threads -> BOOLEAN] /\ taken' \in Seq(Byte)
      /\ shutdown' \in BOOLEAN
  BY <1>1 DEF RedisInv, TypeInv
<1>4. CASE t = Request
  <2>1. Aside(Response)
    BY <1>4, StepAside, Pipe
  <2>2. p'.tx[Request].eof \/ p'.op[Request] \in {"TX_CLOSE", "HUP"} =>
          pc'[Request] \in {"loopend", "finally", "called"} /\ Over'
    BY <1>1, <1>4 DEF RedisInv, EofInv, Over
  <2>3. AskInv'
    BY <1>1 DEF RedisInv, AskInv, Over
  <2> QED
    BY <1>1, <1>2, <1>3, <2>1, <2>2, <2>3, RequestRest
<1>5. CASE t = Response
  <2>1. Aside(Request)
    BY <1>5, StepAside, Pipe
  <2>2. ~ p'.tx[Response].eof
    BY <1>5, Pipe DEF RedisInv, EofInv
  <2>3. TakenInv' /\ DoneInv'
    BY <1>1 DEF RedisInv, TakenInv, DoneInv, Over, Answered
  <2> QED
    BY <1>1, <1>2, <1>3, <1>5, <2>1, <2>2, <2>3, ResponseMoves
<1> QED
  BY <1>4, <1>5, Pipe

\* Nothing of the response's query is at stake when it is not reading.
LEMMA PendElsewhere ==
  ASSUME RedisInv, pc[Response] # "got", UNCHANGED << asked, replies >>,
         pc'[Response] \notin {"got"}, pc'[Response] \in Answering => pc[Response] \in Answering,
         Flow(p', Response) = Flow(p, Response), Owed' = Owed
  PROVE  PendInv'
BY DEF PendInv, RedisInv, Pend, Base, Asked

\* vk_flush.
LEMMA FlushKept ==
  ASSUME RedisInv, NEW t \in Threads, Flush(t), UNCHANGED << svars, rvars >>
  PROVE  RedisInv'
<1>1. /\ Inside(t, "FLUSH") /\ phase' = phase
  BY DEF Flush
<1>2. /\ phase = "execute" /\ p.running = t /\ p.status[t] = "RUN" /\ p.inside[t] /\ p.op[t] = "FLUSH"
      /\ pc[t] \in After(t, "FLUSH") /\ Place(p, pc[t], t) /\ QueueInv /\ (t = Response => pc[Request] # "start")
  BY <1>1, InsidePlace DEF RedisInv
<1>3. /\ Orderly /\ Others(p, p', t) /\ StaysIn(p, p', t) /\ SameFlows(p, p')
      /\ p'.need[t] = p.need[t] /\ (p'.inside[t] \/ p'.tx[t].data = << >>)
  BY <1>2, FlushTurn
<1>4. Steps(t) /\ pc[Request] # "start"
  BY <1>1, <1>2, <1>3, Pipe DEF Steps, After
<1>5. Place(p', pc[t], t)
  BY <1>2, <1>3 DEF Place, StaysIn
<1>6. UNCHANGED << pc, asked, taken, replies >> /\ networked' = networked /\ error' = error
  BY DEF svars, rvars
<1>7. Flow(p', Response) = Flow(p, Response)
  BY <1>3, Pipe DEF SameFlows
<1>8. PendInv'
  <2>1. CASE t = Request
    <3>1. Aside(Response)
      BY <1>4, <2>1, StepAside, Pipe
    <3>2. Owed' = Owed
      BY <1>2, <1>3, <2>1 DEF Owed, StaysIn
    <3> QED
      BY <1>6, <1>7, <3>1, <3>2, PendSame DEF Aside
  <2>2. CASE t = Response
    <3>1. Aside(Request)
      BY <1>4, <2>2, StepAside, Pipe
    <3>2. Owed' = Owed
      BY <3>1, OwedSame DEF Aside
    <3>3. pc[Response] # "got"
      BY <1>2, <2>2, Pipe DEF After
    <3> QED
      BY <1>6, <1>7, <3>2, <3>3, PendElsewhere
  <2> QED
    BY <2>1, <2>2, Pipe
<1>9. t = Response => EndInv'
  BY <1>2, <1>6, Pipe DEF EndInv, After
<1> QED
  BY <1>3, <1>4, <1>5, <1>8, <1>9, TurnRest DEF StaysIn

\* vk_tx_close.
LEMMA TxCloseKept ==
  ASSUME RedisInv, NEW t \in Threads, TxClose(t), UNCHANGED << svars, rvars >>
  PROVE  RedisInv'
<1>1. Inside(t, "TX_CLOSE") /\ phase' = phase
  BY DEF TxClose
<1>2. /\ phase = "execute" /\ p.running = t /\ p.status[t] = "RUN" /\ p.inside[t] /\ p.op[t] = "TX_CLOSE"
      /\ pc[t] \in After(t, "TX_CLOSE") /\ Place(p, pc[t], t) /\ QueueInv /\ (t = Response => pc[Request] # "start")
  BY <1>1, InsidePlace DEF RedisInv
<1>3. /\ Orderly /\ Others(p, p', t) /\ SameFlows(p, p')
      /\ p'.op[t] = "TX_CLOSE" /\ p'.status[t] = "RUN" /\ p'.need[t] = 0
      /\ Sink[t] = FD => p'.tx[t].eof = p.tx[t].eof /\ (p.need[t] # 0 => p'.closed[t])
      /\ p.tx[t].data = << >> => p'.tx[t].data = << >>
  BY <1>2, TxCloseTurn
<1>4. Steps(t) /\ pc[Request] # "start"
  BY <1>1, <1>2, <1>3, Pipe DEF Steps, After
<1>5. Place(p', pc[t], t)
  BY <1>2, <1>3, Pipe DEF Place, After
<1>6. UNCHANGED << pc, asked, taken, replies >> /\ networked' = networked /\ error' = error
  BY DEF svars, rvars
<1>7. Flow(p', Response) = Flow(p, Response)
  BY <1>3, Pipe DEF SameFlows
<1>8. PendInv'
  <2>1. CASE t = Request
    <3>1. Aside(Response)
      BY <1>4, <2>1, StepAside, Pipe
    <3>2. Owed' = Owed
      BY <1>2, <1>3, <2>1 DEF Owed
    <3> QED
      BY <1>6, <1>7, <3>1, <3>2, PendSame DEF Aside
  <2>2. CASE t = Response
    <3>1. Aside(Request)
      BY <1>4, <2>2, StepAside, Pipe
    <3>2. Owed' = Owed
      BY <3>1, OwedSame DEF Aside
    <3>3. pc[Response] # "got"
      BY <1>2, <2>2, Pipe DEF After
    <3> QED
      BY <1>6, <1>7, <3>2, <3>3, PendElsewhere
  <2> QED
    BY <2>1, <2>2, Pipe
<1>9. t = Response => EndInv'
  <2>1. ASSUME t = Response, pc'[Response] = "end", networked' \/ error'[Response]
        PROVE  p'.closed[Response]
    <3>1. p.closed[Response] \/ p.need[Response] # 0
      BY <1>6, <2>1 DEF RedisInv, EndInv
    <3> QED
      BY <1>3, <2>1, <3>1, Pipe DEF Others, Beside
  <2> QED
    BY <2>1 DEF EndInv
<1> QED
  BY <1>2, <1>3, <1>4, <1>5, <1>8, <1>9, Pipe, TurnRest

\* vk_hup, waiting for the response to take the EOF.
LEMMA HupReturnsKept ==
  ASSUME RedisInv, NEW t \in Threads, HupReturns(t), UNCHANGED << svars, rvars >>
  PROVE  RedisInv'
<1>1. Inside(t, "HUP") /\ phase' = phase
  BY DEF HupReturns
<1>2. /\ phase = "execute" /\ p.running = t /\ p.status[t] = "RUN" /\ p.inside[t] /\ p.op[t] = "HUP"
      /\ pc[t] \in After(t, "HUP") /\ Place(p, pc[t], t) /\ QueueInv
  BY <1>1, InsidePlace DEF RedisInv
<1>0. t = Request
  BY <1>2, Pipe DEF After
<1>3. /\ Orderly /\ Others(p, p', t) /\ StaysIn(p, p', t) /\ SameFlows(p, p')
      /\ p.tx[t].data = << >> => p'.tx[t].data = << >>
  BY <1>2, HupReturnsTurn
<1>4. Steps(t) /\ pc[Request] # "start"
  BY <1>0, <1>1, <1>2, <1>3, Pipe DEF Steps, After
<1>5. Place(p', pc[t], t)
  BY <1>0, <1>2, <1>3, Pipe DEF Place, After, StaysIn
<1>6. UNCHANGED << pc, asked, taken, replies >>
  BY DEF svars, rvars
<1>7. Flow(p', Response) = Flow(p, Response)
  BY <1>3, Pipe DEF SameFlows
<1>8. PendInv'
  <2>1. Aside(Response)
    BY <1>0, <1>4, StepAside, Pipe
  <2>2. Owed' = Owed
    BY <1>0, <1>2, <1>3 DEF Owed, StaysIn
  <2> QED
    BY <1>6, <1>7, <2>1, <2>2, PendSame DEF Aside
<1> QED
  BY <1>0, <1>3, <1>4, <1>5, <1>8, Pipe, TurnRest DEF StaysIn

\* vk_write: the request writes what it owes, the response a reply.
LEMMA WriteKept ==
  ASSUME RedisInv, NEW t \in Threads, WriteAs(t, Asked), UNCHANGED << svars, rvars >>
  PROVE  RedisInv'
<1>1. Inside(t, "WRITE") /\ phase' = phase
  BY DEF WriteAs
<1>2. /\ phase = "execute" /\ p.running = t /\ p.status[t] = "RUN" /\ p.inside[t] /\ p.op[t] = "WRITE"
      /\ pc[t] \in After(t, "WRITE") /\ Place(p, pc[t], t) /\ QueueInv /\ (t = Response => pc[Request] # "start")
  BY <1>1, InsidePlace DEF RedisInv
<1> DEFINE n == p.need[t] - p'.need[t]
<1>0. /\ Asked \in Nat /\ Base \in Nat /\ Flow(p, Response) \in Seq(Byte) /\ Pend \in Seq(Byte)
      /\ taken \in Seq(Byte) /\ Owed \in Nat /\ Owed <= QueryLen /\ Asked \in Byte
  BY Counts DEF Byte
<1>3. /\ Orderly /\ Others(p, p', t) /\ StaysIn(p, p', t)
      /\ n \in Nat /\ p'.need[t] \in Nat /\ (p'.inside[t] \/ p'.need[t] = 0)
      /\ \A r \in Threads : Source[r] # FD =>
           Flow(p', r) = IF Source[r] = t THEN Flow(p, r) \o Bytes(n, Asked) ELSE Flow(p, r)
  BY <1>0, <1>2, WriteTurn
<1> HIDE DEF n
<1>4. Steps(t) /\ pc[Request] # "start"
  BY <1>1, <1>2, <1>3, Pipe DEF Steps, After
<1>5. Place(p', pc[t], t)
  BY <1>2, <1>3 DEF Place, StaysIn
<1>6. UNCHANGED << pc, asked, taken, replies >> /\ networked' = networked /\ error' = error
  BY DEF svars, rvars
<1>7. Asked' = Asked /\ Base' = Base
  BY <1>6 DEF Asked, Base
<1>8. PendInv'
  <2>1. CASE t = Request
    <3>1. Aside(Response)
      BY <1>4, <2>1, StepAside, Pipe
    <3>2. Owed = p.need[Request] /\ Owed' = p'.need[Request] /\ Owed' = Owed - n /\ n <= Owed
      <4>1. p.need[Request] \in Nat
        BY Counts, Pipe
      <4>2. Owed = p.need[Request] /\ Owed' = p'.need[Request]
        BY <1>2, <1>3, <2>1, Pipe DEF Owed, StaysIn
      <4> QED
        BY <1>3, <2>1, <4>1, <4>2 DEF n
    <3>3. Flow(p', Response) = Flow(p, Response) \o Bytes(n, Asked)
      BY <1>3, <2>1, Pipe
    <3>4. Bytes(n, Asked) \in Seq(Byte)
      BY <1>0, <1>3 DEF Bytes
    <3>5. Pend' = Pend \o Bytes(n, Asked)
      <4>1. (taken \o Flow(p, Response)) \o Bytes(n, Asked) = taken \o (Flow(p, Response) \o Bytes(n, Asked))
        BY <1>0, <3>4, Regrouped
      <4>2. pc' = pc /\ taken' = taken
        BY <1>6
      <4>3. Pend' = IF pc[Response] = "got" THEN taken \o Flow(p', Response) ELSE Flow(p', Response)
        BY <4>2 DEF Pend, Flow
      <4> QED
        BY <3>3, <4>1, <4>3, Zenon DEF Pend
    <3>6. ASSUME Whole(Pend, Owed, Base, Asked) PROVE Whole(Pend', Owed', Base', Asked')
      <4>1. Whole(Pend \o Bytes(n, Asked), Owed - n, Base, Asked)
        BY <1>0, <1>3, <3>2, <3>6, WholePut
      <4> QED
        BY <1>7, <3>2, <3>5, <4>1
    <3>7. pc'[Response] \in Answering =>
            /\ \A i \in 1 .. Base' : asked'[i] \in Ordinary
            /\ Whole(Pend', Owed', Base', Asked')
      BY <1>6, <1>7, <3>6 DEF RedisInv, PendInv
    <3>8. Owed' <= QueryLen
      BY <1>0, <1>3, <3>2, RedisAssumption
    <3>9. pc'[Response] = "got" => /\ p'.op[Response] = "READ"
                                   /\ Len(taken') + p'.need[Response] = QueryLen
                                   /\ ~ p'.inside[Response] => p'.need[Response] = 0
      BY <1>6, <3>1 DEF RedisInv, PendInv, Aside
    <3> QED
      BY <3>7, <3>8, <3>9 DEF PendInv, Whole
  <2>2. CASE t = Response
    <3>1. Aside(Request)
      BY <1>4, <2>2, StepAside, Pipe
    <3>2. Owed' = Owed
      BY <3>1, OwedSame DEF Aside
    <3>3. pc[Response] # "got"
      BY <1>2, <2>2, Pipe DEF After
    <3>4. Flow(p', Response) = Flow(p, Response)
      BY <1>3, <2>2, Pipe
    <3> QED
      BY <1>6, <3>2, <3>3, <3>4, PendElsewhere
  <2> QED
    BY <2>1, <2>2, Pipe
<1>9. t = Response => EndInv'
  BY <1>2, <1>6, Pipe DEF EndInv, After
<1> QED
  BY <1>3, <1>4, <1>5, <1>8, <1>9, TurnRest DEF StaysIn

\* vk_readline and vk_read of the request, from the client.
LEMMA RequestReadKept ==
  ASSUME RedisInv, Read(Request), UNCHANGED << svars, rvars >>
  PROVE  RedisInv'
<1>1. Inside(Request, "READ") /\ phase' = phase
  BY DEF Read
<1>2. /\ phase = "execute" /\ p.running = Request /\ p.status[Request] = "RUN" /\ p.inside[Request]
      /\ p.op[Request] = "READ" /\ pc[Request] \in After(Request, "READ") /\ Place(p, pc[Request], Request)
      /\ QueueInv
  BY <1>1, Pipe, InsidePlace DEF RedisInv
<1>3. /\ Orderly /\ Others(p, p', Request) /\ StaysIn(p, p', Request) /\ SameFlow(p, p', Request)
      /\ p.tx[Request].data = << >> => p'.tx[Request].data = << >>
      /\ p'.status[Request] = "WAIT" => p'.rx[Request].data = << >> /\ p'.need[Request] # 0
  BY <1>2, Pipe, ReadTurn
<1>4. Steps(Request) /\ pc[Request] # "start"
  BY <1>1, <1>2, <1>3 DEF Steps, After
<1>5. Place(p', pc[Request], Request)
  BY <1>2, <1>3 DEF Place, StaysIn, After
<1>6. UNCHANGED << pc, asked, taken, replies >>
  BY DEF svars, rvars
<1>7. Flow(p', Response) = Flow(p, Response)
  BY <1>3, Pipe DEF SameFlow
<1>8. PendInv'
  <2>1. Aside(Response)
    BY <1>4, StepAside, Pipe
  <2>2. Owed' = Owed
    BY <1>2, <1>3 DEF Owed, StaysIn
  <2> QED
    BY <1>6, <1>7, <2>1, <2>2, PendSame DEF Aside
<1> QED
  BY <1>3, <1>4, <1>5, <1>8, Pipe, TurnRest DEF StaysIn

LEMMA Joined ==
  ASSUME NEW a \in Seq(Byte), NEW b \in Seq(Byte)
  PROVE  /\ a \o b \in Seq(Byte) /\ Len(a \o b) = Len(a) + Len(b) /\ Len(a) \in Nat /\ Len(b) \in Nat
         /\ \A i \in 1 .. Len(a) : (a \o b)[i] = a[i]
         /\ a \o << >> = a /\ << >> \o a = a
OBVIOUS

\* vk_read of a query: it ends with a whole query, never at the end of the
\* pipe, since the last query comes before that end.
LEMMA TurnReadKept ==
  ASSUME RedisInv, TurnRead, UNCHANGED rvars
  PROVE  RedisInv'
<1> DEFINE f == SubSeq(p.rx[Response].data, 1, p.need[Response] - p'.need[Response])
<1>0. /\ Asked \in Nat /\ Base \in Nat /\ Base <= Asked /\ Flow(p, Response) \in Seq(Byte)
      /\ taken \in Seq(Byte) /\ Pend \in Seq(Byte) /\ QueryLen \in Nat /\ QueryLen >= 1
      /\ Owed \in Nat /\ p.need[Response] \in Nat
  BY Counts, Pipe
<1>1. /\ Inside(Response, "READ") /\ phase' = phase /\ Read(Response) /\ taken' = taken \o f
      /\ UNCHANGED << pc, error, asked >> /\ UNCHANGED << replies, db, networked, shutdown >>
  BY DEF TurnRead, Read, rvars
<1>2. /\ phase = "execute" /\ p.running = Response /\ p.status[Response] = "RUN" /\ p.inside[Response]
      /\ p.op[Response] = "READ" /\ pc[Response] = "got" /\ Place(p, pc[Response], Response)
      /\ QueueInv /\ pc[Request] # "start"
  BY <1>1, Pipe, InsidePlace DEF RedisInv, After
<1>3. /\ Orderly /\ Others(p, p', Response) /\ StaysIn(p, p', Response)
      /\ f \in Seq(Byte) /\ Len(f) = p.need[Response] - p'.need[Response] /\ p'.need[Response] \in Nat
      /\ Flow(p, Response) = f \o Flow(p', Response)
      /\ p.tx[Response].data = << >> => p'.tx[Response].data = << >>
      /\ p'.status[Response] = "WAIT" => p'.rx[Response].data = << >> /\ p'.need[Response] # 0
      /\ \/ p'.inside[Response] \/ p'.need[Response] = 0
         \/ Flow(p', Response) = << >> /\ p.tx[Request].eof
  BY <1>1, <1>2, Pipe, ReadTurn
<1> HIDE DEF f
<1>4. Steps(Response)
  BY <1>1, <1>2, <1>3 DEF Steps
<1>5. Place(p', pc'[Response], Response)
  BY <1>1, <1>2, <1>3, Pipe DEF Place, StaysIn, After
<1>6. ControlInv'
  BY <1>1, <1>2, <1>4, <1>5, Pipe, StepControl DEF RedisInv
<1>7. Aside(Request)
  BY <1>4, StepAside, Pipe
<1>8. Flow(p', Response) \in Seq(Byte)
  <2>1. IsProcess(p')
    BY <1>3 DEF Orderly, QueueInv, Good
  <2>2. p'.rx[Response].data \in Seq(Byte) /\ p'.tx[Request].data \in Seq(Byte)
    BY <2>1, Pipe DEF IsProcess, IsRing
  <2> QED
    BY <2>2, Pipe DEF Flow
<1>9. Owed' = Owed /\ Asked' = Asked /\ Base' = Base
  BY <1>1, <1>7, OwedSame DEF Aside, Asked, Base
<1>10. taken' \in Seq(Byte) /\ Len(taken') + p'.need[Response] = QueryLen
  <2>1. Len(taken) + p.need[Response] = QueryLen
    BY <1>2 DEF RedisInv, PendInv
  <2>2. f \in Seq(Byte) /\ taken \in Seq(Byte) /\ taken' = taken \o f
    BY <1>0, <1>1, <1>3
  <2>3. /\ taken \o f \in Seq(Byte) /\ Len(taken \o f) = Len(taken) + Len(f)
        /\ Len(taken) \in Nat /\ Len(f) \in Nat
    BY <2>2, Joined
  <2>4. Len(f) = p.need[Response] - p'.need[Response] /\ p'.need[Response] \in Nat
    BY <1>3
  <2>5. taken' \in Seq(Byte) /\ Len(taken') = Len(taken) + Len(f)
    BY <2>2, <2>3
  <2>6. p.need[Response] \in Nat /\ QueryLen \in Nat
    BY <1>0
  <2>7. \A a, b, k, l \in Nat : a + k = QueryLen /\ b = k - l => (a + b) + l = QueryLen
    BY <2>6
  <2>8. (Len(taken) + Len(f)) + p'.need[Response] = QueryLen
    BY <2>1, <2>3, <2>4, <2>6, <2>7
  <2> QED
    BY <2>5, <2>8
<1>11. Pend' = taken' \o Flow(p', Response) /\ Pend' = Pend
  <2>1. Pend' = taken' \o Flow(p', Response)
    BY <1>1, <1>2 DEF Pend, Flow
  <2>2. Pend = taken \o (f \o Flow(p', Response))
    BY <1>2, <1>3, Zenon DEF Pend
  <2>3. (taken \o f) \o Flow(p', Response) = taken \o (f \o Flow(p', Response))
    BY <1>0, <1>3, <1>8, Regrouped
  <2> QED
    BY <1>1, <2>1, <2>2, <2>3, Zenon
<1>12. Whole(Pend, Owed, Base, Asked) /\ \A i \in 1 .. Base : asked[i] \in Ordinary
  BY <1>2 DEF RedisInv, PendInv, Answering
<1>13. ~ p'.inside[Response] => p'.need[Response] = 0
  <2>1. SUFFICES ASSUME Flow(p', Response) = << >>, p.tx[Request].eof, p'.need[Response] # 0
                 PROVE  FALSE
    BY <1>3
  <2>2. pc[Request] \in {"loopend", "finally", "called"} /\ Over
    BY <2>1 DEF RedisInv, EofInv
  <2>3. Owed = 0
    BY <2>2, OwesNothing DEF RedisInv, ControlInv, After
  <2>4. Len(Pend) < QueryLen
    <3>1. Pend = taken'
      BY <1>10, <1>11, <2>1, Joined, Zenon
    <3> QED
      BY <1>0, <1>3, <1>10, <2>1, <3>1
  <2>5. Asked = Base
    BY <1>0, <1>12, <2>3, <2>4, WholeNone
  <2>6. Asked \in 1 .. Base
    BY <1>0, <2>2, <2>5 DEF Over
  <2> QED
    BY <1>12, <2>2, <2>6 DEF Over, Ordinary, Closing
<1>14. PendInv'
  <2>1. Owed' <= QueryLen
    BY <1>9 DEF RedisInv, PendInv
  <2>2. pc'[Response] \in Answering =>
          /\ \A i \in 1 .. Base' : asked'[i] \in Ordinary
          /\ Whole(Pend', Owed', Base', Asked')
    BY <1>1, <1>9, <1>11, <1>12
  <2>3. pc'[Response] = "got" => /\ p'.op[Response] = "READ"
                                 /\ Len(taken') + p'.need[Response] = QueryLen
                                 /\ ~ p'.inside[Response] => p'.need[Response] = 0
    BY <1>2, <1>3, <1>10, <1>13 DEF StaysIn
  <2> QED
    BY <2>1, <2>2, <2>3 DEF PendInv, Whole
<1>15. TakenInv'
  <2>1. /\ Len(taken') <= QueryLen /\ Len(taken') \in Nat
        /\ Len(Pend') >= Len(taken') /\ \A i \in 1 .. Len(taken') : Pend'[i] = taken'[i]
    <3>1. p'.need[Response] \in Nat /\ taken' \in Seq(Byte) /\ Pend' = taken' \o Flow(p', Response)
      BY <1>3, <1>10, <1>11
    <3> DEFINE q == Flow(p', Response)
    <3>2. q \in Seq(Byte)
      BY <1>8
    <3>3. Pend' = taken' \o q
      BY <3>1
    <3> HIDE DEF q
    <3>4. /\ Len(taken' \o q) = Len(taken') + Len(q) /\ Len(taken') \in Nat /\ Len(q) \in Nat
          /\ \A i \in 1 .. Len(taken') : (taken' \o q)[i] = taken'[i]
      BY <3>1, <3>2, Joined
    <3>5. Len(taken') <= QueryLen
      BY <1>0, <1>10, <3>1, <3>4
    <3> QED
      BY <3>3, <3>4, <3>5
  <2>2. \A i \in 1 .. Len(Pend) : i <= QueryLen => Pend[i] = Base + 1
    BY <1>0, <1>12, WholeFirst
  <2>3. \A i \in 1 .. Len(taken') : taken'[i] = Base + 1
    <3>1. SUFFICES ASSUME NEW i \in 1 .. Len(taken') PROVE taken'[i] = Base + 1
      OBVIOUS
    <3>2. i \in 1 .. Len(Pend) /\ i <= QueryLen
      BY <1>0, <1>11, <2>1
    <3> QED
      BY <1>11, <2>1, <2>2, <3>2
  <2> QED
    BY <2>1, <2>3 DEF TakenInv
<1>16. DoneInv' /\ EndInv'
  <2>1. /\ pc'[Response] = "got" /\ error'[Response] = error[Response] /\ Base' <= Asked'
    BY <1>0, <1>1, <1>2, <1>9
  <2>2. ~ error[Response]
    BY <1>2 DEF RedisInv, DoneInv
  <2> QED
    BY <2>1, <2>2 DEF DoneInv, EndInv
<1>17. ~ p'.tx[Response].eof
  BY <1>3 DEF RedisInv, EofInv, StaysIn
<1>18. DOMAIN pc' = Threads /\ error' \in [Threads -> BOOLEAN] /\ shutdown' \in BOOLEAN
  BY <1>1 DEF RedisInv, TypeInv
<1> QED
  BY <1>1, <1>6, <1>7, <1>10, <1>14, <1>15, <1>16, <1>17, <1>18, ResponseMoves

\* vk_finally.
LEMMA CatchKept ==
  ASSUME RedisInv, NEW t \in Threads, Catch(t), UNCHANGED rvars
  PROVE  RedisInv'
<1>1. /\ phase = "execute" /\ phase' = "execute" /\ p.running = t /\ p.status[t] = "ERR" /\ Finally(t)
      /\ UNCHANGED svars
  BY DEF Catch, Finally
<1>2. pc[t] = Caught(t) /\ Place(p, pc[t], t) /\ QueueInv
  BY <1>1 DEF RedisInv, ControlInv, PlaceInv, Place
<1>3. /\ Orderly /\ Others(p, p', t) /\ p'.status[t] = "RUN" /\ ~ p'.inside[t]
      /\ p'.op = p.op /\ p'.need = p.need /\ p'.rx = p.rx /\ p'.tx = p.tx /\ p'.closed = p.closed
  BY <1>1, <1>2, FinallyTurn
<1>4. Steps(t) /\ pc[Request] # "start"
  BY <1>1, <1>2, <1>3, Pipe DEF Steps, Caught, RedisInv, ControlInv, StartInv
<1>0. ~ p.inside[t]
  BY <1>1, <1>2 DEF Place
<1>5. Place(p', pc[t], t)
  BY <1>0, <1>2, <1>3 DEF Place
<1>6. UNCHANGED << pc, asked, taken, replies >>
  BY <1>1 DEF svars, rvars
<1>7. Flow(p', Response) = Flow(p, Response)
  BY <1>3 DEF Flow
<1>8. PendInv'
  <2>1. CASE t = Request
    <3>1. Aside(Response)
      BY <1>4, <2>1, StepAside, Pipe
    <3>2. Owed' = Owed
      BY <1>0, <1>3, <2>1 DEF Owed
    <3> QED
      BY <1>6, <1>7, <3>1, <3>2, PendSame DEF Aside
  <2>2. CASE t = Response
    <3>1. Aside(Request)
      BY <1>4, <2>2, StepAside, Pipe
    <3>2. Owed' = Owed
      BY <3>1, OwedSame DEF Aside
    <3>3. pc[Response] # "got"
      BY <1>2, <2>2, Pipe DEF Caught
    <3> QED
      BY <1>6, <1>7, <3>2, <3>3, PendElsewhere
  <2> QED
    BY <2>1, <2>2, Pipe
<1>9. t = Response => EndInv'
  BY <1>2, <1>6, Pipe DEF EndInv, Caught
<1> QED
  BY <1>1, <1>3, <1>4, <1>5, <1>8, <1>9, TurnRest

\* vk_end.
LEMMA EndsKept ==
  ASSUME RedisInv, NEW t \in Threads, Ends(t), UNCHANGED rvars
  PROVE  RedisInv'
<1>1. At(t, Last(t)) /\ End(t) /\ UNCHANGED svars /\ phase' = phase
  BY DEF Ends, End, Last
<1>2. /\ phase = "execute" /\ p.running = t /\ p.status[t] = "RUN" /\ ~ p.inside[t]
      /\ pc[t] = Last(t) /\ Place(p, Last(t), t) /\ QueueInv /\ (t = Response => pc[Request] # "start")
  BY <1>1, BetweenPlace DEF RedisInv
<1>3. Orderly /\ Others(p, p', t) /\ SamePlace(p, p') /\ p'.status[t] = "END"
  BY <1>1, <1>2, EndTurn
<1>4. Steps(t) /\ pc[Request] # "start"
  BY <1>1, <1>2, <1>3, Pipe DEF Steps, Last
<1>5. Place(p', pc[t], t)
  BY <1>2, <1>3 DEF Place, SamePlace
<1>6. UNCHANGED << pc, asked, taken, replies >> /\ networked' = networked /\ error' = error
  BY <1>1 DEF svars, rvars
<1>7. Flow(p', Response) = Flow(p, Response) /\ Owed' = Owed
  BY <1>3 DEF Flow, SamePlace, Owed
<1>8. PendInv'
  BY <1>3, <1>6, <1>7, PendSame DEF SamePlace
<1>9. EndInv'
  BY <1>3, <1>6 DEF EndInv, SamePlace, RedisInv
<1> QED
  BY <1>1, <1>3, <1>4, <1>5, <1>8, <1>9, TurnRest DEF SamePlace

\* vk_call: the request is left ready until the response is through.
LEMMA RequestCallKept ==
  ASSUME RedisInv, RequestCall, UNCHANGED rvars
  PROVE  RedisInv'
<1>1. /\ At(Request, "finally") /\ Call(Request, Response) /\ Goto(Request, "called")
      /\ UNCHANGED << error, asked, taken >> /\ phase' = phase
  BY DEF RequestCall, Call
<1>2. /\ phase = "execute" /\ p.running = Request /\ p.status[Request] = "RUN" /\ ~ p.inside[Request]
      /\ pc[Request] = "finally" /\ Place(p, "finally", Request) /\ QueueInv
  BY <1>1, BetweenPlace, Pipe DEF RedisInv
<1>3. /\ Orderly /\ SamePlace(p, p') /\ p'.running = NoThread /\ p'.status[Request] = "RUN"
      /\ p'.status[Response] = p.status[Response] \/ (p'.status[Response] = "RUN" /\ p'.run_enq[Response])
      /\ p'.status[Response] \in {"RUN", "ERR"} => p'.run_enq[Response]
  BY <1>1, <1>2, Pipe, CallTurn
<1>4. /\ DOMAIN pc' = Threads /\ pc'[Request] = "called" /\ pc'[Response] = pc[Response]
  BY <1>1, Pipe DEF Goto, RedisInv, TypeInv
<1>5. PlaceInv'
  <2>1. Place(p', "called", Request)
    BY <1>2, <1>3, Pipe DEF Place, SamePlace, After
  <2>2. Place(p', pc'[Response], Response)
    BY <1>3, <1>4, SamePlaceUndisturbed, PlaceKept, Pipe DEF RedisInv, ControlInv, PlaceInv
  <2> QED
    BY <1>4, <2>1, <2>2, Pipe DEF PlaceInv
<1>6. StartInv' /\ RunInv' /\ PhaseInv'
  BY <1>1, <1>2, <1>3, <1>4, Pipe DEF StartInv, RunInv, PhaseInv, Idle
<1>7. ControlInv'
  BY <1>3, <1>5, <1>6 DEF Orderly, RedisInv, ControlInv
<1>8. Aside(Response)
  BY <1>3 DEF SamePlace, Aside
<1>9. PendInv'
  <2>1. Flow(p', Response) = Flow(p, Response) /\ Owed' = Owed
    BY <1>3 DEF Flow, SamePlace, Owed
  <2>2. replies' = replies
    BY DEF rvars
  <2> QED
    BY <1>1, <1>4, <1>8, <2>1, <2>2, PendSame DEF Aside
<1>10. p'.tx[Request].eof \/ p'.op[Request] \in {"TX_CLOSE", "HUP"} =>
         pc'[Request] \in {"loopend", "finally", "called"} /\ Over'
  BY <1>1, <1>3, <1>4 DEF SamePlace, RedisInv, EofInv, Over, Asked
<1>11. AskInv'
  BY <1>1, <1>2, <1>4 DEF RedisInv, AskInv, Over, Asked
<1>12. error' \in [Threads -> BOOLEAN] /\ error' = error
  BY <1>1 DEF RedisInv, TypeInv
<1> QED
  BY <1>1, <1>4, <1>7, <1>8, <1>9, <1>10, <1>11, <1>12, RequestRest

LEMMA CommonKept ==
  ASSUME RedisInv, Common, UNCHANGED rvars
  PROVE  RedisInv'
<1>1. ASSUME NEW t \in Threads, Turn(t) PROVE RedisInv'
  <2>1. UNCHANGED << svars, rvars >>
    BY <1>1 DEF Turn
  <2> QED
    BY <1>1, <2>1, FlushKept, TxCloseKept, HupReturnsKept, WriteKept, RequestReadKept DEF Turn
<1> QED
  BY <1>1, RequestCallKept, TurnReadKept, CatchKept, EndsKept DEF Common

----------------------------------------------------------------------------
(* Between two operations *)

\* t, and only t, goes on at m.
GoesTo(t, m) ==
  /\ ControlInv' /\ DOMAIN pc' = Threads /\ pc'[t] = m
  /\ \A x \in Threads \ {t} : Aside(x) /\ pc'[x] = pc[x]
  /\ p'.tx = p.tx /\ Flow(p', Response) = Flow(p, Response)

LEMMA GotoGoes ==
  ASSUME RedisInv, NEW t \in Threads, NEW m, Goto(t, m)
  PROVE  DOMAIN pc' = Threads /\ pc'[t] = m /\ \A x \in Threads \ {t} : pc'[x] = pc[x]
BY DEF Goto, RedisInv, TypeInv

LEMMA OperationStep ==
  ASSUME RedisInv, NEW t \in Threads, NEW l, At(t, l), t = Request => l # "start",
         NEW o \in {"READ", "WRITE", "FLUSH", "TX_CLOSE"}, NEW n \in 0 .. MaxLen,
         NEW m \in After(t, o), Do(t, o, n, m), o = "WRITE" => ~ p.tx[t].eof,
         o = "TX_CLOSE" => n # 0, l \notin After(t, "WRITE") \/ o = "FLUSH"
  PROVE  /\ GoesTo(t, m) /\ error' = error /\ p'.op[t] = o /\ p'.need[t] = n /\ p'.inside[t]
<1>1. /\ phase = "execute" /\ p.running = t /\ p.status[t] = "RUN" /\ ~ p.inside[t]
      /\ pc[t] = l /\ Place(p, l, t) /\ QueueInv /\ (t = Response => pc[Request] # "start")
      /\ l \notin After(t, "WRITE") => p.tx[t].data = << >>
  BY BetweenPlace DEF RedisInv
<1>2. o \in Ops \ {"HUP"} /\ Begin(t, o, n) /\ error' = error /\ phase' = phase
  BY DEF Ops, Do, Begin
<1>3. /\ Orderly /\ Others(p, p', t)
      /\ p'.op[t] = o /\ p'.need[t] = n /\ p'.inside[t] /\ p'.status[t] = "RUN"
      /\ p'.rx = p.rx /\ p'.tx = p.tx /\ p'.closed = p.closed
  BY <1>1, <1>2, BeginTurn
<1>4. Steps(t)
  BY <1>1, <1>2, <1>3 DEF Steps
<1>5. DOMAIN pc' = Threads /\ pc'[t] = m /\ \A x \in Threads \ {t} : pc'[x] = pc[x]
  BY GotoGoes DEF Do
<1>6. Place(p', m, t)
  <2>1. \/ p'.tx[t].data = << >> \/ m \in After(t, "WRITE")
        \/ p'.inside[t] /\ p'.op[t] = "FLUSH"
    BY <1>1, <1>3
  <2> QED
    BY <1>3, <2>1 DEF Place
<1>7. pc[Request] # "start" /\ pc'[Request] # "start"
  <2>1. t = Request => m # "start"
    BY DEF After
  <2> QED
    BY <1>1, <1>5, <2>1, Pipe
<1>8. ControlInv'
  BY <1>4, <1>5, <1>6, <1>7, StepControl DEF RedisInv
<1>9. Flow(p', Response) = Flow(p, Response)
  BY <1>3 DEF Flow
<1> QED
  BY <1>2, <1>3, <1>4, <1>5, <1>8, <1>9, StepAside DEF GoesTo

LEMMA SkipStep ==
  ASSUME RedisInv, NEW t \in Threads, NEW l, At(t, l), t = Request => l # "start",
         NEW m, m # "start", Skip(t, m), l \notin After(t, "WRITE")
  PROVE  /\ GoesTo(t, m) /\ error' = error /\ p' = p
<1>1. /\ phase = "execute" /\ p.running = t /\ p.status[t] = "RUN" /\ ~ p.inside[t]
      /\ pc[t] = l /\ Place(p, l, t) /\ QueueInv /\ (t = Response => pc[Request] # "start")
      /\ p.tx[t].data = << >>
  BY BetweenPlace DEF RedisInv
<1>2. UNCHANGED vars /\ error' = error /\ p' = p
  BY DEF Skip, vars
<1>3. Steps(t) /\ SameFlows(p, p')
  BY <1>1, <1>2, StandStill
<1>5. DOMAIN pc' = Threads /\ pc'[t] = m /\ \A x \in Threads \ {t} : pc'[x] = pc[x]
  BY GotoGoes DEF Skip
<1>6. Place(p', m, t)
  BY <1>1, <1>2 DEF Place
<1>7. pc[Request] # "start" /\ pc'[Request] # "start"
  BY <1>1, <1>5, Pipe
<1>8. ControlInv'
  BY <1>3, <1>5, <1>6, <1>7, StepControl DEF RedisInv
<1> QED
  BY <1>2, <1>3, <1>5, <1>8, StepAside DEF GoesTo

LEMMA ThrowStep ==
  ASSUME RedisInv, NEW t \in Threads, NEW l, At(t, l), t = Request => l # "start",
         Throw(t, Caught(t)), l \notin After(t, "WRITE")
  PROVE  /\ GoesTo(t, Caught(t)) /\ SamePlace(p, p')
         /\ error' \in [Threads -> BOOLEAN] /\ error'[t] /\ \A x \in Threads \ {t} : error'[x] = error[x]
<1>1. /\ phase = "execute" /\ p.running = t /\ p.status[t] = "RUN" /\ ~ p.inside[t]
      /\ pc[t] = l /\ Place(p, l, t) /\ QueueInv /\ (t = Response => pc[Request] # "start")
      /\ p.tx[t].data = << >>
  BY BetweenPlace DEF RedisInv
<1>2. Orderly /\ Others(p, p', t) /\ SamePlace(p, p') /\ p'.status[t] = "ERR"
  BY <1>1, RaiseTurn DEF Throw
<1>3. Steps(t)
  BY <1>1, <1>2 DEF Steps, Throw
<1>5. DOMAIN pc' = Threads /\ pc'[t] = Caught(t) /\ \A x \in Threads \ {t} : pc'[x] = pc[x]
  BY GotoGoes DEF Throw
<1>6. Place(p', Caught(t), t)
  BY <1>1, <1>2 DEF Place, SamePlace
<1>7. pc[Request] # "start" /\ pc'[Request] # "start"
  BY <1>1, <1>5, Pipe DEF Caught
<1>8. ControlInv'
  BY <1>3, <1>5, <1>6, <1>7, StepControl DEF RedisInv
<1>9. /\ error' \in [Threads -> BOOLEAN] /\ error'[t] /\ \A x \in Threads \ {t} : error'[x] = error[x]
  BY DEF Throw, RedisInv, TypeInv
<1> QED
  BY <1>2, <1>3, <1>5, <1>8, <1>9, StepAside DEF GoesTo, SamePlace, Flow

----------------------------------------------------------------------------
(* redis_request *)

\* The request goes on, and asks nothing new.
LEMMA RequestGoes ==
  ASSUME RedisInv, NEW m, GoesTo(Request, m), Owed = 0, Owed' = 0, UNCHANGED << asked, taken, rvars >>,
         error' \in [Threads -> BOOLEAN], error'[Response] = error[Response],
         p'.op[Request] \in {"TX_CLOSE", "HUP"} =>
           p.op[Request] \in {"TX_CLOSE", "HUP"} \/ (m = "loopend" /\ Over),
         pc[Request] \in {"loopend", "finally", "called"} => m \in {"loopend", "finally", "called"},
         AskInv'
  PROVE  RedisInv'
<1>1. Aside(Response) /\ ControlInv' /\ DOMAIN pc' = Threads /\ pc'[Response] = pc[Response]
      /\ pc'[Request] = m /\ p'.tx = p.tx /\ Flow(p', Response) = Flow(p, Response)
  BY Pipe DEF GoesTo
<1>2. PendInv'
  <2>1. replies' = replies
    BY DEF rvars
  <2> QED
    BY <1>1, <2>1, PendSame DEF Aside
<1>3. Over' = Over
  BY DEF Over, Asked
<1>4. p'.tx[Request].eof \/ p'.op[Request] \in {"TX_CLOSE", "HUP"} =>
        pc'[Request] \in {"loopend", "finally", "called"} /\ Over'
  BY <1>1, <1>3 DEF RedisInv, EofInv
<1> QED
  BY <1>1, <1>2, <1>4, RequestRest

LEMMA RequestAt ==
  ASSUME RedisInv, NEW l, At(Request, l)
  PROVE  pc[Request] = l /\ Owed = 0 /\ p.running = Request
BY Pipe, BetweenPlace DEF RedisInv, Owed

LEMMA RequestLineKept ==
  ASSUME RedisInv, RequestLine
  PROVE  RedisInv'
<1>1. /\ At(Request, "line") /\ Do(Request, "READ", 1, "header") /\ UNCHANGED << asked, taken, rvars >>
  BY DEF RequestLine
<1>2. 1 \in 0 .. MaxLen
  BY BufLenAssumption
<1>3. /\ GoesTo(Request, "header") /\ error' = error /\ p'.op[Request] = "READ"
  BY <1>1, <1>2, Pipe, OperationStep DEF After
<1>4. Owed = 0 /\ Owed' = 0 /\ pc[Request] = "line"
  BY <1>1, <1>3, RequestAt DEF Owed
<1>5. AskInv'
  BY <1>1, <1>3, <1>4 DEF RedisInv, AskInv, Over, Asked, GoesTo
<1> QED
  BY <1>1, <1>3, <1>4, <1>5, RequestGoes DEF RedisInv, TypeInv

\* A raise of the request.
LEMMA RequestThrows ==
  ASSUME RedisInv, NEW l \in {"header", "args"}, At(Request, l), Throw(Request, "finally"),
         UNCHANGED << asked, taken, rvars >>
  PROVE  RedisInv'
<1>1. /\ GoesTo(Request, "finally") /\ SamePlace(p, p')
      /\ error' \in [Threads -> BOOLEAN] /\ error'[Request]
      /\ \A x \in Threads \ {Request} : error'[x] = error[x]
  BY Pipe, ThrowStep DEF Caught, After
<1>2. Owed = 0 /\ Owed' = 0 /\ pc[Request] = l
  BY <1>1, RequestAt DEF Owed, SamePlace
<1>3. AskInv'
  BY <1>1 DEF RedisInv, AskInv, Over, Asked, GoesTo
<1> QED
  BY <1>1, <1>2, <1>3, Pipe, RequestGoes DEF SamePlace

LEMMA RequestHeaderKept ==
  ASSUME RedisInv, RequestHeader
  PROVE  RedisInv'
<1>1. At(Request, "header") /\ UNCHANGED << asked, taken, rvars >>
  BY DEF RequestHeader
<1>2. Owed = 0 /\ pc[Request] = "header"
  BY <1>1, RequestAt
<1>3. CASE Skip(Request, "eof")
  <2>1. GoesTo(Request, "eof") /\ error' = error /\ p' = p
    BY <1>1, <1>3, Pipe, SkipStep DEF After
  <2>2. Owed' = 0
    BY <1>2, <2>1 DEF Owed
  <2>3. AskInv'
    BY <1>1, <1>2, <2>1 DEF RedisInv, AskInv, Over, Asked, GoesTo
  <2> QED
    BY <1>1, <1>2, <2>1, <2>2, <2>3, RequestGoes DEF RedisInv, TypeInv
<1>4. CASE Throw(Request, "finally")
  BY <1>1, <1>4, RequestThrows
<1>5. CASE \E argc \in 1 .. MaxArgs : Do(Request, "READ", argc, "args")
  <2>1. PICK argc \in 1 .. MaxArgs : Do(Request, "READ", argc, "args")
    BY <1>5
  <2>2. argc \in 0 .. MaxLen
    BY BufLenAssumption, RedisAssumption
  <2>3. GoesTo(Request, "args") /\ error' = error /\ p'.op[Request] = "READ"
    BY <1>1, <2>1, <2>2, Pipe, OperationStep DEF After
  <2>4. Owed' = 0
    BY <2>3 DEF Owed
  <2>5. AskInv'
    BY <1>1, <1>2, <2>3 DEF RedisInv, AskInv, Over, Asked, GoesTo
  <2> QED
    BY <1>1, <1>2, <2>3, <2>4, <2>5, RequestGoes DEF RedisInv, TypeInv
<1> QED
  BY <1>3, <1>4, <1>5 DEF RequestHeader

\* A query is begun for a further command.
LEMMA AskKept ==
  ASSUME RedisInv, NEW l \in {"args", "eof"}, At(Request, l), NEW c \in Commands, NEW m,
         Ask(c, m), UNCHANGED << taken, rvars >>,
         m = IF l = "args" THEN "written" ELSE "eofwritten", l = "eof" => c \in Closing
  PROVE  RedisInv'
<1>1. asked' = Append(asked, c) /\ Do(Request, "WRITE", QueryLen, m)
  BY DEF Ask
<1>2. Owed = 0 /\ pc[Request] = l
  BY RequestAt
<1>0. /\ Asked \in Nat /\ Base \in Nat /\ Base <= Asked /\ asked \in Seq(Commands) /\ Pend \in Seq(Byte)
      /\ QueryLen \in Nat /\ QueryLen >= 1
  BY Counts
<1>3. QueryLen \in 0 .. MaxLen /\ ~ p.tx[Request].eof
  BY <1>0, <1>2, BufLenAssumption, RedisAssumption DEF RedisInv, EofInv
<1>4. /\ GoesTo(Request, m) /\ error' = error /\ p'.op[Request] = "WRITE"
      /\ p'.need[Request] = QueryLen /\ p'.inside[Request]
  BY <1>1, <1>3, Pipe, OperationStep DEF After
<1>5. Aside(Response) /\ ControlInv' /\ DOMAIN pc' = Threads /\ pc'[Response] = pc[Response]
      /\ pc'[Request] = m /\ p'.tx = p.tx /\ Flow(p', Response) = Flow(p, Response)
  BY <1>4, Pipe DEF GoesTo
<1>6. ~ Over
  <2>1. Asked > 0 => asked[Asked] \in Ordinary
    BY <1>2 DEF RedisInv, AskInv
  <2> QED
    BY <2>1 DEF Over, Ordinary, Closing
<1>7. /\ Asked' = Asked + 1 /\ asked'[Asked + 1] = c /\ \A i \in 1 .. Asked : asked'[i] = asked[i]
      /\ UNCHANGED << replies, networked, taken >> /\ Base' = Base
  BY <1>0, <1>1 DEF Asked, rvars, Base
<1>8. Owed' = QueryLen
  BY <1>4 DEF Owed
<1>9. Pend' = Pend
  BY <1>5, <1>7 DEF Pend
<1>10. PendInv'
  <2>1. ASSUME pc'[Response] \in Answering
        PROVE  /\ \A i \in 1 .. Base' : asked'[i] \in Ordinary
               /\ Whole(Pend', Owed', Base', Asked')
    <3>1. Whole(Pend, 0, Base, Asked) /\ \A i \in 1 .. Base : asked[i] \in Ordinary
      BY <1>2, <1>5, <2>1 DEF RedisInv, PendInv
    <3>2. Whole(Pend, QueryLen, Base, Asked + 1)
      BY <1>0, <3>1, WholeMore
    <3>3. \A i \in 1 .. Base : i \in 1 .. Asked
      BY <1>0
    <3> QED
      BY <1>7, <1>8, <1>9, <3>1, <3>2, <3>3
  <2>2. Owed' <= QueryLen
    BY <1>0, <1>8
  <2>3. pc'[Response] = "got" => /\ p'.op[Response] = "READ"
                                 /\ Len(taken') + p'.need[Response] = QueryLen
                                 /\ ~ p'.inside[Response] => p'.need[Response] = 0
    BY <1>5, <1>7 DEF Aside, RedisInv, PendInv
  <2> QED
    BY <2>1, <2>2, <2>3 DEF PendInv, Whole
<1>11. AskInv'
  <2>1. \A i \in 1 .. Asked : asked[i] \in Ordinary
    <3>1. Asked > 0 => asked[Asked] \in Ordinary
      BY <1>2 DEF RedisInv, AskInv
    <3>2. \A i \in 1 .. Asked - 1 : asked[i] \in Ordinary
      BY DEF RedisInv, AskInv
    <3> QED
      BY <1>0, <3>1, <3>2
  <2>2. \A i \in 1 .. Asked' - 1 : asked'[i] \in Ordinary
    BY <1>0, <1>7, <2>1
  <2>3. Asked' > 0 /\ (m = "eofwritten" => Over')
    BY <1>0, <1>7 DEF Over
  <2>4. m \in {"written", "eofwritten"} /\ ~ error'[Request]
    BY <1>2, <1>4 DEF RedisInv, AskInv
  <2> QED
    BY <1>5, <2>2, <2>3, <2>4 DEF AskInv
<1>12. p'.tx[Request].eof \/ p'.op[Request] \in {"TX_CLOSE", "HUP"} =>
         pc'[Request] \in {"loopend", "finally", "called"} /\ Over'
  BY <1>3, <1>4, <1>5
<1> QED
  BY <1>1, <1>4, <1>5, <1>6, <1>10, <1>11, <1>12, RequestRest DEF RedisInv, TypeInv

LEMMA RequestArgsKept ==
  ASSUME RedisInv, RequestArgs
  PROVE  RedisInv'
<1>1. At(Request, "args") /\ UNCHANGED << taken, rvars >>
  BY DEF RequestArgs
<1>2. CASE Throw(Request, "finally") /\ UNCHANGED asked
  BY <1>1, <1>2, RequestThrows
<1>3. CASE \E c \in (Ordinary \cup Closing) \ {"CLOSE"} : Ask(c, "written")
  BY <1>1, <1>3, AskKept DEF Commands
<1> QED
  BY <1>2, <1>3 DEF RequestArgs

LEMMA RequestEofKept ==
  ASSUME RedisInv, RequestEof
  PROVE  RedisInv'
<1>1. At(Request, "eof") /\ Ask("CLOSE", "eofwritten") /\ UNCHANGED << taken, rvars >>
  BY DEF RequestEof
<1>2. "CLOSE" \in Commands /\ "CLOSE" \in Closing
  BY DEF Commands, Closing
<1> QED
  BY <1>1, <1>2, AskKept

LEMMA RequestFlushKept ==
  ASSUME RedisInv, RequestFlush
  PROVE  RedisInv'
<1>1. UNCHANGED << asked, taken, rvars >>
  BY DEF RequestFlush
<1>2. ASSUME NEW l \in {"written", "eofwritten", "loopend"}, NEW m, At(Request, l), Do(Request, "FLUSH", 0, m),
             m = IF l = "written" THEN "flushed" ELSE IF l = "eofwritten" THEN "hup" ELSE "finally"
      PROVE  RedisInv'
  <2>1. 0 \in 0 .. MaxLen /\ m \in After(Request, "FLUSH")
    BY <1>2, BufLenAssumption DEF After
  <2>2. GoesTo(Request, m) /\ error' = error /\ p'.op[Request] = "FLUSH"
    BY <1>2, <2>1, Pipe, OperationStep
  <2>3. Owed = 0 /\ Owed' = 0 /\ pc[Request] = l
    BY <1>2, <2>2, RequestAt DEF Owed
  <2>4. AskInv'
    BY <1>1, <1>2, <2>2, <2>3 DEF RedisInv, AskInv, Over, Asked, GoesTo
  <2> QED
    BY <1>1, <1>2, <2>2, <2>3, <2>4, RequestGoes DEF RedisInv, TypeInv
<1> QED
  BY <1>2 DEF RequestFlush

LEMMA RequestNextKept ==
  ASSUME RedisInv, RequestNext
  PROVE  RedisInv'
<1>1. At(Request, "flushed") /\ UNCHANGED << asked, taken, rvars >>
  BY DEF RequestNext
<1>2. Owed = 0 /\ pc[Request] = "flushed"
  BY <1>1, RequestAt
<1>3. Asked > 0 /\ ~ error[Request] /\ asked[Asked] \in Commands
  <2>1. Asked > 0 /\ ~ error[Request]
    BY <1>2 DEF RedisInv, AskInv
  <2> QED
    BY <2>1, Counts DEF Asked
<1>4. CASE asked[Asked] \in Closing
  <2>1. 1 \in 0 .. MaxLen /\ Do(Request, "TX_CLOSE", 1, "loopend")
    BY <1>4, BufLenAssumption DEF RequestNext
  <2>2. GoesTo(Request, "loopend") /\ error' = error /\ p'.op[Request] = "TX_CLOSE"
    BY <1>1, <2>1, Pipe, OperationStep DEF After
  <2>3. Owed' = 0 /\ Over
    BY <1>3, <1>4, <2>2 DEF Owed, Over
  <2>4. AskInv'
    BY <1>1, <1>3, <2>2, <2>3 DEF RedisInv, AskInv, Over, Asked, GoesTo
  <2> QED
    BY <1>1, <1>2, <2>2, <2>3, <2>4, RequestGoes DEF RedisInv, TypeInv
<1>5. CASE asked[Asked] \notin Closing
  <2>1. PICK m \in {"eof", "line"} : Skip(Request, m)
    BY <1>5 DEF RequestNext
  <2>2. GoesTo(Request, m) /\ error' = error /\ p' = p
    BY <1>1, <2>1, Pipe, SkipStep DEF After
  <2>3. Owed' = 0
    BY <1>2, <2>2 DEF Owed
  <2>4. AskInv'
    BY <1>1, <1>3, <1>5, <2>2 DEF RedisInv, AskInv, Over, Asked, GoesTo, Commands
  <2> QED
    BY <1>1, <1>2, <2>2, <2>3, <2>4, RequestGoes DEF RedisInv, TypeInv
<1> QED
  BY <1>4, <1>5

LEMMA RequestHupKept ==
  ASSUME RedisInv, RequestHup
  PROVE  RedisInv'
<1>1. At(Request, "hup") /\ Hup(Request) /\ Goto(Request, "loopend") /\ UNCHANGED << error, asked, taken, rvars >>
      /\ phase' = phase
  BY DEF RequestHup, Hup
<1>2. /\ phase = "execute" /\ p.running = Request /\ pc[Request] = "hup" /\ QueueInv
  BY <1>1, Pipe, BetweenPlace DEF RedisInv
<1>3. ~ p.tx[Request].eof /\ Over /\ ~ error[Request]
  BY <1>2 DEF RedisInv, EofInv, AskInv
<1>4. /\ Orderly /\ Others(p, p', Request) /\ SameFlows(p, p')
      /\ p'.op[Request] = "HUP" /\ p'.inside[Request] /\ p'.status[Request] \in {"RUN", "WAIT"}
      /\ p'.tx[Request].data = << >>
  BY <1>1, <1>2, <1>3, Pipe, HupTurn
<1>5. Steps(Request)
  BY <1>1, <1>2, <1>4 DEF Steps
<1>6. DOMAIN pc' = Threads /\ pc'[Request] = "loopend" /\ pc'[Response] = pc[Response]
  BY <1>1, GotoGoes, Pipe
<1>7. Place(p', "loopend", Request)
  BY <1>4 DEF Place, After
<1>8. ControlInv'
  BY <1>2, <1>5, <1>6, <1>7, Pipe, StepControl DEF RedisInv
<1>9. Aside(Response)
  BY <1>5, StepAside, Pipe
<1>10. Owed = 0 /\ Owed' = 0
  BY <1>1, <1>4, RequestAt DEF Owed
<1>11. PendInv'
  <2>1. Flow(p', Response) = Flow(p, Response) /\ replies' = replies
    BY <1>1, <1>4, Pipe DEF SameFlows, rvars
  <2> QED
    BY <1>1, <1>6, <1>9, <1>10, <2>1, PendSame DEF Aside
<1>12. AskInv' /\ Over'
  BY <1>1, <1>3, <1>6 DEF RedisInv, AskInv, Over, Asked
<1> QED
  BY <1>1, <1>6, <1>8, <1>9, <1>11, <1>12, RequestRest DEF RedisInv, TypeInv

\* vk_responder: the response is played.
LEMMA RespondKept ==
  ASSUME RedisInv, Respond("line"), UNCHANGED rvars
  PROVE  RedisInv'
<1>1. /\ At(Request, "start") /\ Goto(Request, "line") /\ p' = EnqueueRun(p, Response)
      /\ UNCHANGED << phase, retry, ended, msg >> /\ UNCHANGED << error, asked, taken >>
  BY DEF Respond
<1>2. /\ phase = "execute" /\ p.running = Request /\ p.status[Request] = "RUN" /\ ~ p.inside[Request]
      /\ pc[Request] = "start" /\ QueueInv /\ p.tx[Request].data = << >> /\ Place(p, "start", Request)
  BY <1>1, Pipe, BetweenPlace DEF RedisInv, After
<1>3. /\ Orderly /\ SamePlace(p, p') /\ Woken(p, p') /\ p'.running = p.running
      /\ p'.status[Response] \in {"RUN", "ERR"} => p'.run_enq[Response]
  BY <1>1, <1>2, Pipe, PlayTurn
<1>4. DOMAIN pc' = Threads /\ pc'[Request] = "line" /\ pc'[Response] = pc[Response]
  BY <1>1, GotoGoes, Pipe
<1>5. PlaceInv'
  <2>1. p'.status[Request] = "RUN"
    BY <1>2, <1>3, Pipe DEF Woken
  <2>2. Place(p', "line", Request)
    BY <1>2, <1>3, <2>1 DEF Place, SamePlace
  <2>3. p'.status[Response] = p.status[Response] \/ p'.status[Response] = "RUN"
    BY <1>3, Pipe DEF Woken
  <2>4. Place(p', pc'[Response], Response)
    BY <1>3, <1>4, <2>3, SamePlaceUndisturbed, PlaceKept, Pipe DEF RedisInv, ControlInv, PlaceInv
  <2> QED
    BY <1>4, <2>2, <2>4, Pipe DEF PlaceInv
<1>6. StartInv' /\ RunInv' /\ PhaseInv'
  BY <1>1, <1>2, <1>3, <1>4, Pipe DEF StartInv, RunInv, PhaseInv, Idle
<1>7. ControlInv'
  BY <1>3, <1>5, <1>6 DEF Orderly, RedisInv, ControlInv
<1>8. Aside(Response)
  BY <1>3 DEF SamePlace, Aside
<1>9. PendInv'
  <2>1. Flow(p', Response) = Flow(p, Response) /\ Owed' = Owed
    BY <1>3 DEF Flow, SamePlace, Owed
  <2>2. replies' = replies
    BY DEF rvars
  <2> QED
    BY <1>1, <1>4, <1>8, <2>1, <2>2, PendSame DEF Aside
<1>10. ~ (p'.tx[Request].eof \/ p'.op[Request] \in {"TX_CLOSE", "HUP"})
  BY <1>2, <1>3 DEF SamePlace, RedisInv, EofInv
<1>11. AskInv'
  BY <1>1, <1>2, <1>4 DEF RedisInv, AskInv, Over, Asked
<1> QED
  BY <1>1, <1>4, <1>7, <1>8, <1>9, <1>10, <1>11, RequestRest DEF RedisInv, TypeInv

----------------------------------------------------------------------------
(* redis_response *)

\* The response goes on, and answers nothing.
LEMMA ResponseGoes ==
  ASSUME RedisInv, NEW m, GoesTo(Response, m),
         error' \in [Threads -> BOOLEAN], error'[Request] = error[Request],
         UNCHANGED << asked, replies, db, networked >>, shutdown' \in BOOLEAN,
         taken' = taken, m # "got", m \in Answering => pc[Response] \in Answering \ {"got"},
         DoneInv', EndInv'
  PROVE  RedisInv'
<1>1. Aside(Request) /\ ControlInv' /\ DOMAIN pc' = Threads /\ pc'[Request] = pc[Request]
      /\ pc'[Response] = m /\ p'.tx = p.tx /\ Flow(p', Response) = Flow(p, Response)
  BY Pipe DEF GoesTo
<1>2. Owed' = Owed
  BY <1>1, OwedSame DEF Aside
<1>3. PendInv'
  BY <1>1, <1>2 DEF RedisInv, PendInv, Pend, Base, Asked, Whole
<1>4. TakenInv' /\ taken' \in Seq(Byte)
  BY DEF RedisInv, TakenInv, TypeInv
<1>5. ~ p'.tx[Response].eof
  BY <1>1 DEF RedisInv, EofInv
<1> QED
  BY <1>1, <1>3, <1>4, <1>5, ResponseMoves

LEMMA ResponseAt ==
  ASSUME RedisInv, NEW l, At(Response, l)
  PROVE  /\ pc[Response] = l /\ ~ p.inside[Response] /\ pc[Request] # "start"
         /\ ~ p.tx[Response].eof /\ p.running = Response
BY Pipe, BetweenPlace DEF RedisInv, EofInv

\* A raise of the response.
LEMMA ResponseThrows ==
  ASSUME RedisInv, At(Response, "start"), Throw(Response, "sorry"),
         UNCHANGED << asked, taken, rvars >>
  PROVE  RedisInv'
<1>1. /\ GoesTo(Response, "sorry") /\ SamePlace(p, p')
      /\ error' \in [Threads -> BOOLEAN] /\ error'[Response]
      /\ \A x \in Threads \ {Response} : error'[x] = error[x]
  BY Pipe, ThrowStep DEF Caught, After
<1>2. UNCHANGED << replies, db, networked, shutdown >> /\ pc'[Response] = "sorry"
  BY <1>1 DEF rvars, GoesTo
<1>3. DoneInv' /\ EndInv'
  BY <1>1, <1>2 DEF RedisInv, DoneInv, EndInv, Base, Asked
<1> QED
  BY <1>1, <1>2, <1>3, Pipe, ResponseGoes DEF RedisInv, TypeInv, Answering

LEMMA ResponseStartKept ==
  ASSUME RedisInv, ResponseStart
  PROVE  RedisInv'
<1>1. At(Response, "start") /\ UNCHANGED << asked, taken, rvars >> /\ pc[Response] = "start"
  BY ResponseAt DEF ResponseStart
<1>2. CASE Throw(Response, "sorry")
  BY <1>1, <1>2, ResponseThrows
<1>3. CASE Skip(Response, "read")
  <2>1. GoesTo(Response, "read") /\ error' = error /\ p' = p
    BY <1>1, <1>3, Pipe, SkipStep DEF After
  <2>2. UNCHANGED << replies, db, networked, shutdown >> /\ pc'[Response] = "read"
    BY <1>1, <2>1 DEF rvars, GoesTo
  <2>3. DoneInv' /\ EndInv'
    BY <1>1, <2>1, <2>2 DEF RedisInv, DoneInv, EndInv, Base, Asked
  <2> QED
    BY <1>1, <2>1, <2>2, <2>3, ResponseGoes DEF RedisInv, TypeInv, Answering
<1> QED
  BY <1>2, <1>3 DEF ResponseStart

LEMMA ResponseReadKept ==
  ASSUME RedisInv, ResponseRead
  PROVE  RedisInv'
<1>1. /\ At(Response, "read") /\ Do(Response, "READ", QueryLen, "got") /\ taken' = << >>
      /\ UNCHANGED << asked, rvars >> /\ pc[Response] = "read"
  BY ResponseAt DEF ResponseRead
<1>2. QueryLen \in 0 .. MaxLen /\ QueryLen \in Nat
  BY BufLenAssumption, RedisAssumption
<1>3. /\ GoesTo(Response, "got") /\ error' = error /\ p'.op[Response] = "READ"
      /\ p'.need[Response] = QueryLen /\ p'.inside[Response]
  BY <1>1, <1>2, Pipe, OperationStep DEF After
<1>4. Aside(Request) /\ ControlInv' /\ DOMAIN pc' = Threads /\ pc'[Request] = pc[Request]
      /\ pc'[Response] = "got" /\ p'.tx = p.tx /\ Flow(p', Response) = Flow(p, Response)
  BY <1>3, Pipe DEF GoesTo
<1>5. UNCHANGED << replies, db, networked, shutdown >> /\ Base' = Base /\ Asked' = Asked
  BY <1>1 DEF rvars, Base, Asked
<1>6. Owed' = Owed
  BY <1>4, OwedSame DEF Aside
<1>7. Pend' = Pend
  <2>1. Pend' = << >> \o Flow(p', Response)
    BY <1>1, <1>4 DEF Pend, Flow
  <2>2. << >> \o Flow(p, Response) = Flow(p, Response)
    BY Counts, Joined
  <2> QED
    BY <1>1, <1>4, <2>1, <2>2, Zenon DEF Pend
<1>8. PendInv'
  <2>1. Owed' <= QueryLen
    BY <1>6 DEF RedisInv, PendInv
  <2>2. pc'[Response] \in Answering =>
          /\ \A i \in 1 .. Base' : asked'[i] \in Ordinary
          /\ Whole(Pend', Owed', Base', Asked')
    BY <1>1, <1>5, <1>6, <1>7 DEF RedisInv, PendInv, Answering
  <2>3. Len(taken') + p'.need[Response] = QueryLen
    BY <1>1, <1>2, <1>3
  <2> QED
    BY <1>3, <2>1, <2>2, <2>3 DEF PendInv, Whole
<1>9. TakenInv' /\ taken' \in Seq(Byte)
  BY <1>1 DEF TakenInv
<1>10. DoneInv' /\ EndInv'
  BY <1>1, <1>3, <1>4, <1>5 DEF RedisInv, DoneInv, EndInv, Base, Asked
<1>11. ~ p'.tx[Response].eof
  BY <1>4 DEF RedisInv, EofInv
<1> QED
  BY <1>1, <1>3, <1>4, <1>5, <1>8, <1>9, <1>10, <1>11, ResponseMoves DEF RedisInv, TypeInv

LEMMA ResponseFlushKept ==
  ASSUME RedisInv, ResponseFlush
  PROVE  RedisInv'
<1>1. UNCHANGED << asked, taken, rvars >>
  BY DEF ResponseFlush
<1>2. ASSUME NEW l \in {"replied", "bye", "loopend", "sorry"}, NEW m, At(Response, l),
             Do(Response, "FLUSH", 0, m),
             m = CASE l = "replied" -> "read" [] l = "bye" -> "byeflushed"
                   [] l = "loopend" -> "out" [] l = "sorry" -> "sorryflushed"
      PROVE  RedisInv'
  <2>0. \/ l = "replied" /\ m = "read"
        \/ l = "bye" /\ m = "byeflushed"
        \/ l = "loopend" /\ m = "out"
        \/ l = "sorry" /\ m = "sorryflushed"
    BY <1>2
  <2>1. 0 \in 0 .. MaxLen /\ m \in After(Response, "FLUSH")
    BY <2>0, BufLenAssumption, Pipe DEF After
  <2>2. GoesTo(Response, m) /\ error' = error
    BY <1>2, <2>1, Pipe, OperationStep
  <2>3. pc[Response] = l /\ pc'[Response] = m
    BY <1>2, <2>2, ResponseAt DEF GoesTo
  <2>4. UNCHANGED << replies, db, networked, shutdown >>
    BY <1>1 DEF rvars
  <2>5. Base' = Base /\ Asked' = Asked /\ Over' = Over /\ \A i : Answered(i)' = Answered(i)
    BY <1>1, <2>4 DEF Base, Asked, Over, Answered
  <2>6. DoneInv' /\ EndInv'
    BY <2>0, <2>2, <2>3, <2>5 DEF RedisInv, DoneInv, EndInv
  <2>7. m # "got" /\ (m \in Answering => pc[Response] \in Answering \ {"got"})
    BY <2>0, <2>3 DEF Answering
  <2> QED
    BY <1>1, <2>2, <2>4, <2>6, <2>7, ResponseGoes DEF RedisInv, TypeInv
<1> QED
  BY <1>2 DEF ResponseFlush

LEMMA TxCloseStep ==
  ASSUME RedisInv, NEW l, At(Response, l), l \notin After(Response, "WRITE"),
         NEW m \in {"loopend", "end"}, TxCloseIfNetworked(m)
  PROVE  /\ GoesTo(Response, m) /\ error' = error
         /\ networked => p'.op[Response] = "TX_CLOSE" /\ p'.need[Response] = 1 /\ p'.inside[Response]
<1>1. CASE networked
  <2>1. Do(Response, "TX_CLOSE", 1, m) /\ 1 \in 0 .. MaxLen
    BY <1>1, BufLenAssumption DEF TxCloseIfNetworked
  <2> QED
    BY <2>1, Pipe, OperationStep DEF After
<1>2. CASE ~ networked
  <2>1. Skip(Response, m)
    BY <1>2 DEF TxCloseIfNetworked
  <2> QED
    BY <1>2, <2>1, Pipe, SkipStep
<1> QED
  BY <1>1, <1>2

LEMMA ResponseTxCloseKept ==
  ASSUME RedisInv, ResponseTxClose
  PROVE  RedisInv'
<1>1. UNCHANGED << asked, taken, rvars >>
  BY DEF ResponseTxClose
<1>2. UNCHANGED << replies, db, networked, shutdown >>
  BY <1>1 DEF rvars
<1>3. Base' = Base /\ Asked' = Asked /\ Over' = Over /\ \A i : Answered(i)' = Answered(i)
  BY <1>1, <1>2 DEF Base, Asked, Over, Answered
<1>4. ASSUME NEW l \in {"byeflushed", "out"}, At(Response, l), NEW m,
             TxCloseIfNetworked(m), m = IF l = "out" THEN "end" ELSE "loopend"
      PROVE  RedisInv'
  <2>1. l \notin After(Response, "WRITE") /\ m \in {"loopend", "end"}
    BY <1>4, Pipe DEF After
  <2>2. /\ GoesTo(Response, m) /\ error' = error
        /\ networked => p'.op[Response] = "TX_CLOSE" /\ p'.need[Response] = 1 /\ p'.inside[Response]
    BY <1>4, <2>1, TxCloseStep
  <2>3. pc[Response] = l /\ pc'[Response] = m
    BY <1>4, <2>2, ResponseAt DEF GoesTo
  <2>4. ~ error[Response]
    BY <2>3 DEF RedisInv, DoneInv
  <2>5. DoneInv' /\ EndInv'
    BY <1>2, <1>3, <2>1, <2>2, <2>3, <2>4 DEF RedisInv, DoneInv, EndInv
  <2>6. m # "got" /\ m \notin Answering
    BY <2>1 DEF Answering
  <2> QED
    BY <1>1, <1>2, <2>2, <2>5, <2>6, ResponseGoes DEF RedisInv, TypeInv
<1>5. CASE At(Response, "sorryflushed") /\ Do(Response, "TX_CLOSE", 1, "end")
  <2>1. 1 \in 0 .. MaxLen
    BY BufLenAssumption
  <2>2. /\ GoesTo(Response, "end") /\ error' = error
        /\ p'.op[Response] = "TX_CLOSE" /\ p'.need[Response] = 1 /\ p'.inside[Response]
    BY <1>5, <2>1, Pipe, OperationStep DEF After
  <2>3. pc[Response] = "sorryflushed" /\ pc'[Response] = "end"
    BY <1>5, <2>2, ResponseAt DEF GoesTo
  <2>4. error[Response]
    BY <2>3 DEF RedisInv, DoneInv
  <2>5. DoneInv' /\ EndInv'
    BY <1>2, <1>3, <2>2, <2>3, <2>4 DEF RedisInv, DoneInv, EndInv
  <2> QED
    BY <1>1, <1>2, <2>2, <2>5, ResponseGoes DEF RedisInv, TypeInv, Answering
<1> QED
  BY <1>4, <1>5 DEF ResponseTxClose

\* A query is read whole and alone: of the command after the last answered.
LEMMA QueryRead ==
  ASSUME RedisInv, At(Response, "got")
  PROVE  /\ p.need[Response] = 0 /\ Len(taken) = QueryLen /\ taken[1] = Base + 1
         /\ Base + 1 <= Asked /\ Query = asked[Base + 1] /\ Query \in Commands
         /\ \A i \in 1 .. Base : asked[i] \in Ordinary
         /\ Whole(Flow(p, Response), Owed, Base + 1, Asked)
         /\ Query \notin Ordinary => Over /\ Base + 1 = Asked
<1>0. /\ Asked \in Nat /\ Base \in Nat /\ Flow(p, Response) \in Seq(Byte) /\ asked \in Seq(Commands)
      /\ taken \in Seq(Byte) /\ Pend \in Seq(Byte) /\ QueryLen \in Nat /\ QueryLen >= 1 /\ Owed \in Nat
  BY Counts
<1>1. pc[Response] = "got" /\ ~ p.inside[Response]
  BY ResponseAt
<1>2. p.need[Response] = 0 /\ Len(taken) + p.need[Response] = QueryLen
  BY <1>1 DEF RedisInv, PendInv
<1>3. Len(taken) = QueryLen
  BY <1>0, <1>2
<1>4. /\ Whole(Pend, Owed, Base, Asked) /\ Pend = taken \o Flow(p, Response)
      /\ \A i \in 1 .. Base : asked[i] \in Ordinary
  BY <1>1 DEF RedisInv, PendInv, Pend, Answering
<1>5. Whole(Flow(p, Response), Owed, Base + 1, Asked)
  BY <1>0, <1>3, <1>4, WholeDrop
<1>6. /\ \A i \in 1 .. Len(Pend) : i <= QueryLen => Pend[i] = Base + 1
      /\ Len(Pend) >= QueryLen => Base + 1 <= Asked
  BY <1>0, <1>4, WholeFirst
<1>7. /\ Len(Pend) = Len(taken) + Len(Flow(p, Response)) /\ Len(Flow(p, Response)) \in Nat
      /\ \A i \in 1 .. Len(taken) : Pend[i] = taken[i]
  BY <1>0, <1>4, Joined
<1>8. Len(Pend) >= QueryLen /\ 1 \in 1 .. Len(taken) /\ 1 \in 1 .. Len(Pend)
  BY <1>0, <1>3, <1>7
<1>9. taken[1] = Base + 1 /\ Base + 1 <= Asked
  BY <1>0, <1>6, <1>7, <1>8
<1>10. Query = asked[Base + 1] /\ Query \in Commands
  BY <1>0, <1>9 DEF Query, Asked
<1>11. ASSUME Query \notin Ordinary PROVE Over /\ Base + 1 = Asked
  <2>1. \A i \in 1 .. Asked - 1 : asked[i] \in Ordinary
    BY DEF RedisInv, AskInv
  <2>2. Base + 1 = Asked
    BY <1>0, <1>9, <1>10, <1>11, <2>1
  <2>3. Query \in Closing
    BY <1>10, <1>11 DEF Commands
  <2> QED
    BY <1>0, <1>10, <2>2, <2>3 DEF Over
<1> QED
  BY <1>2, <1>3, <1>4, <1>5, <1>9, <1>10, <1>11

\* SHUTDOWN: the loop is left, and the kernel told.
LEMMA ShutdownKept ==
  ASSUME RedisInv, At(Response, "got"), Query = "SHUTDOWN", ResponseShutdown,
         UNCHANGED << asked, taken, networked >>
  PROVE  RedisInv'
<1>1. /\ TxCloseIfNetworked("loopend") /\ shutdown' = (shutdown \/ networked) /\ UNCHANGED << replies, db >>
  BY DEF ResponseShutdown
<1>2. GoesTo(Response, "loopend") /\ error' = error
  BY <1>1, Pipe, TxCloseStep DEF After
<1>3. pc[Response] = "got" /\ pc'[Response] = "loopend"
  BY <1>2, ResponseAt DEF GoesTo
<1>4. /\ Base + 1 = Asked /\ Over /\ Query = asked[Asked] /\ \A i \in 1 .. Base : asked[i] \in Ordinary
  BY QueryRead DEF Ordinary
<1>5. Base' = Base /\ Asked' = Asked /\ Over' /\ Base \in Nat /\ Asked \in Nat
  BY <1>1, <1>4, Counts DEF Base, Asked, Over
<1>6. ASSUME NEW i \in 1 .. Asked PROVE Answered(i)'
  <2>1. CASE i = Asked
    BY <1>1, <1>4, <2>1 DEF Answered
  <2>2. CASE i # Asked
    <3>1. i \in 1 .. Base
      BY <1>4, <1>5, <2>2
    <3>2. asked[i] # "SHUTDOWN"
      BY <1>4, <3>1 DEF Ordinary
    <3> QED
      BY <1>1, <3>1, <3>2 DEF Answered, Base
  <2> QED
    BY <2>1, <2>2
<1>7. DoneInv'
  BY <1>2, <1>3, <1>4, <1>5, <1>6 DEF RedisInv, DoneInv
<1>8. EndInv'
  BY <1>3 DEF EndInv
<1>9. shutdown' \in BOOLEAN
  BY <1>1 DEF RedisInv, TypeInv
<1> QED
  BY <1>1, <1>2, <1>7, <1>8, <1>9, ResponseGoes DEF RedisInv, TypeInv, Answering

\* A reply x to the query.
LEMMA AnswerKept ==
  ASSUME RedisInv, At(Response, "got"), NEW x \in Reply, NEW m, Say(x, m),
         UNCHANGED << asked, taken, networked, shutdown >>,
         \/ m = "replied" /\ Query \in Ordinary
         \/ m = "bye" /\ Query \in {"QUIT", "CLOSE"},
         Query \notin {"SET", "GET"} => x = OK, Query = "SET" => x \in {OK, ERR},
         Query = "GET" => x \in {ERR, NIL, db},
         db' = IF Query = "SET" /\ x = OK THEN Mine(Base + 1) ELSE db
  PROVE  RedisInv'
<1>0. /\ Asked \in Nat /\ Base \in Nat /\ asked \in Seq(Commands) /\ replies \in Seq(Reply)
      /\ Base + 1 <= Asked /\ Query = asked[Base + 1] /\ pc[Response] = "got"
      /\ \A i \in 1 .. Base : asked[i] \in Ordinary
      /\ Whole(Flow(p, Response), Owed, Base + 1, Asked)
      /\ Query \notin Ordinary => Over /\ Base + 1 = Asked
  BY Counts, QueryRead, ResponseAt
<1>1. replies' = Append(replies, x) /\ Do(Response, "WRITE", 1, m) /\ 1 \in 0 .. MaxLen
  BY BufLenAssumption DEF Say
<1>2. GoesTo(Response, m) /\ error' = error
  BY <1>1, ResponseAt, Pipe, OperationStep DEF After
<1>3. Aside(Request) /\ ControlInv' /\ DOMAIN pc' = Threads /\ pc'[Request] = pc[Request]
      /\ pc'[Response] = m /\ p'.tx = p.tx /\ Flow(p', Response) = Flow(p, Response)
  BY <1>2, Pipe DEF GoesTo
<1>4. /\ replies' \in Seq(Reply) /\ Base' = Base + 1 /\ Asked' = Asked /\ replies'[Base + 1] = x
      /\ \A i \in 1 .. Base : replies'[i] = replies[i]
  BY <1>0, <1>1 DEF Base, Asked
<1>5. Owed' = Owed
  BY <1>3, OwedSame DEF Aside
<1>6. PendInv'
  <2>1. ASSUME pc'[Response] \in Answering
        PROVE  /\ \A i \in 1 .. Base' : asked'[i] \in Ordinary
               /\ Whole(Pend', Owed', Base', Asked')
    <3>1. m = "replied" /\ Query \in Ordinary
      BY <1>3, <2>1 DEF Answering
    <3>2. Pend' = Flow(p, Response)
      BY <1>3, <3>1 DEF Pend
    <3>3. \A i \in 1 .. Base + 1 : asked[i] \in Ordinary
      BY <1>0, <3>1
    <3> QED
      BY <1>0, <1>4, <1>5, <3>2, <3>3
  <2>2. Owed' <= QueryLen /\ pc'[Response] # "got"
    BY <1>3, <1>5 DEF RedisInv, PendInv
  <2> QED
    BY <2>1, <2>2 DEF PendInv, Whole
<1>7. ~ error[Response]
  BY <1>0 DEF RedisInv, DoneInv
<1>8. DoneInv'
  <2>1. ASSUME m = "bye" PROVE Over' /\ \A i \in 1 .. Asked' : Answered(i)'
    <3>1. Over /\ Base + 1 = Asked /\ asked[Asked] # "SHUTDOWN"
      BY <1>0, <2>1 DEF Ordinary
    <3>2. \A i \in 1 .. Asked : asked[i] # "SHUTDOWN" /\ i <= Base + 1
      BY <1>0, <3>1 DEF Ordinary
    <3>3. Over'
      BY <1>4, <3>1 DEF Over
    <3> QED
      BY <1>4, <3>2, <3>3 DEF Answered, Base
  <2> QED
    BY <1>0, <1>2, <1>3, <1>4, <1>7, <2>1 DEF DoneInv
<1>9. EndInv'
  BY <1>3 DEF EndInv
<1>10. Base <= Len(asked) /\ Base <= Len(replies) /\ asked' = asked
  BY <1>0 DEF Base, Asked
<1>11. \A i \in Nat : i <= Base + 1 => Stored(i)' = Stored(i)
  <2>1. \A i \in 1 .. Base : asked'[i] = asked[i] /\ replies'[i] = replies[i]
    BY <1>4, <1>10
  <2>2. ASSUME NEW i \in Nat, i <= Base + 1
        PROVE  Stored(i)' = Stored(i)
    BY <1>0, <1>10, <2>1, <2>2, StoredKept
  <2> QED
    BY <2>2
<1>12. RepliesFollowCommands'
  <2>1. ASSUME NEW i \in 1 .. Base + 1
        PROVE  /\ asked[i] \notin {"SET", "GET"} => replies'[i] = OK
               /\ asked[i] = "SET" => replies'[i] \in {OK, ERR}
               /\ asked[i] = "GET" => replies'[i] \in {ERR, NIL} \/ Current(replies[i], i)'
    <3>1. Stored(i)' = Stored(i)
      BY <1>0, <1>11
    <3>2. CASE i = Base + 1
      <4>1. Stored(i)' = Stored(Base + 1) /\ replies'[i] = x /\ asked[i] = Query
        BY <1>0, <1>4, <3>1, <3>2
      <4> QED
        BY <3>2, <4>1 DEF RedisInv, DbInv, Current
    <3>3. CASE i # Base + 1
      <4>1. i \in 1 .. Base
        BY <1>0, <3>3
      <4>2. replies'[i] = replies[i]
        BY <1>4, <4>1
      <4> QED
        BY <3>1, <4>1, <4>2 DEF RedisInv, RepliesFollowCommands, Base, Current
    <3> QED
      BY <3>2, <3>3
  <2> QED
    BY <1>4, <1>10, <2>1 DEF RepliesFollowCommands, Base
<1>13. DbInv'
  <2>1. Stored(Base + 1)' = {j \in 1 .. Base + 1 : asked[j] = "SET" /\ replies'[j] = OK}
    BY <1>0, <1>4, <1>10 DEF Stored
  <2>2. Stored(Base + 1) = {j \in 1 .. Base : asked[j] = "SET" /\ replies[j] = OK}
    BY <1>0 DEF Stored
  <2>3. CASE Query = "SET" /\ x = OK
    <3>0. Base + 1 \in 1 .. Base + 1 /\ asked[Base + 1] = "SET" /\ replies'[Base + 1] = OK
      BY <1>0, <1>4, <2>3
    <3>1. db' = Mine(Base + 1) /\ Base + 1 \in Stored(Base + 1)'
      BY <2>1, <2>3, <3>0, Zenon
    <3>2. db' \in Reply /\ db'.kind = "MINE" /\ db'.of = Base + 1
      BY <1>0, <3>1 DEF Mine, Reply
    <3>3. \A j \in Stored(Base + 1)' : j <= db'.of
      BY <1>0, <2>1, <3>2
    <3> QED
      BY <3>1, <3>2, <3>3 DEF DbInv, Current
  <2>4. CASE ~ (Query = "SET" /\ x = OK)
    <3>0. ~ (asked[Base + 1] = "SET" /\ replies'[Base + 1] = OK)
      BY <1>0, <1>4, <2>4
    <3>2. \A j \in 1 .. Base + 1 : j = Base + 1 \/ (j \in 1 .. Base /\ replies'[j] = replies[j])
      BY <1>0, <1>4
    <3>3. \A j \in 1 .. Base : j \in 1 .. Base + 1 /\ replies'[j] = replies[j]
      BY <1>0, <1>4
    <3>4. {j \in 1 .. Base + 1 : asked[j] = "SET" /\ replies'[j] = OK}
            = {j \in 1 .. Base : asked[j] = "SET" /\ replies[j] = OK}
      BY <3>0, <3>2, <3>3
    <3>1. Stored(Base + 1)' = Stored(Base + 1)
      BY <2>1, <2>2, <3>4, Zenon
    <3> QED
      BY <2>4, <3>1 DEF DbInv, RedisInv, Current
  <2> QED
    BY <2>3, <2>4
<1>14. TakenInv' /\ taken' \in Seq(Byte) /\ shutdown' \in BOOLEAN
  BY DEF RedisInv, TakenInv, TypeInv
<1>15. ~ p'.tx[Response].eof
  BY <1>3 DEF RedisInv, EofInv
<1> QED
  BY <1>2, <1>3, <1>4, <1>6, <1>8, <1>9, <1>12, <1>13, <1>14, <1>15, ResponseRest DEF RedisInv, TypeInv

LEMMA ResponseQueryKept ==
  ASSUME RedisInv, ResponseQuery
  PROVE  RedisInv'
<1>1. At(Response, "got") /\ UNCHANGED << asked, taken, networked >>
  BY DEF ResponseQuery
<1>2. /\ p.need[Response] = 0 /\ taken[1] = Base + 1 /\ Query \in Commands /\ QueryLen # 0
  BY <1>1, QueryRead, RedisAssumption
<1>3. {OK, ERR, NIL, db} \subseteq Reply /\ OK # ERR
  BY DEF RedisInv, DbInv, Reply, OK, ERR, NIL
<1>4. CASE Query = "SHUTDOWN"
  <2>1. ResponseShutdown
    BY <1>2, <1>4 DEF ResponseQuery, Ordinary
  <2> QED
    BY <1>1, <1>4, <2>1, ShutdownKept
<1>5. CASE Query \in Ordinary
  <2>1. ResponseReply
    BY <1>2, <1>5 DEF ResponseQuery, Ordinary
  <2>2. PICK x \in {OK, ERR, NIL, db} :
          /\ Say(x, "replied") /\ UNCHANGED shutdown
          /\ Query \notin {"SET", "GET"} => x = OK
          /\ Query = "SET" => x \in {OK, ERR}
          /\ Query = "GET" => x \in {ERR, NIL, db}
          /\ db' = IF Query = "SET" /\ x = OK THEN Mine(taken[1]) ELSE db
    <3>1. CASE Query \in {"SET", "GET"} /\ Say(ERR, "replied") /\ UNCHANGED db
      BY <1>3, <2>1, <3>1 DEF ResponseReply
    <3>2. CASE Query = "GET" /\ (\E value \in {db, NIL} : Say(value, "replied")) /\ UNCHANGED db
      BY <2>1, <3>2 DEF ResponseReply
    <3>3. CASE Query = "SET" /\ Say(OK, "replied") /\ db' = Mine(taken[1])
      BY <2>1, <3>3 DEF ResponseReply
    <3>4. CASE Query \notin {"SET", "GET"} /\ Say(OK, "replied") /\ UNCHANGED db
      BY <2>1, <3>4 DEF ResponseReply
    <3> QED
      BY <2>1, <3>1, <3>2, <3>3, <3>4 DEF ResponseReply
  <2> QED
    BY <1>1, <1>2, <1>3, <1>5, <2>2, AnswerKept
<1>6. CASE Query \in {"QUIT", "CLOSE"}
  <2>1. Say(OK, "bye") /\ UNCHANGED << db, shutdown >>
    BY <1>2, <1>6 DEF ResponseQuery, Ordinary
  <2> QED
    BY <1>1, <1>3, <1>6, <2>1, AnswerKept
<1> QED
  BY <1>2, <1>4, <1>5, <1>6 DEF Commands, Closing

\* What another connection stores came after every SET acknowledged so far.
LEMMA OthersStoreKept ==
  ASSUME RedisInv, OthersStore
  PROVE  RedisInv'
<1>1. /\ UNCHANGED << p, phase, retry, ended, msg >> /\ UNCHANGED << pc, error, asked, taken >>
      /\ UNCHANGED << replies, networked, shutdown >> /\ db' = Theirs(Base)
  BY DEF OthersStore, vars, svars, Base
<1>2. Base \in Nat /\ taken \in Seq(Byte) /\ replies \in Seq(Reply)
  BY Counts
<1>3. ControlInv'
  BY <1>1 DEF RedisInv, ControlInv, QueueInv, PlaceInv, StartInv, RunInv, PhaseInv, Idle
<1>4. Aside(Request)
  BY <1>1 DEF Aside
<1>5. PendInv' /\ TakenInv' /\ DoneInv' /\ EndInv' /\ ~ p'.tx[Response].eof
  BY <1>1 DEF RedisInv, PendInv, TakenInv, DoneInv, EndInv, EofInv, Pend, Owed, Base, Asked, Over, Answered, Flow
<1>6. \A i : Stored(i)' = Stored(i)
  BY <1>1 DEF Stored
<1>7. RepliesFollowCommands'
  BY <1>1, <1>6 DEF RedisInv, RepliesFollowCommands, Current
<1>8. DbInv'
  <2>1. db' \in Reply /\ db'.kind = "THEIRS" /\ db'.of = Base
    BY <1>1, <1>2 DEF Theirs, Reply
  <2>2. \A j \in Stored(Base + 1)' : j <= db'.of
    BY <1>1, <1>2, <2>1 DEF Stored, Base
  <2> QED
    BY <2>1, <2>2 DEF DbInv, Current
<1>9. /\ DOMAIN pc' = Threads /\ pc'[Request] = pc[Request] /\ error' \in [Threads -> BOOLEAN]
      /\ error'[Request] = error[Request] /\ shutdown' \in BOOLEAN
  BY <1>1 DEF RedisInv, TypeInv
<1> QED
  BY <1>1, <1>2, <1>3, <1>4, <1>5, <1>7, <1>8, <1>9, ResponseRest

----------------------------------------------------------------------------
(* The theorems *)

LEMMA RedisInitKeeps ==
  ASSUME RedisInit
  PROVE  RedisInv
<1>1. /\ Starts(<< Request >>) /\ pc = [t \in Threads |-> "start"] /\ error = [t \in Threads |-> FALSE]
      /\ asked = << >> /\ taken = << >> /\ replies = << >> /\ db \in {NIL, Theirs(0)}
      /\ networked \in BOOLEAN /\ shutdown = FALSE
  BY DEF RedisInit, ResponderInit, Opened
<1>2. /\ << Request >> \in Seq(Threads) /\ << Request >> # << >> /\ DOMAIN << Request >> = {1}
      /\ << Request >>[1] = Request
  BY Pipe
<1>3. /\ QueueInv /\ SleepInv(p, {}) /\ p.run_q = << Request >> /\ p.running = NoThread /\ phase = "execute"
      /\ \A t \in Threads :
           /\ p.status[t] = "RUN" /\ p.op[t] = "NONE" /\ p.need[t] = 0 /\ ~ p.inside[t]
           /\ p.rx[t].data = << >> /\ p.tx[t].data = << >> /\ ~ p.tx[t].eof
           /\ p.run_enq[t] <=> t = Request
  <2>1. \A i, j \in DOMAIN << Request >> : << Request >>[i] = << Request >>[j] => i = j
    BY <1>2
  <2>2. \A t \in Threads : (\E i \in DOMAIN << Request >> : << Request >>[i] = t) <=> t = Request
    BY <1>2
  <2> DEFINE q == << Request >>
  <2>3. q \in Seq(Threads) /\ q # << >> /\ (\A i, j \in DOMAIN q : q[i] = q[j] => i = j) /\ Starts(q)
    BY <1>1, <1>2, <2>1
  <2>4. \A t \in Threads : (\E i \in DOMAIN q : q[i] = t) <=> t = Request
    BY <2>2
  <2> HIDE DEF q
  <2>5. /\ QueueInv /\ SleepInv(p, {}) /\ p.run_q = q /\ p.running = NoThread /\ phase = "execute"
        /\ \A t \in Threads :
             /\ p.status[t] = "RUN" /\ p.op[t] = "NONE" /\ p.need[t] = 0 /\ ~ p.inside[t]
             /\ p.rx[t].data = << >> /\ p.tx[t].data = << >> /\ ~ p.tx[t].eof
             /\ p.run_enq[t] <=> \E i \in DOMAIN q : q[i] = t
    BY <2>3, StartKeeps
  <2> QED
    BY <2>4, <2>5 DEF q
<1>4. \A t \in Threads : pc[t] = "start" /\ ~ error[t]
  BY <1>1
<1>5. PlaceInv
  BY <1>3 DEF PlaceInv, Place
<1>6. StartInv /\ RunInv /\ PhaseInv
  BY <1>3, <1>4, Pipe DEF StartInv, RunInv, PhaseInv, Idle
<1>7. /\ Asked = 0 /\ Base = 0 /\ Len(taken) = 0
  BY <1>1 DEF Asked, Base
<1>8. TypeInv
  <2>1. asked \in Seq(Commands) /\ taken \in Seq(Byte) /\ replies \in Seq(Reply)
    BY <1>1
  <2>2. DOMAIN pc = Threads /\ error \in [Threads -> BOOLEAN]
    BY <1>1
  <2> QED
    BY <1>1, <2>1, <2>2 DEF TypeInv
<1>9. EofInv /\ AskInv
  BY <1>3, <1>4, <1>7, Pipe DEF EofInv, AskInv
<1>10. PendInv
  <2>1. Owed = 0
    BY <1>3, Pipe DEF Owed
  <2>2. Flow(p, Response) = << >> \o << >>
    BY <1>3, Pipe DEF Flow
  <2>3. Flow(p, Response) = << >>
    BY <2>2
  <2>4. Pend = << >> /\ Len(Pend) = 0
    BY <1>4, <2>3, Pipe DEF Pend
  <2>5. (0 - 0) * QueryLen = 0 /\ QueryLen \in Nat
    BY RedisAssumption
  <2>6. Whole(Pend, Owed, Base, Asked)
    BY <1>7, <2>1, <2>4, <2>5 DEF Whole
  <2> QED
    BY <1>4, <1>7, <2>1, <2>5, <2>6, Pipe DEF PendInv
<1>11. TakenInv
  BY <1>7 DEF TakenInv
<1>12. DoneInv /\ EndInv
  BY <1>4, <1>7, Pipe DEF DoneInv, EndInv
<1>13. RepliesFollowCommands
  BY <1>7 DEF RepliesFollowCommands, Base
<1>14. DbInv
  <2>1. Stored(Base + 1) = {}
    BY <1>1, <1>7 DEF Stored
  <2>2. db \in Reply /\ (db = NIL \/ db.kind = "THEIRS")
    BY <1>1 DEF NIL, Theirs, Reply
  <2> QED
    BY <2>1, <2>2 DEF DbInv, Current
<1> QED
  BY <1>3, <1>5, <1>6, <1>8, <1>9, <1>10, <1>11, <1>12, <1>13, <1>14 DEF RedisInv, ControlInv

LEMMA RedisNextKeeps ==
  ASSUME RedisInv, [RedisNext]_all
  PROVE  RedisInv'
<1>1. CASE UNCHANGED all
  <2>1. /\ UNCHANGED << p, phase, retry, ended, msg >> /\ UNCHANGED << pc, error, asked, taken >>
        /\ UNCHANGED << replies, db, networked, shutdown >> /\ UNCHANGED << svars, rvars >>
    BY <1>1 DEF all, vars, svars, rvars
  <2>2. ControlInv'
    BY <2>1 DEF RedisInv, ControlInv, QueueInv, PlaceInv, StartInv, RunInv, PhaseInv, Idle
  <2>3. SameFlows(p, p')
    BY <2>1 DEF SameFlows
  <2> QED
    BY <2>1, <2>2, <2>3, SystemRest DEF RedisInv, EofInv
<1>2. CASE RedisNext
  BY <1>2, AroundKept, CommonKept, RespondKept, RequestLineKept, RequestHeaderKept, RequestArgsKept,
     RequestFlushKept, RequestNextKept, RequestEofKept, RequestHupKept, ResponseStartKept,
     ResponseReadKept, ResponseQueryKept, ResponseFlushKept, ResponseTxCloseKept,
     OthersStoreKept DEF RedisNext
<1> QED
  BY <1>1, <1>2

\* The control, the pipe and the replies stay in order, with rings, queries
\* and pipelines of any size.
THEOREM RedisInvariant == RedisSpec => []RedisInv
<1>1. RedisInit => RedisInv
  BY RedisInitKeeps
<1>2. RedisInv /\ [RedisNext]_all => RedisInv'
  BY RedisNextKeeps
<1> QED
  BY <1>1, <1>2, PTL DEF RedisSpec

\* Every read of the response returns one whole query, the next to answer.
THEOREM RedisQueriesWhole == RedisSpec => []QueriesWhole
<1>1. RedisInv => QueriesWhole
  BY QueryRead DEF QueriesWhole, RedisInv, TakenInv, Base
<1> QED
  BY <1>1, RedisInvariant, PTL

\* Replies answer the commands in order, and no GET returns a value older
\* than the last SET acknowledged before it.
THEOREM RedisRepliesFollow == RedisSpec => []RepliesFollowCommands
<1>1. RedisInv => RepliesFollowCommands
  BY DEF RedisInv
<1> QED
  BY <1>1, RedisInvariant, PTL

\* Where the response may be when nothing runs and it is not polled for: at
\* its end, or asleep on a pipe that holds less than a query, with no
\* command left that it has not answered.
LEMMA IdleAnswered ==
  ASSUME RedisInv, Idle, ~ p.blocked_enq[Response]
  PROVE  /\ p.tx[Response].data = << >>
         /\ \/ p.status[Response] = "END" /\ pc[Response] = "end" /\ ~ p.inside[Response]
            \/ /\ pc[Response] = "got" /\ Asked = Base /\ \A i \in 1 .. Asked : asked[i] \in Ordinary
               /\ \/ p.status[Request] = "WAIT" /\ p.op[Request] = "READ"
                  \/ pc[Request] \in {"loopend", "called"}
<1>0. /\ Good(p) /\ phase # "execute" /\ p.running = NoThread /\ p.run_q = << >> /\ WakeInv(p, {})
      /\ Place(p, pc[Request], Request) /\ Place(p, pc[Response], Response)
  BY Pipe DEF Idle, RedisInv, ControlInv, QueueInv, PhaseInv, PlaceInv, SleepInv
<1>1. \A t \in Threads : ~ p.run_enq[t] /\ p.running # t
  BY <1>0, QueuedMarks, Pipe
<1>2. pc[Request] # "start"
  BY <1>0 DEF RedisInv, ControlInv, StartInv
<1>3. \A t \in Threads : p.status[t] \in {"RUN", "WAIT", "ERR", "END"}
  BY <1>0 DEF Good, IsProcess
<1>4. p.status[Response] \in {"WAIT", "END"} /\ (p.status[Request] \in {"WAIT", "END"} \/ pc[Request] = "called")
  BY <1>1, <1>2, <1>3, Pipe DEF RedisInv, ControlInv, RunInv
<1>5. CASE p.status[Response] = "END"
  BY <1>0, <1>5, Pipe DEF Place, After, Last
<1>6. CASE p.status[Response] = "WAIT"
  <2>1. p.inside[Response] /\ p.op[Response] \in {"READ", "WRITE", "FLUSH"} /\ pc[Response] \in After(Response, p.op[Response])
    BY <1>0, <1>6, Pipe DEF Place, After
  <2>2. p.op[Response] = "READ"
    BY <1>0, <1>6, <2>1, Pipe DEF WakeInv, Waits, Sleeps, Writing
  <2>3. /\ pc[Response] = "got" /\ p.rx[Response].data = << >> /\ p.need[Response] # 0
        /\ p.tx[Response].data = << >>
    BY <1>0, <1>6, <2>1, <2>2, Pipe DEF Place, After
  <2>4. ~ Sleeps(p, Request, Writing)
    BY <1>0, <1>6, <2>2, Pipe DEF WakeInv, Crossed, Sleeps, Reading
  <2>5. /\ p.tx[Request].data = << >> /\ Owed = 0
        /\ \/ p.status[Request] = "WAIT" /\ p.op[Request] = "READ"
           \/ pc[Request] \in {"loopend", "called"}
    <3>1. CASE p.status[Request] = "WAIT"
      <4>1. p.inside[Request] /\ p.op[Request] \in {"READ", "HUP"} /\ pc[Request] \in After(Request, p.op[Request])
        BY <1>0, <2>4, <3>1, Pipe DEF Place, After, Sleeps, Writing
      <4> QED
        BY <1>0, <3>1, <4>1 DEF Place, After, Owed
    <3>2. CASE pc[Request] = "called"
      BY <1>0, <3>2, Pipe DEF Place, After, Owed
    <3>3. CASE p.status[Request] = "END"
      BY <1>0, <3>2, <3>3 DEF Place, Last
    <3> QED
      BY <1>4, <3>1, <3>2, <3>3
  <2>6. /\ Asked \in Nat /\ Base \in Nat /\ Base <= Asked /\ taken \in Seq(Byte) /\ QueryLen \in Nat
        /\ p.need[Response] \in Nat
    BY Counts, Pipe
  <2>7. Flow(p, Response) = << >>
    <3>1. Flow(p, Response) = << >> \o << >>
      BY <2>3, <2>5, Pipe DEF Flow
    <3> QED
      BY <3>1
  <2>8. Pend = taken
    <3>1. Pend = taken \o << >>
      BY <2>3, <2>7 DEF Pend
    <3>2. taken \o << >> = taken
      BY <2>6
    <3> QED
      BY <3>1, <3>2
  <2>9. /\ Whole(taken, 0, Base, Asked) /\ Len(taken) + p.need[Response] = QueryLen
        /\ \A i \in 1 .. Base : asked[i] \in Ordinary
    BY <2>3, <2>5, <2>8 DEF RedisInv, PendInv, Answering
  <2>10. Asked = Base
    <3>1. Len(taken) < QueryLen
      BY <2>3, <2>6, <2>9
    <3> QED
      BY <2>6, <2>9, <3>1, WholeNone
  <2> QED
    BY <2>3, <2>5, <2>9, <2>10
<1> QED
  BY <1>4, <1>5, <1>6

\* When the process is idle and the response waits for nothing but its
\* pipe, every command was answered and the replies have left the ring.
THEOREM RedisAnsweredWhenIdle == RedisSpec => []AnsweredWhenIdle
<1>1. ASSUME RedisInv PROVE AnsweredWhenIdle
  <2> SUFFICES ASSUME Idle, ~ p.blocked_enq[Response], ~ error[Response]
               PROVE  (\A i \in 1 .. Asked : Answered(i)) /\ p.tx[Response].data = << >>
    BY DEF AnsweredWhenIdle
  <2>1. p.tx[Response].data = << >>
    BY <1>1, IdleAnswered
  <2>2. CASE pc[Response] = "end"
    BY <1>1, <2>1, <2>2 DEF RedisInv, DoneInv
  <2>3. CASE Asked = Base /\ \A i \in 1 .. Asked : asked[i] \in Ordinary
    <3>1. Asked \in Nat /\ Base = Asked
      BY <1>1, <2>3, Counts
    <3>2. \A i \in 1 .. Asked : i <= Base
      BY <3>1
    <3>3. \A i \in 1 .. Asked : asked[i] # "SHUTDOWN"
      BY <2>3 DEF Ordinary
    <3> QED
      BY <2>1, <3>2, <3>3 DEF Answered, Base
  <2> QED
    BY <1>1, <2>2, <2>3, IdleAnswered
<1> QED
  BY <1>1, RedisInvariant, PTL

\* A networked process that is gone has closed the client's descriptor, on
\* no reply still in the ring.
THEOREM RedisFreedIsClosed == RedisSpec => []FreedIsClosed
<1>1. ASSUME RedisInv PROVE FreedIsClosed
  <2> SUFFICES ASSUME phase = "freed", networked, ~ error[Request]
               PROVE  ClosedClean
    BY DEF FreedIsClosed
  <2>1. Good(p) /\ Idle /\ p.blocked_q = << >> /\ WakeInv(p, {})
    BY <1>1 DEF Idle, RedisInv, ControlInv, QueueInv, PhaseInv, SleepInv
  <2>2. \A t \in Threads : ~ p.blocked_enq[t]
    BY <2>1, QueuedMarks
  <2>3. /\ p.tx[Response].data = << >>
        /\ \/ p.status[Response] = "END" /\ pc[Response] = "end" /\ ~ p.inside[Response]
           \/ /\ pc[Response] = "got" /\ Asked = Base /\ \A i \in 1 .. Asked : asked[i] \in Ordinary
              /\ \/ p.status[Request] = "WAIT" /\ p.op[Request] = "READ"
                 \/ pc[Request] \in {"loopend", "called"}
    BY <1>1, <2>1, <2>2, Pipe, IdleAnswered
  <2>4. CASE pc[Response] = "end" /\ ~ p.inside[Response]
    BY <1>1, <2>3, <2>4 DEF RedisInv, EndInv, ClosedClean
  <2>5. CASE pc[Response] = "got" /\ \A i \in 1 .. Asked : asked[i] \in Ordinary
    <3>1. ~ (p.status[Request] = "WAIT" /\ p.op[Request] = "READ")
      BY <2>1, <2>2, Pipe DEF WakeInv, Waits, Sleeps, Reading
    <3>2. pc[Request] = "loopend" \/ pc[Request] = "called"
      BY <2>3, <2>5, <3>1
    <3>3. Over
      BY <1>1, <3>2 DEF RedisInv, AskInv
    <3>4. Asked \in 1 .. Asked
      BY <1>1, <3>3, Counts DEF Over
    <3> QED
      BY <2>5, <3>3, <3>4 DEF Over, Ordinary, Closing
  <2> QED
    BY <2>3, <2>4, <2>5
<1> QED
  BY <1>1, RedisInvariant, PTL
=============================================================================
