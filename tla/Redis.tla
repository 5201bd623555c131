------------------------------- MODULE Redis -------------------------------
(***************************************************************************)
(* The Redis service of vk_redis.c on one connection: redis_request reads  *)
(* commands and writes each as one struct redis_query into the pipe;       *)
(* redis_response reads the queries, asks the database and writes replies. *)
(* Every read, write, flush, hup and close below goes through the rings,   *)
(* handlers and queues of ProcLocal.                                       *)
(*                                                                         *)
(* The database is a file that outlives the connection and is shared with  *)
(* all others.  The model has one key of it, and a value is where it came  *)
(* from: the SET of this connection, by the number of its command, or a    *)
(* store by another, by the replies written when it was made.              *)
(***************************************************************************)
EXTENDS Responder

CONSTANTS QueryLen,      \* sizeof(struct redis_query)
          MaxArgs,       \* REDIS_MAX_ARGS
          MaxCommands    \* bound: what one client sends, its end included

ASSUME RedisAssumption ==
  /\ QueryLen \in Nat \ {0} /\ MaxArgs \in Nat \ {0} /\ MaxCommands \in Nat \ {0}
  /\ QueryLen <= MaxLen /\ MaxArgs <= MaxLen

VARIABLES replies,    \* what the response has written, in order
          db,         \* the value of the key in vk_redis.db, NIL if it has none
          networked,  \* the service has a kernel: it was started by vk_server
          shutdown    \* vk_kern_set_shutdown_requested was called

rvars == << replies, db, networked, shutdown >>
all   == << vars, svars, rvars >>

\* A fixed answer (+OK, +PONG, -ERR unknown command), -ERR sqlite, $-1, or a value.
OK        == [kind |-> "OK", of |-> 0]
ERR       == [kind |-> "ERR", of |-> 0]
NIL       == [kind |-> "NIL", of |-> 0]
Mine(i)   == [kind |-> "MINE", of |-> i]
Theirs(k) == [kind |-> "THEIRS", of |-> k]
Reply     == [kind : {"OK", "ERR", "NIL", "MINE", "THEIRS"}, of : Nat]

Ordinary == {"FIXED", "SET", "GET"}          \* FIXED: PING, or a command not known
Closing  == {"QUIT", "SHUTDOWN", "CLOSE"}    \* CLOSE: written at the client's EOF

----------------------------------------------------------------------------
(* redis_request *)

RequestLine ==
  /\ At(Request, "line") /\ Do(Request, "READ", 1, "header")
  /\ UNCHANGED << asked, taken, rvars >>

\* Seeded fault: a read that returns 0 is tried again.
RequestHeaderSpins ==
  /\ At(Request, "header")
  /\ \/ p.need[Request] = 1 /\ Skip(Request, "line")
     \/ p.need[Request] = 0 /\ Throw(Request, "finally")
     \/ /\ p.need[Request] = 0
        /\ \E argc \in 1 .. MaxArgs : Do(Request, "READ", argc, "args")
  /\ UNCHANGED << asked, taken, rvars >>

\* The line is missing, malformed, or announces arguments.
RequestHeader ==
  /\ At(Request, "header")
  /\ \/ p.need[Request] = 1 /\ Skip(Request, "eof")
     \/ p.need[Request] = 0 /\ Throw(Request, "finally")
     \/ /\ p.need[Request] = 0
        /\ \E argc \in 1 .. MaxArgs : Do(Request, "READ", argc, "args")
  /\ UNCHANGED << asked, taken, rvars >>

\* Write a query to the pipe.
Ask(c, l) == asked' = Append(asked, c) /\ Do(Request, "WRITE", QueryLen, l)

\* All arguments were read, and tell what the command is; or EPIPE.
RequestArgs ==
  /\ At(Request, "args")
  /\ \/ Throw(Request, "finally") /\ UNCHANGED asked
     \/ /\ p.need[Request] = 0
        /\ \E c \in (Ordinary \cup Closing) \ {"CLOSE"} :
             (c \in Ordinary => Asked < MaxCommands - 1) /\ Ask(c, "written")
  /\ UNCHANGED << taken, rvars >>

RequestFlush ==
  /\ \/ At(Request, "written")    /\ Do(Request, "FLUSH", 0, "flushed")
     \/ At(Request, "eofwritten") /\ Do(Request, "FLUSH", 0, "hup")
     \/ At(Request, "loopend")    /\ Do(Request, "FLUSH", 0, "finally")
  /\ UNCHANGED << asked, taken, rvars >>

\* Close the pipe after the last command, or go on with the next.
RequestNext ==
  /\ At(Request, "flushed")
  /\ IF asked[Asked] \in Closing
     THEN Do(Request, "TX_CLOSE", 1, "loopend")
     ELSE Skip(Request, IF Pollhup(p, Request) THEN "eof" ELSE "line")
  /\ UNCHANGED << asked, taken, rvars >>

\* Seeded fault: the end is marked on the pipe, but no last query is sent.
RequestEofUntold ==
  At(Request, "eof") /\ Skip(Request, "hup") /\ UNCHANGED << asked, taken, rvars >>

\* The client's stream ended: the responder is told so by a last query.
RequestEof ==
  At(Request, "eof") /\ Ask("CLOSE", "eofwritten") /\ UNCHANGED << taken, rvars >>

RequestHup ==
  /\ At(Request, "hup") /\ Hup(Request) /\ Goto(Request, "loopend")
  /\ UNCHANGED << error, asked, taken, rvars >>

----------------------------------------------------------------------------
(* redis_response *)

\* Opening the database may fail.
ResponseStart ==
  /\ At(Response, "start")
  /\ Throw(Response, "sorry") \/ Skip(Response, "read")
  /\ UNCHANGED << asked, taken, rvars >>

ResponseRead ==
  /\ At(Response, "read") /\ Do(Response, "READ", QueryLen, "got")
  /\ taken' = << >>
  /\ UNCHANGED << asked, rvars >>

\* The query just read.
Query == asked[taken[1]]

\* Only a networked service ends the client's stream before it ends itself.
TxCloseIfNetworked(l) ==
  IF networked THEN Do(Response, "TX_CLOSE", 1, l) ELSE Skip(Response, l)

\* Seeded fault: the responder stops without telling the kernel.
ResponseShutdownForgotten ==
  TxCloseIfNetworked("loopend") /\ UNCHANGED << replies, db, shutdown >>

ResponseShutdown ==
  /\ TxCloseIfNetworked("loopend")
  /\ shutdown' = (shutdown \/ networked)
  /\ UNCHANGED << replies, db >>

\* Write a reply.
Say(reply, l) == replies' = Append(replies, reply) /\ Do(Response, "WRITE", 1, l)

\* Seeded fault: the statement is not stepped before the reply.
ResponseReplyUnstored ==
  /\ \/ Query \in {"SET", "GET"} /\ Say(ERR, "replied")
     \/ Query = "GET" /\ \E value \in {db, NIL} : Say(value, "replied")
     \/ Query # "GET" /\ Say(OK, "replied")
  /\ UNCHANGED << db, shutdown >>

\* Ask the database and write the reply.  A statement may not be prepared,
\* and a SET that is not done stores nothing: both are an error.  A SELECT
\* that returns no row, for whatever reason, is the reply of an absent key.
ResponseReply ==
  /\ \/ Query \in {"SET", "GET"} /\ Say(ERR, "replied") /\ UNCHANGED db
     \/ Query = "GET" /\ (\E value \in {db, NIL} : Say(value, "replied")) /\ UNCHANGED db
     \/ Query = "SET" /\ Say(OK, "replied") /\ db' = Mine(taken[1])
     \/ Query \notin {"SET", "GET"} /\ Say(OK, "replied") /\ UNCHANGED db
  /\ UNCHANGED shutdown

\* A read of nothing ends the loop, a part of a query is EPIPE.
ResponseQuery ==
  /\ At(Response, "got")
  /\ CASE p.need[Response] = 0 /\ Query = "SHUTDOWN" -> ResponseShutdown
       [] p.need[Response] = 0 /\ Query \in Ordinary -> ResponseReply
       [] p.need[Response] = 0 /\ Query \in {"QUIT", "CLOSE"} ->
            Say(OK, "bye") /\ UNCHANGED << db, shutdown >>
       [] p.need[Response] = QueryLen ->
            Skip(Response, "loopend") /\ UNCHANGED << replies, db, shutdown >>
       [] OTHER -> Throw(Response, "sorry") /\ UNCHANGED << replies, db, shutdown >>
  /\ UNCHANGED << asked, taken, networked >>

\* Seeded fault: the last reply is left to the lazy flush of the next read.
ResponseFlushLazily ==
  /\ \/ At(Response, "replied") /\ Do(Response, "FLUSH", 0, "read")
     \/ At(Response, "bye")     /\ Do(Response, "TX_CLOSE", 1, "out")
     \/ At(Response, "loopend") /\ Do(Response, "FLUSH", 0, "out")
     \/ At(Response, "sorry")   /\ Do(Response, "FLUSH", 0, "sorryflushed")
  /\ UNCHANGED << asked, taken, rvars >>

\* nodata is never true of the pipe: only a readhup marks EOF on this side.
ResponseFlush ==
  /\ \/ At(Response, "replied") /\ Do(Response, "FLUSH", 0, "read")
     \/ At(Response, "bye")     /\ Do(Response, "FLUSH", 0, "byeflushed")
     \/ At(Response, "loopend") /\ Do(Response, "FLUSH", 0, "out")
     \/ At(Response, "sorry")   /\ Do(Response, "FLUSH", 0, "sorryflushed")
  /\ UNCHANGED << asked, taken, rvars >>

ResponseTxClose ==
  /\ \/ At(Response, "byeflushed")   /\ TxCloseIfNetworked("loopend")
     \/ At(Response, "out")          /\ TxCloseIfNetworked("end")
     \/ At(Response, "sorryflushed") /\ Do(Response, "TX_CLOSE", 1, "end")
  /\ UNCHANGED << asked, taken, rvars >>

----------------------------------------------------------------------------
\* Another connection of the same file has stored a value by the time the
\* response looks for one; before, nothing tells.  No statement deletes one.
OthersStore ==
  /\ At(Response, "got") /\ p.need[Response] = 0 /\ Query = "GET"
  /\ db # Theirs(Len(replies)) /\ db' = Theirs(Len(replies))
  /\ UNCHANGED << vars, svars, replies, networked, shutdown >>

\* What the file may hold when it is opened: a value from before, or none.
Opened == {NIL, Theirs(0)}

RedisInit ==
  /\ ResponderInit
  /\ replies = << >> /\ db \in Opened /\ networked \in BOOLEAN /\ shutdown = FALSE

RedisNext ==
  \/ Around /\ UNCHANGED rvars
  \/ Common /\ UNCHANGED rvars
  \/ Respond("line") /\ UNCHANGED rvars
  \/ RequestLine \/ RequestHeader \/ RequestArgs \/ RequestFlush
  \/ RequestNext \/ RequestEof \/ RequestHup
  \/ ResponseStart \/ ResponseRead \/ ResponseQuery \/ ResponseFlush \/ ResponseTxClose
  \/ OthersStore

RedisSpec == RedisInit /\ [][RedisNext]_all /\ RunsOn

----------------------------------------------------------------------------
(***************************************************************************)
(* A query is read whole and alone, and always: every read of the response *)
(* returns the units of one command, the one after the last answered,      *)
(* however writes and reads are split.  The response never meets the end   *)
(* of the pipe before the query that closes the connection.                *)
(***************************************************************************)
QueriesWhole ==
  /\ \A i \in 1 .. Len(taken) : taken[i] = taken[1]
  /\ At(Response, "got") => p.need[Response] = 0 /\ taken[1] = Len(replies) + 1

\* The SETs acknowledged before the i-th command.
Stored(i) == {j \in 1 .. i - 1 : asked[j] = "SET" /\ replies[j] = OK}

\* A value no older than the SETs acknowledged before the i-th command.
Current(value, i) ==
  /\ value.kind \in {"MINE", "THEIRS"}
  /\ value.kind = "MINE" => value.of \in Stored(i)
  /\ \A j \in Stored(i) : j <= value.of

(***************************************************************************)
(* Replies answer the commands in order, and the database is read in that  *)
(* order too.  A GET that returns a value returns the one of the last SET  *)
(* acknowledged before it, though both were sent ahead of their replies    *)
(* and so was, perhaps, a further SET; or what another connection stored   *)
(* after that SET, never what it replaced.                                 *)
(***************************************************************************)
RepliesFollowCommands ==
  \A i \in 1 .. Len(replies) :
    /\ asked[i] \notin {"SET", "GET"} => replies[i] = OK
    /\ asked[i] = "SET" => replies[i] \in {OK, ERR}
    /\ asked[i] = "GET" => replies[i] \in {ERR, NIL} \/ Current(replies[i], i)

Answered(i) ==
  IF asked[i] = "SHUTDOWN" THEN networked => shutdown ELSE i <= Len(replies)

(***************************************************************************)
(* No pipelined command is left behind, a trailing SHUTDOWN included: when *)
(* the process is idle and the response is not waiting for its descriptor, *)
(* every command sent to it was answered, the reply has left the ring, and *)
(* the kernel knows of the shutdown.                                       *)
(***************************************************************************)
AnsweredWhenIdle ==
  Idle /\ ~ p.blocked_enq[Response] /\ ~ error[Response]
    => (\A i \in 1 .. Asked : Answered(i)) /\ p.tx[Response].data = << >>

(***************************************************************************)
(* A networked process that is gone has closed its client's descriptor, on *)
(* no reply still in its ring, whichever way out of its loop the response  *)
(* took; unless the request raised.                                        *)
(***************************************************************************)
FreedIsClosed ==
  phase = "freed" /\ networked /\ ~ error[Request] => ClosedClean
=============================================================================
