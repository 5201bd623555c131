------------------------------- MODULE Http11 -------------------------------
(***************************************************************************)
(* The HTTP service of vk_http11.c on one connection, with the line,       *)
(* header and chunk macros of vk_rfc.h.  http11_request parses a request,  *)
(* writes it to the pipe as one struct request and forwards its entity     *)
(* behind it; http11_response reads the struct, answers, and forwards the  *)
(* entity back to the client.  Both agree on where an entity ends only     *)
(* through the struct, or through the hup after a chunked one.             *)
(*                                                                         *)
(* A line, a struct and a written literal are one unit each.  In the pipe  *)
(* the struct of request i is the unit i, its entity's units are -i.       *)
(***************************************************************************)
EXTENDS Responder

CONSTANTS MaxBody,       \* bound: the longest entity or chunk
          MaxRequests    \* bound: the requests of one connection

\* A chunk of all that a ring holds is a length that vk_forward takes.
ASSUME HttpAssumption == MaxBody \in 1 .. MaxLen /\ MaxRequests \in Nat \ {0} /\ BufLen <= MaxLen

VARIABLES request,   \* self->request of http11_request
          size,      \* self->chunkhead.size of http11_response
          answered   \* history: how many structs the response has read

hvars == << request, size, answered >>
all   == << vars, svars, hvars >>

\* A client that frames its requests so that both coroutines read them alike:
\* only a method other than GET has an entity, of one kind, and only
\* HTTP/1.1 chunks it.
Framed(r) ==
  /\ r.len > 0 => ~ r.chunked /\ r.method # "GET" /\ r.version \in {"10", "11"}
  /\ r.chunked => r.method # "GET" /\ r.version = "11"

----------------------------------------------------------------------------
(* http11_request *)

\* vk_readrfcline and what follows it: the end of the stream is EPIPE.
Line(l, next) == At(Request, l) /\ Do(Request, "READ", 1, next)
Missing == p.need[Request] > 0 /\ Throw(Request, "finally")

RequestReads ==
  /\ \/ Line("line", "method") \/ Line("header", "field")
     \/ Line("chunk", "chunkhead") \/ Line("trailer", "trailerfield")
  /\ UNCHANGED << asked, taken, hvars >>

\* An empty or malformed line is EINVAL.  HTTP/0.9 has no headers.
RequestMethod ==
  /\ At(Request, "method")
  /\ \/ Missing /\ UNCHANGED request
     \/ p.need[Request] = 0 /\ Throw(Request, "finally") /\ UNCHANGED request
     \/ /\ p.need[Request] = 0
        /\ \E v \in {"09", "10", "11"}, m \in {"GET", "POST"} :
             /\ request' = [version |-> v, method |-> m, len |-> 0, chunked |-> FALSE,
                            close |-> v # "11"]
             /\ Skip(Request, IF v = "09" THEN "write" ELSE "header")
     \/ /\ p.need[Request] = 0
        /\ request' = [version |-> "20", method |-> "PRI", len |-> 0, chunked |-> FALSE,
                       close |-> FALSE]
        /\ Skip(Request, "header")
  /\ UNCHANGED << asked, taken, size, answered >>

\* An empty line, or one without a value, ends the headers.
RequestField ==
  /\ At(Request, "field")
  /\ \/ Missing /\ UNCHANGED request
     \/ /\ p.need[Request] = 0 /\ Framed(request)
        /\ request.close \/ request.method = "PRI" \/ Asked < MaxRequests - 1
        /\ Skip(Request, "write") /\ UNCHANGED request
     \/ /\ p.need[Request] = 0
        /\ \/ \E n \in 0 .. MaxBody : request' = [request EXCEPT !.len = n]
           \/ request' = [request EXCEPT !.chunked = TRUE]
           \/ request' = [request EXCEPT !.close = TRUE]
        /\ Framed(request') /\ Skip(Request, "header")
  /\ UNCHANGED << asked, taken, size, answered >>

RequestWrite ==
  /\ At(Request, "write") /\ Do(Request, "WRITE", 1, "entity")
  /\ asked' = Append(asked, request)
  /\ UNCHANGED << taken, hvars >>

RequestEntity ==
  /\ At(Request, "entity")
  /\ CASE request.len > 0                    -> Do(Request, "FORWARD", request.len, "body")
       [] request.len = 0 /\ request.chunked -> Skip(Request, "chunk")
       [] request.len = 0 /\ ~ request.chunked /\ request.method = "PRI"
                                             -> Do(Request, "READ", 1, "preface")
       [] OTHER                              -> Do(Request, "FLUSH", 0, "next")
  /\ UNCHANGED << asked, taken, hvars >>

RequestBody ==
  /\ \/ At(Request, "body") /\ Missing
     \/ At(Request, "body") /\ p.need[Request] = 0 /\ Do(Request, "FLUSH", 0, "next")
     \/ At(Request, "chunkbody") /\ Missing
     \/ At(Request, "chunkbody") /\ p.need[Request] = 0 /\ Do(Request, "READ", 1, "chunkfoot")
  /\ UNCHANGED << asked, taken, hvars >>

\* A chunk of size 0 is the last; one that does not parse is EPROTO.
RequestChunkhead ==
  /\ At(Request, "chunkhead")
  /\ \/ Missing
     \/ p.need[Request] = 0 /\ Throw(Request, "finally")
     \/ p.need[Request] = 0 /\ Do(Request, "FLUSH", 0, "hup")
     \/ p.need[Request] = 0 /\ \E n \in 1 .. MaxBody : Do(Request, "FORWARD", n, "chunkbody")
  /\ UNCHANGED << asked, taken, hvars >>

RequestChunkfoot ==
  /\ At(Request, "chunkfoot")
  /\ Missing \/ Throw(Request, "finally") \/ (p.need[Request] = 0 /\ Skip(Request, "chunk"))
  /\ UNCHANGED << asked, taken, hvars >>

\* Seeded fault: the end of the chunks is not marked on the pipe.
RequestHupForgotten ==
  At(Request, "hup") /\ Skip(Request, "trailer") /\ UNCHANGED << asked, taken, hvars >>

\* vk_hup, after its flush.
RequestHup ==
  /\ At(Request, "hup") /\ Hup(Request) /\ Goto(Request, "trailer")
  /\ UNCHANGED << error, asked, taken, hvars >>

RequestTrailer ==
  /\ At(Request, "trailerfield")
  /\ \/ Missing
     \/ p.need[Request] = 0 /\ \E l \in {"trailer", "next"} : Skip(Request, l)
  /\ UNCHANGED << asked, taken, hvars >>

\* HTTP/2: a second line after the preface always ends in an error.
RequestPreface ==
  /\ \/ At(Request, "preface") /\ p.need[Request] = 1 /\ Skip(Request, "loopend")
     \/ At(Request, "preface") /\ p.need[Request] = 0 /\ Throw(Request, "finally")
     \/ At(Request, "preface") /\ p.need[Request] = 0 /\ Do(Request, "READ", 1, "preface2")
     \/ At(Request, "preface2") /\ p.need[Request] = 1 /\ Skip(Request, "next")
     \/ At(Request, "preface2") /\ p.need[Request] = 0 /\ Throw(Request, "finally")
  /\ UNCHANGED << asked, taken, hvars >>

RequestNext ==
  /\ \/ /\ At(Request, "next")
        /\ Skip(Request, IF Pollhup(p, Request) \/ request.close THEN "loopend" ELSE "line")
     \/ At(Request, "loopend") /\ Do(Request, "FLUSH", 0, "finally")
  /\ UNCHANGED << asked, taken, hvars >>

----------------------------------------------------------------------------
(* http11_response *)

Answering == asked[taken[1]]

ResponseRead ==
  /\ At(Response, "start") \/ At(Response, "read")
  /\ Do(Response, "READ", 1, "got")
  /\ taken' = << >> /\ UNCHANGED << asked, hvars >>

\* The status line and headers.
ResponseGot ==
  /\ At(Response, "got")
  /\ IF p.need[Response] > 0
     THEN Throw(Response, "sorry") /\ UNCHANGED answered
     ELSE Do(Response, "WRITE", 1, "headed") /\ answered' = answered + 1
  /\ UNCHANGED << asked, taken, request, size >>

\* The body: a greeting, the chunks or the entity sent back, or nothing.
ResponseHeaded ==
  /\ At(Response, "headed")
  /\ LET r == Answering
     IN CASE r.version = "09"                           -> Skip(Response, "done")
          [] r.version # "09" /\ r.method = "GET"       -> Do(Response, "WRITE", 1, "done")
          [] r.method # "GET" /\ r.len > 0              -> Do(Response, "FORWARD", r.len, "sent")
          [] r.method # "GET" /\ r.chunked /\ r.version = "11" -> Skip(Response, "chunks")
          [] OTHER                                      -> Skip(Response, "done")
  /\ UNCHANGED << asked, taken, hvars >>

ResponseSent ==
  /\ At(Response, "sent")
  /\ IF p.need[Response] > 0 THEN Throw(Response, "sorry") ELSE Skip(Response, "done")
  /\ UNCHANGED << asked, taken, hvars >>

\* Seeded fault: the loop ends at an empty ring.
ResponseChunksEmpty ==
  /\ At(Response, "chunks")
  /\ IF p.rx[Response].data = << >>
     THEN Do(Response, "WRITE", 1, "done") /\ UNCHANGED << asked, taken, hvars >>
     ELSE Do(Response, "POLLREAD", 1, "polled") /\ UNCHANGED << asked, taken, hvars >>

\* while (!vk_pollhup()), then vk_readhup and the last chunk.
ResponseChunks ==
  \/ /\ At(Response, "chunks") /\ ~ Pollhup(p, Response)
     /\ Do(Response, "POLLREAD", 1, "polled")
     /\ UNCHANGED << asked, taken, hvars >>
  \/ /\ At(Response, "chunks") /\ Pollhup(p, Response)
     /\ Readhup(Response) /\ Goto(Response, "lastchunk")
     /\ UNCHANGED << error, asked, taken, hvars >>
  \/ /\ At(Response, "lastchunk") /\ Do(Response, "WRITE", 1, "done")
     /\ UNCHANGED << asked, taken, hvars >>

\* What there is to read becomes a chunk; its size is sent first.
ResponsePolled ==
  /\ At(Response, "polled")
  /\ size' = Len(p.rx[Response].data)
  /\ IF size' = 0 THEN Skip(Response, "chunks") ELSE Do(Response, "WRITE", 1, "chunkhead")
  /\ UNCHANGED << asked, taken, request, answered >>

ResponseChunk ==
  /\ \/ At(Response, "chunkhead") /\ Do(Response, "FORWARD", size, "chunkbody")
     \/ /\ At(Response, "chunkbody")
        /\ IF p.need[Response] > 0 THEN Throw(Response, "sorry")
                                   ELSE Do(Response, "WRITE", 1, "chunks")
  /\ UNCHANGED << asked, taken, hvars >>

\* Seeded fault: the lazy flush is trusted before the close, too.
ResponseDoneUnflushed ==
  /\ \/ At(Response, "done") /\ ~ Answering.close /\ Skip(Response, "read")
     \/ At(Response, "done") /\ Answering.close /\ Do(Response, "TX_CLOSE", 1, "end")
  /\ UNCHANGED << asked, taken, hvars >>

\* The ways out: flush and close; after a raise, an error page before that.
LastSteps == {<< "flushed", "TX_CLOSE", 1, "end" >>,
              << "sorry", "WRITE", 1, "page" >>, << "page", "FLUSH", 0, "flushed" >>}

\* Replies are flushed when a read blocks, or before the close.
ResponseDone ==
  /\ \/ At(Response, "done") /\ ~ Answering.close /\ Skip(Response, "read")
     \/ At(Response, "done") /\ Answering.close /\ Do(Response, "FLUSH", 0, "flushed")
     \/ \E s \in LastSteps : At(Response, s[1]) /\ Do(Response, s[2], s[3], s[4])
  /\ UNCHANGED << asked, taken, hvars >>

----------------------------------------------------------------------------
\* A turn of a forward, or of the response's pollread.
Forwards ==
  /\ ForwardAs(Request, - Asked) \/ ForwardAs(Response, 0) \/ Pollread(Response)
  /\ UNCHANGED svars

NoRequest == [version |-> "09", method |-> "GET", len |-> 0, chunked |-> FALSE, close |-> TRUE]

HttpInit == ResponderInit /\ request = NoRequest /\ size = 0 /\ answered = 0

HttpNext ==
  \/ (Around \/ Common \/ Forwards \/ Respond("line")) /\ UNCHANGED hvars
  \/ RequestReads \/ RequestMethod \/ RequestField \/ RequestWrite \/ RequestEntity
  \/ RequestBody \/ RequestChunkhead \/ RequestChunkfoot \/ RequestHup
  \/ RequestTrailer \/ RequestPreface \/ RequestNext
  \/ ResponseRead \/ ResponseGot \/ ResponseHeaded \/ ResponseSent \/ ResponseChunks
  \/ ResponsePolled \/ ResponseChunk \/ ResponseDone

HttpSpec == HttpInit /\ [][HttpNext]_all
----------------------------------------------------------------------------
\* What is in the pipe and was not yet read by the response.
Stream == p.rx[Response].data \o p.tx[Request].data

(***************************************************************************)
(* The two coroutines never disagree on where a request's entity ends: the *)
(* response reads a struct only where one was written, in order, and what  *)
(* it forwards is the entity of the request it is answering, whatever the  *)
(* order the pieces of several pipelined requests cross the rings in.      *)
(***************************************************************************)
FramingAgrees ==
  /\ pc[Response] \in {"start", "read", "got"} /\ Stream # << >> /\ taken = << >>
       => Stream[1] = answered + 1
  /\ At(Response, "got") /\ p.need[Response] = 0 => taken = << answered + 1 >>
  /\ p.op[Response] = "FORWARD" /\ p.inside[Response]
       => \A i \in 1 .. Smaller(p.need[Response], Len(Stream)) : Stream[i] = - answered

\* Request i was received whole.  (One with a fixed entity is due only by a
\* later one: its forward may fail to wake the reader, see the README.)
Due(i) ==
  /\ asked[i].len = 0
  /\ i < Asked \/ (pc[Request] \in {"method", "field", "called"} /\ ~ error[Request])

(***************************************************************************)
(* Lazy flushing loses no reply: when the process is idle and the response *)
(* is not waiting for its descriptor, every request received whole was     *)
(* answered and its reply has left the ring.                               *)
(***************************************************************************)
AnsweredWhenIdle ==
  Idle /\ ~ p.blocked_enq[Response]
    => /\ \A i \in 1 .. Asked : Due(i) => i <= answered
       /\ WaitsIn(Response, {"READ", "POLLREAD"}) => p.tx[Response].data = << >>

(***************************************************************************)
(* The responder never meets the end of the pipe inside a struct or an     *)
(* entity: no request, and no end of the client's stream, makes it raise.  *)
(***************************************************************************)
ResponderNeverRaises == ~ error[Response]

(***************************************************************************)
(* A connection whose last request asked for it is closed: a process that  *)
(* is gone after such a request has closed the client's descriptor, on no  *)
(* reply that the lazy flush has left in the ring.                         *)
(***************************************************************************)
ClosingIsClosed ==
  phase = "freed" /\ pc[Request] = "called" /\ ~ error[Request] /\ request.close
    => ClosedClean
=============================================================================
