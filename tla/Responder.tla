----------------------------- MODULE Responder -----------------------------
(***************************************************************************)
(* A service on one connection as vk_http11.c and vk_redis.c build it: a   *)
(* request coroutine reads the client's descriptor, sets up a responder    *)
(* with vk_responder, and writes what it parsed as whole structures into   *)
(* the virtual pipe to it; the responder reads them and writes to the      *)
(* client's descriptor.  Both are coroutines of ProcLocal.  This module    *)
(* holds what the services share: where each function goes on, raises,     *)
(* the start and the end.                                                  *)
(*                                                                         *)
(* A unit in the pipe carries the number of the request it belongs to.     *)
(***************************************************************************)
EXTENDS ProcLocal

CONSTANTS Request, Response   \* the two coroutines

ASSUME ResponderAssumption ==
  /\ Threads = {Request, Response} /\ Request # Response
  /\ Source[Request] = FD /\ Sink[Request] = Response /\ Sink[Response] = FD

VARIABLES pc,      \* where each coroutine goes on in its function
          error,   \* vk_get_error of each coroutine is set
          asked,   \* the requests written to the pipe, in order
          taken    \* what the response has read of the current one

svars == << pc, error, asked, taken >>

Asked == Len(asked)

At(t, l)   == pc[t] = l /\ Between(t)
Goto(t, l) == pc' = [pc EXCEPT ![t] = l]

\* Begin an operation, and go on at l when it is done.
Do(t, o, n, l) == Begin(t, o, n) /\ Goto(t, l) /\ UNCHANGED error

\* Go on at l without any operation.
Skip(t, l) == Goto(t, l) /\ UNCHANGED << vars, error >>

\* vk_raise out of t's function, to its vk_finally.
Throw(t, l) ==
  /\ p' = Raise(p, t) /\ error' = [error EXCEPT ![t] = TRUE] /\ Goto(t, l)
  /\ UNCHANGED << phase, retry, ended, msg >>

\* The responder is set up, sent the service and so played.
Respond(l) ==
  /\ At(Request, "start") /\ Goto(Request, l)
  /\ p' = EnqueueRun(p, Response)
  /\ UNCHANGED << phase, retry, ended, msg, error, asked, taken >>

RequestCall ==
  /\ At(Request, "finally") /\ Call(Request, Response) /\ Goto(Request, "called")
  /\ UNCHANGED << error, asked, taken >>

\* vk_finally, entered by a raise.
Catch(t) == Finally(t) /\ UNCHANGED svars

\* vk_end; the request is resumed from vk_call before it, if at all.
Ends(t) == At(t, IF t = Request THEN "called" ELSE "end") /\ End(t) /\ UNCHANGED svars

\* A turn of the operation a coroutine is inside of.
Turn(t) ==
  /\ Flush(t) \/ TxClose(t) \/ HupReturns(t) \/ WriteAs(t, Asked) \/ (t = Request /\ Read(t))
  /\ UNCHANGED svars

TurnRead ==
  /\ Read(Response)
  /\ taken' = taken \o SubSeq(p.rx[Response].data, 1, p.need[Response] - p'.need[Response])
  /\ UNCHANGED << pc, error, asked >>

Common ==
  \/ RequestCall \/ TurnRead
  \/ \E t \in Threads : Catch(t) \/ Ends(t) \/ Turn(t)

\* The executor and the poller go on; the client closes its side; a freed
\* process does nothing any more.
Around ==
  \/ System /\ UNCHANGED svars
  \/ FdEnds(Request) /\ UNCHANGED svars
  \/ phase = "freed" /\ UNCHANGED << vars, svars >>

\* The request was played; it sets the response up itself.
ResponderInit ==
  /\ Starts(<< Request >>)
  /\ pc = [t \in Threads |-> "start"] /\ error = [t \in Threads |-> FALSE]
  /\ asked = << >> /\ taken = << >>

----------------------------------------------------------------------------
\* The kernel runs a process it executes on: it does not stop inside
\* vk_proc_execute, where some step other than the client's is always
\* possible (no state but a freed one is a deadlock).
RunsOn == []<>(phase # "execute") \/ []<><< p' # p \/ phase' # phase >>_<< vars, svars >>

(***************************************************************************)
(* The process always gets back to the poller: no order of wake-ups of the *)
(* two coroutines in the last-in first-out run queue spins for ever.       *)
(***************************************************************************)
ReturnsToPoll == phase = "execute" ~> phase # "execute"

\* The client's descriptor was closed, and on no reply still in the ring.
ClosedClean == p.closed[Response] /\ p.tx[Response].data = << >>

(***************************************************************************)
(* The request ends, and with vk_free and vk_deinit pops the responder's   *)
(* blocks off the stack they share, only when the responder has ended:     *)
(* vk_http11.c:427 after vk_call, "Now that the responder has completed,   *)
(* free its thread object".  A raise in the request may leave the          *)
(* responder behind; without one, vk_call must not return early.           *)
(***************************************************************************)
EndsInOrder ==
  p.status[Request] = "END" /\ ~ error[Request] => p.status[Response] = "END"
=============================================================================
