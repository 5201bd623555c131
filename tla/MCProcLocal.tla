---------------------------- MODULE MCProcLocal ----------------------------
(* A request coroutine that reads a descriptor and writes into a response  *)
(* coroutine, which writes to a descriptor: the pipeline of vk_http11.c    *)
(* and vk_redis.c.  The runs differ in the operations they let each use.   *)
EXTENDS ProcLocal

CONSTANTS req, resp

Pipeline     == {req, resp}
PipeSource   == [t \in Pipeline |-> IF t = req THEN FD ELSE req]
PipeSink     == [t \in Pipeline |-> IF t = req THEN resp ELSE FD]

Either(reqOps, respOps) == [t \in Pipeline |-> IF t = req THEN reqOps ELSE respOps]

\* Messages over the pipe, each ended by a hup or by the close of the pipe.
HupProgram     == Either({"WRITE", "FLUSH", "HUP", "TX_CLOSE", "CALL", "END"},
                         {"READ", "POLLREAD", "READHUP", "CALL", "END"})
\* Descriptors at both ends; the response copies or forwards.
IoProgram      == Either({"READ", "WRITE", "FLUSH"},
                         {"READ", "WRITE", "FLUSH", "FORWARD"})
\* A reader that keeps reading.
FlowProgram    == Either({"WRITE", "FLUSH"}, {"READ"})

\* What the theorems ask of a program.
ASSUME ProgramAssumption == CopiesIntoPipes /\ ClosesCleanly
=============================================================================
