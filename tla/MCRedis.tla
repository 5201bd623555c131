------------------------------ MODULE MCRedis ------------------------------
(* One connection of the Redis service. *)
EXTENDS Redis

Both         == {Request, Response}
PipeSource   == [t \in Both |-> IF t = Request THEN FD ELSE Request]
PipeSink     == [t \in Both |-> IF t = Request THEN Response ELSE FD]
RedisProgram == [t \in Both |-> {"READ", "WRITE", "FLUSH", "TX_CLOSE", "HUP", "CALL", "END"}]
=============================================================================
