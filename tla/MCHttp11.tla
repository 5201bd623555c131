------------------------------ MODULE MCHttp11 ------------------------------
(* One connection of the HTTP service. *)
EXTENDS Http11

Both        == {Request, Response}
PipeSource  == [t \in Both |-> IF t = Request THEN FD ELSE Request]
PipeSink    == [t \in Both |-> IF t = Request THEN Response ELSE FD]
HttpProgram == [t \in Both |-> {"READ", "POLLREAD", "WRITE", "FLUSH", "FORWARD", "TX_CLOSE",
                                "HUP", "READHUP", "CALL", "END"}]
=============================================================================
