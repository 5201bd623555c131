------------------------------- MODULE MCKern -------------------------------
(* Instances of Kern: which descriptors the first process reads and writes. *)
EXTENDS Kern

CONSTANTS l, o      \* the listening descriptor and standard output

ListenerOnly   == {<< l, NoFD >>}
ListenerOutput == {<< l, o >>}

\* These sockets are apart.
ASSUME ListenerAssumption == SocketsApart
=============================================================================
