------------------------------ MODULE MCEpoll -------------------------------
(* Instances of Epoll, with the listener's sockets. *)
EXTENDS Epoll

CONSTANTS l      \* the listening descriptor

ListenerOnly == {<< l, NoFD >>}
=============================================================================
