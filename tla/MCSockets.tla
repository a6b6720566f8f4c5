-------------------------------- MODULE MCSockets --------------------------------
(* Three packets, one of them without data, over a connection of few bytes. *)
EXTENDS Sockets

TresPaquetes == <<3, 0, 2>>
TresBasuras  == {-1, 0, 2}
================================================================================
