---------------------------- MODULE MCEchoServers ----------------------------
(* Instances of EchoServers for TLC. *)
EXTENDS EchoServers

\* A buffer of 5 bytes in lesson48 and lesson49, one of 1024 elsewhere.
MCReadSize ==
  [p \in Programs |-> IF p \in {"epoll_lt.c", "epoll_ET.c"} THEN 1 ELSE 4]
=============================================================================
