----------------------------- MODULE MCTcpServer -----------------------------
(* A small instance of TcpServer. *)
EXTENDS TcpServer

CONSTANTS a, b

MCClients == {a, b}
MCLengths == {1, 3}
=============================================================================
