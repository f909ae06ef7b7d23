---------------------------- MODULE MCDhcpServer ----------------------------
(* A small instance of DhcpServer for TLC. *)
EXTENDS DhcpServer, TLC

CONSTANTS c1, c2

\* Clients are interchangeable.
Symmetry == Permutations(Clients)
=============================================================================
