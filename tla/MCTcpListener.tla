--------------------------- MODULE MCTcpListener ---------------------------
(* Small instances of TcpListener for TLC. *)
EXTENDS TcpListener

CONSTANTS c1, c2

\* Connections are interchangeable; only safety runs use this.
Symmetry == Permutations(Conns)
============================================================================
