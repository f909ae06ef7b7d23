----------------------------- MODULE MCTcpDial -----------------------------
(* Small instances of TcpDial for TLC. *)
EXTENDS TcpDial, TLC

CONSTANTS c1, c2

\* Connections are interchangeable; only safety runs use this.
Symmetry == Permutations(Conns)
============================================================================
