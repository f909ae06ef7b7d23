--------------------------- MODULE MCUdpListener ---------------------------
(* Small instances of UdpListener for TLC. *)
EXTENDS UdpListener

CONSTANTS p1, p2, c1, c2, c3

\* Peers and connection objects are interchangeable; only safety runs use this.
Symmetry == Permutations(Peers) \cup Permutations(Conns)
============================================================================
