----------------------------- MODULE MCNetwork -----------------------------
(* Small instances of Network for TLC. *)
EXTENDS Network, TLC

CONSTANTS c1, c2, s1, s2, ip1, ip2, name

\* A name written in three ways, and the root.
MCHosts == {Host(name, FALSE, 0), Host(name, TRUE, 0), Host(name, FALSE, 1),
            Host(NoName, FALSE, 0)}

\* Clients, DNS servers and addresses are interchangeable.
Symmetry == Permutations(Clients) \cup Permutations(Servers) \cup Permutations(Ips)
=============================================================================
