----------------------------- MODULE MCConnPool ------------------------------
(* An instance of ConnPool for TLC: three clients that call Get some times    *)
(* each, and a pool of two to four connections with one stream each.           *)
EXTENDS ConnPool, TLC

CONSTANTS c1, c2, c3

MCClients == {c1, c2, c3}

\* The clients are interchangeable, and no property tells them apart.
MCSymmetry == Permutations(MCClients)
==============================================================================
