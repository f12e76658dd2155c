----------------------------- MODULE MCWsFanout -----------------------------
(* Two sockets at one process; events of that process and of another one.    *)
EXTENDS WsFanout, TLC

CONSTANTS near, far
MCHome == [s \in Sockets |-> near]
Swap == Permutations(Sockets) \cup Permutations(Events)
=============================================================================
