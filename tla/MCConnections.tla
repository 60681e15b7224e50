--------------------------- MODULE MCConnections ---------------------------
(* A small instance of Connections: two Apps, each on one account, and the *)
(* host form normalizeGheHost does not make bare.                          *)

EXTENDS Connections, TLC

CONSTANTS a1, a2, o1, o2

MCInstalled == {<<a1, o1>>, <<a2, o2>>}
MCHosts == {[scheme |-> TRUE, path |-> TRUE, slashes |-> 2]}
Symmetry == Permutations(Tabs)
=============================================================================
