--------------------------- MODULE MCSocketFdMap ----------------------------
(* SocketFdMap on a few descriptors and one kind per class of handlers.    *)
EXTENDS SocketFdMap, TLC

Symmetry == Permutations(Threads)
=============================================================================
