-------------------------- MODULE MCNetworkRecord ---------------------------
(* NetworkRecord with vectors within and beyond MAX_IOVEC_ENTRIES.         *)
EXTENDS NetworkRecord, TLC

MCIovs == {<<1>>, <<1, 1>>}

\* The values are only ever copied and compared.
Symmetry == Permutations(Values)
=============================================================================
