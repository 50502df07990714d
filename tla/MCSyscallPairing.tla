-------------------------- MODULE MCSyscallPairing --------------------------
(* SyscallPairing on one ordinary kind and one that never returns.         *)
EXTENDS SyscallPairing, TLC

\* The order of the object files: an enter program before its exit program.
MCPrograms == <<<<"enter", "openat">>, <<"enter", "exit_group">>,
                <<"exit", "openat">>, <<"exit", "exit_group">>>>

\* Threads differ in nothing but their key.
Symmetry == Permutations(Threads)
=============================================================================
