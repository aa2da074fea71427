---------------------------- MODULE MCMutationLock ----------------------------
(* Small instances of MutationLock: two threads of one process, or one thread *)
(* in each of two processes.                                                 *)
EXTENDS MutationLock, TLC

CONSTANTS a, b, c, P, Q

\* a and b share a process.
MCProcOfTwo == (a :> P) @@ (b :> P)

\* Alone in a process of its own.
MCProcOfOne == (a :> P) @@ (c :> Q)

MCSymmetry == Permutations(Tokens) \cup Permutations(Ports \ ForeignPorts)
=============================================================================
