---------------------------- MODULE MCCodexDelegation ----------------------------
(* Small instances for TLC. *)
EXTENDS CodexDelegation, TLC
CONSTANTS t1, t2, a1, a2
Symmetry == Permutations(Task) \cup Permutations(Caller)
=============================================================================
