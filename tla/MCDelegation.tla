---------------------------- MODULE MCDelegation -----------------------------
(* Small instances for TLC. *)
EXTENDS Delegation, TLC
CONSTANTS t1, t2, a1, a2
Symmetry == Permutations(Task) \cup Permutations(Caller)
=============================================================================
