--------------------------- MODULE MCConversations ---------------------------
(* Small instances of Conversations for TLC. *)
EXTENDS Conversations, TLC

CONSTANTS r1, r2, r3, s1

(* All requests compete for one session. *)
OneSession == [r \in Request |-> s1]

Symmetry == Permutations(Request) \cup Permutations(Canceller)
=============================================================================
