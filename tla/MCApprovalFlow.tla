---------------------------- MODULE MCApprovalFlow ----------------------------
(* Small instances of ApprovalFlow for TLC. *)
EXTENDS ApprovalFlow, TLC

CONSTANTS moveA, moveB, write, noteA, noteB, path

(* Two moves compete for one source; a write touches another path; files   *)
(* are created by a tool a session grant can cover.                        *)
Tools ==
    [o \in Op |-> CASE o \in {moveA, moveB} -> "file.move"
                    [] o = write            -> "file.write"
                    [] OTHER                -> "file.create"]
Sources == [o \in Op |-> IF o \in {moveA, moveB} THEN path ELSE None]

Symmetry == Permutations(Caller) \cup Permutations(Decider)
=============================================================================
