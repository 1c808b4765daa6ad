--------------------------- MODULE PromptAssembly ---------------------------
(* The messages of a request in their order, and the trimming that makes    *)
(* them fit (personality/compiler.py, PromptCompiler.compile, once the      *)
(* entries of the lorebooks are chosen). A message is its source and, for   *)
(* the history and the blocks put into it, a number.                        *)
EXTENDS Integers, Sequences, FiniteSets, SequencesExt, FiniteSetsExt

CONSTANTS
    Costs,       \* tokens a message of the history may take: a set of numbers
    MaxHistory,  \* bound on the history
    Blocks,      \* numbers of the blocks that are put into the chat
    MaxDepth,    \* bound on their depth
    MaxLimit     \* bound on the tokens a model takes

ASSUME PromptAssumption ==
    /\ MaxHistory \in Nat \ {0} /\ MaxDepth \in Nat /\ MaxLimit \in Nat
    /\ Costs \subseteq Nat /\ Blocks \subseteq Nat

VARIABLES
    history,    \* tokens of the messages of the session, oldest first
    depth,      \* depth of every block
    post,       \* the character has post-history instructions
    ruled,      \* the server adds a constraint: a generation, not a preview
    limit,      \* tokens of a request, 0 when they cannot be counted
    messages,   \* the request so far
    start,      \* where the history begins in it
    inserting,  \* blocks not yet put in
    assembly    \* how far it is

promptVars == <<history, depth, post, ruled, limit, messages, start, inserting, assembly>>
-----------------------------------------------------------------------------
Piece(source, n, cost) == [source |-> source, n |-> n, cost |-> cost]
Kernel == Piece("kernel", 0, 1)
Pinned == <<Kernel, Piece("main", 0, 1), Piece("character", 0, 1)>>
Constraint == Piece("runtime", 0, 1)

PromptTypeOK ==
    /\ history \in BoundedSeq(Costs, MaxHistory)
    /\ depth \in [Blocks -> 0..MaxDepth]
    /\ post \in BOOLEAN
    /\ ruled \in BOOLEAN
    /\ limit \in 0..MaxLimit
    /\ \A k \in DOMAIN messages : messages[k] \in
          [source : {"kernel", "main", "character", "history", "custom", "runtime"},
           n : Nat, cost : Nat]
    /\ start \in Nat
    /\ inserting \subseteq Blocks
    /\ assembly \in {"history", "depth", "post", "trim", "ready", "refused"}

PromptInit ==
    /\ history \in BoundedSeq(Costs, MaxHistory)
    /\ depth \in [Blocks -> 0..MaxDepth]
    /\ post \in BOOLEAN
    /\ ruled \in BOOLEAN
    /\ limit \in 0..MaxLimit
    /\ ruled => history # <<>>
    /\ messages = Pinned
    /\ start = Len(Pinned)
    /\ inserting = Blocks
    /\ assembly = "history"
-----------------------------------------------------------------------------
AddHistory ==
    /\ assembly = "history"
    /\ messages' = messages \o [k \in DOMAIN history |-> Piece("history", k, history[k])]
    /\ assembly' = "depth"
    /\ UNCHANGED <<history, depth, post, ruled, limit, start, inserting>>

(* Blocks are counted from the end, never into what is pinned.              *)
PositionOf(b) == Max({start, Len(messages) - depth[b]})
InsertBlock(b) ==
    /\ assembly = "depth"
    /\ b \in inserting
    /\ \A o \in inserting : depth[b] >= depth[o]
    /\ messages' = InsertAt(messages, PositionOf(b) + 1, Piece("custom", b, 1))
    /\ inserting' = inserting \ {b}
    /\ UNCHANGED <<history, depth, post, ruled, limit, start, assembly>>

(* Post-history instructions, and the constraints of the server last: a     *)
(* generation has at least one, a preview has none.                         *)
AddConstraints ==
    /\ assembly = "depth"
    /\ inserting = {}
    /\ messages' = messages \o (IF post THEN <<Piece("character", 0, 1)>> ELSE <<>>)
                            \o (IF ruled THEN <<Constraint>> ELSE <<>>)
    /\ assembly' = "trim"
    /\ UNCHANGED <<history, depth, post, ruled, limit, start, inserting>>

CountRequest(ms) == MapThenSumSet(LAMBDA k : ms[k].cost, DOMAIN ms)
FitsLimit(ms) == limit = 0 \/ CountRequest(ms) <= limit
Removable == {k \in 1..(Len(messages) - 1) : messages[k].source = "history"}

TrimOldest ==
    /\ assembly = "trim"
    /\ ~FitsLimit(messages)
    /\ Removable # {}
    /\ messages' = RemoveAt(messages, Min(Removable))
    /\ UNCHANGED <<history, depth, post, ruled, limit, start, inserting, assembly>>

EndAssembly ==
    /\ assembly = "trim"
    /\ FitsLimit(messages) \/ Removable = {}
    /\ assembly' = IF FitsLimit(messages) THEN "ready" ELSE "refused"
    /\ UNCHANGED <<history, depth, post, ruled, limit, messages, start, inserting>>

PromptNext ==
    \/ AddHistory
    \/ \E b \in Blocks : InsertBlock(b)
    \/ AddConstraints
    \/ TrimOldest
    \/ EndAssembly

PromptSpec == PromptInit /\ [][PromptNext]_promptVars
-----------------------------------------------------------------------------
Places == {k \in DOMAIN messages : messages[k].source = "history"}

(* What is pinned is first and the constraints of the server are last.      *)
PinsStay ==
    /\ SubSeq(messages, 1, Len(Pinned)) = Pinned
    /\ ruled => messages[Len(messages)] = Constraint

(* The history left is in order, and with a message all newer ones are left *)
(* (compiler.py: the oldest is removed first).                              *)
HistoryIsNewest ==
    /\ \A i, j \in Places : i < j => messages[i].n < messages[j].n
    /\ \A i \in Places :
          /\ messages[i].n \in DOMAIN history
          /\ messages[i].cost = history[messages[i].n]
          /\ \A n \in messages[i].n..Len(history) : \E j \in Places : messages[j].n = n

(* A request that is ready fits; one that is refused has no history left,   *)
(* unless a preview ends with it, which is never taken away.                *)
EndsAsItFits ==
    /\ assembly = "ready" => FitsLimit(messages)
    /\ assembly = "refused" => Places \subseteq {Len(messages)}

(* No more of the history is given up than the limit asks for: with the     *)
(* newest message that was given up the request would not have fitted.      *)
GivenUp == DOMAIN history \ {messages[k].n : k \in Places}
TrimIsForced ==
    GivenUp # {} => limit # 0 /\ CountRequest(messages) + history[Max(GivenUp)] > limit

(* After a block come the newest messages of the history, as many as its    *)
(* depth says, and no others, as far as they are left.                      *)
IsBlock(k, b) == messages[k].source = "custom" /\ messages[k].n = b
DepthsHold ==
    \A b \in Blocks : \E k \in DOMAIN messages :
        /\ IsBlock(k, b)
        /\ \A i \in Places : i > k <=> messages[i].n > Len(history) - depth[b]

(* "Pinned safety kernel ... recent history/depth inserts, post-history     *)
(* instructions, and pinned trusted runtime constraints"                    *)
(* (docs/contracts/personality-prompt.md:22-24): this order holds however   *)
(* the blocks are put in and however much is trimmed.                       *)
PromptKeepsItsShape ==
    assembly \in {"ready", "refused"} =>
        PinsStay /\ HistoryIsNewest /\ EndsAsItFits /\ TrimIsForced /\ DepthsHold
=============================================================================
