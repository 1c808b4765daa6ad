------------------------------- MODULE MCChats -------------------------------
(* Small instances, for TLC, of what serves the owner's chats: the requests *)
(* of a session, what is handed to a provider that acts outside a sandbox   *)
(* (the contract alone, so that every answer of a provider is possible),    *)
(* and what is remembered.  One of them runs in a behaviour, the others     *)
(* stay in their initial state.                                             *)
EXTENDS Conversations, Delegation, MemoryFacts, TLC

CONSTANTS r1, r2, r3, s1, c1, t1, t2, a1, a2

VARIABLE part    \* the part that runs

(* Conversations: all requests compete for one session. *)
OneSession == [r \in Request |-> s1]

Symmetry == Permutations(Request) \cup Permutations(Task)
-----------------------------------------------------------------------------
ChatsInit ==
    /\ part \in {"requests", "contract", "memory"}
    /\ ConversationInit
    /\ Init
    /\ FactsInit

ChatsNext ==
    /\ UNCHANGED part
    /\ \/ part = "requests" /\ ConversationNext /\ UNCHANGED <<vars, factsVars>>
       \/ part = "contract" /\ Next /\ UNCHANGED <<conversationVars, factsVars>>
       \/ part = "memory" /\ FactsNext /\ UNCHANGED <<conversationVars, vars>>

chatsVars == <<part, conversationVars, vars, factsVars>>

ChatsSpec == ChatsInit /\ [][ChatsNext]_chatsVars
-----------------------------------------------------------------------------
(* The types of all parts.                                                  *)
ChatsTypeOK == ConversationTypeOK /\ TypeOK /\ FactsTypeOK

(* A request is answered by itself and once: requests of a session are      *)
(* generated one at a time, and none a second time, whatever is submitted   *)
(* again, cancelled or cut off by a crash (ConversationCoordinator.run).    *)
OneReplyEach == Serialized /\ GeneratedOnce

(* What the coordinator remembers is what it is doing: no count, lock or    *)
(* cancellation outlives its task, no open run is without a task, also      *)
(* after a restart, and no task is cancelled before its first step, which   *)
(* would skip its cleanup (produce's finally block, recover, cancel).       *)
BooksAreKept == NothingLeaks /\ OpenRunsAreServed /\ CancelledHasStarted

(* The end of a request is final: an answered cancel has stopped it, no     *)
(* later event replaces the end that is stored, and what the stream showed  *)
(* is what is stored (cancel, _save, run); so is the end of a task          *)
(* (DelegateManager.run, abort, TaskStore.update).                          *)
EndsAreFinal == CancelledIsStopped /\ StoredEndsStay /\ []StreamedIsStored /\ EndsStay

(* What is remembered is shown as it stands: nothing the owner took back    *)
(* before a retrieval began, and neither side of an open conflict           *)
(* (MemoryStore, MemoryRetriever.retrieve).                                 *)
MemoryIsHonest == WithdrawnIsHidden /\ ConflictsAreMarked
=============================================================================
