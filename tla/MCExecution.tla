---------------------------- MODULE MCExecution ----------------------------
(* Small instances, for TLC, of what executes work for a turn: the tasks    *)
(* handed to Codex, and the turn's own rounds of tool calls. One of the two *)
(* runs in a behaviour, the other has nothing to do.                        *)
EXTENDS CodexDelegation, TurnLoop, TLC

CONSTANTS t1, t2, read, find, write, move1, move2, sendA, sendB, a, b

VARIABLE part    \* the part that runs

(* TurnLoop: calls of every kind, and two that compete in a batch.          *)
Calls == {read, find, write, move1, move2, sendA, sendB}
Kinds == [c \in Calls |->
             CASE c = read -> "read" [] c = find -> "find" [] c = write -> "write"
               [] c \in {move1, move2} -> "move" [] OTHER -> "send"]
Paths == [c \in {sendA, sendB} |-> IF c = sendA THEN a ELSE b]
-----------------------------------------------------------------------------
(* A turn that is over.                                                     *)
TurnIsOver ==
    /\ mode = "reply" /\ required = FALSE /\ phase = "done" /\ round = 0
    /\ batch = NoBatch /\ slot = <<>> /\ seen = {}
    /\ found = {} /\ sent = {} /\ fallback = FALSE
    /\ stopping = FALSE
    /\ delivered = [p \in Path |-> 0]

ExecutionInit ==
    /\ part \in {"delegation", "turn"}
    /\ IF part = "turn" THEN TurnInit ELSE TurnIsOver
    /\ CodexInit

ExecutionNext ==
    \/ part = "delegation" /\ CodexNext /\ UNCHANGED <<part, turnVars>>
    \/ part = "turn" /\ TurnNext /\ UNCHANGED <<part, codexVars>>

executionVars == <<part, codexVars, turnVars>>

(* Fairness asks nothing of the part that does not run: without a task and  *)
(* with a turn that is over, none of its actions is enabled.                *)
ExecutionSpec ==
    ExecutionInit /\ [][ExecutionNext]_executionVars /\ Fairness /\ TurnFairness
-----------------------------------------------------------------------------
(* The types of both.                                                       *)
ExecutionTypeOK == CodexTypeOK /\ TurnTypeOK

(* The records of the tasks are true: what is running has its run, what is  *)
(* tried again has stopped before, and what is live can be reached to be    *)
(* aborted (DelegateManager.run, retry_task, CodexAdapter.abort).           *)
RunsAreTracked == RunningIsRun /\ RetriedIsStopped /\ LiveIsReachable

(* A turn's effects happen in the order the model asked for, and none is    *)
(* left running when its turn has ended (ToolBatchScheduler.run).           *)
EffectsAreOrderly == EffectsInOrder /\ BatchWritesAreAwaited

(* Work comes to an end: every run of a task, aborted or not; every request *)
(* to stop one, with an answer, while WhiteNight lives (delegates/          *)
(* manager.py, DelegateManager.abort); and every turn, however the model,   *)
(* the tools and a cancellation answer (agent/service.py:495, eight rounds).*)
WorkIsFinished == RunsEnd /\ StopsAreAnswered /\ TurnEnds
=============================================================================
