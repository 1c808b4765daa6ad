------------------------------ MODULE TurnLoop ------------------------------
(* One turn of the model: rounds of tool calls, each batch run by the       *)
(* ToolBatchScheduler in threads, the file-delivery goal with the sends the *)
(* server adds itself, the direct move of an attachment, approvals that end *)
(* the turn, and a cancellation at any moment (ChatService._generate_reply, *)
(* ToolLoopRunner.continue_reply, ToolBatchScheduler,                       *)
(* FileTaskCoordinator).                                                    *)
EXTENDS Integers, Sequences, FiniteSets

CONSTANTS
    Call,          \* tool name and arguments of a call
    Kind,          \* "read", "find", "write", "move" or "send"
    PathOf,        \* the file a send uploads
    Path,          \* files on disk
    MaxCalls,      \* bound on the calls of one model answer
    MaxRounds,     \* model answers in a turn (8 in the code)
    Concurrency,   \* calls running at a time (4)
    MaxOrchestrated \* files the server sends by itself (20)

ASSUME TurnAssumption ==
    /\ Kind \in [Call -> {"read", "find", "write", "move", "send"}]
    /\ PathOf \in [{c \in Call : Kind[c] = "send"} -> Path]
    /\ {MaxCalls, MaxRounds, Concurrency, MaxOrchestrated} \subseteq Nat \ {0}

VARIABLES
    mode,       \* the first reply to a message, or the one after an approval
    required,   \* the owner asked for files to be delivered
    phase,      \* where the turn is
    round,      \* model answers so far
    batch,      \* the calls last started, and who started them
    slot,       \* how far each of them is
    seen,       \* the calls of earlier batches
    found,      \* discovered_paths
    sent,       \* sent_paths
    fallback,   \* the server's own sends were tried
    stopping,   \* the turn was asked to stop
    delivered   \* uploads per file

turnVars == <<mode, required, phase, round, batch, slot, seen, found, sent,
              fallback, stopping, delivered>>
goal == <<mode, required, fallback>>
-----------------------------------------------------------------------------
Batches == UNION {[1..n -> Call] : n \in 1..MaxCalls}

(* again: the model repeated a send it had made before. *)
StartedBy(who, cs, again) == [by |-> who, calls |-> cs, again |-> again]
NoBatch == StartedBy("nobody", <<>>, FALSE)

(* The outcomes of a call; "ambiguous" is a file.find that is ok and needs  *)
(* the owner's choice.                                                      *)
Outcomes == {"ok", "ambiguous", "failed", "refused", "waiting"}

(* "done" is an answer of the model's loop; "answered" one the server gives *)
(* in its own words before the model is asked, to a message about a move.   *)
Ends == {"done", "answered", "error", "waiting", "clarify", "aborted"}

IsRead(c) == Kind[c] \in {"read", "find"}
AllReads == \A i \in DOMAIN batch.calls : IsRead(batch.calls[i])
AllMoves == \A i \in DOMAIN batch.calls : Kind[batch.calls[i]] = "move"

TurnTypeOK ==
    /\ mode \in {"reply", "continuation"}
    /\ required \in BOOLEAN
    /\ phase \in {"locating", "asking", "moving", "running", "sending"} \cup Ends
    /\ round \in 0..MaxRounds
    /\ batch \in [by : {"nobody", "scheduler", "server", "direct"},
                  calls : {<<>>} \cup Batches, again : BOOLEAN]
    /\ slot \in [DOMAIN batch.calls -> {"queued", "running", "skipped"} \cup Outcomes]
    /\ seen \subseteq Call
    /\ found \subseteq Path
    /\ sent \subseteq Path
    /\ fallback \in BOOLEAN
    /\ stopping \in BOOLEAN
    /\ delivered \in [Path -> Nat]

(* A reply to a message that speaks of moving a file starts at the          *)
(* attachment last received, whether or not it also asks for a delivery.    *)
TurnInit ==
    /\ mode \in {"reply", "continuation"}
    /\ required \in (IF mode = "reply" THEN BOOLEAN ELSE {FALSE})
    /\ phase \in (IF mode = "reply" THEN {"asking", "locating"} ELSE {"asking"})
    /\ batch = NoBatch
    /\ slot = <<>>
    /\ round = 0
    /\ seen = {}
    /\ found = {}
    /\ sent = {}
    /\ fallback = FALSE
    /\ stopping = FALSE
    /\ delivered = [p \in Path |-> 0]
-----------------------------------------------------------------------------
End(how) == phase' = how

(* Fault: one delivered file is enough. *)
FaultIsComplete(paths, done) == done # {}

(* _file_delivery_complete *)
IsComplete(paths, done) == done # {} /\ paths \subseteq done

(* The next question to the model, or the error after the last one. *)
AskAgain ==
    /\ round' = round + 1
    /\ phase' = IF round + 1 = MaxRounds THEN "error" ELSE "asking"

(* The tools the model is offered: files are sent only for a current        *)
(* request of the owner.                                                    *)
Offered(c) == Kind[c] = "send" => required

(* An answer that calls for a tool it was not offered, or, after an         *)
(* approval, for the same call again, ends the turn.                        *)
Repeats(cs) ==
    \/ \E i \in DOMAIN cs : cs[i] \in seen
    \/ \E i, j \in DOMAIN cs : i # j /\ cs[i] = cs[j]

ModelMisbehaves(cs) ==
    /\ phase = "asking" /\ ~stopping
    /\ \/ \E i \in DOMAIN cs : ~Offered(cs[i])
       \/ mode = "continuation" /\ Repeats(cs)
    /\ End("error")
    /\ UNCHANGED <<goal, round, batch, slot, seen, found, sent, stopping, delivered>>

(* The answer's calls, those the turn has made before left out. *)
ModelCalls(cs) ==
    /\ phase = "asking" /\ ~stopping
    /\ \A i \in DOMAIN cs : Offered(cs[i])
    /\ mode = "reply" \/ ~Repeats(cs)
    /\ LET repeated == {i \in DOMAIN cs : cs[i] \in seen \/ \E j \in 1..(i - 1) : cs[j] = cs[i]}
           fresh == DOMAIN cs \ repeated
           again == \E i \in repeated : Kind[cs[i]] = "send"
       IN \E at \in [1..Cardinality(fresh) -> fresh] :
             /\ \A m, n \in DOMAIN at : m < n => at[m] < at[n]   \* in their order
             /\ batch' = StartedBy("scheduler", [n \in DOMAIN at |-> cs[at[n]]], again)
             /\ slot' = [n \in DOMAIN at |-> "queued"]
    /\ seen' = seen \cup {cs[i] : i \in DOMAIN cs}
    /\ phase' = "running"
    /\ UNCHANGED <<goal, round, found, sent, stopping, delivered>>

(* The model only talks: the turn is over, unless files are still to be     *)
(* delivered. Then the server sends what was found itself, once, or asks    *)
(* again.                                                                   *)
ModelStops ==
    /\ phase = "asking" /\ ~stopping
    /\ IF ~required \/ IsComplete(found, sent)
       THEN End("done") /\ UNCHANGED <<round, batch, slot, fallback>>
       ELSE IF found # {} /\ ~fallback /\ Cardinality(found) <= MaxOrchestrated
       THEN \E cs \in Batches :
               /\ Len(cs) = Cardinality(found)
               /\ {cs[i] : i \in DOMAIN cs} = {c \in Call : Kind[c] = "send" /\ PathOf[c] \in found}
               /\ batch' = StartedBy("server", cs, FALSE)
               /\ slot' = [i \in DOMAIN cs |-> "running"]
               /\ fallback' = TRUE
               /\ End("sending")
               /\ UNCHANGED round
       ELSE AskAgain /\ UNCHANGED <<batch, slot, fallback>>
    /\ UNCHANGED <<mode, required, seen, found, sent, stopping, delivered>>

(* The model fails, or its final answer is empty. *)
ModelFails ==
    /\ phase = "asking" /\ ~stopping
    /\ End("error")
    /\ UNCHANGED <<goal, round, batch, slot, seen, found, sent, stopping, delivered>>
-----------------------------------------------------------------------------
(* ToolBatchScheduler.run *)
Ended(i) == slot[i] \in Outcomes \cup {"skipped"}

(* A call that is not ok stops the ones behind it; only a batch of moves    *)
(* prepares all its approvals first.                                        *)
Blocks(i) ==
    /\ slot[i] \notin {"ok", "ambiguous"}
    /\ ~(AllMoves /\ slot[i] = "waiting")

(* Reads run at the same time, a bounded number of them; in a batch with a  *)
(* side effect one call follows the other.                                  *)
StartCall(i) ==
    /\ phase = "running" /\ ~stopping
    /\ slot[i] = "queued"
    /\ IF AllReads THEN Cardinality({j \in DOMAIN slot : slot[j] = "running"}) < Concurrency
       ELSE \A j \in 1..(i - 1) : Ended(j) /\ ~Blocks(j)
    /\ slot' = [slot EXCEPT ![i] = "running"]
    /\ UNCHANGED <<goal, phase, round, batch, seen, found, sent, stopping, delivered>>

(* The call behind one that blocks is refused without being run. *)
RefuseCall(i) ==
    /\ phase = "running" /\ ~stopping
    /\ ~AllReads
    /\ slot[i] = "queued"
    /\ \E j \in 1..(i - 1) : Ended(j) /\ Blocks(j)
    /\ slot' = [slot EXCEPT ![i] = "refused"]
    /\ UNCHANGED <<goal, phase, round, batch, seen, found, sent, stopping, delivered>>

(* What the executor can answer. *)
AnswersTo(c) ==
    CASE Kind[c] = "read" -> {"ok", "failed"}
      [] Kind[c] = "find" -> {"ok", "ambiguous", "failed"}
      [] Kind[c] = "send" -> {"ok", "failed", "refused"}
      [] OTHER -> {"ok", "failed", "refused", "waiting"}

(* A thread ends, also when nobody waits for it any more. *)
ThreadEnds(i) ==
    /\ slot[i] = "running"
    /\ \E answer \in AnswersTo(batch.calls[i]) :
          /\ slot' = [slot EXCEPT ![i] = answer]
          /\ delivered' = IF Kind[batch.calls[i]] = "send" /\ answer = "ok"
                          THEN [delivered EXCEPT ![PathOf[batch.calls[i]]] = @ + 1]
                          ELSE delivered
    /\ UNCHANGED <<goal, phase, round, batch, seen, found, sent, stopping>>

Has(kind, statuses) ==
    \E i \in DOMAIN slot : Kind[batch.calls[i]] = kind /\ slot[i] \in statuses

NowSent ==
    {PathOf[batch.calls[i]] : i \in {j \in DOMAIN slot : Kind[batch.calls[j]] = "send"
                                                         /\ slot[j] = "ok"}}

(* The results of a batch go to the transcript, one for every call; then a  *)
(* failed or repeated send, a choice the owner has to make, an approval or the          *)
(* delivered files end the turn, or the model is asked again.               *)
BatchEnds ==
    /\ phase = "running" /\ ~stopping
    /\ \A i \in DOMAIN slot : Ended(i)
    /\ \E paths \in SUBSET Path :
          /\ Has("find", {"ok", "ambiguous"}) \/ paths = {}
          /\ found' = found \cup paths
    /\ sent' = sent \cup NowSent
    /\ IF required /\ (batch.again \/ Has("send", {"failed", "refused"})) THEN End("error") /\ UNCHANGED round
       ELSE IF required /\ Has("find", {"ambiguous"}) THEN End("clarify") /\ UNCHANGED round
       ELSE IF \E i \in DOMAIN slot : slot[i] = "waiting" THEN End("waiting") /\ UNCHANGED round
       ELSE IF required /\ IsComplete(found', sent') THEN End("done") /\ UNCHANGED round
       ELSE AskAgain
    /\ UNCHANGED <<goal, batch, slot, seen, stopping, delivered>>

(* The server's own sends: all or an error. *)
SendsEnd ==
    /\ phase = "sending" /\ ~stopping
    /\ \A i \in DOMAIN slot : Ended(i)
    /\ sent' = sent \cup NowSent
    /\ IF Has("send", {"failed", "refused"}) THEN End("error") /\ UNCHANGED round
       ELSE IF IsComplete(found, sent') THEN End("done") /\ UNCHANGED round
       ELSE AskAgain
    /\ UNCHANGED <<goal, batch, slot, seen, found, stopping, delivered>>

(* A thread has looked for the destination. An attachment that was not      *)
(* received, or a destination that cannot be used, is the answer; with none *)
(* named the model is asked; else the server starts the move itself.        *)
LocateEnds ==
    /\ phase = "locating" /\ ~stopping
    /\ \/ \E next \in {"answered", "asking", "error"} : End(next) /\ UNCHANGED <<batch, slot>>
       \/ /\ phase' = "moving"
          /\ \E c \in Call : Kind[c] = "move" /\ batch' = StartedBy("direct", <<c>>, FALSE)
          /\ slot' = <<"running">>
    /\ UNCHANGED <<goal, round, seen, found, sent, stopping, delivered>>

(* The direct move answers with what became of it, and a delivery that was  *)
(* asked for in the same message is not tried. An approval that cannot be   *)
(* stored is an error.                                                      *)
MoveEnds ==
    /\ phase = "moving" /\ ~stopping
    /\ slot[1] # "running"
    /\ \E how \in {"error", IF slot[1] = "waiting" THEN "waiting" ELSE "answered"} : End(how)
    /\ UNCHANGED <<goal, round, batch, slot, seen, found, sent, stopping, delivered>>
-----------------------------------------------------------------------------
CancelTurn ==
    /\ phase \notin Ends
    /\ stopping' = TRUE
    /\ UNCHANGED <<goal, phase, round, batch, slot, seen, found, sent, delivered>>

(* Fault: the cancelled batch does not wait for its thread. *)
FaultMayEndAborted == TRUE

(* A cancelled batch with a side effect first drains its thread; of reads   *)
(* the first that ends, or that has not begun, lets the turn go. Nothing    *)
(* drains the server's own sends or the direct move.                        *)
MayEndAborted ==
    IF phase = "running"
    THEN IF AllReads THEN slot = <<>> \/ \E i \in DOMAIN slot : slot[i] # "running"
         ELSE \A i \in DOMAIN slot : slot[i] # "running"
    ELSE TRUE

Abort ==
    /\ stopping
    /\ phase \notin Ends
    /\ MayEndAborted
    /\ End("aborted")
    /\ UNCHANGED <<goal, round, batch, slot, seen, found, sent, stopping, delivered>>
-----------------------------------------------------------------------------
TurnNext ==
    \/ \E cs \in Batches : ModelCalls(cs) \/ ModelMisbehaves(cs)
    \/ ModelStops \/ ModelFails
    \/ \E i \in DOMAIN slot : StartCall(i) \/ RefuseCall(i) \/ ThreadEnds(i)
    \/ BatchEnds \/ SendsEnd \/ LocateEnds \/ MoveEnds \/ CancelTurn \/ Abort

(* The model answers, and threads end. *)
TurnFairness ==
    /\ WF_turnVars(ModelStops \/ ModelFails \/ \E cs \in Batches : ModelCalls(cs))
    /\ WF_turnVars(\E i \in DOMAIN slot : StartCall(i) \/ RefuseCall(i))
    /\ WF_turnVars(\E i \in DOMAIN slot : ThreadEnds(i))
    /\ WF_turnVars(BatchEnds \/ SendsEnd \/ LocateEnds \/ MoveEnds)
    /\ WF_turnVars(Abort)

TurnSpec == TurnInit /\ [][TurnNext]_turnVars
-----------------------------------------------------------------------------
(* Side effects keep their order: when a call of a batch that is not all    *)
(* reads has been run, every call before it had ended, and well, or was a   *)
(* move whose approval is being prepared together with the others.          *)
EffectsInOrder ==
    (batch.by = "scheduler" /\ ~AllReads) =>
        \A j \in DOMAIN slot : slot[j] \in (Outcomes \ {"refused"}) \cup {"running"} =>
            \A i \in 1..(j - 1) : slot[i] \in {"ok", "ambiguous"}
                                  \/ (AllMoves /\ slot[i] = "waiting")

(* A turn that is over left no write of a batch running, however it was     *)
(* cancelled.                                                               *)
BatchWritesAreAwaited ==
    (phase \in Ends /\ batch.by = "scheduler") =>
        \A i \in DOMAIN slot : slot[i] = "running" => IsRead(batch.calls[i])

(* "A file-delivery turn cannot finish until every file found in that turn  *)
(* has a successful channel.file.send result" (docs/PROGRESS.md:240): the   *)
(* turn that reports its files sent has uploaded every file it found and at *)
(* least one. Of a message that asks to send and to move, only the move is  *)
(* done (MoveEnds): such a turn has found and uploaded no file when it is    *)
(* "answered", and what it says is about the move.                          *)
DeliveryIsTrue ==
    /\ (phase = "done" /\ required) =>
          /\ \A p \in found : delivered[p] > 0
          /\ \E p \in Path : delivered[p] > 0
    /\ phase = "answered" =>
          /\ found = {} /\ sent = {}
          /\ \A p \in Path : delivered[p] = 0

(* Every turn comes to an end. *)
TurnEnds == <>(phase \in Ends)
=============================================================================
