---------------------------- MODULE MCBackground -----------------------------
(* Small instances, for TLC, of what goes on beside the chats: proactive    *)
(* messages, the queue of the OneBot channel, and the upkeep of the memory. *)
(* One of them runs in a behaviour, the others have nothing to do.          *)
EXTENDS Proactive, OneBotQueue, MemoryMaintenance, TLC

CONSTANTS Slots, Lives, msg, clear, yes, s1, s2

VARIABLE part    \* the part that runs

(* Proactive: the first message is sent in two pieces; quiet hours wrap     *)
(* around midnight and activity suppresses, or the service is switched off. *)
Messages == (0..Slots) \X (1..Lives)
MessageTexts ==
    [x \in Messages |-> IF x = <<1, 1>> THEN <<<<1, 2, 3>>>> ELSE <<<<1>>>>]
PauseEnds == {1}
Posters == {poster}
Configs ==
    {[enabled |-> TRUE,  quietStart |-> 2, quietEnd |-> 0, suppress |-> 1, grace |-> 1],
     [enabled |-> FALSE, quietStart |-> 0, quietEnd |-> 1, suppress |-> 0, grace |-> 1]}

(* OneBotQueue: a message, a command and an approval, each repeatedly once  *)
(* the deduplicator has lost it.                                            *)
Events == {msg, clear, yes}
Kinds == [e \in Events |-> CASE e = clear -> "command" [] e = yes -> "approval" [] OTHER -> "chat"]

(* MemoryMaintenance: two messages in the one session, none in the other,   *)
(* whose chats still interrupt the pass.                                    *)
Rooms == [s \in Sessions |-> IF s = s1 THEN 2 ELSE 0]
-----------------------------------------------------------------------------
(* Proactive messages that are switched off with their service.             *)
Off ==
    /\ now = 0 /\ config = CHOOSE c \in Config : TRUE
    /\ paused = Unset /\ activity = Unset /\ candidate = Unset /\ lastSent = Unset
    /\ slot = 0 /\ tick = NoTick
    /\ stage = "down" /\ life = 1
    /\ SenderInit

(* A part that does not run is stopped, has no events or no turns; then     *)
(* fairness asks nothing of it.                                             *)
BackgroundInit ==
    /\ part \in {"proactive", "queue", "memory"}
    /\ part = "proactive" \/ owner = FALSE
    /\ IF part = "proactive" THEN ProactiveInit ELSE Off
    /\ QueueInit
    /\ MaintenanceInit

BackgroundNext ==
    /\ UNCHANGED part
    /\ \/ /\ part = "proactive" /\ ProactiveNext
          /\ UNCHANGED <<queueVars, maintenanceVars>>
       \/ /\ part = "queue" /\ QueueNext
          /\ UNCHANGED <<proactiveVars, maintenanceVars>>
       \/ /\ part = "memory" /\ MaintenanceNext
          /\ UNCHANGED <<proactiveVars, queueVars>>

backgroundVars == <<part, proactiveVars, queueVars, maintenanceVars>>

BackgroundSpec ==
    /\ BackgroundInit /\ [][BackgroundNext]_backgroundVars
    /\ ProactiveFairness /\ QueueFairness /\ MaintenanceFairness
-----------------------------------------------------------------------------
(* The types of all parts.                                                  *)
BackgroundTypeOK == ProactiveTypeOK /\ QueueTypeOK /\ MaintenanceTypeOK

(* A proactive message reaches the owner at most once from one process,     *)
(* since no send that may have delivered a piece is repeated                *)
(* (_send_with_retries, _post).                                             *)
NothingIsSentTwice == DeliveredOnce /\ SafeMeansNothingSent

(* A send begins only while all that was checked still holds, and is only   *)
(* recorded as sent when it arrived as a whole (check_delivery,             *)
(* mark_sent).                                                              *)
SentAsPlanned == SendsAreWelcome /\ SentHasArrived

(* The messages of an owner are handled in their order, and each once for   *)
(* as long as the deduplicator remembers it (OneBotAdapter.handle_event).   *)
HandledAsSent == HandledInOrder /\ HandledOncePerMemory

(* No accepted event waits forever: a message for a failed timer or lock,   *)
(* an approval for the turn that waits for it (OneBotAdapter).              *)
EventsAreAnswered == NothingIsLost /\ ApprovalsPassBy

(* The memory's checkpoints say what was done: nothing is left out and      *)
(* nothing is merged twice (run_once, extract, summarize).                  *)
MemoryIsComplete == CompletedIsCovered /\ CheckpointsAreTrue

(* The upkeep gives way to every chat, and gets its work done all the same, *)
(* however often it was interrupted (interrupt, run_once).                  *)
YieldsAndEnds == YieldsToChat /\ JobsEnd
=============================================================================
