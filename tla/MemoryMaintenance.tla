-------------------------- MODULE MemoryMaintenance --------------------------
(* The background upkeep of the memory: one pass at a time takes a queued   *)
(* session, extracts its new messages in batches and merges them into the   *)
(* session's summary, gives way to every chat, and starts again from its    *)
(* checkpoints after an interruption, a failure or a restart, while the     *)
(* owner asks for the same work by hand (memory/maintenance.py,             *)
(* MemoryService, MemoryStore).                                             *)
EXTENDS Integers, Sequences, FiniteSets, FiniteSetsExt, SequencesExt

CONSTANTS
    Sessions,      \* chat sessions
    MaxMessages,   \* bound on the messages of a session
    Room,          \* the same for each session, at most MaxMessages
    ExtractBatch,  \* messages of one extraction (20 in the code)
    SummaryBatch,  \* messages of one merge into the summary (40)
    Threshold,     \* uncovered messages that make a pass summarize (10)
    MaxTurns,      \* bound on the chat turns
    MaxMishaps     \* bound on the requests made by hand, the failures of the
                   \* model and the restarts together

ASSUME MaintenanceAssumption ==
    /\ IsFiniteSet(Sessions)
    /\ Room \in [Sessions -> 0..MaxMessages]
    /\ {MaxMessages, MaxTurns, MaxMishaps} \subseteq Nat
    /\ {ExtractBatch, SummaryBatch, Threshold} \subseteq Nat \ {0}

VARIABLES
    messages,    \* the sequence number of each session's last message
    alive,       \* the sessions not deleted
    jobs,        \* memory_jobs: target, completed and summary sequence, due
    order,       \* the jobs by updated_at, the oldest first
    extracted,   \* memory_extraction_checkpoints
    manuals,     \* requests made by hand so far
    work,        \* what the pass and the manual request are doing
    locks,       \* who holds the extraction and the summary lock of a session
    chat,        \* the turn of each session
    foreground,  \* the number of turns stream_reply is forwarding
    turns,       \* turns so far
    cooling,     \* _idle_until lies in the future
    heard,       \* how often each message's extraction was stored
    told,        \* how often each message was merged into the stored summary
    failures,    \* failures so far
    restarts     \* restarts so far

memoryStore == <<jobs, order, extracted, heard, told>>
mishaps == <<failures, restarts>>
chatState == <<messages, alive, chat, foreground, turns>>
maintenanceVars ==
    <<messages, alive, jobs, order, extracted, manuals, work, locks, chat, foreground,
      turns, cooling, heard, told, failures, restarts>>
-----------------------------------------------------------------------------
Worker == {"pass", "manual"}
Stage == {"extract", "summary"}
Resting == [at |-> "rest"]

(* A worker that wants a lock, and one that holds it and has come to the    *)
(* message after done; it works on the messages it listed at the start.     *)
WaitingJobs(stage, s, upto) == [at |-> "wait", stage |-> stage, session |-> s, upto |-> upto]
Busy(stage, s, upto, done) ==
    [at |-> "busy", stage |-> stage, session |-> s, upto |-> upto, done |-> done]

(* A cancelled pass gets CancelledError at its next step. *)
Cancelled(w) == [at |-> "cancelled", of |-> w]

Works ==
    LET waits == {WaitingJobs(g, s, n) : g \in Stage, s \in Sessions, n \in 0..MaxMessages}
        busy == {Busy(g, s, n, d) : g \in Stage, s \in Sessions, n \in 0..MaxMessages,
                                    d \in 0..MaxMessages}
    IN {Resting} \cup waits \cup busy \cup {Cancelled(w) : w \in waits \cup busy}

Chats == {"none", "begun", "asked", "left begun", "left asked"}

MaintenanceTypeOK ==
    /\ messages \in [Sessions -> 0..MaxMessages]
    /\ alive \subseteq Sessions
    /\ jobs \in [Sessions -> [target : 0..MaxMessages, completed : 0..MaxMessages,
                              summary : 0..MaxMessages, due : BOOLEAN]]
    /\ order \in SetToSeqs(Sessions)
    /\ extracted \in [Sessions -> 0..MaxMessages]
    /\ manuals \in 0..MaxMishaps
    /\ work \in [Worker -> Works]
    /\ locks \in [Sessions -> [Stage -> Worker \cup {"free"}]]
    /\ chat \in [Sessions -> Chats]
    /\ foreground \in 0..Cardinality(Sessions)
    /\ turns \in 0..MaxTurns
    /\ cooling \in BOOLEAN
    /\ heard \in [Sessions -> [1..MaxMessages -> 0..(1 + MaxMishaps)]]
    /\ told \in [Sessions -> [1..MaxMessages -> 0..MaxMessages]]
    /\ failures \in 0..MaxMishaps
    /\ restarts \in 0..MaxMishaps

MaintenanceInit ==
    /\ messages = [s \in Sessions |-> 0]
    /\ alive = Sessions
    /\ jobs = [s \in Sessions |-> [target |-> 0, completed |-> 0, summary |-> 0, due |-> TRUE]]
    /\ order = SetToSeq(Sessions)
    /\ extracted = [s \in Sessions |-> 0]
    /\ manuals = 0
    /\ work = [w \in Worker |-> Resting]
    /\ locks = [s \in Sessions |-> [g \in Stage |-> "free"]]
    /\ chat = [s \in Sessions |-> "none"]
    /\ foreground = 0
    /\ turns = 0
    /\ cooling = FALSE
    /\ heard = [s \in Sessions |-> [m \in 1..MaxMessages |-> 0]]
    /\ told = [s \in Sessions |-> [m \in 1..MaxMessages |-> 0]]
    /\ failures = 0
    /\ restarts = 0
-----------------------------------------------------------------------------
(* The durable job of a session, which becomes the one touched last. *)
Place(s) == CHOOSE i \in DOMAIN order : order[i] = s

Touched(s) == order' = Append(RemoveAt(order, Place(s)), s)

(* queue_maintenance: one job per session, its target the newest message. *)
Queue(s, n) ==
    /\ jobs' = [jobs EXCEPT ![s].target = Max({@, n}), ![s].due = FALSE]
    /\ Touched(s)

(* Fault: completes whatever the job asks for by now. *)
FaultComplete(s, upto) ==
    /\ jobs' = [jobs EXCEPT ![s].completed = Max({@, jobs[s].target}), ![s].due = TRUE]
    /\ Touched(s)

(* complete_maintenance *)
Complete(s, upto) ==
    /\ jobs' = [jobs EXCEPT ![s].completed = Max({@, upto}), ![s].due = TRUE]
    /\ Touched(s)

(* defer_maintenance *)
Defer(s) == jobs' = [jobs EXCEPT ![s].due = FALSE] /\ Touched(s)

IsPending(s) == jobs[s].target > jobs[s].completed

(* pending_maintenance: the due jobs, the one touched longest ago first. *)
IsDue(s) == IsPending(s) /\ jobs[s].due

IsNext(s) == IsDue(s) /\ \A i \in 1..(Place(s) - 1) : ~IsDue(order[i])

(* BecomesDue: next_attempt_at passes. *)
BecomesDue(s) ==
    /\ ~jobs[s].due
    /\ jobs' = [jobs EXCEPT ![s].due = TRUE]
    /\ UNCHANGED <<manuals, chatState, order, extracted, work, locks, cooling, heard, told,
                   mishaps>>
-----------------------------------------------------------------------------
(* Chats. *)

(* interrupt: only the current attempt is cancelled. *)
Interrupt ==
    /\ cooling' = TRUE
    /\ work' = [work EXCEPT !["pass"] =
                   IF @.at \in {"wait", "busy"} THEN Cancelled(@) ELSE @]

(* stream_reply: begin_chat before the turn is made. *)
BeginChat(s) ==
    /\ s \in alive
    /\ chat[s] = "none"
    /\ turns < MaxTurns
    /\ turns' = turns + 1
    /\ chat' = [chat EXCEPT ![s] = "begun"]
    /\ foreground' = foreground + 1
    /\ Interrupt
    /\ UNCHANGED <<manuals, messages, alive, memoryStore, locks, mishaps>>

(* A message of the turn is stored and queued, the owner's and then the     *)
(* answer; add_message raises for a deleted session.                        *)
StoreMessage(s) ==
    /\ s \in alive
    /\ messages[s] < Room[s]
    /\ \/ chat[s] = "begun" /\ chat' = [chat EXCEPT ![s] = "asked"]
       \/ chat[s] = "asked" /\ UNCHANGED chat
       \/ chat[s] = "left begun" /\ chat' = [chat EXCEPT ![s] = "left asked"]
       \/ chat[s] = "left asked" /\ chat' = [chat EXCEPT ![s] = "none"]
    /\ messages' = [messages EXCEPT ![s] = @ + 1]
    /\ Queue(s, messages[s] + 1)
    /\ UNCHANGED <<manuals, alive, foreground, turns, extracted, work, locks, cooling, heard, told,
                   mishaps>>

(* The turn is over, or its client leaves: stream_reply ends the chat       *)
(* without waiting for the turn, which is cancelled and drained later.      *)
EndChat(s) ==
    /\ chat[s] \in {"begun", "asked"}
    /\ chat' \in {[chat EXCEPT ![s] = "none"],
                  [chat EXCEPT ![s] = IF @ = "begun" THEN "left begun" ELSE "left asked"]}
    /\ foreground' = Max({0, foreground - 1})
    /\ cooling' = TRUE
    /\ UNCHANGED <<manuals, messages, alive, turns, memoryStore, work, locks, mishaps>>

TurnDrained(s) ==
    /\ chat[s] \in {"left begun", "left asked"}
    /\ chat' = [chat EXCEPT ![s] = "none"]
    /\ UNCHANGED <<manuals, messages, alive, foreground, turns, memoryStore, work, locks, cooling,
                   mishaps>>

(* _idle_until passes. *)
Cooled ==
    /\ cooling
    /\ cooling' = FALSE
    /\ UNCHANGED <<manuals, chatState, memoryStore, work, locks, mishaps>>

(* DELETE /sessions/{id}: the job and the checkpoints stay. *)
DeleteSession(s) ==
    /\ s \in alive
    /\ alive' = alive \ {s}
    /\ UNCHANGED <<manuals, messages, chat, foreground, turns, memoryStore, work, locks, cooling,
                   mishaps>>
-----------------------------------------------------------------------------
(* The work itself. *)
Checkpoint(stage, s) == IF stage = "extract" THEN extracted[s] ELSE jobs[s].summary

Release(w, s, stage) == locks' = [locks EXCEPT ![s][stage] = "free"]

(* run_once starts with the due job touched longest ago and the messages up *)
(* to its target; a job of a deleted session is done.                       *)
StartPass ==
    /\ work["pass"] = Resting
    /\ foreground = 0 /\ ~cooling
    /\ \E s \in Sessions :
          /\ IsNext(s)
          /\ IF s \in alive
             THEN /\ work' = [work EXCEPT !["pass"] =
                                 WaitingJobs("extract", s, Min({messages[s], jobs[s].target}))]
                  /\ UNCHANGED <<jobs, order>>
             ELSE Complete(s, jobs[s].target) /\ UNCHANGED work
    /\ UNCHANGED <<manuals, chatState, extracted, locks, cooling, heard, told, mishaps>>

(* POST /memory/extract and /sessions/{id}/summarize list the messages      *)
(* before they wait for the lock.                                           *)
StartManual(s, stage) ==
    /\ work["manual"] = Resting
    /\ s \in alive
    /\ messages[s] > 0
    /\ manuals + failures + restarts < MaxMishaps
    /\ manuals' = manuals + 1
    /\ work' = [work EXCEPT !["manual"] = WaitingJobs(stage, s, messages[s])]
    /\ UNCHANGED <<chatState, memoryStore, locks, cooling, mishaps>>

(* The lock is free: the checkpoint is read under it. *)
TakeMemoryLock(w) ==
    /\ work[w].at = "wait"
    /\ LET stage == work[w].stage
           s == work[w].session
       IN /\ locks[s][stage] = "free"
          /\ locks' = [locks EXCEPT ![s][stage] = w]
          /\ work' = [work EXCEPT ![w] = Busy(stage, s, @.upto, Checkpoint(stage, s))]
    /\ UNCHANGED <<manuals, chatState, memoryStore, cooling, mishaps>>

(* The messages a worker stores in its next batch. *)
NextBatch(w) ==
    LET job == work[w]
        size == IF job.stage = "extract" THEN ExtractBatch ELSE SummaryBatch
    IN (job.done + 1)..Min({job.done + size, job.upto})

Counted(count, batch) ==
    [m \in 1..MaxMessages |-> IF m \in batch THEN count[m] + 1 ELSE count[m]]

(* The candidates of a batch are stored, then its checkpoint. *)
StoreExtraction(s, batch) ==
    /\ heard' = [heard EXCEPT ![s] = Counted(@, batch)]
    /\ extracted' = [extracted EXCEPT ![s] = Max({@} \cup batch)]
    /\ UNCHANGED <<jobs, order, told>>

(* set_session_summary: the summary and its checkpoint in one transaction,  *)
(* never over one that covers more. The new summary is made from the old    *)
(* one and the batch.                                                       *)
StoreSummary(s, batch) ==
    /\ \/ /\ jobs[s].summary > Max(batch)
          /\ UNCHANGED <<jobs, order, told>>
       \/ /\ jobs[s].summary <= Max(batch)
          /\ jobs' = [jobs EXCEPT ![s].summary = Max(batch)]
          /\ told' = [told EXCEPT ![s] = Counted(@, batch)]
          /\ Touched(s)
    /\ UNCHANGED <<heard, extracted>>

(* The model answers in full and the batch is stored. *)
StoreBatch(w) ==
    /\ work[w].at = "busy"
    /\ NextBatch(w) # {}
    /\ LET s == work[w].session IN
         IF work[w].stage = "extract" THEN StoreExtraction(s, NextBatch(w))
         ELSE StoreSummary(s, NextBatch(w))
    /\ work' = [work EXCEPT ![w].done = Max(NextBatch(w))]
    /\ UNCHANGED <<manuals, chatState, locks, cooling, mishaps>>

(* All messages are stored. After the extraction a pass summarizes when     *)
(* enough messages are uncovered; then its job is complete.                 *)
FinishStage(w) ==
    /\ work[w].at = "busy"
    /\ NextBatch(w) = {}
    /\ LET job == work[w]
           s == job.session
           summarizes == job.stage = "extract" /\ job.upto - jobs[s].summary >= Threshold
       IN /\ Release(w, s, job.stage)
          /\ work' = [work EXCEPT ![w] =
                         IF w = "pass" /\ summarizes THEN WaitingJobs("summary", s, job.upto)
                         ELSE Resting]
          /\ IF w = "pass" /\ ~summarizes THEN Complete(s, job.upto)
             ELSE UNCHANGED <<jobs, order>>
    /\ UNCHANGED <<manuals, chatState, extracted, cooling, heard, told, mishaps>>

(* The model fails, its answer is incomplete or names sources it was not    *)
(* given: nothing of the batch is kept, and the pass defers its job.        *)
FailBatch(w) ==
    /\ manuals + failures + restarts < MaxMishaps
    /\ work[w].at = "busy"
    /\ NextBatch(w) # {}
    /\ Release(w, work[w].session, work[w].stage)
    /\ work' = [work EXCEPT ![w] = Resting]
    /\ IF w = "pass" THEN Defer(work[w].session) ELSE UNCHANGED <<jobs, order>>
    /\ failures' = failures + 1
    /\ UNCHANGED <<manuals, chatState, extracted, cooling, heard, told, restarts>>

(* Fault: the cancelled pass keeps its lock. *)
FaultDropPass ==
    /\ work["pass"].at = "cancelled"
    /\ work' = [work EXCEPT !["pass"] = Resting]
    /\ UNCHANGED <<manuals, chatState, memoryStore, locks, cooling, mishaps>>

(* The cancelled pass unwinds; its job and the checkpoints stay. *)
DropPass ==
    /\ work["pass"].at = "cancelled"
    /\ LET job == work["pass"].of IN
         IF job.at = "busy" THEN Release("pass", job.session, job.stage) ELSE UNCHANGED locks
    /\ work' = [work EXCEPT !["pass"] = Resting]
    /\ UNCHANGED <<manuals, chatState, memoryStore, cooling, mishaps>>

(* The process ends and starts again, perhaps after a batch's candidates    *)
(* were stored and before its checkpoint was.                               *)
RestartMaintenance ==
    /\ manuals + failures + restarts < MaxMishaps
    /\ restarts' = restarts + 1
    /\ \/ UNCHANGED heard
       \/ \E w \in Worker :
             /\ work[w].at = "busy" /\ work[w].stage = "extract"
             /\ heard' = [heard EXCEPT ![work[w].session] = Counted(@, NextBatch(w))]
    /\ work' = [w \in Worker |-> Resting]
    /\ locks' = [s \in Sessions |-> [g \in Stage |-> "free"]]
    /\ chat' = [s \in Sessions |-> "none"]
    /\ foreground' = 0
    /\ cooling' = FALSE
    /\ UNCHANGED <<manuals, messages, alive, turns, jobs, order, extracted, told, failures>>
-----------------------------------------------------------------------------
WorkStep(w) == TakeMemoryLock(w) \/ StoreBatch(w) \/ FinishStage(w)

MaintenanceNext ==
    \/ \E s \in Sessions :
          \/ BecomesDue(s) \/ BeginChat(s) \/ StoreMessage(s) \/ EndChat(s)
          \/ TurnDrained(s) \/ DeleteSession(s)
          \/ \E g \in Stage : StartManual(s, g)
    \/ Cooled \/ StartPass \/ DropPass \/ RestartMaintenance
    \/ \E w \in Worker : WorkStep(w) \/ FailBatch(w)

MaintenanceSpec == MaintenanceInit /\ [][MaintenanceNext]_maintenanceVars

(* Timers expire, turns end, the runner looks for work every second at the  *)
(* latest, cancellations are delivered and the model answers or fails. The  *)
(* locks are asyncio's, which serve their waiters in order.                 *)
MaintenanceFairness ==
    /\ \A s \in Sessions : WF_maintenanceVars(BecomesDue(s))
                           /\ WF_maintenanceVars(EndChat(s))
                           /\ WF_maintenanceVars(TurnDrained(s))
    /\ WF_maintenanceVars(Cooled)
    /\ WF_maintenanceVars(StartPass)
    /\ WF_maintenanceVars(DropPass)
    /\ \A w \in Worker : WF_maintenanceVars(StoreBatch(w) \/ FinishStage(w))
                         /\ SF_maintenanceVars(TakeMemoryLock(w))
-----------------------------------------------------------------------------
(* What a completed job stands for: every message up to its sequence was    *)
(* extracted, and fewer than Threshold of them are missing in the summary,  *)
(* however chats, manual requests, failures and restarts fell.              *)
CompletedIsCovered ==
    \A s \in alive : /\ jobs[s].completed <= extracted[s]
                     /\ jobs[s].completed - jobs[s].summary < Threshold

(* A checkpoint stands for exactly the messages before it: each was         *)
(* extracted, and again only after a restart cut its batch short, and the   *)
(* summary was made from each of them once.                                 *)
CheckpointsAreTrue ==
    \A s \in Sessions :
        \A m \in 1..MaxMessages :
              /\ told[s][m] = IF m <= jobs[s].summary THEN 1 ELSE 0
              /\ (m <= extracted[s]) => heard[s][m] > 0
              /\ heard[s][m] <= restarts + (IF m <= extracted[s] THEN 1 ELSE 0)

(* The pass gives way: while a chat is in the foreground it starts nothing, *)
(* stores nothing and completes nothing.                                    *)
YieldsToChat ==
    [][foreground > 0 =>
          \/ /\ work'["pass"] = work["pass"]
             /\ \A s \in Sessions : jobs'[s].completed = jobs[s].completed
          \/ work'["pass"].at \in {"rest", "cancelled"} /\ UNCHANGED <<jobs, extracted, told>>
      ]_maintenanceVars

(* Every queued message is taken care of in the end. *)
JobsEnd == []<>(\A s \in Sessions : ~IsPending(s))
=============================================================================
