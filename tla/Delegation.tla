----------------------------- MODULE Delegation ------------------------------
(***************************************************************************)
(* TaskStore and DelegateManager (delegates/manager.py): a task is handed  *)
(* to an executor, attempted again only while nothing of it can have       *)
(* started, stopped on request, and recorded with how it ended.            *)
(*                                                                         *)
(* Everything runs on the event loop and the consumers of run() do not     *)
(* wait between two events, so one action is what happens from one await   *)
(* of the executor, of the pause or of an abort to the next.  The module   *)
(* has two halves.  The manager's half is the code.  The executor's half   *)
(* is what delegates/base.py asks of any DelegateProvider; CodexDelegation *)
(* puts the Codex adapter in its place.  The thread and the artifacts of a *)
(* task are not modelled.                                                  *)
(***************************************************************************)
EXTENDS Naturals

CONSTANTS
    Task, Caller,       \* tasks; callers of the abort endpoint
    None,
    ReadOnlyIsolated, ActionPolicy,     \* DelegateCapabilities
    MaxRetries,         \* max_retries
    MaxCrashes          \* bound: crashes of the process

ASSUME NamesAssumption == Task \cap Caller = {} /\ None \notin Task
ASSUME CapabilitiesAssumption == {ReadOnlyIsolated, ActionPolicy} \subseteq BOOLEAN
ASSUME BoundsAssumption == {MaxRetries, MaxCrashes} \subseteq Nat

VARIABLES
    status, risk,       \* table agent_tasks
    origin,             \* history: the failed task this one retries, or None
    pc,                 \* run(): where the generator of the task waits
    attempts, got,      \* its locals attempts and received_result
    cancelled,          \* its asyncio task was cancelled
    ask,                \* abort(): the task each caller waits for an answer about
    exec,               \* what the current submission has running
    begun,              \* history: executions that began for the task
    crashes

record == <<status, risk, origin>>
runner == <<pc, attempts, got, cancelled>>
executor == <<exec, begun>>
vars == <<record, runner, ask, executor, crashes>>

Terminal == {"succeeded", "failed", "aborted", "awaiting_review"}
Status == {"none", "queued", "running", "cancelling", "cancel_failed"} \cup Terminal
Risk == {"read_only", "write", "batch_delete"}
RunnerPc == {"none", "queued", "submitting", "pausing", "aborting", "over"}
Execution == {"none", "live", "stopped"}

\* abort() is called through the endpoint, and by the run of a task on itself.
Aborter == Caller \cup Task

TypeOK ==
    /\ status \in [Task -> Status]
    /\ risk \in [Task -> Risk]
    /\ origin \in [Task -> Task \cup {None}]
    /\ pc \in [Task -> RunnerPc]
    /\ attempts \in [Task -> 0 .. MaxRetries + 1]
    /\ got \in [Task -> BOOLEAN]
    /\ cancelled \in [Task -> BOOLEAN]
    /\ ask \in [Aborter -> Task \cup {None}]
    /\ exec \in [Task -> Execution]
    /\ begun \in [Task -> Nat]
    /\ crashes \in 0 .. MaxCrashes

Init ==
    /\ status = [t \in Task |-> "none"]
    /\ risk \in [Task -> {"read_only"}]
    /\ origin = [t \in Task |-> None]
    /\ pc = [t \in Task |-> "none"]
    /\ attempts = [t \in Task |-> 0]
    /\ got = [t \in Task |-> FALSE]
    /\ cancelled = [t \in Task |-> FALSE]
    /\ ask = [a \in Aborter |-> None]
    /\ exec = [t \in Task |-> "none"]
    /\ begun = [t \in Task |-> 0]
    /\ crashes = 0

-----------------------------------------------------------------------------
(* TaskStore.update: the status a record takes when it is told another.    *)
FaultNoFailure(old, new) ==
    IF old \in Terminal \/ (old = "cancelling" /\ new # "aborted") THEN old ELSE new

Updated(old, new) ==
    IF \/ old \in Terminal
       \/ old = "cancelling" /\ new \notin {"aborted", "cancel_failed"}
    THEN old ELSE new

Update(t, new) == status' = [status EXCEPT ![t] = Updated(@, new)]
Goes(t, place) == pc' = [pc EXCEPT ![t] = place]
Stopped(t) == status[t] \in {"cancelling", "aborted"}

Permitted(r) ==
    /\ r # "batch_delete"
    /\ (r = "read_only" /\ ReadOnlyIsolated) \/ ActionPolicy

(* The record is created, or taken from the queue, and the first attempt   *)
(* is submitted before anything else runs; or the policy refuses it.       *)
Launch(t, r) ==
    /\ UNCHANGED <<got, cancelled, ask, crashes>>
    /\ IF Permitted(r)
       THEN /\ status' = [status EXCEPT ![t] = "running"]
            /\ Goes(t, "submitting")
            /\ attempts' = [attempts EXCEPT ![t] = 1]
       ELSE /\ status' = [status EXCEPT ![t] = "failed"]
            /\ Goes(t, "over")
            /\ UNCHANGED attempts

(* A chat message is delegated. *)
Delegate(t, r) ==
    /\ status[t] = "none"
    /\ risk' = [risk EXCEPT ![t] = r]
    /\ Launch(t, r)
    /\ UNCHANGED origin

(* POST /tasks/{id}/retry: a new task, run in the background. *)
Retry(t, u) ==
    /\ status[t] = "failed" /\ risk[t] = "read_only"
    /\ status[u] = "none"
    /\ status' = [status EXCEPT ![u] = "queued"]
    /\ risk' = [risk EXCEPT ![u] = risk[t]]
    /\ origin' = [origin EXCEPT ![u] = t]
    /\ Goes(u, "queued")
    /\ UNCHANGED <<attempts, got, cancelled, ask, crashes>>

RunQueued(u) ==
    /\ pc[u] = "queued"
    /\ status[u] = "queued"
    /\ Launch(u, risk[u])
    /\ UNCHANGED <<risk, origin>>

\* Somebody aborted it first: it is not submitted.
RunRefused(u) ==
    /\ pc[u] = "queued"
    /\ status[u] # "queued"
    /\ Goes(u, "over")
    /\ UNCHANGED <<record, attempts, got, cancelled, ask, crashes>>

-----------------------------------------------------------------------------
(* What the loop over provider.submit() does with what it hears.           *)
Hears(t) ==
    /\ pc[t] = "submitting" /\ ~cancelled[t]
    /\ UNCHANGED <<risk, origin, cancelled, ask, crashes>>

\* Progress of any kind.  The submission goes on unless the task is stopped.
HearEvent(t) ==
    /\ Hears(t)
    /\ UNCHANGED <<status, attempts, got>>
    /\ IF Stopped(t) THEN Goes(t, "over") ELSE UNCHANGED pc

HearResult(t) ==
    /\ Hears(t)
    /\ UNCHANGED attempts
    /\ IF Stopped(t)
       THEN Goes(t, "over") /\ UNCHANGED <<status, got>>
       ELSE /\ got' = [got EXCEPT ![t] = TRUE]
            /\ Update(t, "succeeded")
            /\ UNCHANGED pc

\* The stream is at its end.
HearEnd(t) ==
    /\ Hears(t)
    /\ IF got[t] THEN UNCHANGED status ELSE Update(t, "awaiting_review")
    /\ Goes(t, "over")
    /\ UNCHANGED <<attempts, got>>

\* DelegateUnavailableError, and an error after which the outcome is unknown.
HearUnavailable(t) ==
    Hears(t) /\ Update(t, "failed") /\ Goes(t, "over") /\ UNCHANGED <<attempts, got>>

FaultRetryUnknown(t) ==
    /\ Hears(t) /\ UNCHANGED <<status, attempts, got>>
    /\ attempts[t] <= MaxRetries
    /\ Goes(t, "pausing")

HearUnknown(t) ==
    Hears(t) /\ Update(t, "awaiting_review") /\ Goes(t, "over") /\ UNCHANGED <<attempts, got>>

FaultOneMore(t) ==
    /\ Hears(t)
    /\ UNCHANGED <<attempts, got>>
    /\ \/ /\ ~Stopped(t) /\ attempts[t] <= MaxRetries + 1
          /\ Goes(t, "pausing")
          /\ UNCHANGED status
       \/ /\ Stopped(t) \/ attempts[t] > MaxRetries
          /\ Goes(t, "over")
          /\ Update(t, "failed")

\* An error before anything was started: the one that is retried.
HearNotStarted(t) ==
    /\ Hears(t)
    /\ UNCHANGED <<attempts, got>>
    /\ \/ /\ ~Stopped(t) /\ attempts[t] <= MaxRetries
          /\ Goes(t, "pausing")
          /\ UNCHANGED status
       \/ /\ Stopped(t) \/ attempts[t] > MaxRetries
          /\ Goes(t, "over")
          /\ Update(t, "failed")

Resubmit(t) ==
    /\ pc[t] = "pausing"
    /\ attempts' = [attempts EXCEPT ![t] = @ + 1]
    /\ Update(t, "running")
    /\ Goes(t, "submitting")
    /\ got' = [got EXCEPT ![t] = FALSE]
    /\ UNCHANGED <<risk, origin, cancelled, ask, crashes>>

(* The chat that delegated the task is cancelled, once.  In the pause the  *)
(* exception passes every handler of run().                                *)
Cancel(t) ==
    /\ pc[t] \in {"submitting", "pausing"} /\ ~cancelled[t] /\ origin[t] = None
    /\ cancelled' = [cancelled EXCEPT ![t] = TRUE]
    /\ Goes(t, IF pc[t] = "pausing" THEN "over" ELSE "submitting")
    /\ UNCHANGED <<record, attempts, got, ask, crashes>>

-----------------------------------------------------------------------------
(* abort(): for a caller of the endpoint, or for the run itself once the   *)
(* executor let the cancellation through.                                  *)
MayAbort(a, t) ==
    \/ a \in Caller /\ ask[a] = None /\ status[t] # "none"
    \/ a = t /\ pc[t] = "submitting" /\ cancelled[t]

Leaves(a, t) == pc' = [pc EXCEPT ![t] = IF a = t THEN "over" ELSE @]

AbortRefused(a, t) ==
    /\ MayAbort(a, t) /\ status[t] \in Terminal
    /\ Leaves(a, t)
    /\ UNCHANGED <<record, attempts, got, cancelled, ask, crashes>>

AbortAsks(a, t) ==
    /\ MayAbort(a, t) /\ status[t] \notin Terminal
    /\ Update(t, "cancelling")
    /\ ask' = [ask EXCEPT ![a] = t]
    /\ pc' = [pc EXCEPT ![t] = IF a = t THEN "aborting" ELSE @]
    /\ UNCHANGED <<risk, origin, attempts, got, cancelled, crashes>>

Verdict(accepted) == IF accepted THEN "aborted" ELSE "cancel_failed"

\* The executor answers without waiting.
AbortAtOnce(a, t, accepted) ==
    /\ MayAbort(a, t) /\ status[t] \notin Terminal
    /\ Update(t, Verdict(accepted))
    /\ Leaves(a, t)
    /\ UNCHANGED <<risk, origin, attempts, got, cancelled, ask, crashes>>

\* It answers later, or fails to within 15 seconds.
AbortAnswered(a, t, accepted) ==
    /\ ask[a] = t
    /\ ask' = [ask EXCEPT ![a] = None]
    /\ Update(t, Verdict(accepted))
    /\ Leaves(a, t)
    /\ UNCHANGED <<risk, origin, attempts, got, cancelled, crashes>>

\* The cancellation of the run reaches a caller that waits for the same future.
AbortHangsUp(a, t) ==
    /\ a \in Caller /\ ask[a] = t /\ cancelled[t]
    /\ ask' = [ask EXCEPT ![a] = None]
    /\ UNCHANGED <<record, runner, crashes>>

(* The process ends.  Nothing at its next start looks at the tasks. *)
Crash ==
    /\ crashes < MaxCrashes
    /\ crashes' = crashes + 1
    /\ pc' = [t \in Task |-> IF pc[t] = "none" THEN "none" ELSE "over"]
    /\ ask' = [a \in Aborter |-> None]
    /\ UNCHANGED <<record, attempts, got, cancelled>>

-----------------------------------------------------------------------------
(* The executor's half: an execution begins at most once in a submission   *)
(* and may outlive it; an abort is answered TRUE only when none runs, and  *)
(* seals the submission it was asked about.                                *)
Idle == UNCHANGED executor

Begin(t) ==
    /\ pc[t] = "submitting" /\ exec[t] = "none"
    /\ exec' = [exec EXCEPT ![t] = "live"]
    /\ begun' = [begun EXCEPT ![t] = @ + 1]
    /\ UNCHANGED <<record, runner, ask, crashes>>

Stop(t) ==
    /\ exec[t] = "live"
    /\ exec' = [exec EXCEPT ![t] = "stopped"]
    /\ UNCHANGED <<record, runner, ask, begun, crashes>>

Seal(t) ==
    /\ exec' = [exec EXCEPT ![t] = IF pc[t] = "submitting" THEN "stopped" ELSE @]
    /\ UNCHANGED begun

NewSubmission(t) == exec' = [exec EXCEPT ![t] = "none"] /\ UNCHANGED begun

Started(t, r) == (Delegate(t, r) \/ (risk[t] = r /\ RunQueued(t))) /\ Idle
Heard(t) ==
    \/ HearEvent(t) /\ Idle
    \/ HearResult(t) /\ exec[t] # "none" /\ Idle
    \/ HearEnd(t) /\ Idle
    \/ HearUnavailable(t) /\ Idle
    \/ HearUnknown(t) /\ Idle
    \/ HearNotStarted(t) /\ exec[t] = "none" /\ Idle

Aborts(a, t) ==
    \/ AbortRefused(a, t) /\ Idle
    \/ AbortAsks(a, t) /\ Idle
    \/ AbortAtOnce(a, t, FALSE) /\ Idle
    \/ AbortAtOnce(a, t, TRUE) /\ exec[t] # "live" /\ Seal(t)
    \/ AbortAnswered(a, t, FALSE) /\ Idle
    \/ AbortAnswered(a, t, TRUE) /\ exec[t] # "live" /\ Seal(t)
    \/ AbortHangsUp(a, t) /\ Idle

Next ==
    \/ \E t \in Task, r \in Risk : Started(t, r)
    \/ \E t, u \in Task : Retry(t, u) /\ Idle
    \/ \E t \in Task : RunRefused(t) /\ Idle
    \/ \E t \in Task : Heard(t) \/ Begin(t) \/ Stop(t)
    \/ \E t \in Task : Resubmit(t) /\ NewSubmission(t)
    \/ \E t \in Task : Cancel(t) /\ Idle
    \/ \E a \in Aborter, t \in Task : Aborts(a, t)
    \/ Crash /\ Idle

Spec == Init /\ [][Next]_vars
-----------------------------------------------------------------------------
(* Nothing rewrites how a task ended: no late event, result, failure or    *)
(* abort, however they interleave.                                         *)
EndsStay == [][\A t \in Task : status[t] \in Terminal => status'[t] = status[t]]_vars

(* A task stands for at most one execution: work that may have had effects *)
(* is not submitted again under it, and what was asked to retry it is a    *)
(* read-only task that failed.                                             *)
RepeatsAreSafe ==
    \A t \in Task :
        /\ begun[t] <= 1
        /\ origin[t] # None => /\ risk[t] = "read_only"
                               /\ status[origin[t]] = "failed"

(* A task recorded as aborted has nothing running: the record is of a      *)
(* verified stop.                                                          *)
AbortedIsStopped == \A t \in Task : status[t] = "aborted" => exec[t] # "live"

(* While the process lives, a task recorded as queued or running has a run *)
(* that will record its end.                                               *)
RunningIsRun ==
    \A t \in Task :
        crashes = 0 /\ status[t] \in {"queued", "running"} =>
            pc[t] \in {"queued", "submitting", "pausing"}

(* A retry is made of work that stopped: nothing of the task it repeats is *)
(* still running.                                                          *)
RetriedIsStopped ==
    \A t \in Task : origin[t] # None => exec[origin[t]] # "live"

(* A cancelled run whose execution did stop is not recorded as one that    *)
(* failed to stop (docs/contracts/provider-interface.md: "Cancellation     *)
(* distinguishes requested, verified stopped and failed-to-stop states").  *)
StopIsRecorded ==
    [][\A t \in Task :
           cancelled[t] /\ pc[t] = "submitting" /\ pc'[t] = "over" /\ exec[t] = "stopped"
           => status'[t] # "cancel_failed"]_vars
=============================================================================
