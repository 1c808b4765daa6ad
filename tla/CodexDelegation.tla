--------------------------- MODULE CodexDelegation ---------------------------
(***************************************************************************)
(* The delegate manager with the Codex adapter (delegates/codex.py).  A    *)
(* submission starts a process of its own, waits for its handshake, calls  *)
(* its tool and closes it, whatever happened.  An abort finds the client   *)
(* of the task, waits for a start that is under way, and closes the        *)
(* process.  The manager's half is that of Delegation; exec is here the    *)
(* process of the task.                                                    *)
(***************************************************************************)
EXTENDS Delegation

VARIABLES
    client,     \* the task has an entry in _clients
    start,      \* the task in _starts: CodexMcpClient.start()
    at,         \* where the generator submit() waits
    why         \* what its cleanup ends with

adapter == <<client, start, at, why>>
codexVars == <<vars, adapter>>

StartState == {"none", "spawning", "shaking", "ok", "missing", "broken", "cancelled"}
StartEnds == {"ok", "missing", "broken", "cancelled"}
SubmitPc == {"out", "starting", "calling", "closing"}
Reason == {"none", "end", "unavailable", "unknown", "cancelled", "dropped"}

CodexTypeOK ==
    /\ TypeOK
    /\ client \in [Task -> BOOLEAN]
    /\ start \in [Task -> StartState]
    /\ at \in [Task -> SubmitPc]
    /\ why \in [Task -> Reason]

CodexInit ==
    /\ Init
    /\ client = [t \in Task |-> FALSE]
    /\ start = [t \in Task |-> "none"]
    /\ at = [t \in Task |-> "out"]
    /\ why = [t \in Task |-> "none"]

At(t, place) == at' = [at EXCEPT ![t] = place]
Because(t, reason) == why' = [why EXCEPT ![t] = reason]

-----------------------------------------------------------------------------
(* submit() enters: the client is known before anything is waited for.     *)
Enter(t) ==
    /\ client' = [client EXCEPT ![t] = TRUE]
    /\ start' = [start EXCEPT ![t] = "spawning"]
    /\ At(t, "starting")
    /\ UNCHANGED why

\* A task is submitted once: no error of the adapter says that nothing started.
Submit(t) ==
    /\ RunQueued(t) \/ \E r \in Risk : Delegate(t, r)
    /\ Idle
    /\ IF pc'[t] = "submitting" THEN Enter(t) ELSE UNCHANGED adapter

(* start(), a task of its own: the process, then the handshake. *)
Spawn(t) ==
    /\ start[t] = "spawning"
    /\ exec' = [exec EXCEPT ![t] = "live"]
    /\ begun' = [begun EXCEPT ![t] = @ + 1]
    /\ start' = [start EXCEPT ![t] = "shaking"]
    /\ UNCHANGED <<record, runner, ask, crashes, client, at, why>>

SpawnFails(t) ==
    /\ start[t] = "spawning"
    /\ \E how \in {"missing", "broken"} : start' = [start EXCEPT ![t] = how]
    /\ UNCHANGED <<vars, client, at, why>>

Shake(t) ==
    /\ start[t] = "shaking"
    /\ \/ exec[t] = "live" /\ start' = [start EXCEPT ![t] = "ok"]
       \/ start' = [start EXCEPT ![t] = "broken"]
    /\ UNCHANGED <<vars, client, at, why>>

(* A manager that returns drops the generator, which is closed later.      *)
Onward(t, place) ==
    IF pc'[t] = "over"
    THEN At(t, "closing") /\ Because(t, "dropped")
    ELSE IF place = "closing" THEN At(t, "closing") /\ Because(t, "end")
    ELSE At(t, place) /\ UNCHANGED why

StartedEvent(t) ==
    /\ at[t] = "starting" /\ start[t] = "ok"
    /\ HearEvent(t) /\ Idle
    /\ Onward(t, "calling")
    /\ UNCHANGED <<client, start>>

StartFailure(t) == IF start[t] = "missing" THEN "unavailable" ELSE "unknown"

FaultReason(t) ==
    /\ at[t] = "starting" /\ ~cancelled[t] /\ exec[t] # "none"
    /\ start[t] \in {"missing", "broken"}
    /\ At(t, "closing") /\ Because(t, start[t])
    /\ UNCHANGED <<vars, client, start>>

StartFailed(t) ==
    /\ at[t] = "starting" /\ ~cancelled[t] /\ exec[t] # "none"
    /\ start[t] \in {"missing", "broken"}
    /\ At(t, "closing") /\ Because(t, StartFailure(t))
    /\ UNCHANGED <<vars, client, start>>

\* There is no process: nothing is left to wait for.
NothingStarted(t) ==
    /\ at[t] = "starting" /\ exec[t] = "none"
    /\ \/ start[t] = "missing" /\ HearUnavailable(t)
       \/ start[t] = "broken" /\ HearUnknown(t)
    /\ Idle
    /\ client' = [client EXCEPT ![t] = FALSE]
    /\ At(t, "out")
    /\ UNCHANGED <<start, why>>

(* The tool's answer, which may have been read before the process died.    *)
ResultEvent(t) ==
    /\ at[t] = "calling"
    /\ HearResult(t) /\ Idle
    /\ Onward(t, "closing")
    /\ UNCHANGED <<client, start>>

\* It reports an error, takes too long or dies.
CallFails(t) ==
    /\ at[t] = "calling" /\ ~cancelled[t]
    /\ At(t, "closing")
    /\ \E reason \in {"unavailable", "unknown"} : Because(t, reason)
    /\ UNCHANGED <<vars, client, start>>

(* The process ends by itself or by the signals of close(). *)
Exit(t) == Stop(t) /\ UNCHANGED adapter

-----------------------------------------------------------------------------
\* The cancelled run aborts its task, whose client is gone.
AbortsItself(t) == AbortRefused(t, t) \/ AbortAtOnce(t, t, FALSE)

(* The cleanup of submit() is through: the process is gone, the client is  *)
(* forgotten, and the manager hears how it ended.                          *)
Told(t) ==
    \/ why[t] = "end" /\ HearEnd(t)
    \/ why[t] = "unavailable" /\ HearUnavailable(t)
    \/ why[t] = "unknown" /\ HearUnknown(t)
    \/ why[t] = "cancelled" /\ AbortsItself(t)
    \/ why[t] = "dropped" /\ UNCHANGED <<record, runner, ask, crashes>>

FaultClosed(t) ==
    /\ at[t] = "closing"
    /\ Told(t) /\ Idle
    /\ client' = [client EXCEPT ![t] = FALSE]
    /\ At(t, "out")
    /\ UNCHANGED <<start, why>>

Closed(t) ==
    /\ at[t] = "closing" /\ exec[t] # "live"
    /\ Told(t) /\ Idle
    /\ client' = [client EXCEPT ![t] = FALSE]
    /\ At(t, "out")
    /\ UNCHANGED <<start, why>>

(* The chat is cancelled while submit() waits: for its start, which is     *)
(* cancelled with it, or for the tool.                                     *)
CancelSubmit(t) ==
    /\ at[t] \in {"starting", "calling"}
    /\ Cancel(t) /\ Idle
    /\ At(t, "closing") /\ Because(t, "cancelled")
    /\ start' = [start EXCEPT ![t] = IF @ \in StartEnds THEN @ ELSE "cancelled"]
    /\ UNCHANGED client

(* It is cancelled while submit() closes: the rest of the cleanup is lost, *)
(* and the client stays where an abort finds it.                           *)
CancelClose(t) ==
    /\ at[t] = "closing" /\ why[t] # "dropped" /\ exec[t] # "none"
    /\ Cancel(t) /\ Idle
    /\ At(t, "out") /\ Because(t, "cancelled")
    /\ UNCHANGED <<client, start>>

-----------------------------------------------------------------------------
(* CodexAdapter.abort().  Without a client the answer is no, at once.      *)
FaultNoClient(a, t) ==
    /\ a = t => at[t] = "out"
    /\ \/ AbortRefused(a, t)
       \/ ~client[t] /\ AbortAtOnce(a, t, TRUE)
       \/ client[t] /\ AbortAsks(a, t)
    /\ Idle /\ UNCHANGED adapter

AbortTask(a, t) ==
    /\ a = t => at[t] = "out"
    /\ \/ AbortRefused(a, t)
       \/ ~client[t] /\ AbortAtOnce(a, t, FALSE)
       \/ client[t] /\ AbortAsks(a, t)
    /\ Idle /\ UNCHANGED adapter

FaultAbortCloses(a, t) ==
    /\ exec[t] # "live"
    /\ AbortAnswered(a, t, TRUE) /\ Seal(t)
    /\ UNCHANGED adapter

AbortCloses(a, t) ==
    /\ start[t] \in StartEnds \ {"cancelled"}
    /\ exec[t] # "live"
    /\ AbortAnswered(a, t, TRUE) /\ Seal(t)
    /\ UNCHANGED adapter

AbortTimesOut(a, t) == AbortAnswered(a, t, FALSE) /\ Idle /\ UNCHANGED adapter

\* The start it waits for was cancelled with the run.
AbortCancelled(a, t) ==
    start[t] = "cancelled" /\ AbortHangsUp(a, t) /\ Idle /\ UNCHANGED adapter

CodexCrash ==
    /\ Crash /\ Idle
    /\ client' = [t \in Task |-> FALSE]
    /\ start' = [t \in Task |-> IF start[t] \in {"spawning", "shaking"} THEN "broken" ELSE start[t]]
    /\ at' = [t \in Task |-> "out"]
    /\ UNCHANGED why

StartSteps(t) == Spawn(t) \/ SpawnFails(t) \/ Shake(t)
Resumes(t) ==
    \/ StartedEvent(t) \/ StartFailed(t) \/ NothingStarted(t)
    \/ ResultEvent(t) \/ CallFails(t) \/ Closed(t)
Answers(a, t) == AbortCloses(a, t) \/ AbortTimesOut(a, t) \/ AbortCancelled(a, t)

CodexNext ==
    \/ \E t \in Task : Submit(t) \/ StartSteps(t) \/ Resumes(t) \/ Exit(t)
    \/ \E t, u \in Task : Retry(t, u) /\ Idle /\ UNCHANGED adapter
    \/ \E t \in Task : RunRefused(t) /\ Idle /\ UNCHANGED adapter
    \/ \E t \in Task : CancelSubmit(t) \/ CancelClose(t)
    \/ \E a \in Aborter, t \in Task : AbortTask(a, t) \/ Answers(a, t)
    \/ CodexCrash

CodexSpec == CodexInit /\ [][CodexNext]_codexVars

(* The event loop runs what is ready; a start and a call of the tool have  *)
(* timeouts, and close() kills the process it has asked to end.            *)
Fairness ==
    \A t \in Task :
        /\ WF_codexVars(Submit(t) /\ pc[t] = "queued")
        /\ WF_codexVars(RunRefused(t) /\ Idle /\ UNCHANGED adapter)
        /\ WF_codexVars(StartSteps(t))
        /\ WF_codexVars(Resumes(t))
        /\ WF_codexVars(at[t] = "closing" /\ Exit(t))
        /\ WF_codexVars(AbortTask(t, t))
        /\ \A a \in Aborter : WF_codexVars(Answers(a, t))

FairSpec == CodexSpec /\ Fairness

(* The manager with the Codex adapter is a manager with an executor that   *)
(* keeps the promises of DelegateProvider: an abort is answered TRUE only  *)
(* when nothing of the task runs or can still start.                       *)
MeetsContract == Spec

(* A process the adapter started can be reached by an abort until it has   *)
(* ended, unless WhiteNight itself ended before it.                        *)
LiveIsReachable == \A t \in Task : crashes = 0 /\ exec[t] = "live" => client[t]

(* Every run comes to its end, aborted or not.                             *)
RunsEnd ==
    \A t \in Task : pc[t] \in {"queued", "submitting", "aborting"} ~> pc[t] = "over"

(* No task stays cancelling while WhiteNight lives: a request to stop is   *)
(* answered either way.                                                    *)
StopsAreAnswered ==
    \A t \in Task :
        status[t] = "cancelling" ~> status[t] # "cancelling" \/ crashes > 0
=============================================================================
