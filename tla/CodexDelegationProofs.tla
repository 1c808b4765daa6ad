------------------------ MODULE CodexDelegationProofs ------------------------
(* Theorems about CodexDelegation: the Codex adapter keeps the protocol    *)
(* the manager relies on, and a task recorded as aborted has no process.   *)
EXTENDS CodexDelegation, DelegationProofs

(* Where the process, its start and the generator of a task stand: a       *)
(* process there is none of before its start has made it, and a start      *)
(* under way has a run waiting for it; a run that aborts its task waits    *)
(* for nothing else.                                                       *)
Placed(t) ==
    /\ status[t] = "none" => pc[t] = "none"
    /\ status[t] = "none" \/ pc[t] = "queued" => start[t] = "none" /\ ~cancelled[t]
    /\ start[t] = "none" => at[t] = "out"
    /\ start[t] \in {"none", "spawning"} => exec[t] = "none"
    /\ start[t] \in {"shaking", "ok"} => exec[t] # "none"
    /\ start[t] = "spawning" => at[t] = "starting"
    /\ at[t] \in {"starting", "calling"} => pc[t] = "submitting" /\ ~cancelled[t]
    /\ at[t] = "calling" => exec[t] # "none"
    /\ ask[t] # None => ask[t] = t /\ pc[t] = "aborting"

CInv == IInv /\ CodexTypeOK /\ \A t \in Task : Placed(t)

LEMMA CodexInitCInv == CodexInit => CInv
BY InitIInv
   DEF CodexInit, Aborter, CInv, CodexTypeOK, IInv, Placed, StartState,
       SubmitPc, Reason, Init

-----------------------------------------------------------------------------
(* Every step of the adapter is a step of an executor, or none.            *)
LEMMA StartedIsNext ==
    ASSUME CInv, NEW t \in Task, Submit(t)
    PROVE  Next
<1>1. risk[t] \in Risk
  BY DEF CInv, IInv, TypeOK
<1>2. QED
  BY <1>1 DEF Submit, Next, Started

LEMMA StartStepsAreNext ==
    ASSUME CInv, NEW t \in Task, StartSteps(t)
    PROVE  Next \/ UNCHANGED vars
<1>1. CASE Spawn(t)
  BY <1>1 DEF Spawn, Next, Begin, CInv, Placed
<1>2. CASE SpawnFails(t) \/ Shake(t)
  BY <1>2 DEF SpawnFails, Shake
<1>3. QED
  BY <1>1, <1>2 DEF StartSteps

LEMMA ResumesIsNext ==
    ASSUME CInv, NEW t \in Task, Resumes(t)
    PROVE  Next \/ UNCHANGED vars
<1>1. CASE StartedEvent(t)
  BY <1>1 DEF StartedEvent, Next, Heard
<1>2. CASE StartFailed(t) \/ CallFails(t)
  BY <1>2 DEF StartFailed, CallFails
<1>3. CASE NothingStarted(t)
  BY <1>3 DEF NothingStarted, Next, Heard
<1>4. CASE ResultEvent(t)
  BY <1>4 DEF ResultEvent, Next, Heard, CInv, Placed
<1>5. CASE Closed(t)
  <2>1. t \in Aborter
    BY DEF Aborter
  <2>2. CASE why[t] = "dropped"
    BY <1>5, <2>2 DEF Closed, Told, Idle, vars
  <2>3. CASE why[t] = "cancelled"
    BY <1>5, <2>1, <2>3 DEF Closed, Told, AbortsItself, Next, Aborts
  <2>4. CASE why[t] \notin {"dropped", "cancelled"}
    BY <1>5, <2>4 DEF Closed, Told, Next, Heard
  <2>5. QED
    BY <2>2, <2>3, <2>4
<1>6. QED
  BY <1>1, <1>2, <1>3, <1>4, <1>5 DEF Resumes

LEMMA AbortsAreNext ==
    ASSUME NEW a \in Aborter, NEW t \in Task, AbortTask(a, t) \/ Answers(a, t)
    PROVE  Next
BY DEF AbortTask, Answers, AbortCloses, AbortTimesOut, AbortCancelled, Next, Aborts

LEMMA CodexIsNext ==
    CInv /\ [CodexNext]_codexVars => [Next]_vars
<1>1. ASSUME CInv, NEW t \in Task, Exit(t) \/ CancelSubmit(t) \/ CancelClose(t)
      PROVE  Next
  BY <1>1 DEF Exit, CancelSubmit, CancelClose, Next
<1>2. ASSUME CodexCrash
      PROVE  Next
  BY <1>2 DEF CodexCrash, Next
<1>3. ASSUME NEW t \in Task, NEW u \in Task, Retry(t, u) /\ Idle
      PROVE  Next
  BY <1>3 DEF Next
<1>4. ASSUME NEW t \in Task, RunRefused(t) /\ Idle
      PROVE  Next
  BY <1>4 DEF Next
<1>5. UNCHANGED codexVars => UNCHANGED vars
  BY DEF codexVars
<1>6. QED
  BY <1>1, <1>2, <1>3, <1>4, <1>5, StartedIsNext, StartStepsAreNext, ResumesIsNext, AbortsAreNext
     DEF CodexNext

-----------------------------------------------------------------------------
Local ==
    /\ client \in [Task -> BOOLEAN]
    /\ start \in [Task -> StartState]
    /\ at \in [Task -> SubmitPc]
    /\ why \in [Task -> Reason]
    /\ \A t \in Task : Placed(t)

\* The parts of the invariant are visible in each of the lemmas that follow.
USE DEF Local, CInv, IInv, TypeOK, CodexTypeOK, Placed
USE DEF StartState, SubmitPc, Reason, Status, RunnerPc, Execution, Terminal

LEMMA SubmitLocal ==
    ASSUME CInv, NEW t \in Task, Submit(t)
    PROVE  Local'
<1>1. /\ start[t] = "none" /\ at[t] = "out" /\ exec[t] = "none" /\ ask[t] = None
      /\ cancelled' = cancelled /\ ask' = ask /\ exec' = exec
  BY DEF Submit, Delegate, RunQueued, Launch, Idle, executor
<1>2. ~cancelled[t]
  BY DEF Submit, Delegate, RunQueued
<1>3. \/ /\ status' = [status EXCEPT ![t] = "running"]
         /\ pc' = [pc EXCEPT ![t] = "submitting"]
      \/ /\ status' = [status EXCEPT ![t] = "failed"]
         /\ pc' = [pc EXCEPT ![t] = "over"]
  BY DEF Submit, Delegate, RunQueued, Launch, Goes
<1>4. pc'[t] \in {"submitting", "over"}
  BY <1>3
<1>5. CASE pc'[t] = "submitting"
  <2>1. /\ status' = [status EXCEPT ![t] = "running"]
        /\ pc' = [pc EXCEPT ![t] = "submitting"]
    BY <1>3, <1>5 DEF CInv, IInv, TypeOK
  <2>2. /\ client' = [client EXCEPT ![t] = TRUE]
        /\ start' = [start EXCEPT ![t] = "spawning"]
        /\ at' = [at EXCEPT ![t] = "starting"]
        /\ why' = why
    BY <1>5 DEF Submit, Enter, At
  <2>3. QED
    BY <1>1, <1>2, <2>1, <2>2 DEF Aborter
<1>6. CASE pc'[t] = "over"
  BY <1>1, <1>3, <1>6 DEF Submit, adapter, Aborter
<1>7. QED
  BY <1>4, <1>5, <1>6

LEMMA SpawnLocal ==
    ASSUME CInv, NEW t \in Task, Spawn(t)
    PROVE  Local'
BY NamesAssumption DEF Aborter, Spawn, record, runner

LEMMA SpawnFailsLocal ==
    ASSUME CInv, NEW t \in Task, SpawnFails(t)
    PROVE  Local'
BY NamesAssumption DEF Aborter, SpawnFails, vars, record, runner, executor

LEMMA ShakeLocal ==
    ASSUME CInv, NEW t \in Task, Shake(t)
    PROVE  Local'
BY NamesAssumption DEF Aborter, Shake, vars, record, runner, executor

LEMMA StartedEventLocal ==
    ASSUME CInv, NEW t \in Task, StartedEvent(t)
    PROVE  Local'
BY UpdatedType, NamesAssumption
   DEF Aborter, StartedEvent, Onward, HearEvent, Hears, Update, Goes, Idle,
       executor, Stopped, At, Because

LEMMA StartFailedLocal ==
    ASSUME CInv, NEW t \in Task, StartFailed(t)
    PROVE  Local'
BY NamesAssumption
   DEF Aborter, StartFailed, StartFailure, At, Because, vars, record, runner,
       executor

LEMMA NothingStartedLocal ==
    ASSUME CInv, NEW t \in Task, NothingStarted(t)
    PROVE  Local'
BY UpdatedType, NamesAssumption
   DEF Aborter, NothingStarted, HearUnavailable, HearUnknown, Hears, Update,
       Goes, Idle, executor, Stopped, At, Because

LEMMA ResultEventLocal ==
    ASSUME CInv, NEW t \in Task, ResultEvent(t)
    PROVE  Local'
BY UpdatedType, NamesAssumption
   DEF Aborter, ResultEvent, Onward, HearResult, Hears, Update, Goes, Idle,
       executor, Stopped, At, Because

LEMMA CallFailsLocal ==
    ASSUME CInv, NEW t \in Task, CallFails(t)
    PROVE  Local'
BY NamesAssumption DEF Aborter, CallFails, At, Because, vars, record, runner, executor

LEMMA ClosedLocal ==
    ASSUME CInv, NEW t \in Task, Closed(t)
    PROVE  Local'
<1>1. /\ client' = [client EXCEPT ![t] = FALSE]
      /\ at' = [at EXCEPT ![t] = "out"]
      /\ UNCHANGED <<start, why, exec, begun, ask, cancelled>>
      /\ at[t] = "closing"
  BY DEF Closed, Told, Idle, At, executor, runner, record, AbortsItself, AbortRefused,
     AbortAtOnce, HearEnd, HearUnavailable, HearUnknown, Hears
<1>2. \/ UNCHANGED <<status, pc>>
      \/ /\ pc[t] = "submitting"
         /\ pc' = [pc EXCEPT ![t] = "over"]
         /\ \E s \in Status \ {"none"} : status' = [status EXCEPT ![t] = s]
  <2>1. /\ t \notin Caller
        /\ status[t] \in Status /\ status \in [Task -> Status]
        /\ pc[t] = "submitting" => status[t] # "none"
    BY NamesAssumption
  <2>2. ASSUME NEW new \in Status \ {"none"}
        PROVE  Updated(status[t], new) \in Status \ {"none"}
    BY <2>1, UpdatedType
  <2>3. status = [status EXCEPT ![t] = status[t]]
    BY <2>1
  <2>4. CASE why[t] = "dropped"
    BY <2>4 DEF Closed, Told, record, runner
  <2>6. CASE HearEnd(t)
    BY <2>1, <2>2, <2>3, <2>6 DEF HearEnd, Hears, Update, Goes, Status, Terminal
  <2>7. CASE HearUnavailable(t) \/ HearUnknown(t)
    BY <2>1, <2>2, <2>7
       DEF HearUnavailable, HearUnknown, Hears, Update, Goes, Status, Terminal
  <2>8. CASE AbortsItself(t)
    BY <2>1, <2>2, <2>3, <2>8
       DEF AbortsItself, AbortRefused, AbortAtOnce, MayAbort, Verdict,
       Leaves, Update, record, Status, Terminal
  <2>9. QED
    BY <2>4, <2>6, <2>7, <2>8 DEF Closed, Told
<1>3. QED
  BY <1>1, <1>2

LEMMA ExitLocal ==
    ASSUME CInv, NEW t \in Task, Exit(t)
    PROVE  Local'
BY NamesAssumption DEF Aborter, Exit, Stop, adapter, record, runner

LEMMA RetryLocal ==
    ASSUME CInv, NEW t \in Task, NEW u \in Task, Retry(t, u), Idle, UNCHANGED adapter
    PROVE  Local'
BY NamesAssumption DEF Aborter, Retry, Goes, Idle, executor, adapter

LEMMA RefusedLocal ==
    ASSUME CInv, NEW t \in Task, RunRefused(t), Idle, UNCHANGED adapter
    PROVE  Local'
BY NamesAssumption DEF Aborter, RunRefused, Goes, Idle, executor, adapter, record

LEMMA CancelSubmitLocal ==
    ASSUME CInv, NEW t \in Task, CancelSubmit(t)
    PROVE  Local'
BY NamesAssumption
   DEF Aborter, CancelSubmit, Cancel, Goes, Idle, executor, At, Because, record,
       StartEnds

LEMMA CancelCloseLocal ==
    ASSUME CInv, NEW t \in Task, CancelClose(t)
    PROVE  Local'
BY NamesAssumption
   DEF Aborter, CancelClose, Cancel, Goes, Idle, executor, At, Because, record

LEMMA AbortTaskLocal ==
    ASSUME CInv, NEW a \in Aborter, NEW t \in Task, AbortTask(a, t)
    PROVE  Local'
BY UpdatedType, NamesAssumption
   DEF Aborter, AbortTask, MayAbort, AbortRefused, AbortAtOnce, AbortAsks,
       Verdict, Leaves, Update, Idle, executor, adapter, record

LEMMA AnswersLocal ==
    ASSUME CInv, NEW a \in Aborter, NEW t \in Task, Answers(a, t)
    PROVE  Local'
BY UpdatedType, NamesAssumption
   DEF Aborter, Answers, AbortCloses, AbortTimesOut, AbortCancelled,
       AbortAnswered, AbortHangsUp, Seal, Verdict, Leaves, Update, Idle, executor,
       adapter, record, runner, StartEnds

LEMMA CrashLocal ==
    ASSUME CInv, CodexCrash
    PROVE  Local'
BY NamesAssumption DEF Aborter, CodexCrash, Crash, Idle, executor, record

LEMMA StutterLocal ==
    ASSUME CInv, UNCHANGED codexVars
    PROVE  Local'
BY NamesAssumption DEF Aborter, codexVars, vars, record, runner, executor, adapter

HIDE DEF Local, CInv, IInv, TypeOK, CodexTypeOK, Placed
HIDE DEF StartState, SubmitPc, Reason, Status, RunnerPc, Execution, Terminal
-----------------------------------------------------------------------------
LEMMA NextCInv == CInv /\ [CodexNext]_codexVars => CInv'
<1> SUFFICES ASSUME CInv, [CodexNext]_codexVars
             PROVE  CInv'
  OBVIOUS
<1>1. IInv'
  BY CodexIsNext, NextIInv, StutterStep DEF CInv
<1>2. ASSUME NEW t \in Task, StartSteps(t)
      PROVE  Local'
  BY <1>2, SpawnLocal, SpawnFailsLocal, ShakeLocal DEF StartSteps
<1>3. ASSUME NEW t \in Task, Resumes(t)
      PROVE  Local'
  BY <1>3, StartedEventLocal, StartFailedLocal, NothingStartedLocal, ResultEventLocal,
     CallFailsLocal, ClosedLocal DEF Resumes
<1>4. Local'
  BY <1>2, <1>3, SubmitLocal, ExitLocal, RetryLocal, RefusedLocal, CancelSubmitLocal,
     CancelCloseLocal, AbortTaskLocal, AnswersLocal, CrashLocal, StutterLocal
     DEF CodexNext
<1>5. QED
  BY <1>1, <1>4 DEF CInv, IInv, CodexTypeOK, Local

THEOREM CodexInductive == CodexSpec => []CInv
BY CodexInitCInv, NextCInv, PTL DEF CodexSpec

(* The manager and the Codex adapter keep the types of their state. *)
THEOREM CodexTypeCorrect == CodexSpec => []CodexTypeOK
<1>1. CInv => CodexTypeOK
  BY DEF CInv
<1>2. QED
  BY CodexInductive, <1>1, PTL

(* Whatever is started, answered, cancelled or killed in whatever order,   *)
(* the Codex adapter keeps the protocol of a DelegateProvider: the         *)
(* delegation with it is a delegation with an executor that does.          *)
THEOREM CodexMeetsContract == CodexSpec => MeetsContract
<1>1. CodexInit => Init
  BY DEF CodexInit
<1>2. QED
  BY <1>1, CodexInductive, CodexIsNext, PTL DEF CodexSpec, MeetsContract, Spec

-----------------------------------------------------------------------------
(* An aborted task has no process, and no start that could still make one. *)
Verified(t) == status[t] = "aborted" => exec[t] # "live" /\ start[t] # "spawning"

AInv == \A t \in Task : Verified(t)

\* How the status of a task and what it runs move in one step.
Harmless(t) ==
    /\ status'[t] = "aborted" => \/ status[t] = "aborted"
                                 \/ exec[t] # "live" /\ start[t] # "spawning"
    /\ exec'[t] = "live" => exec[t] = "live" \/ start[t] = "spawning"
    /\ start'[t] = "spawning" => start[t] = "spawning" \/ status'[t] # "aborted"

LEMMA HarmlessKeeps == AInv /\ (\A t \in Task : Harmless(t)) => AInv'
BY DEF AInv, Verified, Harmless

LEMMA StepIsHarmless ==
    ASSUME CInv, [CodexNext]_codexVars, NEW t \in Task
    PROVE  Harmless(t)
<1> USE DEF Harmless, CInv, IInv, TypeOK, CodexTypeOK
<1>1. ASSUME NEW u \in Task, Submit(u)
      PROVE  Harmless(t)
  BY <1>1 DEF Submit, Enter, At, adapter, Delegate, RunQueued, Launch, Idle, executor
<1>2. ASSUME NEW u \in Task, StartSteps(u) \/ Exit(u)
      PROVE  Harmless(t)
  BY <1>2
     DEF StartSteps, Spawn, SpawnFails, Shake, Exit, Stop, adapter, vars,
         record, runner, executor
<1>3. ASSUME NEW u \in Task, Resumes(u)
      PROVE  Harmless(t)
  BY <1>3
     DEF Resumes, StartedEvent, StartFailed, NothingStarted, ResultEvent,
         CallFails, Closed,
     Told, AbortsItself, AbortRefused, AbortAtOnce, Verdict, HearEvent, HearResult, HearEnd,
     HearUnavailable, HearUnknown, Hears, Update, Updated, Idle, executor, vars, record, runner
<1>4. ASSUME NEW u \in Task, NEW w \in Task, Retry(u, w) /\ Idle /\ UNCHANGED adapter
      PROVE  Harmless(t)
  BY <1>4 DEF Retry, Idle, executor, adapter
<1>5. ASSUME NEW u \in Task, \/ RunRefused(u) /\ Idle /\ UNCHANGED adapter
                             \/ CancelSubmit(u) \/ CancelClose(u)
      PROVE  Harmless(t)
  BY <1>5
     DEF RunRefused, CancelSubmit, CancelClose, Cancel, Idle, executor, adapter,
         record
<1>6. ASSUME NEW a \in Aborter, NEW u \in Task, AbortTask(a, u)
      PROVE  Harmless(t)
  BY <1>6 DEF AbortTask, AbortRefused, AbortAtOnce, AbortAsks, Verdict, Update, Updated,
     Idle, executor, adapter, record
<1>7. ASSUME NEW a \in Aborter, NEW u \in Task, Answers(a, u)
      PROVE  Harmless(t)
  BY <1>7
     DEF Answers, AbortCloses, AbortTimesOut, AbortCancelled, AbortAnswered,
         AbortHangsUp,
     Seal, Verdict, Update, Updated, StartEnds, Idle, executor, adapter, record, runner
<1>8. CASE CodexCrash
  BY <1>8 DEF CodexCrash, Crash, Idle, executor, record
<1>9. CASE UNCHANGED codexVars
  BY <1>9 DEF codexVars, vars, record, executor, adapter
<1>10. QED
  BY <1>1, <1>2, <1>3, <1>4, <1>5, <1>6, <1>7, <1>8, <1>9 DEF CodexNext

(* With the Codex adapter, whatever is started, aborted, cancelled, killed *)
(* or retried in whatever order, a task recorded as aborted has no process *)
(* running, not even an orphan of an earlier WhiteNight.                   *)
THEOREM AbortIsVerified == CodexSpec => []AbortedIsStopped
<1>1. CodexInit => AInv
  BY DEF CodexInit, Init, AInv, Verified
<1>2. CInv /\ AInv /\ [CodexNext]_codexVars => AInv'
  BY StepIsHarmless, HarmlessKeeps
<1>3. AInv => AbortedIsStopped
  BY DEF AInv, Verified, AbortedIsStopped
<1>4. QED
  BY CodexInductive, <1>1, <1>2, <1>3, PTL DEF CodexSpec
=============================================================================
