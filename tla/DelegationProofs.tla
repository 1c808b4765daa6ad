-------------------------- MODULE DelegationProofs --------------------------
(* Theorems about Delegation, for any tasks, callers, retries and crashes. *)
EXTENDS Delegation, TLAPS

(* What a task that has not begun looks like: it has no origin before it   *)
(* is recorded, nothing began in a submission that has nothing running,    *)
(* and a run pauses only while an attempt is left and nothing began.       *)
Fresh(t) ==
    /\ status[t] = "none" => origin[t] = None
    /\ exec[t] = "none" => begun[t] = 0
    /\ pc[t] = "pausing" => exec[t] = "none" /\ attempts[t] <= MaxRetries

IInv == TypeOK /\ RepeatsAreSafe /\ \A t \in Task : Fresh(t)

LEMMA UpdatedType ==
    ASSUME NEW old \in Status, NEW new \in Status
    PROVE  /\ Updated(old, new) \in Status
           /\ old \in Terminal => Updated(old, new) = old
           /\ new # "none" => Updated(old, new) # "none"
           /\ Updated(old, new) \in {old, new}
BY DEF Updated, Status, Terminal

LEMMA InitIInv == Init => IInv
BY BoundsAssumption, NamesAssumption
   DEF Init, IInv, TypeOK, RepeatsAreSafe, Fresh, Status, Risk, RunnerPc,
       Execution, Terminal

-----------------------------------------------------------------------------
(* Every action preserves the invariant.  Its parts are visible in each *)
(* of these lemmas, which name beside them the action and its operators.   *)
USE DEF IInv, TypeOK, RepeatsAreSafe, Fresh
USE DEF Status, Risk, RunnerPc, Execution, Terminal

LEMMA DelegateStep ==
    ASSUME IInv, NEW t \in Task, NEW r \in Risk, Delegate(t, r), Idle
    PROVE  IInv'
BY BoundsAssumption, NamesAssumption
   DEF Delegate, Launch, Goes, Idle, executor

LEMMA RetryStep ==
    ASSUME IInv, NEW t \in Task, NEW u \in Task, Retry(t, u), Idle
    PROVE  IInv'
BY BoundsAssumption, NamesAssumption
   DEF Retry, Goes, Idle, executor

LEMMA RunQueuedStep ==
    ASSUME IInv, NEW t \in Task, RunQueued(t), Idle
    PROVE  IInv'
BY BoundsAssumption, NamesAssumption
   DEF RunQueued, Launch, Goes, Idle, executor

LEMMA RunRefusedStep ==
    ASSUME IInv, NEW t \in Task, RunRefused(t), Idle
    PROVE  IInv'
BY BoundsAssumption, NamesAssumption
   DEF RunRefused, Goes, Idle, executor, record

LEMMA HearEventStep ==
    ASSUME IInv, NEW t \in Task, HearEvent(t), Idle
    PROVE  IInv'
BY BoundsAssumption, NamesAssumption, UpdatedType
   DEF HearEvent, Hears, Update, Goes, Idle, executor, Stopped

LEMMA HearResultStep ==
    ASSUME IInv, NEW t \in Task, HearResult(t), Idle
    PROVE  IInv'
<1>1. CASE Stopped(t)
  BY <1>1, BoundsAssumption, NamesAssumption
     DEF HearResult, Hears, Goes, Idle, executor
<1>2. CASE ~Stopped(t)
  <2>1. /\ status' = [status EXCEPT ![t] = Updated(@, "succeeded")]
        /\ got' = [got EXCEPT ![t] = TRUE]
        /\ UNCHANGED <<risk, origin, pc, attempts, cancelled, ask, exec, begun, crashes>>
    BY <1>2 DEF HearResult, Hears, Update, Idle, executor
  <2>2. TypeOK'
    BY <2>1, UpdatedType
  <2>3. QED
    BY <2>1, <2>2, NamesAssumption, UpdatedType
<1>3. QED
  BY <1>1, <1>2

LEMMA HearEndStep ==
    ASSUME IInv, NEW t \in Task, HearEnd(t), Idle
    PROVE  IInv'
BY BoundsAssumption, NamesAssumption, UpdatedType
   DEF HearEnd, Hears, Update, Goes, Idle, executor, Stopped

LEMMA HearUnavailableStep ==
    ASSUME IInv, NEW t \in Task, HearUnavailable(t), Idle
    PROVE  IInv'
BY BoundsAssumption, NamesAssumption, UpdatedType
   DEF HearUnavailable, Hears, Update, Goes, Idle, executor, Stopped

LEMMA HearUnknownStep ==
    ASSUME IInv, NEW t \in Task, HearUnknown(t), Idle
    PROVE  IInv'
BY BoundsAssumption, NamesAssumption, UpdatedType
   DEF HearUnknown, Hears, Update, Goes, Idle, executor, Stopped

LEMMA HearNotStartedStep ==
    ASSUME IInv, NEW t \in Task, HearNotStarted(t), exec[t] = "none", Idle
    PROVE  IInv'
BY BoundsAssumption, NamesAssumption, UpdatedType
   DEF HearNotStarted, Hears, Update, Goes, Idle, executor, Stopped

LEMMA BeginStep ==
    ASSUME IInv, NEW t \in Task, Begin(t)
    PROVE  IInv'
BY BoundsAssumption, NamesAssumption
   DEF Begin, record, runner

LEMMA StopStep ==
    ASSUME IInv, NEW t \in Task, Stop(t)
    PROVE  IInv'
BY BoundsAssumption, NamesAssumption
   DEF Stop, record, runner

LEMMA ResubmitStep ==
    ASSUME IInv, NEW t \in Task, Resubmit(t), NewSubmission(t)
    PROVE  IInv'
BY BoundsAssumption, NamesAssumption, UpdatedType
   DEF Resubmit, NewSubmission, Update, Goes

LEMMA CancelStep ==
    ASSUME IInv, NEW t \in Task, Cancel(t), Idle
    PROVE  IInv'
BY BoundsAssumption, NamesAssumption
   DEF Cancel, Goes, Idle, executor, record

LEMMA RefusedStep ==
    ASSUME IInv, NEW a \in Aborter, NEW t \in Task, AbortRefused(a, t), Idle
    PROVE  IInv'
BY BoundsAssumption, NamesAssumption
   DEF AbortRefused, Leaves, Idle, executor, record

LEMMA AsksStep ==
    ASSUME IInv, NEW a \in Aborter, NEW t \in Task, AbortAsks(a, t), Idle
    PROVE  IInv'
BY BoundsAssumption, NamesAssumption, UpdatedType
   DEF AbortAsks, Update, Idle, executor

LEMMA AtOnceStep ==
    ASSUME IInv, NEW a \in Aborter, NEW t \in Task, NEW ok \in BOOLEAN,
           AbortAtOnce(a, t, ok), Idle \/ Seal(t)
    PROVE  IInv'
BY BoundsAssumption, NamesAssumption, UpdatedType
   DEF AbortAtOnce, Verdict, Update, Leaves, Idle, Seal, executor

LEMMA AnsweredStep ==
    ASSUME IInv, NEW a \in Aborter, NEW t \in Task, NEW ok \in BOOLEAN,
           AbortAnswered(a, t, ok), Idle \/ Seal(t)
    PROVE  IInv'
BY BoundsAssumption, NamesAssumption, UpdatedType
   DEF AbortAnswered, Verdict, Update, Leaves, Idle, Seal, executor

LEMMA HangsUpStep ==
    ASSUME IInv, NEW a \in Aborter, NEW t \in Task, AbortHangsUp(a, t), Idle
    PROVE  IInv'
BY BoundsAssumption, NamesAssumption
   DEF AbortHangsUp, Idle, executor, record, runner

LEMMA CrashStep ==
    ASSUME IInv, Crash, Idle
    PROVE  IInv'
BY BoundsAssumption, NamesAssumption
   DEF Crash, Idle, executor, record

HIDE DEF IInv, TypeOK, RepeatsAreSafe, Fresh
HIDE DEF Status, Risk, RunnerPc, Execution, Terminal
-----------------------------------------------------------------------------
LEMMA StutterStep == IInv /\ UNCHANGED vars => IInv'
BY DEF vars, record, runner, executor, IInv, TypeOK, RepeatsAreSafe, Fresh

LEMMA NextIInv == IInv /\ Next => IInv'
<1>1. ASSUME IInv, NEW t \in Task, NEW r \in Risk, Started(t, r)
      PROVE  IInv'
  BY <1>1, DelegateStep, RunQueuedStep DEF Started
<1>2. ASSUME IInv, NEW t \in Task, Heard(t)
      PROVE  IInv'
  BY <1>2, HearEventStep, HearResultStep, HearEndStep, HearUnavailableStep,
     HearUnknownStep, HearNotStartedStep DEF Heard
<1>3. ASSUME IInv, NEW a \in Aborter, NEW t \in Task, Aborts(a, t)
      PROVE  IInv'
  BY <1>3, RefusedStep, AsksStep, AtOnceStep, AnsweredStep, HangsUpStep DEF Aborts
<1>4. QED
  BY <1>1, <1>2, <1>3, RetryStep, RunRefusedStep, BeginStep, StopStep, ResubmitStep,
     CancelStep, CrashStep DEF Next

(* The inductive invariant holds of every reachable state. *)
THEOREM Inductive == Spec => []IInv
<1>1. IInv /\ [Next]_vars => IInv'
  BY NextIInv, StutterStep
<1>2. QED
  BY InitIInv, <1>1, PTL DEF Spec

(* TaskStore and DelegateManager keep the types of their state. *)
THEOREM TypeCorrect == Spec => []TypeOK
<1>1. IInv => TypeOK
  BY DEF IInv
<1>2. QED
  BY Inductive, <1>1, PTL

(* However submissions, errors, pauses, aborts and retries interleave, a   *)
(* task is executed at most once, and only failed read-only work is        *)
(* repeated under a new one.                                               *)
THEOREM RepeatedSafely == Spec => []RepeatsAreSafe
<1>1. IInv => RepeatsAreSafe
  BY DEF IInv
<1>2. QED
  BY Inductive, <1>1, PTL

-----------------------------------------------------------------------------
Kept == \A t \in Task : status[t] \in Terminal => status'[t] = status[t]

LEMMA NextKeeps == TypeOK /\ Next => Kept
<1> SUFFICES ASSUME TypeOK, Next
             PROVE  Kept
  OBVIOUS
<1> USE DEF Kept, TypeOK, Terminal
<1>1. ASSUME NEW t \in Task, NEW r \in Risk, Started(t, r)
      PROVE  Kept
  BY <1>1 DEF Started, Delegate, RunQueued, Launch
<1>2. ASSUME NEW t \in Task, NEW u \in Task, Retry(t, u)
      PROVE  Kept
  BY <1>2 DEF Retry
<1>3. ASSUME NEW t \in Task, Heard(t) \/ Begin(t) \/ Stop(t)
      PROVE  Kept
  BY <1>3 DEF Heard, HearEvent, HearResult, HearEnd, HearUnavailable, HearUnknown,
     HearNotStarted, Hears, Update, Updated, Begin, Stop, record
<1>4. ASSUME NEW t \in Task, RunRefused(t) \/ Resubmit(t) \/ Cancel(t)
      PROVE  Kept
  BY <1>4 DEF RunRefused, Resubmit, Cancel, Update, Updated, record
<1>5. ASSUME NEW a \in Aborter, NEW t \in Task, Aborts(a, t)
      PROVE  Kept
  BY <1>5 DEF Aborts, AbortRefused, AbortAsks, AbortAtOnce, AbortAnswered,
     AbortHangsUp, Update, Updated, record
<1>6. CASE Crash
  BY <1>6 DEF Crash, record
<1>7. QED
  BY <1>1, <1>2, <1>3, <1>4, <1>5, <1>6 DEF Next

(* No step of the manager, of an executor or of a caller rewrites how a    *)
(* task ended.                                                             *)
THEOREM EndsAreKept == Spec => EndsStay
<1>1. TypeOK /\ [Next]_vars => [Kept]_vars
  BY NextKeeps
<1>2. QED
  BY TypeCorrect, <1>1, PTL DEF Spec, EndsStay, Kept
=============================================================================
