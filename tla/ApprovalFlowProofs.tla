-------------------------- MODULE ApprovalFlowProofs --------------------------
(* Theorems about ApprovalFlow, for every number of approvals, turns,      *)
(* decisions, operations, contexts and crashes.                            *)
EXTENDS ApprovalFlow, TLAPS

(***************************************************************************)
(* Types of the coroutines.                                                *)
(***************************************************************************)

LEMMA IdleTypes == IdleCall \in CallType /\ IdleDecision \in DecisionType
  BY DEF IdleCall, CallType, CallPc, IdleDecision, DecisionType, DecisionPc, Scope, Outcome

LEMMA DecisionFields ==
  ASSUME decision \in [Decider -> DecisionType], NEW d \in Decider
  PROVE  /\ decision[d].pc \in DecisionPc /\ decision[d].batch \in SUBSET Id
         /\ decision[d].allow \in BOOLEAN /\ decision[d].scope \in Scope
         /\ decision[d].id \in Id \cup {0} /\ decision[d].outcome \in Outcome
  BY DEF DecisionType

LEMMA CallFields ==
  ASSUME call \in [Caller -> CallType], NEW k \in Caller
  PROVE  /\ call[k].pc \in CallPc /\ call[k].op \in Op \cup {None}
         /\ call[k].ctx \in Context \cup {None} /\ call[k].id \in Id \cup {0}
  BY DEF CallType

(* The decisions other than d's are where they were. *)
Others(d) == \A e \in Decider \ {d} : decision'[e] = decision[e]

(* A decision goes on at pc with the code i. *)
LEMMA GotoType ==
  ASSUME decision \in [Decider -> DecisionType], NEW d \in Decider,
         NEW pc \in DecisionPc, NEW i \in Id \cup {0}, Goto(d, pc, i)
  PROVE  /\ decision' \in [Decider -> DecisionType] /\ Others(d)
         /\ decision'[d].pc = pc /\ decision'[d].id = i
         /\ decision'[d].outcome = "none"
         /\ decision'[d].batch = decision[d].batch
  BY DEF Goto, DecisionType, Outcome, Others

(* Its executor thread goes on at pc with the outcome o. *)
LEMMA OutcomesType ==
  ASSUME decision \in [Decider -> DecisionType], NEW d \in Decider,
         NEW pc \in DecisionPc, NEW o \in Outcome, Outcomes(d, pc, o)
  PROVE  /\ decision' \in [Decider -> DecisionType] /\ Others(d)
         /\ decision'[d].pc = pc /\ decision'[d].id = decision[d].id
         /\ decision'[d].outcome = o
         /\ decision'[d].batch = decision[d].batch
  BY DEF Outcomes, DecisionType, Others

LEMMA StopType ==
  ASSUME decision \in [Decider -> DecisionType], NEW d \in Decider,
         decision' = [decision EXCEPT ![d] = IdleDecision]
  PROVE  /\ decision' \in [Decider -> DecisionType] /\ Others(d)
         /\ decision'[d].pc = "idle" /\ decision'[d].batch = {}
  BY IdleTypes DEF IdleDecision, Others

LEMMA RefusedType ==
  ASSUME decision \in [Decider -> DecisionType], NEW d \in Decider,
         NEW i \in Id \cup {0}, CodeRefused(d, i)
  PROVE  /\ decision' \in [Decider -> DecisionType] /\ Others(d)
         /\ decision'[d].pc \in {"idle", "next"}
         /\ decision'[d].batch \subseteq decision[d].batch
         /\ loop' \in {d, Free}
  BY GotoType, StopType DEF CodeRefused, DecisionPc

LEMMA BeginType ==
  ASSUME decision \in [Decider -> DecisionType], NEW d \in Decider,
         NEW batch \in SUBSET Id, NEW allow \in BOOLEAN, NEW s \in Scope,
         Begin(d, batch, allow, s)
  PROVE  /\ decision' \in [Decider -> DecisionType] /\ Others(d)
         /\ decision'[d].pc = "next" /\ decision'[d].batch = batch
         /\ loop' = d /\ UNCHANGED <<approvals, row, effects, call, process>>
  BY DEF Begin, DecisionType, DecisionPc, Outcome, Others

LEMMA CallStep ==
  ASSUME call \in [Caller -> CallType], NEW k \in Caller, NEW pc \in CallPc
  PROVE  [call EXCEPT ![k].pc = pc] \in [Caller -> CallType]
  BY DEF CallType

LEMMA CallFound ==
  ASSUME call \in [Caller -> CallType], NEW k \in Caller, NEW i \in Id
  PROVE  [call EXCEPT ![k].pc = "waiting", ![k].id = i] \in [Caller -> CallType]
  BY DEF CallType, CallPc

(* Every step of every actor keeps the types of the tables and coroutines. *)
THEOREM TypeCorrect == Spec => []TypeOK
<1> USE BoundsAssumption DEF Id, TypeOK
<1>1. Init => TypeOK
  BY IdleTypes DEF Init, TablesOK, ProcessOK, ApprovalStatus, RowStatus, Scope, Outcome
<1>2. TypeOK /\ [Next]_vars => TypeOK'
  <2> SUFFICES ASSUME TypeOK, [Next]_vars PROVE TypeOK'
    OBVIOUS
  <2> USE DEF approvals, effects, process
  <2>1. ASSUME NEW k \in Caller, NEW o \in Op, NEW c \in Context, StartCall(k, o, c)
        PROVE  TypeOK'
    <3>1. TablesOK'
      BY <2>1 DEF TablesOK, StartCall, ApprovalStatus, RowStatus, Scope, Outcome
    <3>2. ProcessOK'
      BY <2>1 DEF ProcessOK, StartCall, CallType, CallPc
    <3> QED BY <3>1, <3>2
  <2>2. ASSUME NEW k \in Caller, RunGranted(k)
        PROVE  TypeOK'
    <3>1. TablesOK'
      BY <2>2 DEF TablesOK, RunGranted, ApprovalStatus, RowStatus, Scope, Outcome
    <3>2. ProcessOK'
      BY <2>2, IdleTypes DEF ProcessOK, RunGranted
    <3> QED BY <3>1, <3>2
  <2>3. ASSUME NEW k \in Caller, RequestRefused(k)
        PROVE  TypeOK'
    <3>1. TablesOK'
      BY <2>3 DEF TablesOK, RequestRefused, ApprovalStatus, RowStatus, Scope, Outcome
    <3>2. ProcessOK'
      BY <2>3, IdleTypes DEF ProcessOK, RequestRefused
    <3> QED BY <3>1, <3>2
  <2>4. ASSUME NEW k \in Caller, RequestReuse(k)
        PROVE  TypeOK'
    <3>1. TablesOK'
      BY <2>4 DEF TablesOK, RequestReuse, Sweep, Reusable, InContext, Created, ApprovalStatus, RowStatus, Scope, Outcome
    <3>2. ProcessOK'
      <4>1. call' \in [Caller -> CallType]
        <5>1. PICK n \in Id : call' = [call EXCEPT ![k].pc = "waiting", ![k].id = n]
          BY <2>4 DEF RequestReuse, Reusable, InContext, Created
        <5> QED BY <5>1, CallFound DEF ProcessOK
      <4> QED BY <2>4, <4>1 DEF ProcessOK, RequestReuse
    <3> QED BY <3>1, <3>2
  <2>5. ASSUME NEW k \in Caller, RequestNew(k)
        PROVE  TypeOK'
    <3>1. TablesOK'
      <4>1. status' \in [Id -> ApprovalStatus] /\ active' \in [Id -> BOOLEAN]
        BY <2>5 DEF TablesOK, RequestNew, ApprovalStatus
      <4>2. scope' \in [Id -> Scope]
        BY <2>5 DEF TablesOK, RequestNew, PolicyScope, Scope
      <4>3. opOf' \in [Id -> Op \cup {None}] /\ ctxOf' \in [Id -> Context \cup {None}]
        BY <2>5, CallFields DEF TablesOK, ProcessOK, RequestNew
      <4>4. row' \in [Id -> RowStatus]
        BY <2>5 DEF TablesOK, RequestNew, Sweep, RowStatus
      <4> QED BY <2>5, <4>1, <4>2, <4>3, <4>4 DEF TablesOK, RequestNew
    <3>2. ProcessOK'
      <4>1. call' \in [Caller -> CallType]
        <5>1. PICK n \in Id : call' = [call EXCEPT ![k].pc = "waiting", ![k].id = n]
          BY <2>5 DEF RequestNew
        <5> QED BY <5>1, CallFound DEF ProcessOK
      <4> QED BY <2>5, <4>1 DEF ProcessOK, RequestNew
    <3> QED BY <3>1, <3>2
  <2>6. ASSUME NEW k \in Caller, AbandonTurn(k)
        PROVE  TypeOK'
    <3>1. TablesOK'
      BY <2>6 DEF TablesOK, AbandonTurn, ApprovalStatus, RowStatus, Scope, Outcome
    <3>2. ProcessOK'
      BY <2>6, IdleTypes DEF ProcessOK, AbandonTurn
    <3> QED BY <3>1, <3>2
  <2>7. ASSUME NEW k \in Caller, EndTurn(k)
        PROVE  TypeOK'
    <3>1. TablesOK'
      BY <2>7 DEF TablesOK, EndTurn, ApprovalStatus, RowStatus, Scope, Outcome
    <3>2. ProcessOK'
      <4>1. call' \in [Caller -> CallType]
        <5>1. \/ call' = [call EXCEPT ![k].pc = "creating"]
              \/ call' = [call EXCEPT ![k] = IdleCall]
          BY <2>7 DEF EndTurn
        <5> QED BY <5>1, IdleTypes, CallStep DEF ProcessOK, CallPc
      <4> QED BY <2>7, <4>1 DEF ProcessOK, EndTurn, LoopFree
    <3> QED BY <3>1, <3>2
  <2>8. ASSUME NEW k \in Caller, CreateRow(k)
        PROVE  TypeOK'
    <3>1. TablesOK'
      BY <2>8 DEF TablesOK, CreateRow, ApprovalStatus, RowStatus, Scope, Outcome
    <3>2. ProcessOK'
      <4>1. call' \in [Caller -> CallType]
        BY <2>8, CallStep DEF ProcessOK, CreateRow, CallPc
      <4> QED BY <2>8, <4>1 DEF ProcessOK, CreateRow
    <3> QED BY <3>1, <3>2
  <2>9. ASSUME NEW k \in Caller, MarkPresented(k)
        PROVE  TypeOK'
    <3>1. TablesOK'
      BY <2>9 DEF TablesOK, MarkPresented, ApprovalStatus, RowStatus, Scope, Outcome
    <3>2. ProcessOK'
      BY <2>9, IdleTypes DEF ProcessOK, MarkPresented
    <3> QED BY <3>1, <3>2
  <2>10. ASSUME NEW d \in Decider, NEW c \in Context, NEW allow \in BOOLEAN, DecideAll(d, c, allow)
        PROVE  TypeOK'
    <3>1. TablesOK'
      BY <2>10 DEF TablesOK, DecideAll, Begin, ApprovalStatus, RowStatus, Scope, Outcome
    <3>2. ProcessOK'
      BY <2>10, BeginType DEF ProcessOK, DecideAll, Available, Created, Scope
    <3> QED BY <3>1, <3>2
  <2>11. ASSUME NEW d \in Decider, NEW c \in Context, NEW allow \in BOOLEAN, NEW s \in Scope,
               DecideCodes(d, c, allow, s)
        PROVE  TypeOK'
    <3>1. TablesOK'
      BY <2>11 DEF TablesOK, DecideCodes, Begin, ApprovalStatus, RowStatus, Scope, Outcome
    <3>2. ProcessOK'
      BY <2>11, BeginType DEF ProcessOK, DecideCodes, Available, Created
    <3> QED BY <3>1, <3>2
  <2>12. ASSUME NEW d \in Decider, RejectCode(d)
        PROVE  TypeOK'
    <3>1. TablesOK'
      BY <2>12 DEF TablesOK, RejectCode, Begin, ApprovalStatus, RowStatus, Scope, Outcome
    <3>2. ProcessOK'
      BY <2>12, BeginType DEF ProcessOK, RejectCode, Created, Scope
    <3> QED BY <3>1, <3>2
  <2>13. ASSUME NEW d \in Decider, NEW i \in Id, Reject(d, i)
        PROVE  TypeOK'
    <3>1. TablesOK'
      BY <2>13 DEF TablesOK, Reject, ApprovalStatus, RowStatus, Scope, Outcome
    <3>2. ProcessOK'
      BY <2>13, GotoType, RefusedType DEF ProcessOK, Reject, DecisionPc
    <3> QED BY <3>1, <3>2
  <2>14. ASSUME NEW d \in Decider, NEW i \in Id, ResolveUnbound(d, i)
        PROVE  TypeOK'
    <3>1. TablesOK'
      BY <2>14, DecisionFields DEF ProcessOK, TablesOK, ResolveUnbound, ApprovalStatus, RowStatus, Scope, Outcome
    <3>2. ProcessOK'
      BY <2>14, RefusedType DEF ProcessOK, ResolveUnbound
    <3> QED BY <3>1, <3>2
  <2>15. ASSUME NEW d \in Decider, NEW i \in Id, Claim(d, i)
        PROVE  TypeOK'
    <3>1. TablesOK'
      BY <2>15 DEF TablesOK, Claim, ApprovalStatus, RowStatus, Scope, Outcome
    <3>2. ProcessOK'
      BY <2>15, GotoType, RefusedType DEF ProcessOK, Claim, DecisionPc
    <3> QED BY <3>1, <3>2
  <2>16. ASSUME NEW d \in Decider, RejectRow(d)
        PROVE  TypeOK'
    <3>1. TablesOK'
      BY <2>16 DEF TablesOK, RejectRow, ApprovalStatus, RowStatus, Scope, Outcome
    <3>2. ProcessOK'
      BY <2>16, GotoType, DecisionFields DEF ProcessOK, RejectRow, DecisionPc
    <3> QED BY <3>1, <3>2
  <2>17. ASSUME NEW d \in Decider, Approve(d)
        PROVE  TypeOK'
    <3>1. TablesOK'
      <4>1. status' \in [Id -> ApprovalStatus]
        BY <2>17 DEF TablesOK, Approve, ApprovalStatus
      <4>2. scope' \in [Id -> Scope]
        BY <2>17, DecisionFields DEF ProcessOK, TablesOK, Approve
      <4>3. used' \in [Id -> {0, 1}] /\ active' \in [Id -> BOOLEAN]
        BY <2>17 DEF TablesOK, Approve
      <4> QED BY <2>17, <4>1, <4>2, <4>3 DEF TablesOK, Approve
    <3>2. ProcessOK'
      BY <2>17, GotoType, DecisionFields DEF ProcessOK, Approve, DecisionPc
    <3> QED BY <3>1, <3>2
  <2>18. ASSUME NEW d \in Decider, InvalidateUnapproved(d)
        PROVE  TypeOK'
    <3>1. TablesOK'
      BY <2>18 DEF TablesOK, InvalidateUnapproved, Withdraw, ApprovalStatus, RowStatus, Scope, Outcome
    <3>2. ProcessOK'
      BY <2>18, GotoType, DecisionFields DEF ProcessOK, InvalidateUnapproved, DecisionPc
    <3> QED BY <3>1, <3>2
  <2>19. ASSUME NEW d \in Decider, FailRow(d)
        PROVE  TypeOK'
    <3>1. TablesOK'
      BY <2>19 DEF TablesOK, FailRow, ApprovalStatus, RowStatus, Scope, Outcome
    <3>2. ProcessOK'
      BY <2>19, RefusedType, DecisionFields DEF ProcessOK, FailRow
    <3> QED BY <3>1, <3>2
  <2>20. ASSUME NEW d \in Decider, PrepareRefused(d)
        PROVE  TypeOK'
    <3>1. TablesOK'
      BY <2>20 DEF TablesOK, PrepareRefused, ApprovalStatus, RowStatus, Scope, Outcome
    <3>2. ProcessOK'
      BY <2>20, OutcomesType DEF ProcessOK, PrepareRefused, DecisionPc, Outcome
    <3> QED BY <3>1, <3>2
  <2>21. ASSUME NEW d \in Decider, Consume(d)
        PROVE  TypeOK'
    <3>1. TablesOK'
      <4>1. grant' \in [Id -> {"none", "live", "gone"}]
        <5>1. \/ grant' = [grant EXCEPT ![decision[d].id] =
                               IF scope[decision[d].id] = "session" THEN "live" ELSE @]
              \/ grant' = grant
          BY <2>21 DEF Consume
        <5> QED BY <5>1 DEF TablesOK
      <4>2. status' \in [Id -> ApprovalStatus]
        <5>1. \/ status' = [status EXCEPT ![decision[d].id] = "consumed"]
              \/ status' = status
          BY <2>21 DEF Consume
        <5> QED BY <5>1 DEF TablesOK, ApprovalStatus
      <4>3. used' \in [Id -> {0, 1}] /\ active' \in [Id -> BOOLEAN]
        BY <2>21 DEF TablesOK, Consume
      <4> QED BY <2>21, <4>1, <4>2, <4>3 DEF TablesOK, Consume
    <3>2. ProcessOK'
      BY <2>21, OutcomesType DEF ProcessOK, Consume, DecisionPc, Outcome
    <3> QED BY <3>1, <3>2
  <2>22. ASSUME NEW d \in Decider, RunTool(d)
        PROVE  TypeOK'
    <3>1. TablesOK'
      <4>1. ran' \in [Id -> Nat]
        <5>1. ran' = [ran EXCEPT ![decision[d].id] = @ + 1] /\ ran \in [Id -> Nat]
          BY <2>22 DEF TablesOK, RunTool
        <5>2. CASE decision[d].id \in Id
          BY <5>1, <5>2
        <5>3. CASE decision[d].id \notin Id
          BY <5>1, <5>3
        <5> QED BY <5>2, <5>3
      <4> QED BY <2>22, <4>1 DEF TablesOK, RunTool
    <3>2. ProcessOK'
      BY <2>22, OutcomesType DEF ProcessOK, RunTool, DecisionPc, Outcome
    <3> QED BY <3>1, <3>2
  <2>23. ASSUME NEW d \in Decider, WriteReceipt(d)
        PROVE  TypeOK'
    <3>1. TablesOK'
      BY <2>23, DecisionFields DEF ProcessOK, TablesOK, WriteReceipt, ApprovalStatus, RowStatus, Scope, Outcome
    <3>2. ProcessOK'
      BY <2>23, OutcomesType, DecisionFields DEF ProcessOK, WriteReceipt, DecisionPc
    <3> QED BY <3>1, <3>2
  <2>24. ASSUME NEW d \in Decider, RecordOutcome(d)
        PROVE  TypeOK'
    <3>1. TablesOK'
      BY <2>24 DEF TablesOK, RecordOutcome, ApprovalStatus, RowStatus, Scope, Outcome
    <3>2. ProcessOK'
      BY <2>24, GotoType, StopType, DecisionFields DEF ProcessOK, RecordOutcome, DecisionPc
    <3> QED BY <3>1, <3>2
  <2>25. ASSUME NEW d \in Decider, WithdrawFailed(d)
        PROVE  TypeOK'
    <3>1. TablesOK'
      BY <2>25 DEF TablesOK, WithdrawFailed, Withdraw, ApprovalStatus, RowStatus, Scope, Outcome
    <3>2. ProcessOK'
      BY <2>25, StopType DEF ProcessOK, WithdrawFailed
    <3> QED BY <3>1, <3>2
  <2>26. ASSUME NEW d \in Decider, FinishDecision(d)
        PROVE  TypeOK'
    <3>1. TablesOK'
      BY <2>26 DEF TablesOK, FinishDecision, ApprovalStatus, RowStatus, Scope, Outcome
    <3>2. ProcessOK'
      BY <2>26, StopType DEF ProcessOK, FinishDecision
    <3> QED BY <3>1, <3>2
  <2>27. ASSUME NEW i \in Id, Expire(i)
        PROVE  TypeOK'
    <3>1. TablesOK'
      BY <2>27 DEF TablesOK, Expire, ApprovalStatus, RowStatus, Scope, Outcome
    <3>2. ProcessOK'
      BY <2>27 DEF ProcessOK, Expire
    <3> QED BY <3>1, <3>2
  <2>28. ASSUME NEW i \in Id, LoseGrant(i)
        PROVE  TypeOK'
    <3>1. TablesOK'
      BY <2>28 DEF TablesOK, LoseGrant, ApprovalStatus, RowStatus, Scope, Outcome
    <3>2. ProcessOK'
      BY <2>28 DEF ProcessOK, LoseGrant
    <3> QED BY <3>1, <3>2
  <2>29. ASSUME Crash
        PROVE  TypeOK'
    <3>1. TablesOK'
      BY <2>29 DEF TablesOK, Crash, ApprovalStatus, RowStatus, Scope, Outcome
    <3>2. ProcessOK'
      <4>1. call' \in [Caller -> CallType] /\ decision' \in [Decider -> DecisionType]
        BY <2>29, IdleTypes DEF Crash
      <4>2. crashes' \in 0..MaxCrashes
        BY <2>29 DEF Crash, ProcessOK
      <4> QED BY <2>29, <4>1, <4>2 DEF Crash, ProcessOK
    <3> QED BY <3>1, <3>2
  <2>30. ASSUME Recover
        PROVE  TypeOK'
    <3>1. TablesOK'
      BY <2>30 DEF TablesOK, Recover, ApprovalStatus, RowStatus, Scope, Outcome
    <3>2. ProcessOK'
      BY <2>30 DEF ProcessOK, Recover
    <3> QED BY <3>1, <3>2
  <2>31. CASE UNCHANGED vars
    BY <2>31 DEF vars, TablesOK, ProcessOK
  <2> QED
    BY <2>1, <2>2, <2>3, <2>4, <2>5, <2>6, <2>7, <2>8, <2>9, <2>10, <2>11, <2>12, <2>13, <2>14, <2>15, <2>16, <2>17, <2>18, <2>19, <2>20, <2>21, <2>22, <2>23, <2>24, <2>25, <2>26, <2>27, <2>28, <2>29, <2>30, <2>31 DEF Next, TurnStep, DecisionStep
<1> QED
  BY <1>1, <1>2, PTL DEF Spec

(***************************************************************************)
(* What each action does to the decision that takes it.                    *)
(***************************************************************************)

(* A decision begins with a batch of pending approvals, on a free loop. *)
LEMMA BeginEffect ==
  ASSUME TypeOK, NEW d \in Decider,
         \/ \E c \in Context, allow \in BOOLEAN : DecideAll(d, c, allow)
         \/ \E c \in Context, allow \in BOOLEAN, s \in Scope : DecideCodes(d, c, allow, s)
         \/ RejectCode(d)
  PROVE  /\ Others(d) /\ decision'[d].pc = "next"
         /\ decision'[d].batch \subseteq {i \in Id : status[i] = "pending"}
         /\ up /\ loop = Free /\ loop' = d
         /\ UNCHANGED <<approvals, row, effects, call, process>>
<1> DEFINE P == {i \in Id : status[i] = "pending"}
<1>1. \E batch \in SUBSET P, allow \in BOOLEAN, s \in Scope : Begin(d, batch, allow, s)
  <2>1. CASE \E c \in Context, allow \in BOOLEAN : DecideAll(d, c, allow)
    <3>1. PICK c \in Context, allow \in BOOLEAN : DecideAll(d, c, allow)
      BY <2>1
    <3> DEFINE shown == {i \in Available(c) : presented[i]}
    <3>2. shown \in SUBSET P /\ "once" \in Scope
      BY DEF Available, Created, Scope
    <3>3. Begin(d, shown, allow, "once")
      BY <3>1 DEF DecideAll
    <3> QED BY <3>2, <3>3
  <2>2. CASE \E c \in Context, allow \in BOOLEAN, s \in Scope : DecideCodes(d, c, allow, s)
    <3>1. PICK c \in Context, allow \in BOOLEAN, s \in Scope : DecideCodes(d, c, allow, s)
      BY <2>2
    <3>2. PICK batch \in SUBSET Available(c) : Begin(d, batch, allow, s)
      BY <3>1 DEF DecideCodes
    <3>3. batch \in SUBSET P
      BY DEF Available, Created
    <3> QED BY <3>2, <3>3
  <2>3. CASE RejectCode(d)
    <3>1. PICK i \in Created : status[i] = "pending" /\ Begin(d, {i}, FALSE, "once")
      BY <2>3 DEF RejectCode
    <3>2. {i} \in SUBSET P /\ "once" \in Scope
      BY <3>1 DEF Created, Scope
    <3> QED BY <3>1, <3>2
  <2> QED BY <2>1, <2>2, <2>3
<1>2. PICK batch \in SUBSET P, allow \in BOOLEAN, s \in Scope : Begin(d, batch, allow, s)
  BY <1>1
<1>3. batch \in SUBSET Id
  OBVIOUS
<1> QED BY <1>2, <1>3, BeginType DEF TypeOK, ProcessOK, Begin, LoopFree

LEMMA RejectEffect ==
  ASSUME TypeOK, NEW d \in Decider, NEW i \in Id, Reject(d, i)
  PROVE  /\ Others(d) /\ decision'[d].batch \subseteq decision[d].batch
         /\ decision'[d].pc \in {"idle", "next", "rejecting"}
         /\ decision'[d].pc = "rejecting" =>
              decision'[d].id = i /\ status[i] = "pending" /\ row[i] # "none" /\ loop' = d
         /\ loop' \in {d, Free}
  BY GotoType, RefusedType DEF Reject, DecisionPc, TypeOK, ProcessOK

LEMMA ResolveEffect ==
  ASSUME TypeOK, NEW d \in Decider, NEW i \in Id, ResolveUnbound(d, i)
  PROVE  /\ Others(d) /\ decision'[d].batch \subseteq decision[d].batch
         /\ decision'[d].pc \in {"idle", "next"} /\ loop' \in {d, Free}
  BY RefusedType DEF ResolveUnbound, TypeOK, ProcessOK

LEMMA ClaimEffect ==
  ASSUME TypeOK, NEW d \in Decider, NEW i \in Id, Claim(d, i)
  PROVE  /\ Others(d) /\ decision'[d].batch \subseteq decision[d].batch
         /\ \/ /\ decision'[d].pc = "approving" /\ decision'[d].id = i /\ loop' = d
               /\ row[i] = "pending" /\ row' = [row EXCEPT ![i] = "running"]
            \/ /\ decision'[d].pc \in {"idle", "next"} /\ loop' \in {d, Free}
               /\ UNCHANGED row
  BY GotoType, RefusedType DEF Claim, DecisionPc, TypeOK, ProcessOK

LEMMA RejectRowEffect ==
  ASSUME TypeOK, NEW d \in Decider, RejectRow(d)
  PROVE  /\ Others(d) /\ decision'[d].batch = decision[d].batch
         /\ decision'[d].pc = "next"
  BY GotoType, DecisionFields DEF RejectRow, DecisionPc, TypeOK, ProcessOK

LEMMA ApproveEffect ==
  ASSUME TypeOK, NEW d \in Decider, Approve(d)
  PROVE  /\ Others(d) /\ decision'[d].batch = decision[d].batch
         /\ decision'[d].id = decision[d].id
         /\ decision'[d].pc \in {"preparing", "invalidating"}
         /\ decision'[d].pc = "invalidating" => UNCHANGED loop
         /\ decision'[d].pc = "preparing" =>
              status' = [status EXCEPT ![decision[d].id] = "approved"]
  BY GotoType, DecisionFields DEF Approve, DecisionPc, TypeOK, ProcessOK

LEMMA InvalidateEffect ==
  ASSUME TypeOK, NEW d \in Decider, InvalidateUnapproved(d)
  PROVE  /\ Others(d) /\ decision'[d].batch = decision[d].batch
         /\ decision'[d].id = decision[d].id /\ decision'[d].pc = "failing"
  BY GotoType, DecisionFields DEF InvalidateUnapproved, DecisionPc, TypeOK, ProcessOK

LEMMA FailRowEffect ==
  ASSUME TypeOK, NEW d \in Decider, FailRow(d)
  PROVE  /\ Others(d) /\ decision'[d].batch \subseteq decision[d].batch
         /\ decision'[d].pc \in {"idle", "next"} /\ loop' \in {d, Free}
  BY RefusedType, DecisionFields DEF FailRow, TypeOK, ProcessOK

LEMMA PrepareEffect ==
  ASSUME TypeOK, NEW d \in Decider, PrepareRefused(d)
  PROVE  /\ Others(d) /\ decision'[d].batch = decision[d].batch
         /\ decision'[d].id = decision[d].id /\ decision'[d].pc = "recording"
         /\ decision'[d].outcome = "refused"
  BY OutcomesType DEF PrepareRefused, DecisionPc, Outcome, TypeOK, ProcessOK

LEMMA ConsumeEffect ==
  ASSUME TypeOK, NEW d \in Decider, Consume(d)
  PROVE  /\ Others(d) /\ decision'[d].batch = decision[d].batch
         /\ decision'[d].id = decision[d].id
         /\ \/ /\ decision'[d].pc = "executing" /\ status[decision[d].id] = "approved"
               /\ status' = [status EXCEPT ![decision[d].id] = "consumed"]
               /\ used' = [used EXCEPT ![decision[d].id] = 1]
               /\ active' = [active EXCEPT ![decision[d].id] = FALSE]
            \/ /\ decision'[d].pc = "recording" /\ decision'[d].outcome = "refused"
               /\ UNCHANGED <<status, used, active>>
  BY OutcomesType DEF Consume, DecisionPc, Outcome, TypeOK, ProcessOK

LEMMA RunToolEffect ==
  ASSUME TypeOK, NEW d \in Decider, RunTool(d)
  PROVE  /\ Others(d) /\ decision'[d].batch = decision[d].batch
         /\ decision'[d].id = decision[d].id /\ decision'[d].pc = "auditing"
         /\ decision'[d].outcome \in {"ok", "failed", "error"}
  BY OutcomesType DEF RunTool, DecisionPc, Outcome, TypeOK, ProcessOK

LEMMA WriteReceiptEffect ==
  ASSUME TypeOK, NEW d \in Decider, WriteReceipt(d)
  PROVE  /\ Others(d) /\ decision'[d].batch = decision[d].batch
         /\ decision'[d].id = decision[d].id /\ decision'[d].pc = "recording"
         /\ decision'[d].outcome = decision[d].outcome
  BY OutcomesType, DecisionFields DEF WriteReceipt, DecisionPc, TypeOK, ProcessOK

LEMMA RecordEffect ==
  ASSUME TypeOK, NEW d \in Decider, RecordOutcome(d)
  PROVE  /\ Others(d) /\ decision'[d].batch \subseteq decision[d].batch
         /\ decision'[d].pc \in {"idle", "next", "withdrawing"}
         /\ decision'[d].pc = "withdrawing" =>
              decision'[d].id = decision[d].id /\ loop' = d
         /\ loop' \in {d, loop}
  BY GotoType, StopType, DecisionFields DEF RecordOutcome, DecisionPc, TypeOK, ProcessOK

LEMMA StopEffect ==
  ASSUME TypeOK, NEW d \in Decider, WithdrawFailed(d) \/ FinishDecision(d)
  PROVE  /\ Others(d) /\ decision'[d].batch = {} /\ decision'[d].pc = "idle"
         /\ loop' = Free
  BY StopType DEF WithdrawFailed, FinishDecision, TypeOK, ProcessOK

(***************************************************************************)
(* An approval is spent before the tool runs, and once.                    *)
(***************************************************************************)

LEMMA SpendStep == TypeOK /\ SpendInv /\ [Next]_vars => SpendInv'
<1> SUFFICES ASSUME TypeOK, SpendInv, [Next]_vars PROVE SpendInv'
  OBVIOUS
<1> USE DEF approvals, effects, process
<1>1. ASSUME NEW k \in Caller,
             \/ \E o \in Op, c \in Context : StartCall(k, o, c)
             \/ RunGranted(k) \/ RequestRefused(k) \/ AbandonTurn(k)
             \/ EndTurn(k) \/ CreateRow(k) \/ MarkPresented(k)
      PROVE  SpendInv'
  BY <1>1 DEF StartCall, RunGranted, RequestRefused, AbandonTurn, EndTurn, CreateRow,
     MarkPresented, SpendInv
<1>2. ASSUME NEW i \in Id, Expire(i) \/ LoseGrant(i)
      PROVE  SpendInv'
  BY <1>2 DEF Expire, LoseGrant, SpendInv
<1>3. ASSUME NEW k \in Caller, RequestReuse(k)
      PROVE  SpendInv'
  BY <1>3 DEF RequestReuse, Lapsed, Rivals, InContext, Created, TypeOK, TablesOK, SpendInv
<1>4. ASSUME NEW k \in Caller, RequestNew(k)
      PROVE  SpendInv'
  BY <1>4 DEF RequestNew, Lapsed, Rivals, InContext, Created, TypeOK, TablesOK, SpendInv
<1>5. ASSUME NEW d \in Decider,
             \/ \E c \in Context, allow \in BOOLEAN : DecideAll(d, c, allow)
             \/ \E c \in Context, allow \in BOOLEAN, s \in Scope : DecideCodes(d, c, allow, s)
             \/ RejectCode(d)
      PROVE  SpendInv'
  BY <1>5, BeginEffect DEF SpendInv, Others
<1>6. ASSUME NEW d \in Decider,
             \/ \E i \in Id : Claim(d, i)
             \/ RejectRow(d) \/ FailRow(d) \/ PrepareRefused(d)
             \/ RecordOutcome(d) \/ FinishDecision(d)
      PROVE  SpendInv'
  <2>1. /\ Others(d) /\ decision'[d].pc \notin {"preparing", "executing", "auditing"}
        /\ decision'[d].pc = "approving" => decision'[d].id \in Id
    BY <1>6, ClaimEffect, RejectRowEffect, FailRowEffect, PrepareEffect, RecordEffect,
       StopEffect
  <2>2. UNCHANGED <<status, used, ran, receipt, up>>
    BY <1>6 DEF Claim, RejectRow, FailRow, PrepareRefused, RecordOutcome, FinishDecision
  <2>3. up
    BY <1>6 DEF Claim, AtNextCode, RejectRow, FailRow, PrepareRefused,
       RecordOutcome, LoopFree, FinishDecision
  <2> QED BY <2>1, <2>2, <2>3 DEF SpendInv, Others
<1>7. ASSUME NEW d \in Decider, NEW i \in Id, Reject(d, i)
      PROVE  SpendInv'
  BY <1>7, RejectEffect DEF Reject, AtNextCode, TypeOK, TablesOK, SpendInv, Others
<1>8. ASSUME NEW d \in Decider, NEW i \in Id, ResolveUnbound(d, i)
      PROVE  SpendInv'
  BY <1>8, ResolveEffect DEF ResolveUnbound, AtNextCode, TypeOK, TablesOK, SpendInv, Others
<1>9. ASSUME NEW d \in Decider, Approve(d)
      PROVE  SpendInv'
  BY <1>9, ApproveEffect DEF Approve, TypeOK, TablesOK, SpendInv, Others
<1>10. ASSUME NEW d \in Decider, InvalidateUnapproved(d) \/ WithdrawFailed(d)
       PROVE  SpendInv'
  <2>1. Others(d) /\ decision'[d].pc \in {"failing", "idle"}
    BY <1>10, InvalidateEffect, StopEffect
  <2>2. up /\ Withdraw(decision[d].id) /\ UNCHANGED <<used, ran, receipt, up>>
    BY <1>10 DEF InvalidateUnapproved, WithdrawFailed
  <2> QED BY <2>1, <2>2 DEF Withdraw, TypeOK, TablesOK, SpendInv, Others
<1>11. ASSUME NEW d \in Decider, Consume(d)
       PROVE  SpendInv'
  <2>1. up /\ UNCHANGED <<ran, receipt, up>>
    BY <1>11 DEF Consume
  <2>2. decision[d].id \in Id
    BY <1>11 DEF Consume, SpendInv
  <2> QED BY <1>11, <2>1, <2>2, ConsumeEffect DEF TypeOK, TablesOK, SpendInv, Others, ApprovalStatus
<1>12. ASSUME NEW d \in Decider, RunTool(d)
       PROVE  SpendInv'
  <2>1. /\ up /\ decision[d].pc = "executing"
        /\ ran' = [ran EXCEPT ![decision[d].id] = @ + 1]
        /\ UNCHANGED <<status, used, receipt, up>>
    BY <1>12 DEF RunTool
  <2>2. Others(d) /\ decision'[d].pc = "auditing" /\ decision'[d].id = decision[d].id
    BY <1>12, RunToolEffect
  <2> QED BY <2>1, <2>2 DEF TypeOK, TablesOK, SpendInv, Others
<1>13. ASSUME NEW d \in Decider, WriteReceipt(d)
       PROVE  SpendInv'
  <2>1. /\ up /\ decision[d].pc = "auditing"
        /\ receipt' = [receipt EXCEPT ![decision[d].id] = decision[d].outcome]
        /\ UNCHANGED <<status, used, ran, up>>
    BY <1>13 DEF WriteReceipt
  <2>2. Others(d) /\ decision'[d].pc = "recording"
    BY <1>13, WriteReceiptEffect
  <2> QED BY <2>1, <2>2 DEF TypeOK, TablesOK, SpendInv, Others
<1>14. ASSUME Crash
       PROVE  SpendInv'
  BY <1>14 DEF Crash, IdleDecision, SpendInv
<1>15. ASSUME Recover
       PROVE  SpendInv'
  BY <1>15 DEF Recover, TypeOK, TablesOK, SpendInv
<1>16. CASE UNCHANGED vars
  BY <1>16 DEF vars, SpendInv
<1> QED
  BY <1>1, <1>2, <1>3, <1>4, <1>5, <1>6, <1>7, <1>8, <1>9, <1>10, <1>11, <1>12, <1>13,
     <1>14, <1>15, <1>16 DEF Next, TurnStep, DecisionStep

(* A tool runs under an approval at most once, and only when that approval  *)
(* was consumed before: whichever requests, decisions, expiries and crashes *)
(* fall between the transactions of decide_approvals and consume_approved.  *)
THEOREM RunsNeedConsent == Spec => []RanOnlyWithConsent
<1>1. Init => SpendInv
  BY DEF Init, SpendInv, IdleDecision
<1>2. SpendInv => RanOnlyWithConsent
  BY DEF SpendInv, RanOnlyWithConsent
<1> QED
  BY <1>1, <1>2, SpendStep, TypeCorrect, PTL DEF Spec

(***************************************************************************)
(* A coroutine between two awaits holds the loop.                          *)
(***************************************************************************)

(* d takes the loop, or gives it back, when nobody else holds it. *)
LEMMA LoopTaken ==
  ASSUME LoopInv, NEW d \in Decider, Others(d), up, loop \in {d, Free}, loop' \in {d, Free},
         decision'[d].pc \in Holding => loop' = d, UNCHANGED <<call, up>>
  PROVE  LoopInv'
  BY LoopAssumption, ActorsAssumption DEF LoopInv, Others, Holding

(* d leaves the loop to whom it belongs. *)
LEMMA LoopLeft ==
  ASSUME LoopInv, NEW d \in Decider, Others(d), up, UNCHANGED <<call, up, loop>>,
         decision'[d].pc \in Holding => decision[d].pc \in Holding
  PROVE  LoopInv'
  BY DEF LoopInv, Others

LEMMA LoopOfCall ==
  ASSUME LoopInv, NEW k \in Caller, up, UNCHANGED <<decision, up, loop>>,
         \A j \in Caller \ {k} : call'[j] = call[j],
         call'[k].pc \in {"creating", "marking"} => call[k].pc \in {"creating", "marking"}
  PROVE  LoopInv'
  BY DEF LoopInv

LEMMA LoopStep == TypeOK /\ LoopInv /\ [Next]_vars => LoopInv'
<1> SUFFICES ASSUME TypeOK, LoopInv, [Next]_vars PROVE LoopInv'
  OBVIOUS
<1> USE DEF approvals, effects, process
<1>1. ASSUME NEW k \in Caller,
             \/ \E o \in Op, c \in Context : StartCall(k, o, c)
             \/ RunGranted(k) \/ RequestRefused(k) \/ AbandonTurn(k) \/ CreateRow(k)
             \/ RequestReuse(k) \/ RequestNew(k)
      PROVE  LoopInv'
  <2>1. up /\ UNCHANGED <<decision, up, loop>>
    BY <1>1 DEF StartCall, RunGranted, RequestRefused, AbandonTurn, CreateRow, RequestReuse,
       RequestNew
  <2>2. \A j \in Caller \ {k} : call'[j] = call[j]
    BY <1>1 DEF StartCall, RunGranted, RequestRefused, AbandonTurn, CreateRow, RequestReuse,
       RequestNew, TypeOK, ProcessOK
  <2>3. call'[k].pc \in {"creating", "marking"} => call[k].pc \in {"creating", "marking"}
    BY <1>1, CallFields DEF StartCall, RunGranted, RequestRefused, AbandonTurn, CreateRow, RequestReuse,
       RequestNew, TypeOK, ProcessOK, IdleCall, CallType
  <2> QED BY <2>1, <2>2, <2>3, LoopOfCall
<1>2. ASSUME NEW k \in Caller, EndTurn(k)
      PROVE  LoopInv'
  <2>1. /\ up /\ loop = Free /\ UNCHANGED <<decision, up>>
        /\ \A j \in Caller \ {k} : call'[j] = call[j]
        /\ loop' = k \/ (loop' = loop /\ call'[k].pc = "idle")
    BY <1>2 DEF EndTurn, LoopFree, TypeOK, ProcessOK, IdleCall
  <2> QED BY <2>1, LoopAssumption DEF LoopInv
<1>3. ASSUME NEW k \in Caller, MarkPresented(k)
      PROVE  LoopInv'
  <2>1. /\ up /\ loop = k /\ loop' = Free /\ UNCHANGED <<decision, up>>
        /\ \A j \in Caller \ {k} : call'[j] = call[j]
        /\ call'[k].pc = "idle"
    BY <1>3 DEF MarkPresented, LoopInv, TypeOK, ProcessOK, IdleCall
  <2> QED BY <2>1, LoopAssumption, ActorsAssumption DEF LoopInv
<1>4. ASSUME NEW i \in Id, Expire(i) \/ LoseGrant(i)
      PROVE  LoopInv'
  BY <1>4 DEF Expire, LoseGrant, LoopInv
<1>5. ASSUME NEW d \in Decider,
             \/ \E c \in Context, allow \in BOOLEAN : DecideAll(d, c, allow)
             \/ \E c \in Context, allow \in BOOLEAN, s \in Scope : DecideCodes(d, c, allow, s)
             \/ RejectCode(d)
      PROVE  LoopInv'
  <2>1. Others(d) /\ up /\ loop = Free /\ loop' = d /\ UNCHANGED <<call, up>>
    BY <1>5, BeginEffect
  <2> QED BY <2>1, LoopTaken
<1>6. ASSUME NEW d \in Decider, NEW i \in Id,
             Reject(d, i) \/ ResolveUnbound(d, i) \/ Claim(d, i)
      PROVE  LoopInv'
  <2>1. up /\ loop \in {d, Free} /\ UNCHANGED <<call, up>>
    BY <1>6 DEF Reject, ResolveUnbound, Claim, AtNextCode
  <2>2. /\ Others(d) /\ loop' \in {d, Free}
        /\ decision'[d].pc \in Holding => loop' = d
    BY <1>6, RejectEffect, ResolveEffect, ClaimEffect DEF Holding
  <2> QED BY <2>1, <2>2, LoopTaken
<1>7. ASSUME NEW d \in Decider, FailRow(d) \/ WithdrawFailed(d)
      PROVE  LoopInv'
  <2>1. up /\ loop = d /\ UNCHANGED <<call, up>>
    BY <1>7 DEF FailRow, WithdrawFailed, LoopInv, Holding
  <2>2. /\ Others(d) /\ loop' \in {d, Free} /\ decision'[d].pc \notin Holding
    BY <1>7, FailRowEffect, StopEffect DEF Holding
  <2> QED BY <2>1, <2>2, LoopTaken
<1>8. ASSUME NEW d \in Decider, FinishDecision(d)
      PROVE  LoopInv'
  <2>1. up /\ loop \in {d, Free} /\ UNCHANGED <<call, up>>
    BY <1>8 DEF FinishDecision
  <2>2. /\ Others(d) /\ loop' = Free /\ decision'[d].pc \notin Holding
    BY <1>8, StopEffect DEF Holding
  <2> QED BY <2>1, <2>2, LoopTaken
<1>9. ASSUME NEW d \in Decider, RecordOutcome(d)
      PROVE  LoopInv'
  <2>1. up /\ loop = Free /\ UNCHANGED <<call, up>>
    BY <1>9 DEF RecordOutcome, LoopFree
  <2>2. /\ Others(d) /\ loop' \in {d, Free}
        /\ decision'[d].pc \in Holding => loop' = d
    BY <1>9, <2>1, RecordEffect DEF Holding
  <2> QED BY <2>1, <2>2, LoopTaken
<1>10. ASSUME NEW d \in Decider, Approve(d)
      PROVE  LoopInv'
  <2>1. up /\ loop = d /\ loop' \in {d, Free} /\ UNCHANGED <<call, up>>
    BY <1>10 DEF Approve, LoopInv, Holding
  <2>2. Others(d) /\ (decision'[d].pc \in Holding => loop' = d)
    BY <1>10, <2>1, ApproveEffect DEF Holding
  <2> QED BY <2>1, <2>2, LoopTaken
<1>11. ASSUME NEW d \in Decider,
              \/ RejectRow(d) \/ InvalidateUnapproved(d) \/ PrepareRefused(d) \/ Consume(d)
              \/ RunTool(d) \/ WriteReceipt(d)
      PROVE  LoopInv'
  <2>1. up /\ UNCHANGED <<call, up, loop>>
    BY <1>11 DEF RejectRow, InvalidateUnapproved, PrepareRefused, Consume, RunTool, WriteReceipt
  <2>2. Others(d) /\ (decision'[d].pc \in Holding => decision[d].pc \in Holding)
    BY <1>11, RejectRowEffect, InvalidateEffect, PrepareEffect, ConsumeEffect, RunToolEffect,
       WriteReceiptEffect DEF Holding, InvalidateUnapproved
  <2> QED BY <2>1, <2>2, LoopLeft
<1>12. ASSUME Crash
      PROVE  LoopInv'
  BY <1>12 DEF Crash, LoopInv, IdleCall, IdleDecision, Holding
<1>13. ASSUME Recover
      PROVE  LoopInv'
  BY <1>13 DEF Recover, LoopInv
<1>14. CASE UNCHANGED vars
  BY <1>14 DEF vars, LoopInv
<1> QED
  BY <1>1, <1>2, <1>3, <1>4, <1>5, <1>6, <1>7, <1>8, <1>9, <1>10, <1>11, <1>12, <1>13,
     <1>14 DEF Next, TurnStep, DecisionStep

(***************************************************************************)
(* A claimed call belongs to one decision.                                 *)
(***************************************************************************)

(* d's step leaves what other decisions claimed as it was. *)
LEMMA ClaimKept ==
  ASSUME TypeOK, ClaimInv, NEW d \in Decider, Others(d), UNCHANGED call,
         \A i \in Id : status[i] # "none" => status'[i] # "none",
         decision'[d].batch \subseteq decision[d].batch,
         decision'[d].pc \in Claimed => decision[d].pc \in Claimed /\ decision'[d].id = decision[d].id,
         \A i \in Id : \/ row'[i] = row[i]
                       \/ /\ decision'[d].pc \notin Claimed /\ i = decision[d].id
                          /\ decision[d].pc \in Claimed \/ row[i] # "running"
                          /\ row[i] # "none"
  PROVE  ClaimInv'
<1>1. \A e \in Decider : decision'[e].pc \in Claimed =>
          decision[e].pc \in Claimed /\ decision'[e].id = decision[e].id
  BY DEF Others
<1>2. \A e \in Decider : decision'[e].batch \subseteq decision[e].batch
  BY DEF Others
<1>3. ASSUME NEW e \in Decider, decision'[e].pc \in Claimed
      PROVE  decision'[e].id \in Id /\ row'[decision'[e].id] = "running"
  <2>1. decision[e].id \in Id /\ row[decision[e].id] = "running" /\ decision[e].pc \in Claimed
    BY <1>1, <1>3 DEF ClaimInv
  <2>2. row'[decision[e].id] = row[decision[e].id]
    BY <1>3, <2>1 DEF ClaimInv, Others
  <2> QED BY <1>1, <1>3, <2>1, <2>2
<1>4. \A e, f \in Decider :
          decision'[e].pc \in Claimed /\ decision'[f].pc \in Claimed
          /\ decision'[e].id = decision'[f].id => e = f
  BY <1>1 DEF ClaimInv
<1>5. \A i \in Id : row'[i] # "none" => status'[i] # "none"
  BY DEF ClaimInv
<1>6. \A k \in Caller : call'[k].pc \in {"waiting", "creating", "marking"} =>
          call'[k].id \in Id /\ status'[call'[k].id] # "none"
  BY DEF ClaimInv
<1>7. \A e \in Decider : \A i \in decision'[e].batch : status'[i] # "none"
  <2> SUFFICES ASSUME NEW e \in Decider, NEW i \in decision'[e].batch
               PROVE  status'[i] # "none"
    OBVIOUS
  <2>1. i \in decision[e].batch /\ status[i] # "none"
    BY <1>2 DEF ClaimInv
  <2>2. i \in Id
    BY <2>1, DecisionFields DEF TypeOK, ProcessOK
  <2> QED BY <2>1, <2>2
<1> QED BY <1>3, <1>4, <1>5, <1>6, <1>7 DEF ClaimInv

(* A turn's step: no row that a decision claimed is touched. *)
LEMMA ClaimOfCall ==
  ASSUME TypeOK, ClaimInv, NEW k \in Caller, UNCHANGED decision,
         \A j \in Caller \ {k} : call'[j] = call[j],
         \A i \in Id : status[i] # "none" => status'[i] # "none",
         \A i \in Id : row[i] = "running" => row'[i] = "running",
         \A i \in Id : row'[i] # "none" => row[i] # "none" \/ status[i] # "none",
         call'[k].pc \in {"waiting", "creating", "marking"} =>
             call'[k].id \in Id /\ status'[call'[k].id] # "none"
  PROVE  ClaimInv'
<1>1. \A e \in Decider : \A i \in decision[e].batch : i \in Id
  BY DecisionFields DEF TypeOK, ProcessOK
<1>2. \A e \in Decider : \A i \in decision'[e].batch : status'[i] # "none"
  BY <1>1 DEF ClaimInv
<1>3. \A j \in Caller : call'[j].pc \in {"waiting", "creating", "marking"} =>
          call'[j].id \in Id /\ status'[call'[j].id] # "none"
  BY DEF ClaimInv
<1>4. \A i \in Id : row'[i] # "none" => status'[i] # "none"
  BY DEF ClaimInv
<1>5. \A e \in Decider : decision'[e].pc \in Claimed =>
          decision'[e].id \in Id /\ row'[decision'[e].id] = "running"
  BY DEF ClaimInv
<1>6. \A e, f \in Decider :
          decision'[e].pc \in Claimed /\ decision'[f].pc \in Claimed
          /\ decision'[e].id = decision'[f].id => e = f
  BY DEF ClaimInv
<1> QED BY <1>2, <1>3, <1>4, <1>5, <1>6 DEF ClaimInv

LEMMA RequestEffect ==
  ASSUME TypeOK, NEW k \in Caller, RequestReuse(k) \/ RequestNew(k)
  PROVE  /\ up /\ UNCHANGED <<decision, loop, up, used, expired, presented, effects>>
         /\ \A j \in Caller \ {k} : call'[j] = call[j]
         /\ call'[k].pc = "waiting" /\ call'[k].id \in Id
         /\ call'[k].op = call[k].op /\ call'[k].ctx = call[k].ctx
         /\ status'[call'[k].id] = "pending"
         /\ \A i \in Id : /\ status[i] \notin {"none", "pending"} => status'[i] = status[i]
                          /\ status[i] = "pending" => status'[i] \in {"pending", "revoked"}
                          /\ status[i] = "none" => status'[i] \in {"none", "pending"}
                          /\ row[i] # "pending" => row'[i] = row[i]
                          /\ row[i] = "pending" =>
                                \/ row'[i] = "pending" /\ (status[i] = "pending" => status'[i] = "pending")
                                \/ /\ row'[i] \in {"expired", "superseded"}
                                   /\ status[i] = "pending" /\ status'[i] = "revoked"
<1>1. CASE RequestReuse(k)
  <2> DEFINE o == call[k].op
  <2> DEFINE c == call[k].ctx
  <2>1. PICK i \in Reusable(o, c), lapsed \in SUBSET Lapsed(o, c), rivals \in SUBSET Rivals(o, c) :
              /\ status' = [j \in Id |-> IF j \in lapsed \cup rivals
                                        THEN "revoked" ELSE status[j]]
              /\ active' = [j \in Id |-> j = i \/ (active[j] /\ j \notin lapsed \cup rivals)]
              /\ Sweep(lapsed, rivals)
              /\ call' = [call EXCEPT ![k].pc = "waiting", ![k].id = i]
    BY <1>1 DEF RequestReuse
  <2>2. /\ lapsed \cup rivals \subseteq {j \in Id : status[j] = "pending"}
        /\ i \in Id /\ status[i] = "pending" /\ i \notin lapsed \cup rivals
    BY DEF Reusable, Lapsed, Rivals, InContext, Created
  <2>3. /\ \A j \in Caller \ {k} : call'[j] = call[j]
        /\ call'[k].pc = "waiting" /\ call'[k].id = i
        /\ call'[k].op = call[k].op /\ call'[k].ctx = call[k].ctx
    BY <2>1 DEF TypeOK, ProcessOK, CallType
  <2>4. up /\ UNCHANGED <<decision, loop, up, used, expired, presented, effects>>
    BY <1>1 DEF RequestReuse, process
  <2> HIDE DEF o, c
  <2> QED BY <2>1, <2>2, <2>3, <2>4 DEF Sweep
<1>2. CASE RequestNew(k)
  <2> DEFINE o == call[k].op
  <2> DEFINE c == call[k].ctx
  <2>1. PICK n \in Id :
              /\ status[n] = "none"
              /\ status' = [j \in Id |-> IF j = n THEN "pending"
                                        ELSE IF j \in Lapsed(o, c) \cup Rivals(o, c) THEN "revoked"
                                        ELSE status[j]]
              /\ call' = [call EXCEPT ![k].pc = "waiting", ![k].id = n]
    BY <1>2 DEF RequestNew
  <2>2. Lapsed(o, c) \cup Rivals(o, c) \subseteq {j \in Id : status[j] = "pending"}
    BY DEF Lapsed, Rivals, InContext, Created
  <2>3. /\ \A j \in Caller \ {k} : call'[j] = call[j]
        /\ call'[k].pc = "waiting" /\ call'[k].id = n
        /\ call'[k].op = call[k].op /\ call'[k].ctx = call[k].ctx
    BY <2>1 DEF TypeOK, ProcessOK, CallType
  <2>4. up /\ UNCHANGED <<decision, loop, up, used, expired, presented, effects>>
    BY <1>2 DEF RequestNew, process
  <2>5. Sweep(Lapsed(o, c), Rivals(o, c))
    BY <1>2 DEF RequestNew
  <2> HIDE DEF o, c
  <2> QED BY <2>1, <2>2, <2>3, <2>4, <2>5 DEF Sweep
<1> QED BY <1>1, <1>2

LEMMA ClaimStep == TypeOK /\ SpendInv /\ WaitInv /\ ClaimInv /\ [Next]_vars => ClaimInv'
<1> SUFFICES ASSUME TypeOK, SpendInv, WaitInv, ClaimInv, [Next]_vars PROVE ClaimInv'
  OBVIOUS
<1> USE DEF approvals, effects, process
<1>1. ASSUME NEW k \in Caller,
             \/ \E o \in Op, c \in Context : StartCall(k, o, c)
             \/ RunGranted(k) \/ RequestRefused(k) \/ AbandonTurn(k)
             \/ EndTurn(k) \/ MarkPresented(k)
      PROVE  ClaimInv'
  <2>1. UNCHANGED <<decision, status, row>>
    BY <1>1 DEF StartCall, RunGranted, RequestRefused, AbandonTurn, EndTurn, MarkPresented
  <2>2. \A j \in Caller \ {k} : call'[j] = call[j]
    BY <1>1 DEF StartCall, RunGranted, RequestRefused, AbandonTurn, EndTurn, MarkPresented,
       TypeOK, ProcessOK
  <2>3. call'[k].pc \in {"waiting", "creating", "marking"} =>
            call[k].pc \in {"waiting", "creating", "marking"} /\ call'[k].id = call[k].id
    BY <1>1 DEF StartCall, RunGranted, RequestRefused, AbandonTurn, EndTurn, MarkPresented,
       TypeOK, ProcessOK, IdleCall, CallType
  <2>4. call'[k].pc \in {"waiting", "creating", "marking"} =>
            call'[k].id \in Id /\ status'[call'[k].id] # "none"
    BY <2>1, <2>3 DEF ClaimInv
  <2> QED BY <2>1, <2>2, <2>4, ClaimOfCall
<1>2. ASSUME NEW k \in Caller, CreateRow(k)
      PROVE  ClaimInv'
  <2>1. /\ UNCHANGED <<decision, status>>
        /\ \A j \in Caller \ {k} : call'[j] = call[j]
        /\ call'[k].pc = "marking" /\ call'[k].id = call[k].id /\ call[k].pc = "creating"
    BY <1>2 DEF CreateRow, TypeOK, ProcessOK, CallType
  <2>2. call[k].id \in Id /\ status[call[k].id] # "none"
    BY <2>1 DEF ClaimInv
  <2>3. \A i \in Id : i # call[k].id \/ row[i] # "none" => row'[i] = row[i]
    BY <1>2 DEF CreateRow, TypeOK, TablesOK
  <2> QED BY <2>1, <2>2, <2>3, ClaimOfCall
<1>3. ASSUME NEW k \in Caller, RequestReuse(k) \/ RequestNew(k)
      PROVE  ClaimInv'
  <2>1. /\ UNCHANGED decision
        /\ \A j \in Caller \ {k} : call'[j] = call[j]
        /\ call'[k].id \in Id /\ status'[call'[k].id] = "pending"
        /\ \A i \in Id : /\ status[i] # "none" => status'[i] # "none"
                         /\ row[i] = "running" => row'[i] = "running"
                         /\ row'[i] # "none" => row[i] # "none"
    BY <1>3, RequestEffect DEF TypeOK, TablesOK
  <2> QED BY <2>1, ClaimOfCall
<1>4. ASSUME NEW i \in Id, Expire(i) \/ LoseGrant(i)
      PROVE  ClaimInv'
  BY <1>4 DEF Expire, LoseGrant, ClaimInv
<1>5. ASSUME NEW d \in Decider,
             \/ \E c \in Context, allow \in BOOLEAN : DecideAll(d, c, allow)
             \/ \E c \in Context, allow \in BOOLEAN, s \in Scope : DecideCodes(d, c, allow, s)
             \/ RejectCode(d)
      PROVE  ClaimInv'
  <2>1. /\ Others(d) /\ decision'[d].pc = "next"
        /\ decision'[d].batch \subseteq {i \in Id : status[i] = "pending"}
        /\ UNCHANGED <<status, row, call>>
    BY <1>5, BeginEffect
  <2> QED BY <2>1 DEF ClaimInv, Others, Claimed
<1>6. ASSUME NEW d \in Decider, NEW i \in Id, Reject(d, i) \/ ResolveUnbound(d, i)
      PROVE  ClaimInv'
  <2>1. /\ UNCHANGED <<row, call>>
        /\ \A j \in Id : status[j] # "none" => status'[j] # "none"
    BY <1>6 DEF Reject, ResolveUnbound, TypeOK, TablesOK
  <2>2. /\ Others(d) /\ decision'[d].batch \subseteq decision[d].batch
        /\ decision'[d].pc \notin Claimed
    BY <1>6, RejectEffect, ResolveEffect DEF Claimed
  <2> QED BY <2>1, <2>2, ClaimKept
<1>7. ASSUME NEW d \in Decider, NEW i \in Id, Claim(d, i)
      PROVE  ClaimInv'
  <2>1. UNCHANGED <<status, call>> /\ decision[d].pc = "next"
    BY <1>7 DEF Claim, AtNextCode
  <2>2. CASE /\ decision'[d].pc = "approving" /\ decision'[d].id = i
             /\ row[i] = "pending" /\ row' = [row EXCEPT ![i] = "running"]
    <3>1. Others(d) /\ decision'[d].batch \subseteq decision[d].batch
      BY <1>7, ClaimEffect
    <3>2. \A j \in Id : row'[j] = IF j = i THEN "running" ELSE row[j]
      BY <2>2 DEF TypeOK, TablesOK
    <3>3. \A e \in Decider \ {d} : decision[e].pc \in Claimed => decision[e].id # i
      BY <2>2 DEF ClaimInv
    <3>4. \A e \in Decider : \A j \in decision'[e].batch : status'[j] # "none"
      BY <2>1, <3>1 DEF ClaimInv, Others
    <3>5. \A e \in Decider : decision'[e].pc \in Claimed =>
              decision'[e].id \in Id /\ row'[decision'[e].id] = "running"
      BY <2>2, <3>1, <3>2, <3>3 DEF ClaimInv, Others
    <3>6. \A e, f \in Decider :
              decision'[e].pc \in Claimed /\ decision'[f].pc \in Claimed
              /\ decision'[e].id = decision'[f].id => e = f
      BY <2>2, <3>1, <3>3 DEF ClaimInv, Others
    <3>7. \A j \in Id : row'[j] # "none" => status'[j] # "none"
      BY <2>1, <2>2, <3>2 DEF ClaimInv
    <3> QED BY <2>1, <3>4, <3>5, <3>6, <3>7 DEF ClaimInv
  <2>3. CASE decision'[d].pc \in {"idle", "next"} /\ UNCHANGED row
    BY <1>7, <2>1, <2>3, ClaimEffect, ClaimKept DEF Claimed
  <2> QED BY <1>7, <2>2, <2>3, ClaimEffect
<1>8. ASSUME NEW d \in Decider, RejectRow(d)
      PROVE  ClaimInv'
  <2>1. /\ UNCHANGED <<status, call>> /\ decision[d].pc = "rejecting"
        /\ row' = [row EXCEPT ![decision[d].id] = "rejected"]
    BY <1>8 DEF RejectRow
  <2>2. decision[d].id \in Id /\ row[decision[d].id] = "pending"
    BY <2>1 DEF WaitInv
  <2>3. \A i \in Id : i # decision[d].id => row'[i] = row[i]
    BY <2>1 DEF TypeOK, TablesOK
  <2>4. Others(d) /\ decision'[d].batch = decision[d].batch /\ decision'[d].pc \notin Claimed
    BY <1>8, RejectRowEffect DEF Claimed
  <2> QED BY <2>1, <2>2, <2>3, <2>4, ClaimKept
<1>9. ASSUME NEW d \in Decider, FailRow(d) \/ RecordOutcome(d)
      PROVE  ClaimInv'
  <2>1. /\ UNCHANGED <<status, call>> /\ decision[d].pc \in {"failing", "recording"}
        /\ \A i \in Id : i # decision[d].id => row'[i] = row[i]
    BY <1>9 DEF FailRow, RecordOutcome, TypeOK, TablesOK
  <2>2. /\ decision[d].pc \in Claimed /\ decision[d].id \in Id
        /\ row[decision[d].id] = "running"
    BY <2>1 DEF Claimed, ClaimInv
  <2>3. /\ Others(d) /\ decision'[d].batch \subseteq decision[d].batch
        /\ decision'[d].pc \notin Claimed
    BY <1>9, FailRowEffect, RecordEffect DEF Claimed
  <2> QED BY <2>1, <2>2, <2>3, ClaimKept
<1>10. ASSUME NEW d \in Decider,
              \/ Approve(d) \/ InvalidateUnapproved(d) \/ PrepareRefused(d) \/ Consume(d)
              \/ RunTool(d) \/ WriteReceipt(d)
       PROVE  ClaimInv'
  <2>1. UNCHANGED <<row, call>> /\ decision[d].pc \in Claimed
    BY <1>10 DEF Approve, InvalidateUnapproved, PrepareRefused, Consume, RunTool, WriteReceipt,
       Claimed
  <2>2. \A i \in Id : status[i] # "none" => status'[i] # "none"
    BY <1>10 DEF Approve, InvalidateUnapproved, Withdraw, PrepareRefused, Consume, RunTool,
       WriteReceipt, TypeOK, TablesOK
  <2>3. /\ Others(d) /\ decision'[d].batch \subseteq decision[d].batch
        /\ decision'[d].id = decision[d].id
    BY <1>10, ApproveEffect, InvalidateEffect, PrepareEffect, ConsumeEffect, RunToolEffect,
       WriteReceiptEffect
  <2> QED BY <2>1, <2>2, <2>3, ClaimKept
<1>11. ASSUME NEW d \in Decider, WithdrawFailed(d) \/ FinishDecision(d)
       PROVE  ClaimInv'
  <2>1. /\ UNCHANGED <<row, call>>
        /\ \A i \in Id : status[i] # "none" => status'[i] # "none"
    BY <1>11 DEF WithdrawFailed, FinishDecision, Withdraw, TypeOK, TablesOK
  <2>2. Others(d) /\ decision'[d].batch = {} /\ decision'[d].pc \notin Claimed
    BY <1>11, StopEffect DEF Claimed
  <2> QED BY <2>1, <2>2, ClaimKept
<1>12. ASSUME Crash
       PROVE  ClaimInv'
  BY <1>12 DEF Crash, ClaimInv, IdleCall, IdleDecision, Claimed
<1>13. ASSUME Recover
       PROVE  ClaimInv'
  <2>1. /\ UNCHANGED <<call, decision>> /\ \A d \in Decider : decision[d].pc = "idle"
    BY <1>13 DEF Recover, SpendInv
  <2>2. \A i \in Id : /\ status[i] # "none" => status'[i] # "none"
                      /\ row'[i] # "none" => row[i] # "none"
    BY <1>13 DEF Recover, TypeOK, TablesOK
  <2>3. \A e \in Decider : \A i \in decision'[e].batch : status'[i] # "none"
    BY <2>1, <2>2, DecisionFields DEF ClaimInv, TypeOK, ProcessOK
  <2> QED BY <2>1, <2>2, <2>3 DEF ClaimInv, Claimed
<1>14. CASE UNCHANGED vars
  BY <1>14 DEF vars, ClaimInv
<1> QED
  BY <1>1, <1>2, <1>3, <1>4, <1>5, <1>6, <1>7, <1>8, <1>9, <1>10, <1>11, <1>12, <1>13,
     <1>14 DEF Next, TurnStep, DecisionStep

(***************************************************************************)
(* A continuation that waits belongs to an approval that waits.            *)
(***************************************************************************)

(* d's step ends continuations, and closes or approves approvals whose      *)
(* continuation does not wait.                                             *)
LEMMA WaitKept ==
  ASSUME TypeOK, WaitInv, NEW d \in Decider, Others(d), UNCHANGED up,
         decision'[d].batch \subseteq decision[d].batch,
         decision'[d].pc # "rejecting",
         decision[d].pc = "rejecting" => row'[decision[d].id] # "pending",
         \/ \A e \in Decider \ {d} : decision[e].pc # "rejecting"
         \/ \A i \in Id : row[i] = "pending" => row'[i] = row[i] /\ status'[i] = status[i],
         decision[d].pc \in {"approving", "invalidating"} =>
             \/ decision'[d].pc = "invalidating" /\ decision'[d].id = decision[d].id
             \/ row'[decision[d].id] # "running"
             \/ status'[decision[d].id] # "pending",
         \A i \in Id : /\ row'[i] # row[i] =>
                             row'[i] \notin {"none", "pending", "running"} /\ status'[i] # "pending"
                       /\ status'[i] # status[i] =>
                             status'[i] \notin {"pending", "rejected"} /\ row'[i] # "pending"
  PROVE  WaitInv'
<1>1. \A e \in Decider : decision'[e].batch \subseteq decision[e].batch
  BY DEF Others
<1>2. \A e \in Decider : decision'[e].pc = "rejecting" =>
          e # d /\ decision'[e] = decision[e]
  BY DEF Others
<1>3. ASSUME NEW i \in Id
      PROVE  /\ row'[i] = "pending" => status'[i] \in {"pending", "rejected"}
             /\ row'[i] = "running" => status'[i] # "rejected"
             /\ status'[i] = "pending" => row'[i] \in {"none", "pending", "running"}
             /\ row'[i] = "running" /\ status'[i] = "pending" /\ up' =>
                  \E e \in Decider : /\ decision'[e].pc \in {"approving", "invalidating"}
                                     /\ decision'[e].id = i
  <2>1. /\ row'[i] = "pending" => status'[i] \in {"pending", "rejected"}
        /\ row'[i] = "running" => status'[i] # "rejected"
        /\ status'[i] = "pending" => row'[i] \in {"none", "pending", "running"}
    BY DEF WaitInv
  <2>2. ASSUME row'[i] = "running", status'[i] = "pending", up'
        PROVE  \E e \in Decider : /\ decision'[e].pc \in {"approving", "invalidating"}
                                  /\ decision'[e].id = i
    <3>1. PICK e \in Decider : /\ decision[e].pc \in {"approving", "invalidating"}
                               /\ decision[e].id = i
      BY <2>2 DEF WaitInv
    <3>2. CASE e = d
      BY <2>2, <3>1, <3>2
    <3>3. CASE e # d
      BY <3>1, <3>3 DEF Others
    <3> QED BY <3>2, <3>3
  <2> QED BY <2>1, <2>2
<1>4. ASSUME NEW e \in Decider, decision'[e].pc = "rejecting"
      PROVE  /\ decision'[e].id \in Id
             /\ status'[decision'[e].id] = "rejected" /\ row'[decision'[e].id] = "pending"
  <2>1. /\ decision[e].id \in Id /\ decision'[e].id = decision[e].id /\ e # d
        /\ decision[e].pc = "rejecting"
        /\ status[decision[e].id] = "rejected" /\ row[decision[e].id] = "pending"
    BY <1>2, <1>4 DEF WaitInv
  <2> QED BY <2>1
<1>5. ASSUME NEW e \in Decider, NEW i \in decision'[e].batch,
             row'[i] = "pending", status'[i] = "rejected"
      PROVE  \E f \in Decider : decision'[f].pc = "rejecting" /\ decision'[f].id = i
  <2>1. i \in decision[e].batch
    BY <1>1
  <2>2. i \in Id
    BY <2>1, DecisionFields DEF TypeOK, ProcessOK
  <2>3. row[i] = "pending" /\ status[i] = "rejected"
    BY <1>5, <2>2
  <2>4. PICK f \in Decider : decision[f].pc = "rejecting" /\ decision[f].id = i
    BY <2>1, <2>3 DEF WaitInv
  <2>5. f # d
    BY <1>5, <2>4
  <2> QED BY <2>4, <2>5 DEF Others
<1> QED BY <1>3, <1>4, <1>5 DEF WaitInv

(* No decision touched: approvals are asked, closed, or given a continuation. *)
LEMMA WaitOfCall ==
  ASSUME TypeOK, WaitInv, UNCHANGED <<decision, up>>,
         \A i \in Id : /\ row'[i] = "pending" => status'[i] \in {"pending", "rejected"}
                       /\ row'[i] = "running" <=> row[i] = "running"
                       /\ row[i] = "running" /\ status'[i] = "pending" => status[i] = "pending"
                       /\ status'[i] = "rejected" <=> status[i] = "rejected"
                       /\ status[i] = "rejected" => (row'[i] = "pending" <=> row[i] = "pending")
                       /\ status'[i] = "pending" => row'[i] \in {"none", "pending", "running"}
  PROVE  WaitInv'
<1>1. \A e \in Decider : \A i \in decision[e].batch : i \in Id
  BY DecisionFields DEF TypeOK, ProcessOK
<1>2. \A e \in Decider : \A i \in decision'[e].batch :
          row'[i] = "pending" /\ status'[i] = "rejected" =>
              \E f \in Decider : decision'[f].pc = "rejecting" /\ decision'[f].id = i
  BY <1>1 DEF WaitInv
<1>3. \A e \in Decider : decision'[e].pc = "rejecting" =>
          /\ decision'[e].id \in Id
          /\ status'[decision'[e].id] = "rejected" /\ row'[decision'[e].id] = "pending"
  BY DEF WaitInv
<1>4. \A i \in Id :
          /\ row'[i] = "pending" => status'[i] \in {"pending", "rejected"}
          /\ row'[i] = "running" => status'[i] # "rejected"
          /\ status'[i] = "pending" => row'[i] \in {"none", "pending", "running"}
          /\ row'[i] = "running" /\ status'[i] = "pending" /\ up' =>
                \E d \in Decider : /\ decision'[d].pc \in {"approving", "invalidating"}
                                   /\ decision'[d].id = i
  BY DEF WaitInv
<1> QED BY <1>2, <1>3, <1>4 DEF WaitInv

(* While d, at its next code, has the loop or it is free, nobody is between  *)
(* two transactions of a decision.                                         *)
LEMMA NobodyHolds ==
  ASSUME LoopInv, NEW d \in Decider, decision[d].pc = "next", loop \in {d, Free}
  PROVE  \A e \in Decider : decision[e].pc \notin Holding
  BY LoopAssumption DEF LoopInv, Holding

(* A continuation that d can claim has an approval that waits. *)
LEMMA ClaimedWaits ==
  ASSUME TypeOK, LoopInv, WaitInv, NEW d \in Decider, NEW i \in Id, AtNextCode(d, i),
         row[i] = "pending"
  PROVE  status[i] = "pending"
<1>1. \A e \in Decider : decision[e].pc # "rejecting"
  BY NobodyHolds DEF AtNextCode, Holding
<1>2. i \in decision[d].batch
  BY DEF AtNextCode, Remaining
<1> QED BY <1>1, <1>2 DEF WaitInv

LEMMA WaitStep ==
  TypeOK /\ LoopInv /\ ClaimInv /\ SpendInv /\ StageInv /\ WaitInv /\ [Next]_vars => WaitInv'
<1> SUFFICES ASSUME TypeOK, LoopInv, ClaimInv, SpendInv, StageInv, WaitInv, [Next]_vars
             PROVE  WaitInv'
  OBVIOUS
<1> USE DEF approvals, effects, process
<1>1. ASSUME \/ \E k \in Caller :
                  \/ \E o \in Op, c \in Context : StartCall(k, o, c)
                  \/ RunGranted(k) \/ RequestRefused(k) \/ AbandonTurn(k)
                  \/ EndTurn(k) \/ MarkPresented(k)
             \/ \E i \in Id : Expire(i) \/ LoseGrant(i)
             \/ UNCHANGED vars
      PROVE  WaitInv'
  <2>1. UNCHANGED <<decision, status, row, up>>
    BY <1>1 DEF StartCall, RunGranted, RequestRefused, AbandonTurn, EndTurn, MarkPresented,
       Expire, LoseGrant, vars
  <2> QED BY <2>1 DEF WaitInv
<1>2. ASSUME NEW k \in Caller, CreateRow(k)
      PROVE  WaitInv'
  <2> DEFINE i == call[k].id
  <2>1. /\ UNCHANGED <<decision, status, up>> /\ call[k].pc = "creating"
        /\ row' = [row EXCEPT ![i] = IF @ # "none" THEN @
                                     ELSE IF status[i] = "pending" THEN "pending"
                                     ELSE "superseded"]
    BY <1>2 DEF CreateRow
  <2>2. i \in Id
    BY <2>1 DEF ClaimInv
  <2>3. \A j \in Id : \/ row'[j] = row[j]
                      \/ /\ row[j] = "none" /\ row'[j] \in {"pending", "superseded"}
                         /\ row'[j] = "pending" <=> status[j] = "pending"
    BY <2>1, <2>2 DEF TypeOK, TablesOK
  <2>4. \A j \in Id : /\ row[j] = "pending" => status[j] \in {"pending", "rejected"}
                      /\ status[j] = "pending" => row[j] \in {"none", "pending", "running"}
    BY DEF WaitInv
  <2> QED BY <2>1, <2>3, <2>4, WaitOfCall
<1>3. ASSUME NEW k \in Caller, RequestReuse(k) \/ RequestNew(k)
      PROVE  WaitInv'
  <2>1. /\ UNCHANGED <<decision, up>>
        /\ \A i \in Id : /\ status[i] \notin {"none", "pending"} => status'[i] = status[i]
                         /\ status[i] = "pending" => status'[i] \in {"pending", "revoked"}
                         /\ status[i] = "none" => status'[i] \in {"none", "pending"}
                         /\ row[i] # "pending" => row'[i] = row[i]
                         /\ row[i] = "pending" =>
                              \/ row'[i] = "pending" /\ (status[i] = "pending" => status'[i] = "pending")
                              \/ /\ row'[i] \in {"expired", "superseded"}
                                 /\ status[i] = "pending" /\ status'[i] = "revoked"
    BY <1>3, RequestEffect
  <2>2. \A i \in Id : /\ row[i] = "pending" => status[i] \in {"pending", "rejected"}
                      /\ status[i] = "pending" => row[i] \in {"none", "pending", "running"}
                      /\ status[i] = "none" => row[i] = "none"
    BY DEF WaitInv, ClaimInv
  <2>3. \A i \in Id : status[i] \in ApprovalStatus /\ row[i] \in RowStatus
    BY DEF TypeOK, TablesOK
  <2> QED BY <2>1, <2>2, <2>3, WaitOfCall
<1>4. ASSUME NEW d \in Decider,
             \/ \E c \in Context, allow \in BOOLEAN : DecideAll(d, c, allow)
             \/ \E c \in Context, allow \in BOOLEAN, s \in Scope : DecideCodes(d, c, allow, s)
             \/ RejectCode(d)
      PROVE  WaitInv'
  <2>1. /\ Others(d) /\ decision'[d].pc = "next"
        /\ decision'[d].batch \subseteq {i \in Id : status[i] = "pending"}
        /\ UNCHANGED <<status, row, up>> /\ loop = Free
    BY <1>4, BeginEffect
  <2>2. \A e \in Decider : decision[e].pc \notin {"rejecting", "approving", "invalidating"}
    BY <2>1, LoopAssumption DEF LoopInv, Holding
  <2>3. \A e \in Decider : decision'[e].pc # "rejecting"
    BY <2>1, <2>2 DEF Others
  <2>4. \A e \in Decider : \A i \in decision'[e].batch :
            ~(row'[i] = "pending" /\ status'[i] = "rejected")
    BY <2>1, <2>2 DEF Others, WaitInv
  <2> QED BY <2>1, <2>2, <2>3, <2>4 DEF WaitInv
<1>5. ASSUME NEW d \in Decider, NEW i \in Id, Reject(d, i)
      PROVE  WaitInv'
  <2>1. /\ \A e \in Decider : decision[e].pc \notin Holding
        /\ UNCHANGED <<row, up>> /\ up
    BY <1>5, NobodyHolds DEF Reject, AtNextCode
  <2>2. Others(d) /\ decision'[d].batch \subseteq decision[d].batch
    BY <1>5, RejectEffect
  <2>3. CASE status[i] = "pending"
    <3>1. /\ status' = [status EXCEPT ![i] = "rejected"]
          /\ Goto(d, IF row[i] = "none" THEN "next" ELSE "rejecting", i)
      BY <1>5, <2>3 DEF Reject
    <3>2. decision'[d].pc = (IF row[i] = "none" THEN "next" ELSE "rejecting")
          /\ decision'[d].id = i
      BY <3>1, GotoType DEF DecisionPc, TypeOK, ProcessOK
    <3>3. row[i] \in {"none", "pending"}
      BY <2>1, <2>3 DEF WaitInv, Holding
    <3>4. \A j \in Id : status'[j] = IF j = i THEN "rejected" ELSE status[j]
      BY <3>1 DEF TypeOK, TablesOK
    <3>5. \A e \in Decider : \A j \in decision'[e].batch :
              row'[j] = "pending" /\ status'[j] = "rejected" => j = i
      <4>1. \A e \in Decider : \A j \in decision'[e].batch : j \in Id /\ j \in decision[e].batch
        BY <2>2, DecisionFields DEF Others, TypeOK, ProcessOK
      <4> QED BY <2>1, <3>4, <4>1 DEF WaitInv, Holding
    <3>6. \A e \in Decider : \A j \in decision'[e].batch :
              row'[j] = "pending" /\ status'[j] = "rejected" =>
                  \E f \in Decider : decision'[f].pc = "rejecting" /\ decision'[f].id = j
      BY <2>1, <3>2, <3>5
    <3>7. \A e \in Decider : decision'[e].pc = "rejecting" =>
              /\ decision'[e].id \in Id
              /\ status'[decision'[e].id] = "rejected" /\ row'[decision'[e].id] = "pending"
      BY <2>1, <2>2, <3>2, <3>3, <3>4 DEF Others, Holding
    <3>8. \A j \in Id :
              /\ row'[j] = "pending" => status'[j] \in {"pending", "rejected"}
              /\ row'[j] = "running" => status'[j] # "rejected"
              /\ status'[j] = "pending" => row'[j] \in {"none", "pending", "running"}
              /\ ~(row'[j] = "running" /\ status'[j] = "pending")
      BY <2>1, <3>3, <3>4 DEF WaitInv, Holding
    <3> QED BY <3>6, <3>7, <3>8 DEF WaitInv
  <2>4. CASE status[i] # "pending"
    <3>1. UNCHANGED status /\ decision[d].pc = "next" /\ decision'[d].pc # "rejecting"
      BY <1>5, <2>4, RejectEffect DEF Reject, AtNextCode
    <3> QED BY <2>1, <2>2, <3>1, WaitKept
  <2> QED BY <2>3, <2>4
<1>6. ASSUME NEW d \in Decider, NEW i \in Id, ResolveUnbound(d, i)
      PROVE  WaitInv'
  <2>1. /\ UNCHANGED <<row, up>> /\ decision[d].pc = "next" /\ row[i] = "none"
        /\ \A j \in Id : status'[j] # status[j] => j = i /\ status'[j] \in {"approved", "revoked"}
    BY <1>6 DEF ResolveUnbound, AtNextCode, TypeOK, TablesOK
  <2>2. /\ Others(d) /\ decision'[d].batch \subseteq decision[d].batch
        /\ decision'[d].pc # "rejecting"
    BY <1>6, ResolveEffect
  <2> QED BY <2>1, <2>2, WaitKept
<1>7. ASSUME NEW d \in Decider, NEW i \in Id, Claim(d, i)
      PROVE  WaitInv'
  <2>1. /\ UNCHANGED <<status, up>> /\ up /\ AtNextCode(d, i) /\ decision[d].pc = "next"
        /\ \A e \in Decider : decision[e].pc \notin Holding
        /\ Others(d) /\ decision'[d].batch \subseteq decision[d].batch
    BY <1>7, NobodyHolds, ClaimEffect DEF Claim, AtNextCode
  <2>2. CASE /\ decision'[d].pc = "approving" /\ decision'[d].id = i
             /\ row[i] = "pending" /\ row' = [row EXCEPT ![i] = "running"]
    <3>1. status[i] = "pending"
      BY <2>1, <2>2, ClaimedWaits
    <3>2. \A j \in Id : row'[j] = IF j = i THEN "running" ELSE row[j]
      BY <2>2 DEF TypeOK, TablesOK
    <3>3. \A e \in Decider : decision'[e].pc # "rejecting"
      BY <2>1, <2>2 DEF Others, Holding
    <3>4. \A e \in Decider : \A j \in decision'[e].batch :
              ~(row'[j] = "pending" /\ status'[j] = "rejected")
      <4>1. \A e \in Decider : \A j \in decision'[e].batch : j \in Id /\ j \in decision[e].batch
        BY <2>1, DecisionFields DEF Others, TypeOK, ProcessOK
      <4> QED BY <2>1, <3>2, <4>1 DEF WaitInv, Holding
    <3>5. \A j \in Id :
              /\ row'[j] = "pending" => status'[j] \in {"pending", "rejected"}
              /\ row'[j] = "running" => status'[j] # "rejected"
              /\ status'[j] = "pending" => row'[j] \in {"none", "pending", "running"}
              /\ row'[j] = "running" /\ status'[j] = "pending" => j = i
      BY <2>1, <3>1, <3>2 DEF WaitInv, Holding
    <3> QED BY <2>2, <3>3, <3>4, <3>5 DEF WaitInv
  <2>3. CASE decision'[d].pc \in {"idle", "next"} /\ UNCHANGED row
    BY <2>1, <2>3, WaitKept
  <2> QED BY <1>7, <2>2, <2>3, ClaimEffect
<1>8. ASSUME NEW d \in Decider, RejectRow(d)
      PROVE  WaitInv'
  <2>1. /\ UNCHANGED <<status, up>> /\ decision[d].pc = "rejecting"
        /\ row' = [row EXCEPT ![decision[d].id] = "rejected"]
    BY <1>8 DEF RejectRow
  <2>2. /\ decision[d].id \in Id /\ status[decision[d].id] = "rejected"
        /\ \A e \in Decider \ {d} : decision[e].pc # "rejecting"
    BY <2>1 DEF WaitInv, LoopInv, Holding
  <2>3. \A i \in Id : row'[i] = IF i = decision[d].id THEN "rejected" ELSE row[i]
    BY <2>1 DEF TypeOK, TablesOK
  <2>4. Others(d) /\ decision'[d].batch = decision[d].batch /\ decision'[d].pc = "next"
    BY <1>8, RejectRowEffect
  <2> QED BY <2>1, <2>2, <2>3, <2>4, WaitKept
<1>9. ASSUME NEW d \in Decider, FailRow(d) \/ RecordOutcome(d)
      PROVE  WaitInv'
  <2>1. /\ UNCHANGED <<status, up>> /\ decision[d].pc \in {"failing", "recording"}
        /\ \A i \in Id : \/ row'[i] = row[i]
                         \/ /\ i = decision[d].id
                            /\ row'[i] \in {"failed", "succeeded", "awaiting_review"}
    BY <1>9 DEF FailRow, RecordOutcome, TypeOK, TablesOK
  <2>2. /\ row[decision[d].id] = "running" /\ status[decision[d].id] # "pending"
        /\ decision[d].id \in Id
    BY <2>1 DEF ClaimInv, Claimed, StageInv, StageOf
  <2>3. /\ Others(d) /\ decision'[d].batch \subseteq decision[d].batch
        /\ decision'[d].pc # "rejecting"
    BY <1>9, FailRowEffect, RecordEffect
  <2> QED BY <2>1, <2>2, <2>3, WaitKept
<1>10. ASSUME NEW d \in Decider,
              \/ Approve(d) \/ InvalidateUnapproved(d) \/ WithdrawFailed(d) \/ Consume(d)
       PROVE  WaitInv'
  <2> DEFINE i == decision[d].id
  <2>1. /\ UNCHANGED <<row, up>>
        /\ decision[d].pc \in {"approving", "invalidating", "withdrawing", "preparing"}
        /\ \A j \in Id : status'[j] # status[j] =>
                            j = i /\ status'[j] \in {"approved", "revoked", "consumed"}
    BY <1>10 DEF Approve, InvalidateUnapproved, WithdrawFailed, Withdraw, Consume, TypeOK, TablesOK
  <2>2. i \in Id /\ row[i] # "pending"
    BY <2>1 DEF ClaimInv, Claimed, StageInv, StageOf
  <2>3. /\ Others(d) /\ decision'[d].batch \subseteq decision[d].batch
        /\ decision'[d].pc # "rejecting"
    BY <1>10, ApproveEffect, InvalidateEffect, ConsumeEffect, StopEffect
  <2>4. decision[d].pc \in {"approving", "invalidating"} =>
            \/ decision'[d].pc = "invalidating" /\ decision'[d].id = i
            \/ status'[i] # "pending"
    <3>1. CASE Approve(d)
      BY <2>2, <3>1, ApproveEffect DEF TypeOK, TablesOK
    <3>2. CASE InvalidateUnapproved(d)
      BY <2>2, <3>2 DEF InvalidateUnapproved, Withdraw, TypeOK, TablesOK
    <3> QED BY <1>10, <3>1, <3>2 DEF WithdrawFailed, Consume
  <2> HIDE DEF i
  <2> QED BY <2>1, <2>2, <2>3, <2>4, WaitKept DEF i
<1>11. ASSUME NEW d \in Decider,
              PrepareRefused(d) \/ RunTool(d) \/ WriteReceipt(d) \/ FinishDecision(d)
       PROVE  WaitInv'
  <2>1. /\ UNCHANGED <<row, status, up>>
        /\ decision[d].pc \in {"preparing", "executing", "auditing", "next"}
    BY <1>11 DEF PrepareRefused, RunTool, WriteReceipt, FinishDecision
  <2>2. /\ Others(d) /\ decision'[d].batch \subseteq decision[d].batch
        /\ decision'[d].pc # "rejecting"
    BY <1>11, PrepareEffect, RunToolEffect, WriteReceiptEffect, StopEffect
  <2> QED BY <2>1, <2>2, WaitKept
<1>12. ASSUME Crash
       PROVE  WaitInv'
  <2>1. ~up' /\ UNCHANGED <<row, status>>
        /\ \A d \in Decider : decision'[d].pc = "idle" /\ decision'[d].batch = {}
    BY <1>12 DEF Crash, IdleDecision
  <2> QED BY <2>1 DEF WaitInv
<1>13. ASSUME Recover
       PROVE  WaitInv'
  <2>1. /\ UNCHANGED decision /\ \A d \in Decider : decision[d].pc = "idle"
    BY <1>13 DEF Recover, SpendInv
  <2>2. \A i \in Id : IF row[i] = "running"
                      THEN /\ row'[i] \in {"succeeded", "awaiting_review"}
                           /\ status'[i] \in {"consumed", "awaiting_review"}
                      ELSE row'[i] = row[i] /\ status'[i] = status[i]
    BY <1>13 DEF Recover, TypeOK, TablesOK
  <2>3. \A e \in Decider : \A i \in decision'[e].batch :
            ~(row'[i] = "pending" /\ status'[i] = "rejected")
    <3>1. \A e \in Decider : \A i \in decision'[e].batch : i \in Id /\ i \in decision[e].batch
      BY <2>1, DecisionFields DEF TypeOK, ProcessOK
    <3> QED BY <2>1, <2>2, <3>1 DEF WaitInv
  <2> QED BY <2>1, <2>2, <2>3 DEF WaitInv
<1> QED
  BY <1>1, <1>2, <1>3, <1>4, <1>5, <1>6, <1>7, <1>8, <1>9, <1>10, <1>11, <1>12,
     <1>13 DEF Next, TurnStep, DecisionStep

(***************************************************************************)
(* How far the call that a decision claimed has come.                      *)
(***************************************************************************)

(* The stage of a decision that did not move: its call is not touched, or   *)
(* only loses an approval that no claimed call waits for any more.          *)
LEMMA StageSame ==
  ASSUME NEW d \in Decider, StageOf(d), decision'[d] = decision[d],
         LET i == decision[d].id
         IN  decision[d].pc \in Claimed \cup {"withdrawing"} =>
               /\ row'[i] = row[i] /\ ran'[i] = ran[i] /\ receipt'[i] = receipt[i]
               /\ \/ status'[i] = status[i]
                  \/ status[i] = "pending" /\ status'[i] \notin {"pending", "approved"}
  PROVE  StageOf(d)'
  BY DEF StageOf, Claimed

(* d's step touches no call but its own. *)
LEMMA StageKept ==
  ASSUME TypeOK, ClaimInv, LoopInv, StageInv, NEW d \in Decider, Others(d), StageOf(d)',
         decision[d].pc \in Claimed \cup {"withdrawing"},
         decision[d].pc = "withdrawing" => UNCHANGED <<row, ran, receipt>>,
         decision[d].pc = "withdrawing" => row[decision[d].id] # "running",
         \A i \in Id : i # decision[d].id =>
             /\ row'[i] = row[i] /\ ran'[i] = ran[i] /\ receipt'[i] = receipt[i]
             /\ status'[i] = status[i],
         row'[decision[d].id] \notin {"none", "pending"} \/ UNCHANGED <<row, ran>>
  PROVE  StageInv'
<1>1. ASSUME NEW e \in Decider \ {d}
      PROVE  StageOf(e)'
  <2>1. decision'[e] = decision[e] /\ StageOf(e)
    BY DEF Others, StageInv
  <2>2. CASE decision[e].pc \in Claimed
    <3>1. decision[e].id \in Id /\ row[decision[e].id] = "running"
      BY <2>2 DEF ClaimInv
    <3>2. decision[e].id # decision[d].id
      BY <2>2, <3>1 DEF ClaimInv
    <3> QED BY <2>1, <3>1, <3>2, StageSame
  <2>3. CASE decision[e].pc = "withdrawing"
    <3>1. decision[e].id \in Id /\ row[decision[e].id] \in {"failed", "awaiting_review"}
      BY <2>1, <2>3 DEF StageOf
    <3>2. decision[d].pc \in Claimed
      BY <2>3 DEF LoopInv, Holding
    <3>3. decision[e].id # decision[d].id
      BY <3>1, <3>2 DEF ClaimInv
    <3> QED BY <2>1, <3>1, <3>3, StageSame
  <2>4. CASE decision[e].pc \notin Claimed \cup {"withdrawing"}
    BY <2>1, <2>4, StageSame
  <2> QED BY <2>2, <2>3, <2>4
<1>2. ASSUME NEW i \in Id, row'[i] \in {"none", "pending"}
      PROVE  ran'[i] = 0
  <2>1. CASE i = decision[d].id
    BY <1>2, <2>1 DEF StageInv
  <2>2. CASE i # decision[d].id
    BY <1>2, <2>2 DEF StageInv
  <2> QED BY <2>1, <2>2
<1> QED BY <1>1, <1>2 DEF StageInv

(* d's step touches no claimed call, and d has none after it or a fresh one. *)
LEMMA StageFresh ==
  ASSUME TypeOK, ClaimInv, StageInv, NEW d \in Decider, Others(d), StageOf(d)',
         UNCHANGED <<ran, receipt>>,
         \A i \in Id : /\ row'[i] \in {"none", "pending"} => row[i] \in {"none", "pending"}
                       /\ row[i] \in {"running", "failed", "awaiting_review"} => row'[i] = row[i]
                       /\ \/ status'[i] = status[i]
                          \/ row[i] = "none"
                          \/ status[i] = "pending" /\ status'[i] \notin {"pending", "approved"}
  PROVE  StageInv'
<1>1. ASSUME NEW e \in Decider \ {d}
      PROVE  StageOf(e)'
  <2>1. decision'[e] = decision[e] /\ StageOf(e)
    BY DEF Others, StageInv
  <2>2. decision[e].pc \in Claimed =>
            decision[e].id \in Id /\ row[decision[e].id] = "running"
    BY DEF ClaimInv
  <2>3. decision[e].pc = "withdrawing" =>
            decision[e].id \in Id /\ row[decision[e].id] \in {"failed", "awaiting_review"}
    BY <2>1 DEF StageOf
  <2> QED BY <2>1, <2>2, <2>3, StageSame
<1>2. \A i \in Id : row'[i] \in {"none", "pending"} => ran'[i] = 0
  BY DEF StageInv
<1> QED BY <1>1, <1>2 DEF StageInv

(* A step of no decision. *)
LEMMA StageOfCall ==
  ASSUME ClaimInv, StageInv, UNCHANGED <<decision, ran, receipt>>,
         \A i \in Id : /\ row'[i] \in {"none", "pending"} => row[i] \in {"none", "pending"}
                       /\ row[i] \in {"running", "failed", "awaiting_review"} => row'[i] = row[i]
                       /\ \/ status'[i] = status[i]
                          \/ row[i] = "none"
                          \/ status[i] = "pending" /\ status'[i] \notin {"pending", "approved"}
  PROVE  StageInv'
<1>1. ASSUME NEW e \in Decider
      PROVE  StageOf(e)'
  <2>1. decision'[e] = decision[e] /\ StageOf(e)
    BY DEF StageInv
  <2>2. decision[e].pc \in Claimed =>
            decision[e].id \in Id /\ row[decision[e].id] = "running"
    BY DEF ClaimInv
  <2>3. decision[e].pc = "withdrawing" =>
            decision[e].id \in Id /\ row[decision[e].id] \in {"failed", "awaiting_review"}
    BY <2>1 DEF StageOf
  <2> QED BY <2>1, <2>2, <2>3, StageSame
<1>2. \A i \in Id : row'[i] \in {"none", "pending"} => ran'[i] = 0
  BY DEF StageInv
<1> QED BY <1>1, <1>2 DEF StageInv

(* A decision without a claimed call has nothing to come far with. *)
LEMMA StageIdle ==
  ASSUME NEW d \in Decider, decision'[d].pc \in {"idle", "next", "rejecting", "executing"}
  PROVE  StageOf(d)'
  BY DEF StageOf

LEMMA StageStep ==
  TypeOK /\ LoopInv /\ ClaimInv /\ SpendInv /\ WaitInv /\ StageInv /\ [Next]_vars => StageInv'
<1> SUFFICES ASSUME TypeOK, LoopInv, ClaimInv, SpendInv, WaitInv, StageInv, [Next]_vars
             PROVE  StageInv'
  OBVIOUS
<1> USE DEF approvals, effects, process
<1>1. ASSUME \/ \E k \in Caller :
                  \/ \E o \in Op, c \in Context : StartCall(k, o, c)
                  \/ RunGranted(k) \/ RequestRefused(k) \/ AbandonTurn(k)
                  \/ EndTurn(k) \/ MarkPresented(k)
             \/ \E i \in Id : Expire(i) \/ LoseGrant(i)
             \/ UNCHANGED vars
      PROVE  StageInv'
  <2>1. UNCHANGED <<decision, status, row, ran, receipt>>
    BY <1>1 DEF StartCall, RunGranted, RequestRefused, AbandonTurn, EndTurn, MarkPresented,
       Expire, LoseGrant, vars
  <2> QED BY <2>1, StageOfCall
<1>2. ASSUME NEW k \in Caller, CreateRow(k)
      PROVE  StageInv'
  <2>1. /\ UNCHANGED <<decision, status, ran, receipt>>
        /\ \A j \in Id : row'[j] = row[j] \/ row[j] = "none"
    BY <1>2 DEF CreateRow, TypeOK, TablesOK
  <2> QED BY <2>1, StageOfCall
<1>3. ASSUME NEW k \in Caller, RequestReuse(k) \/ RequestNew(k)
      PROVE  StageInv'
  <2>1. /\ UNCHANGED <<decision, ran, receipt>>
        /\ \A i \in Id : /\ status[i] \notin {"none", "pending"} => status'[i] = status[i]
                         /\ status[i] = "pending" => status'[i] \in {"pending", "revoked"}
                         /\ row[i] # "pending" => row'[i] = row[i]
    BY <1>3, RequestEffect
  <2>2. \A i \in Id : status[i] = "none" => row[i] = "none"
    BY DEF ClaimInv
  <2> QED BY <2>1, <2>2, StageOfCall
<1>4. ASSUME NEW d \in Decider,
             \/ \E c \in Context, allow \in BOOLEAN : DecideAll(d, c, allow)
             \/ \E c \in Context, allow \in BOOLEAN, s \in Scope : DecideCodes(d, c, allow, s)
             \/ RejectCode(d)
      PROVE  StageInv'
  <2>1. /\ Others(d) /\ decision'[d].pc = "next"
        /\ UNCHANGED <<status, row, ran, receipt>>
    BY <1>4, BeginEffect
  <2> QED BY <2>1, StageIdle, StageFresh
<1>5. ASSUME NEW d \in Decider, NEW i \in Id, Reject(d, i) \/ ResolveUnbound(d, i)
      PROVE  StageInv'
  <2>1. /\ UNCHANGED <<row, ran, receipt>>
        /\ \A j \in Id : \/ status'[j] = status[j] \/ row[j] = "none"
                         \/ status[j] = "pending" /\ status'[j] = "rejected"
    BY <1>5 DEF Reject, ResolveUnbound, TypeOK, TablesOK
  <2>2. Others(d) /\ decision'[d].pc \in {"idle", "next", "rejecting"}
    BY <1>5, RejectEffect, ResolveEffect
  <2> QED BY <2>1, <2>2, StageIdle, StageFresh
<1>6. ASSUME NEW d \in Decider, NEW i \in Id, Claim(d, i)
      PROVE  StageInv'
  <2>1. UNCHANGED <<status, ran, receipt>> /\ Others(d)
    BY <1>6, ClaimEffect DEF Claim
  <2>2. CASE /\ decision'[d].pc = "approving" /\ decision'[d].id = i
             /\ row[i] = "pending" /\ row' = [row EXCEPT ![i] = "running"]
    <3>1. \A j \in Id : row'[j] = IF j = i THEN "running" ELSE row[j]
      BY <2>2 DEF TypeOK, TablesOK
    <3>2. StageOf(d)'
      BY <2>1, <2>2 DEF StageOf, StageInv
    <3> QED BY <2>1, <2>2, <3>1, <3>2, StageFresh
  <2>3. CASE decision'[d].pc \in {"idle", "next"} /\ UNCHANGED row
    BY <2>1, <2>3, StageIdle, StageFresh
  <2> QED BY <1>6, <2>2, <2>3, ClaimEffect
<1>7. ASSUME NEW d \in Decider, RejectRow(d)
      PROVE  StageInv'
  <2>1. /\ UNCHANGED <<status, ran, receipt>> /\ row[decision[d].id] = "pending"
        /\ \A i \in Id : row'[i] = row[i] \/ (i = decision[d].id /\ row'[i] = "rejected")
    BY <1>7 DEF RejectRow, WaitInv, TypeOK, TablesOK
  <2>2. Others(d) /\ decision'[d].pc = "next"
    BY <1>7, RejectRowEffect
  <2> QED BY <2>1, <2>2, StageIdle, StageFresh
<1>8. ASSUME NEW d \in Decider, Approve(d)
      PROVE  StageInv'
  <2>1. /\ decision[d].pc = "approving" /\ UNCHANGED <<row, ran, receipt>>
        /\ \A i \in Id : i # decision[d].id => status'[i] = status[i]
    BY <1>8 DEF Approve, TypeOK, TablesOK
  <2>2. decision[d].id \in Id /\ ran[decision[d].id] = 0
    BY <2>1 DEF ClaimInv, Claimed, StageInv, StageOf
  <2>3. /\ Others(d) /\ decision'[d].id = decision[d].id
        /\ decision'[d].pc \in {"preparing", "invalidating"}
        /\ decision'[d].pc = "preparing" => status'[decision[d].id] = "approved"
    BY <1>8, <2>2, ApproveEffect DEF TypeOK, TablesOK
  <2>4. StageOf(d)'
    BY <2>1, <2>2, <2>3 DEF StageOf
  <2> QED BY <2>1, <2>3, <2>4, StageKept DEF Claimed
<1>9. ASSUME NEW d \in Decider, InvalidateUnapproved(d)
      PROVE  StageInv'
  <2>1. /\ decision[d].pc = "invalidating" /\ UNCHANGED <<row, ran, receipt>>
        /\ Withdraw(decision[d].id)
        /\ \A i \in Id : i # decision[d].id => status'[i] = status[i]
    BY <1>9 DEF InvalidateUnapproved, Withdraw, TypeOK, TablesOK
  <2>2. decision[d].id \in Id /\ ran[decision[d].id] = 0
    BY <2>1 DEF ClaimInv, Claimed, StageInv, StageOf
  <2>3. status'[decision[d].id] \notin {"pending", "approved"}
    BY <2>1, <2>2 DEF Withdraw, TypeOK, TablesOK
  <2>4. Others(d) /\ decision'[d].id = decision[d].id /\ decision'[d].pc = "failing"
    BY <1>9, InvalidateEffect
  <2>5. StageOf(d)'
    BY <2>1, <2>2, <2>3, <2>4 DEF StageOf
  <2> QED BY <2>1, <2>4, <2>5, StageKept DEF Claimed
<1>10. ASSUME NEW d \in Decider, FailRow(d)
       PROVE  StageInv'
  <2>1. /\ decision[d].pc = "failing" /\ UNCHANGED <<status, ran, receipt>>
        /\ \A i \in Id : i # decision[d].id => row'[i] = row[i]
        /\ decision[d].id \in Id => row'[decision[d].id] = "failed"
    BY <1>10 DEF FailRow, TypeOK, TablesOK
  <2>2. decision[d].id \in Id
    BY <2>1 DEF ClaimInv, Claimed
  <2>3. Others(d) /\ decision'[d].pc \in {"idle", "next"}
    BY <1>10, FailRowEffect
  <2> QED BY <2>1, <2>2, <2>3, StageIdle, StageKept DEF Claimed
<1>11. ASSUME NEW d \in Decider, PrepareRefused(d) \/ Consume(d)
       PROVE  StageInv'
  <2>1. /\ decision[d].pc = "preparing" /\ UNCHANGED <<row, ran, receipt>>
    BY <1>11 DEF PrepareRefused, Consume
  <2>2. decision[d].id \in Id /\ ran[decision[d].id] = 0 /\ status[decision[d].id] = "approved"
    BY <2>1 DEF ClaimInv, Claimed, StageInv, StageOf
  <2>3. Others(d) /\ decision'[d].id = decision[d].id
    BY <1>11, PrepareEffect, ConsumeEffect
  <2>4. \/ decision'[d].pc = "executing" /\ status' = [status EXCEPT ![decision[d].id] = "consumed"]
        \/ decision'[d].pc = "recording" /\ decision'[d].outcome = "refused" /\ UNCHANGED status
    <3>1. CASE PrepareRefused(d)
      BY <3>1, PrepareEffect DEF PrepareRefused
    <3>2. CASE Consume(d)
      BY <3>2, ConsumeEffect
    <3> QED BY <1>11, <3>1, <3>2
  <2>5. StageOf(d)' /\ \A i \in Id : i # decision[d].id => status'[i] = status[i]
    BY <2>1, <2>2, <2>3, <2>4 DEF StageOf, TypeOK, TablesOK
  <2> QED BY <2>1, <2>3, <2>5, StageKept DEF Claimed
<1>12. ASSUME NEW d \in Decider, RunTool(d)
       PROVE  StageInv'
  <2>1. /\ decision[d].pc = "executing" /\ UNCHANGED <<row, status, receipt>>
        /\ ran' = [ran EXCEPT ![decision[d].id] = @ + 1]
    BY <1>12 DEF RunTool
  <2>2. decision[d].id \in Id /\ row[decision[d].id] = "running"
    BY <2>1 DEF ClaimInv, Claimed
  <2>3. /\ Others(d) /\ decision'[d].pc = "auditing" /\ decision'[d].id = decision[d].id
        /\ decision'[d].outcome \in {"ok", "failed", "error"}
    BY <1>12, RunToolEffect
  <2>4. StageOf(d)' /\ \A i \in Id : i # decision[d].id => ran'[i] = ran[i]
    BY <2>1, <2>3 DEF StageOf, TypeOK, TablesOK
  <2> QED BY <2>1, <2>2, <2>3, <2>4, StageKept DEF Claimed
<1>13. ASSUME NEW d \in Decider, WriteReceipt(d)
       PROVE  StageInv'
  <2>1. /\ decision[d].pc = "auditing" /\ UNCHANGED <<row, status, ran>>
        /\ receipt' = [receipt EXCEPT ![decision[d].id] = decision[d].outcome]
    BY <1>13 DEF WriteReceipt
  <2>2. /\ decision[d].id \in Id
        /\ decision[d].outcome \in {"ok", "failed", "error"}
        /\ ran[decision[d].id] = 1 /\ status[decision[d].id] # "pending"
    BY <2>1 DEF ClaimInv, Claimed, StageInv, StageOf, SpendInv
  <2>3. /\ Others(d) /\ decision'[d].pc = "recording" /\ decision'[d].id = decision[d].id
        /\ decision'[d].outcome = decision[d].outcome
    BY <1>13, WriteReceiptEffect
  <2>4. /\ receipt'[decision[d].id] = decision[d].outcome
        /\ \A i \in Id : i # decision[d].id => receipt'[i] = receipt[i]
    BY <2>1, <2>2 DEF TypeOK, TablesOK
  <2>5. StageOf(d)'
    BY <2>1, <2>2, <2>3, <2>4 DEF StageOf
  <2> QED BY <2>1, <2>3, <2>4, <2>5, StageKept DEF Claimed
<1>14. ASSUME NEW d \in Decider, RecordOutcome(d)
       PROVE  StageInv'
  <2>1. /\ decision[d].pc = "recording" /\ UNCHANGED <<status, ran, receipt>>
        /\ \A i \in Id : i # decision[d].id => row'[i] = row[i]
    BY <1>14 DEF RecordOutcome, TypeOK, TablesOK
  <2>2. decision[d].id \in Id
    BY <2>1 DEF ClaimInv, Claimed
  <2>3. row'[decision[d].id] \in {"succeeded", "failed", "awaiting_review"}
    BY <1>14, <2>2 DEF RecordOutcome, TypeOK, TablesOK
  <2>4. /\ Others(d) /\ decision'[d].pc \in {"idle", "next", "withdrawing"}
        /\ decision'[d].pc = "withdrawing" => decision'[d].id = decision[d].id
    BY <1>14, RecordEffect
  <2>5. decision'[d].pc = "withdrawing" => row'[decision[d].id] \in {"failed", "awaiting_review"}
    <3>1. CASE decision[d].outcome = "ok"
      <4>1. decision'[d].pc \in {"next", "idle"}
        BY <1>14, <2>2, <3>1, GotoType, StopType DEF RecordOutcome, DecisionPc, TypeOK, ProcessOK
      <4> QED BY <4>1
    <3>2. CASE decision[d].outcome # "ok"
      BY <1>14, <2>2, <3>2 DEF RecordOutcome, TypeOK, TablesOK
    <3> QED BY <3>1, <3>2
  <2>6. StageOf(d)'
    BY <2>2, <2>4, <2>5 DEF StageOf
  <2> QED BY <2>1, <2>3, <2>4, <2>6, StageKept DEF Claimed
<1>15. ASSUME NEW d \in Decider, WithdrawFailed(d)
       PROVE  StageInv'
  <2>1. /\ decision[d].pc = "withdrawing" /\ UNCHANGED <<row, ran, receipt>>
        /\ \A i \in Id : i # decision[d].id => status'[i] = status[i]
    BY <1>15 DEF WithdrawFailed, Withdraw, TypeOK, TablesOK
  <2>2. row[decision[d].id] \in {"failed", "awaiting_review"}
    BY <2>1 DEF StageInv, StageOf
  <2>3. Others(d) /\ decision'[d].pc = "idle"
    BY <1>15, StopEffect
  <2> QED BY <2>1, <2>2, <2>3, StageIdle, StageKept
<1>16. ASSUME NEW d \in Decider, FinishDecision(d)
       PROVE  StageInv'
  <2>1. /\ UNCHANGED <<row, status, ran, receipt>> /\ Others(d) /\ decision'[d].pc = "idle"
    BY <1>16, StopEffect DEF FinishDecision
  <2> QED BY <2>1, StageIdle, StageFresh
<1>17. ASSUME Crash
       PROVE  StageInv'
  <2>1. UNCHANGED <<row, ran>> /\ \A d \in Decider : decision'[d].pc = "idle"
    BY <1>17 DEF Crash, IdleDecision
  <2>2. \A d \in Decider : StageOf(d)'
    BY <2>1, StageIdle
  <2> QED BY <2>1, <2>2 DEF StageInv
<1>18. ASSUME Recover
       PROVE  StageInv'
  <2>1. UNCHANGED <<decision, ran>> /\ \A d \in Decider : decision'[d].pc = "idle"
    BY <1>18 DEF Recover, SpendInv
  <2>2. \A i \in Id : row'[i] \in {"none", "pending"} => row[i] \in {"none", "pending"}
    BY <1>18 DEF Recover, TypeOK, TablesOK
  <2>3. \A d \in Decider : StageOf(d)'
    BY <2>1, StageIdle
  <2> QED BY <2>1, <2>2, <2>3 DEF StageInv
<1> QED
  BY <1>1, <1>2, <1>3, <1>4, <1>5, <1>6, <1>7, <1>8, <1>9, <1>10, <1>11, <1>12, <1>13,
     <1>14, <1>15, <1>16, <1>17, <1>18 DEF Next, TurnStep, DecisionStep

(***************************************************************************)
(* What was reported stays, and it was true.                               *)
(***************************************************************************)

(* What a step does to the continuations. *)
LEMMA RowSteps ==
  ASSUME TypeOK, LoopInv, ClaimInv, SpendInv, WaitInv, StageInv, [Next]_vars, NEW i \in Id
  PROVE  \/ row'[i] = row[i]
         \/ row[i] = "none" /\ row'[i] \in {"pending", "superseded"}
         \/ row[i] = "pending" /\ row'[i] \in {"rejected", "expired", "superseded"}
         \/ row[i] = "pending" /\ row'[i] = "running" /\ status[i] = "pending"
         \/ /\ row[i] = "running"
            /\ \/ row'[i] = "failed" /\ ran[i] = 0
               \/ /\ row'[i] \in {"succeeded", "failed", "awaiting_review"}
                  /\ (row'[i] = "succeeded") <=> (receipt[i] = "ok")
                  /\ row'[i] = "failed" => ran[i] = 0 \/ receipt[i] = "failed"
            /\ UNCHANGED <<ran, receipt>>
<1> USE DEF approvals, effects, process
<1>1. ASSUME \/ \E k \in Caller :
                  \/ \E o \in Op, c \in Context : StartCall(k, o, c)
                  \/ RunGranted(k) \/ RequestRefused(k) \/ AbandonTurn(k)
                  \/ EndTurn(k) \/ MarkPresented(k)
             \/ \E j \in Id : Expire(j) \/ LoseGrant(j)
             \/ UNCHANGED vars
             \/ Crash
      PROVE  row'[i] = row[i]
  BY <1>1 DEF StartCall, RunGranted, RequestRefused, AbandonTurn, EndTurn, MarkPresented,
     Expire, LoseGrant, vars, Crash
<1>2. ASSUME NEW d \in Decider,
             \/ \E c \in Context, allow \in BOOLEAN : DecideAll(d, c, allow)
             \/ \E c \in Context, allow \in BOOLEAN, s \in Scope : DecideCodes(d, c, allow, s)
             \/ RejectCode(d)
      PROVE  row'[i] = row[i]
  BY <1>2, BeginEffect
<1>3. ASSUME NEW d \in Decider,
             \/ \E j \in Id : Reject(d, j) \/ ResolveUnbound(d, j)
             \/ Approve(d) \/ InvalidateUnapproved(d)
             \/ PrepareRefused(d) \/ Consume(d) \/ RunTool(d) \/ WriteReceipt(d)
             \/ WithdrawFailed(d) \/ FinishDecision(d)
      PROVE  row'[i] = row[i]
  BY <1>3 DEF Reject, ResolveUnbound, Approve, InvalidateUnapproved, PrepareRefused, Consume,
     RunTool, WriteReceipt, WithdrawFailed, FinishDecision
<1>4. ASSUME NEW k \in Caller, CreateRow(k)
      PROVE  row'[i] = row[i] \/ (row[i] = "none" /\ row'[i] \in {"pending", "superseded"})
  BY <1>4 DEF CreateRow, TypeOK, TablesOK
<1>5. ASSUME NEW k \in Caller, RequestReuse(k) \/ RequestNew(k)
      PROVE  row'[i] = row[i] \/ (row[i] = "pending" /\ row'[i] \in {"expired", "superseded"})
  BY <1>5, RequestEffect
<1>6. ASSUME NEW d \in Decider, NEW j \in Id, Claim(d, j)
      PROVE  \/ row'[i] = row[i]
             \/ row[i] = "pending" /\ row'[i] = "running" /\ status[i] = "pending"
  <2>1. row[j] = "pending" => status[j] = "pending"
    BY <1>6, ClaimedWaits DEF Claim
  <2> QED BY <1>6, <2>1, ClaimEffect DEF TypeOK, TablesOK
<1>7. ASSUME NEW d \in Decider, RejectRow(d)
      PROVE  row'[i] = row[i] \/ (row[i] = "pending" /\ row'[i] = "rejected")
  BY <1>7 DEF RejectRow, WaitInv, TypeOK, TablesOK
<1>8. ASSUME NEW d \in Decider, FailRow(d)
      PROVE  \/ row'[i] = row[i]
             \/ /\ row[i] = "running" /\ row'[i] = "failed" /\ ran[i] = 0
                /\ UNCHANGED <<ran, receipt>>
  <2>1. /\ decision[d].pc = "failing" /\ UNCHANGED <<ran, receipt>>
        /\ row'[i] = row[i] \/ (i = decision[d].id /\ row'[i] = "failed")
    BY <1>8 DEF FailRow, TypeOK, TablesOK
  <2>2. row[decision[d].id] = "running" /\ ran[decision[d].id] = 0
    BY <2>1 DEF ClaimInv, Claimed, StageInv, StageOf
  <2> QED BY <2>1, <2>2
<1>9. ASSUME NEW d \in Decider, RecordOutcome(d), row'[i] # row[i]
      PROVE  /\ row[i] = "running" /\ UNCHANGED <<ran, receipt>>
             /\ row'[i] \in {"succeeded", "failed", "awaiting_review"}
             /\ (row'[i] = "succeeded") <=> (receipt[i] = "ok")
             /\ row'[i] = "failed" => ran[i] = 0 \/ receipt[i] = "failed"
  <2> DEFINE o == decision[d].outcome
  <2>1. /\ decision[d].pc = "recording" /\ UNCHANGED <<ran, receipt>>
        /\ row' = [row EXCEPT ![decision[d].id] = CASE o = "ok"    -> "succeeded"
                                                    [] o = "error" -> "awaiting_review"
                                                    [] OTHER       -> "failed"]
    BY <1>9 DEF RecordOutcome
  <2>2. /\ decision[d].id \in Id /\ row[decision[d].id] = "running"
        /\ \/ o = "refused" /\ ran[decision[d].id] = 0
           \/ o \in {"ok", "failed", "error"} /\ ran[decision[d].id] = 1
              /\ receipt[decision[d].id] = o
    BY <2>1 DEF ClaimInv, Claimed, StageInv, StageOf
  <2>3. /\ i = decision[d].id
        /\ row'[i] = CASE o = "ok"    -> "succeeded"
                       [] o = "error" -> "awaiting_review"
                       [] OTHER       -> "failed"
    BY <1>9, <2>1 DEF TypeOK, TablesOK
  <2>4. o = "refused" => receipt[i] # "ok"
    BY <2>2, <2>3 DEF SpendInv, TypeOK, TablesOK
  <2> HIDE DEF o
  <2> QED BY <2>1, <2>2, <2>3, <2>4
<1>10. ASSUME Recover, row'[i] # row[i]
       PROVE  /\ row[i] = "running" /\ UNCHANGED <<ran, receipt>>
              /\ row'[i] \in {"succeeded", "awaiting_review"}
              /\ (row'[i] = "succeeded") <=> (receipt[i] = "ok")
  BY <1>10 DEF Recover, TypeOK, TablesOK
<1> QED
  BY <1>1, <1>2, <1>3, <1>4, <1>5, <1>6, <1>7, <1>8, <1>9, <1>10
     DEF Next, TurnStep, DecisionStep

LEMMA RowFinal ==
  ASSUME TypeOK, LoopInv, ClaimInv, SpendInv, WaitInv, StageInv, [Next]_vars, NEW i \in Id,
         row[i] \in FinalRow
  PROVE  row'[i] = row[i]
  BY RowSteps DEF FinalRow, ClosedRow

(* Runs and receipts are only added to calls that are being executed. *)
LEMMA RunSteps ==
  ASSUME TypeOK, ClaimInv, [Next]_vars, NEW i \in Id
  PROVE  \/ ran'[i] = ran[i] /\ receipt'[i] = receipt[i]
         \/ row[i] = "running" /\ row'[i] = "running"
<1> USE DEF approvals, effects, process
<1>1. ASSUME NEW d \in Decider, RunTool(d) \/ WriteReceipt(d)
      PROVE  \/ ran'[i] = ran[i] /\ receipt'[i] = receipt[i]
             \/ row[i] = "running" /\ row'[i] = "running"
  <2>1. /\ decision[d].pc \in {"executing", "auditing"} /\ UNCHANGED row
        /\ i # decision[d].id => ran'[i] = ran[i] /\ receipt'[i] = receipt[i]
    BY <1>1 DEF RunTool, WriteReceipt, TypeOK, TablesOK
  <2>2. row[decision[d].id] = "running"
    BY <2>1 DEF ClaimInv, Claimed
  <2> QED BY <2>1, <2>2
<1>2. ASSUME NEW d \in Decider,
             \/ \E c \in Context, allow \in BOOLEAN : DecideAll(d, c, allow)
             \/ \E c \in Context, allow \in BOOLEAN, s \in Scope : DecideCodes(d, c, allow, s)
             \/ RejectCode(d)
      PROVE  UNCHANGED <<ran, receipt>>
  BY <1>2, BeginEffect
<1>3. ASSUME NEW d \in Decider,
             \/ \E j \in Id : Reject(d, j) \/ ResolveUnbound(d, j) \/ Claim(d, j)
             \/ RejectRow(d) \/ Approve(d) \/ InvalidateUnapproved(d) \/ FailRow(d)
             \/ PrepareRefused(d) \/ Consume(d)
             \/ RecordOutcome(d) \/ WithdrawFailed(d) \/ FinishDecision(d)
      PROVE  UNCHANGED <<ran, receipt>>
  BY <1>3 DEF Reject, ResolveUnbound, Claim, RejectRow, Approve, InvalidateUnapproved, FailRow,
     PrepareRefused, Consume, RecordOutcome, WithdrawFailed, FinishDecision
<1>4. ASSUME \/ \E k \in Caller :
                  \/ \E o \in Op, c \in Context : StartCall(k, o, c)
                  \/ RunGranted(k) \/ RequestRefused(k) \/ AbandonTurn(k) \/ CreateRow(k)
                  \/ EndTurn(k) \/ MarkPresented(k) \/ RequestReuse(k) \/ RequestNew(k)
             \/ \E j \in Id : Expire(j) \/ LoseGrant(j)
             \/ UNCHANGED vars \/ Crash \/ Recover
      PROVE  UNCHANGED <<ran, receipt>>
  BY <1>4 DEF StartCall, RunGranted, RequestRefused, AbandonTurn, CreateRow, EndTurn,
     MarkPresented, RequestReuse, RequestNew, Expire, LoseGrant, vars, Crash, Recover
<1> QED
  BY <1>1, <1>2, <1>3, <1>4 DEF Next, TurnStep, DecisionStep

LEMMA ReportsStep ==
  /\ TypeOK /\ LoopInv /\ ClaimInv /\ SpendInv /\ WaitInv /\ StageInv /\ ReportsAreTrue
  /\ [Next]_vars
  => ReportsAreTrue'
<1> SUFFICES ASSUME TypeOK, LoopInv, ClaimInv, SpendInv, WaitInv, StageInv, ReportsAreTrue,
                    [Next]_vars, NEW i \in Id
             PROVE  /\ row'[i] = "succeeded" => ran'[i] = 1 /\ receipt'[i] = "ok"
                    /\ row'[i] \in {"rejected", "expired", "superseded"} => ran'[i] = 0
                    /\ row'[i] = "failed" => ran'[i] = 0 \/ receipt'[i] = "failed"
                    /\ row'[i] = "awaiting_review" => receipt'[i] # "ok"
  BY DEF ReportsAreTrue
<1>1. \/ ran'[i] = ran[i] /\ receipt'[i] = receipt[i]
      \/ row[i] = "running" /\ row'[i] = "running"
  BY RunSteps
<1>2. /\ row[i] \in {"none", "pending"} => ran[i] = 0
      /\ receipt[i] = "ok" => ran[i] = 1
  BY DEF StageInv, SpendInv
<1> QED BY <1>1, <1>2, RowSteps DEF ReportsAreTrue

(***************************************************************************)
(* The key of an operation.                                                *)
(***************************************************************************)

(* An approval stays what it was created as. *)
LEMMA CreatedStays ==
  ASSUME TypeOK, [Next]_vars, NEW i \in Id, status[i] # "none"
  PROVE  status'[i] # "none" /\ opOf'[i] = opOf[i] /\ ctxOf'[i] = ctxOf[i]
<1> USE DEF approvals, effects, process, TypeOK, TablesOK
<1>1. ASSUME NEW k \in Caller, RequestReuse(k)
      PROVE  status'[i] # "none" /\ opOf'[i] = opOf[i] /\ ctxOf'[i] = ctxOf[i]
  BY <1>1 DEF RequestReuse
<1>2. ASSUME NEW k \in Caller, RequestNew(k)
      PROVE  status'[i] # "none" /\ opOf'[i] = opOf[i] /\ ctxOf'[i] = ctxOf[i]
  BY <1>2 DEF RequestNew
<1>3. ASSUME NEW d \in Decider,
             \/ \E c \in Context, allow \in BOOLEAN : DecideAll(d, c, allow)
             \/ \E c \in Context, allow \in BOOLEAN, s \in Scope : DecideCodes(d, c, allow, s)
             \/ RejectCode(d)
      PROVE  UNCHANGED <<status, opOf, ctxOf>>
  BY <1>3, BeginEffect
<1>4. ASSUME NEW d \in Decider,
             \/ \E j \in Id : Reject(d, j) \/ ResolveUnbound(d, j) \/ Claim(d, j)
             \/ RejectRow(d) \/ Approve(d) \/ InvalidateUnapproved(d) \/ FailRow(d)
             \/ PrepareRefused(d) \/ Consume(d) \/ RunTool(d) \/ WriteReceipt(d)
             \/ RecordOutcome(d) \/ WithdrawFailed(d) \/ FinishDecision(d)
      PROVE  UNCHANGED <<opOf, ctxOf>> /\ status'[i] # "none"
  BY <1>4 DEF Reject, ResolveUnbound, Claim, RejectRow, Approve, InvalidateUnapproved, FailRow,
     PrepareRefused, Consume, RunTool, WriteReceipt, RecordOutcome, WithdrawFailed,
     FinishDecision, Withdraw
<1>5. ASSUME \/ \E k \in Caller :
                  \/ \E o \in Op, c \in Context : StartCall(k, o, c)
                  \/ RunGranted(k) \/ RequestRefused(k) \/ AbandonTurn(k) \/ CreateRow(k)
                  \/ EndTurn(k) \/ MarkPresented(k)
             \/ \E j \in Id : Expire(j) \/ LoseGrant(j)
             \/ UNCHANGED vars \/ Crash \/ Recover
      PROVE  UNCHANGED <<opOf, ctxOf>> /\ status'[i] # "none"
  BY <1>5 DEF StartCall, RunGranted, RequestRefused, AbandonTurn, CreateRow, EndTurn,
     MarkPresented, Expire, LoseGrant, vars, Crash, Recover
<1> QED
  BY <1>1, <1>2, <1>3, <1>4, <1>5 DEF Next, TurnStep, DecisionStep

(* What a step does to an approval. *)
LEMMA ApprovalSteps ==
  ASSUME TypeOK, SpendInv, ClaimInv, StageInv, [Next]_vars, NEW i \in Id
  PROVE  \/ /\ status'[i] = status[i] /\ scope'[i] = scope[i] /\ used'[i] = used[i]
            /\ active'[i] = active[i] \/ (status[i] = "pending" /\ active'[i])
         \/ /\ status[i] = "none" /\ status'[i] = "pending" /\ active'[i]
            /\ scope'[i] = PolicyScope(opOf'[i]) /\ used'[i] = used[i]
         \/ /\ status[i] = "pending" /\ status'[i] = "approved"
            /\ active'[i] = active[i] /\ used'[i] = 0
         \/ /\ status[i] = "pending" /\ status'[i] = "rejected" /\ ~active'[i]
            /\ used'[i] = 1 /\ scope'[i] = scope[i]
         \/ /\ status[i] \in {"pending", "approved"} /\ status'[i] = "revoked" /\ ~active'[i]
            /\ used'[i] = used[i] /\ scope'[i] = scope[i]
         \/ /\ status[i] = "approved" /\ status'[i] = "consumed" /\ ~active'[i]
            /\ used'[i] = 1 /\ scope'[i] = scope[i]
         \/ /\ row[i] = "running" /\ active'[i] = active[i] /\ used'[i] = used[i]
            /\ scope'[i] = scope[i]
            /\ \/ receipt[i] = "ok" /\ status'[i] = "consumed"
               \/ status'[i] = "awaiting_review" /\ row'[i] = "awaiting_review"
<1> USE DEF approvals, effects, process, TypeOK, TablesOK
<1> DEFINE Same == /\ status'[i] = status[i] /\ scope'[i] = scope[i] /\ used'[i] = used[i]
                   /\ active'[i] = active[i] \/ (status[i] = "pending" /\ active'[i])
<1> DEFINE Closed == /\ status[i] \in {"pending", "approved"} /\ status'[i] = "revoked"
                     /\ ~active'[i] /\ used'[i] = used[i] /\ scope'[i] = scope[i]
<1> DEFINE Agreed == /\ status[i] = "pending" /\ status'[i] = "approved"
                     /\ active'[i] = active[i] /\ used'[i] = 0
<1>1. ASSUME \/ \E k \in Caller :
                  \/ \E o \in Op, c \in Context : StartCall(k, o, c)
                  \/ RunGranted(k) \/ RequestRefused(k) \/ AbandonTurn(k) \/ CreateRow(k)
                  \/ EndTurn(k) \/ MarkPresented(k)
             \/ \E j \in Id : Expire(j) \/ LoseGrant(j)
             \/ UNCHANGED vars \/ Crash
      PROVE  Same
  BY <1>1 DEF StartCall, RunGranted, RequestRefused, AbandonTurn, CreateRow, EndTurn,
     MarkPresented, Expire, LoseGrant, vars, Crash
<1>2. ASSUME NEW d \in Decider,
             \/ \E c \in Context, allow \in BOOLEAN : DecideAll(d, c, allow)
             \/ \E c \in Context, allow \in BOOLEAN, s \in Scope : DecideCodes(d, c, allow, s)
             \/ RejectCode(d)
      PROVE  Same
  BY <1>2, BeginEffect
<1>3. ASSUME NEW d \in Decider,
             \/ \E j \in Id : Claim(d, j)
             \/ RejectRow(d) \/ FailRow(d) \/ PrepareRefused(d) \/ RunTool(d)
             \/ WriteReceipt(d) \/ RecordOutcome(d) \/ FinishDecision(d)
      PROVE  Same
  BY <1>3 DEF Claim, RejectRow, FailRow, PrepareRefused, RunTool, WriteReceipt, RecordOutcome,
     FinishDecision
<1>4. ASSUME NEW d \in Decider, NEW j \in Id, Reject(d, j)
      PROVE  \/ Same
             \/ /\ status[i] = "pending" /\ status'[i] = "rejected" /\ ~active'[i]
                /\ used'[i] = 1 /\ scope'[i] = scope[i]
  BY <1>4 DEF Reject
<1>5. ASSUME NEW d \in Decider, NEW j \in Id, ResolveUnbound(d, j)
      PROVE  Same \/ Agreed \/ Closed
  <2>1. status[i] = "pending" => used[i] = 0
    BY DEF SpendInv
  <2> QED BY <1>5, <2>1 DEF ResolveUnbound
<1>6. ASSUME NEW d \in Decider, Approve(d)
      PROVE  Same \/ Agreed \/ Closed
  <2>1. decision[d].id \in Id
    BY <1>6 DEF Approve, SpendInv
  <2> QED BY <1>6, <2>1 DEF Approve
<1>7. ASSUME NEW d \in Decider, InvalidateUnapproved(d) \/ WithdrawFailed(d)
      PROVE  Same \/ Closed
  <2>1. Withdraw(decision[d].id) /\ UNCHANGED <<scope, used>>
    BY <1>7 DEF InvalidateUnapproved, WithdrawFailed
  <2>2. CASE i # decision[d].id
    BY <2>1, <2>2 DEF Withdraw
  <2>3. CASE i = decision[d].id /\ status[i] \in {"pending", "approved"}
    <3>1. status'[i] = "revoked"
      BY <2>1, <2>3 DEF Withdraw
    <3>2. ~active'[i]
      BY <2>1, <2>3 DEF Withdraw
    <3> QED BY <2>1, <2>3, <3>1, <3>2
  <2>4. CASE i = decision[d].id /\ status[i] \notin {"pending", "approved"}
    <3>1. status'[i] = status[i]
      BY <2>1, <2>4 DEF Withdraw
    <3>2. active'[i] = active[i]
      BY <2>1, <2>4 DEF Withdraw
    <3> QED BY <2>1, <3>1, <3>2
  <2> QED BY <2>2, <2>3, <2>4
<1>8. ASSUME NEW d \in Decider, Consume(d)
      PROVE  \/ Same
             \/ /\ status[i] = "approved" /\ status'[i] = "consumed" /\ ~active'[i]
                /\ used'[i] = 1 /\ scope'[i] = scope[i]
  BY <1>8 DEF Consume
<1>9. ASSUME NEW k \in Caller, RequestReuse(k)
      PROVE  Same \/ Closed
  <2>1. PICK j \in Reusable(call[k].op, call[k].ctx),
             lapsed \in SUBSET Lapsed(call[k].op, call[k].ctx),
             rivals \in SUBSET Rivals(call[k].op, call[k].ctx) :
              /\ status' = [n \in Id |-> IF n \in lapsed \cup rivals THEN "revoked" ELSE status[n]]
              /\ active' = [n \in Id |-> n = j \/ (active[n] /\ n \notin lapsed \cup rivals)]
    BY <1>9 DEF RequestReuse
  <2>2. /\ j \in Id /\ status[j] = "pending" /\ j \notin lapsed \cup rivals
        /\ \A n \in lapsed \cup rivals : status[n] = "pending"
    BY DEF Reusable, Lapsed, Rivals, InContext, Created
  <2>3. UNCHANGED <<scope, used>>
    BY <1>9 DEF RequestReuse
  <2> QED BY <2>1, <2>2, <2>3
<1>10. ASSUME NEW k \in Caller, RequestNew(k)
       PROVE  \/ Same \/ Closed
              \/ /\ status[i] = "none" /\ status'[i] = "pending" /\ active'[i]
                 /\ scope'[i] = PolicyScope(opOf'[i]) /\ used'[i] = used[i]
  <2> DEFINE closed == Lapsed(call[k].op, call[k].ctx) \cup Rivals(call[k].op, call[k].ctx)
  <2>1. PICK n \in Id :
              /\ status[n] = "none"
              /\ status' = [j \in Id |-> IF j = n THEN "pending"
                                        ELSE IF j \in closed THEN "revoked" ELSE status[j]]
              /\ active' = [j \in Id |-> j = n \/ (active[j] /\ j \notin closed)]
              /\ scope' = [scope EXCEPT ![n] = PolicyScope(call[k].op)]
              /\ opOf' = [opOf EXCEPT ![n] = call[k].op]
    BY <1>10 DEF RequestNew
  <2>2. \A j \in closed : status[j] = "pending"
    BY DEF Lapsed, Rivals, InContext, Created
  <2>3. UNCHANGED used
    BY <1>10 DEF RequestNew
  <2> HIDE DEF closed
  <2>4. /\ i = n => opOf'[i] = call[k].op /\ scope'[i] = PolicyScope(call[k].op)
        /\ i # n => scope'[i] = scope[i]
    BY <2>1
  <2> QED BY <2>1, <2>2, <2>3, <2>4
<1>11. ASSUME Recover
       PROVE  \/ Same
              \/ /\ row[i] = "running" /\ active'[i] = active[i] /\ used'[i] = used[i]
                 /\ scope'[i] = scope[i]
                 /\ \/ receipt[i] = "ok" /\ status'[i] = "consumed"
                    \/ status'[i] = "awaiting_review" /\ row'[i] = "awaiting_review"
  BY <1>11 DEF Recover
<1> QED
  BY <1>1, <1>2, <1>3, <1>4, <1>5, <1>6, <1>7, <1>8, <1>9, <1>10, <1>11
     DEF Next, TurnStep, DecisionStep

(* Only a request for an operation creates an approval. *)
LEMMA OnlyRequestsCreate ==
  ASSUME TypeOK, ClaimInv, [Next]_vars, NEW i \in Id, status[i] = "none", status'[i] # "none"
  PROVE  \E k \in Caller : RequestNew(k)
<1> USE DEF approvals, effects, process, TypeOK, TablesOK
<1>1. ASSUME \/ \E k \in Caller :
                  \/ \E o \in Op, c \in Context : StartCall(k, o, c)
                  \/ RunGranted(k) \/ RequestRefused(k) \/ AbandonTurn(k) \/ CreateRow(k)
                  \/ EndTurn(k) \/ MarkPresented(k)
             \/ \E j \in Id : Expire(j) \/ LoseGrant(j)
             \/ UNCHANGED vars \/ Crash
      PROVE  FALSE
  BY <1>1 DEF StartCall, RunGranted, RequestRefused, AbandonTurn, CreateRow, EndTurn,
     MarkPresented, Expire, LoseGrant, vars, Crash
<1>2. ASSUME NEW d \in Decider,
             \/ \E c \in Context, allow \in BOOLEAN : DecideAll(d, c, allow)
             \/ \E c \in Context, allow \in BOOLEAN, s \in Scope : DecideCodes(d, c, allow, s)
             \/ RejectCode(d)
      PROVE  FALSE
  BY <1>2, BeginEffect
<1>3. ASSUME NEW d \in Decider, DecisionStep(d)
      PROVE  FALSE
  BY <1>3 DEF DecisionStep, Claim, Reject, ResolveUnbound, RejectRow, Approve,
     InvalidateUnapproved, Withdraw, FailRow, PrepareRefused, Consume, RunTool, WriteReceipt,
     RecordOutcome, WithdrawFailed, FinishDecision
<1>4. ASSUME NEW k \in Caller, RequestReuse(k)
      PROVE  FALSE
  BY <1>4 DEF RequestReuse, Lapsed, Rivals, InContext, Created
<1>5. ASSUME Recover
      PROVE  FALSE
  BY <1>5 DEF Recover, ClaimInv
<1> QED
  BY <1>1, <1>2, <1>3, <1>4, <1>5 DEF Next, TurnStep

LEMMA KeyStep ==
  /\ TypeOK /\ LoopInv /\ ClaimInv /\ SpendInv /\ WaitInv /\ StageInv /\ KeyInv
  /\ [Next]_vars
  => KeyInv'
<1> SUFFICES ASSUME TypeOK, LoopInv, ClaimInv, SpendInv, WaitInv, StageInv, KeyInv, [Next]_vars
             PROVE  KeyInv'
  OBVIOUS
<1>1. ASSUME NEW k \in Caller, call'[k].pc # "idle"
      PROVE  call'[k].op \in Op /\ call'[k].ctx \in Context
  <2> USE DEF approvals, effects, process
  <2>1. ASSUME NEW j \in Caller, NEW o \in Op, NEW c \in Context, StartCall(j, o, c)
        PROVE  call'[k].op \in Op /\ call'[k].ctx \in Context
    BY <1>1, <2>1 DEF StartCall, KeyInv, TypeOK, ProcessOK
  <2>2. ASSUME NEW j \in Caller,
               \/ RunGranted(j) \/ RequestRefused(j) \/ AbandonTurn(j) \/ CreateRow(j)
               \/ EndTurn(j) \/ MarkPresented(j)
        PROVE  call'[k].op \in Op /\ call'[k].ctx \in Context
    <3>1. \/ call'[k] = IdleCall
          \/ call'[k].op = call[k].op /\ call'[k].ctx = call[k].ctx /\ call[k].pc # "idle"
      BY <1>1, <2>2 DEF RunGranted, RequestRefused, AbandonTurn, CreateRow, EndTurn,
         MarkPresented, TypeOK, ProcessOK, CallType
    <3> QED BY <1>1, <3>1 DEF KeyInv, IdleCall
  <2>3. ASSUME NEW j \in Caller, RequestReuse(j) \/ RequestNew(j)
        PROVE  call'[k].op \in Op /\ call'[k].ctx \in Context
    <3>1. call[j].pc = "asking"
      BY <2>3 DEF RequestReuse, RequestNew
    <3>2. call'[k].op = call[k].op /\ call'[k].ctx = call[k].ctx /\ call[k].pc # "idle"
      BY <1>1, <2>3, <3>1, RequestEffect
    <3> QED BY <3>2 DEF KeyInv
  <2>4. ASSUME NEW d \in Decider,
               \/ \E c \in Context, allow \in BOOLEAN : DecideAll(d, c, allow)
               \/ \E c \in Context, allow \in BOOLEAN, s \in Scope : DecideCodes(d, c, allow, s)
               \/ RejectCode(d)
        PROVE  UNCHANGED call
    BY <2>4, BeginEffect
  <2>5. ASSUME NEW d \in Decider, DecisionStep(d)
        PROVE  UNCHANGED call
    BY <2>5 DEF DecisionStep, Claim, Reject, ResolveUnbound, RejectRow, Approve,
       InvalidateUnapproved, FailRow, PrepareRefused, Consume, RunTool, WriteReceipt,
       RecordOutcome, WithdrawFailed, FinishDecision
  <2>6. ASSUME \/ \E i \in Id : Expire(i) \/ LoseGrant(i)
               \/ UNCHANGED vars \/ Recover
        PROVE  UNCHANGED call
    BY <2>6 DEF Expire, LoseGrant, vars, Recover
  <2>7. ~Crash
    BY <1>1 DEF Crash, IdleCall
  <2> QED
    BY <1>1, <2>1, <2>2, <2>3, <2>4, <2>5, <2>6, <2>7 DEF Next, TurnStep, KeyInv
<1>2. ASSUME NEW i \in Id, status'[i] # "none"
      PROVE  opOf'[i] \in Op /\ ctxOf'[i] \in Context
  <2>1. CASE status[i] # "none"
    BY <2>1, CreatedStays DEF KeyInv, Created
  <2>2. CASE status[i] = "none"
    <3>1. PICK k \in Caller : RequestNew(k)
      BY <1>2, <2>2, OnlyRequestsCreate
    <3>2. call[k].op \in Op /\ call[k].ctx \in Context
      BY <3>1 DEF RequestNew, KeyInv
    <3>3. PICK n \in Id :
              /\ status' = [j \in Id |-> IF j = n THEN "pending"
                             ELSE IF j \in Lapsed(call[k].op, call[k].ctx)
                                        \cup Rivals(call[k].op, call[k].ctx) THEN "revoked"
                             ELSE status[j]]
              /\ opOf' = [opOf EXCEPT ![n] = call[k].op]
              /\ ctxOf' = [ctxOf EXCEPT ![n] = call[k].ctx]
      BY <3>1 DEF RequestNew
    <3>4. i = n
      BY <1>2, <2>2, <3>3 DEF Lapsed, Rivals, InContext, Created
    <3> QED BY <3>2, <3>3, <3>4 DEF TypeOK, TablesOK
  <2> QED BY <2>1, <2>2
<1>3. ASSUME NEW i \in Id
      PROVE  /\ status'[i] = "pending" => scope'[i] = PolicyScope(opOf'[i])
             /\ status'[i] \in {"pending", "approved"} => active'[i]
             /\ active'[i] => \/ status'[i] \in {"pending", "approved"}
                              \/ status'[i] = "awaiting_review" /\ row'[i] = "awaiting_review"
  <2>1. status[i] # "none" => opOf'[i] = opOf[i]
    BY CreatedStays
  <2>2. row[i] = "awaiting_review" => row'[i] = "awaiting_review"
    BY RowFinal DEF FinalRow
  <2>3. receipt[i] = "ok" => status[i] \in {"consumed", "awaiting_review"}
    BY DEF SpendInv
  <2> QED BY <2>1, <2>2, <2>3, ApprovalSteps DEF KeyInv
<1> QED BY <1>1, <1>2, <1>3 DEF KeyInv, Created

(***************************************************************************)
(* One operation each.                                                     *)
(***************************************************************************)

(* No step brings an approval back into play. *)
LEMMA StaysInPlay ==
  ASSUME TypeOK, LoopInv, ClaimInv, SpendInv, WaitInv, StageInv, [Next]_vars,
         NEW i \in Id, status[i] # "none", InPlay(i)'
  PROVE  InPlay(i)
<1>1. row'[i] \in {"running", "awaiting_review"} =>
          row[i] \in {"running", "awaiting_review"} \/ status[i] = "pending"
  BY RowSteps
<1>2. status'[i] \in {"pending", "approved"} => status[i] \in {"pending", "approved"}
  BY ApprovalSteps
<1> QED BY <1>1, <1>2 DEF InPlay

(* A new approval is asked for when nothing that conflicts is in play. *)
LEMMA NewIsAlone ==
  ASSUME TypeOK, LoopInv, ClaimInv, SpendInv, WaitInv, StageInv, KeyInv, [Next]_vars,
         NEW i \in Id, NEW j \in Id, status[i] = "none", status'[i] # "none",
         i # j, status'[j] # "none", ctxOf'[i] = ctxOf'[j],
         Conflict(opOf'[i], opOf'[j]) \/ Conflict(opOf'[j], opOf'[i])
  PROVE  ~InPlay(j)'
<1>1. PICK k \in Caller : RequestNew(k)
  BY OnlyRequestsCreate
<1> DEFINE o == call[k].op
<1> DEFINE c == call[k].ctx
<1>2. PICK n \in Id :
          /\ status' = [m \in Id |-> IF m = n THEN "pending"
                         ELSE IF m \in Lapsed(o, c) \cup Rivals(o, c) THEN "revoked"
                         ELSE status[m]]
          /\ opOf' = [opOf EXCEPT ![n] = o]
          /\ ctxOf' = [ctxOf EXCEPT ![n] = c]
  BY <1>1 DEF RequestNew
<1>3. /\ Underway(o, c) = {} /\ Held(o, c) = {} /\ Reusable(o, c) = {}
      /\ Sweep(Lapsed(o, c), Rivals(o, c))
  BY <1>1 DEF RequestNew
<1> HIDE DEF o, c
<1>4. \A m \in Lapsed(o, c) \cup Rivals(o, c) : m \in Id /\ status[m] = "pending"
  BY DEF Lapsed, Rivals, InContext, Created
<1>5. i = n
  BY <1>2, <1>4
<1>6. opOf'[i] = o /\ ctxOf'[i] = c
  BY <1>2, <1>5 DEF TypeOK, TablesOK
<1>7. status[j] # "none"
  BY <1>2, <1>4, <1>5
<1>8. opOf'[j] = opOf[j] /\ ctxOf[j] = c
  BY <1>6, <1>7, CreatedStays
<1>9. /\ Conflict(opOf[j], o) /\ (opOf[j] = o \/ SameSource(opOf[j], o))
      /\ j \in InContext(o, c)
  BY <1>6, <1>7, <1>8 DEF Conflict, SameSource, InContext, Created
<1>10. row[j] \notin {"running", "awaiting_review"}
  BY <1>3, <1>9 DEF Underway
<1>11. row'[j] \notin {"running", "awaiting_review"}
  BY <1>3, <1>10 DEF Sweep
<1>12. status[j] # "approved"
  BY <1>3, <1>9 DEF Held, KeyInv
<1>13. status[j] = "pending" => j \in Lapsed(o, c) \cup Rivals(o, c)
  <2> SUFFICES ASSUME status[j] = "pending", ~expired[j]
               PROVE  j \in Rivals(o, c)
    BY <1>9 DEF Lapsed
  <2>1. opOf[j] # o
    BY <1>3, <1>9 DEF Reusable, KeyInv
  <2> QED BY <1>3, <1>9, <2>1 DEF Rivals
<1>14. status'[j] \notin {"pending", "approved"}
  BY <1>2, <1>5, <1>12, <1>13
<1> QED BY <1>11, <1>14 DEF InPlay

LEMMA PlayStep ==
  /\ TypeOK /\ LoopInv /\ ClaimInv /\ SpendInv /\ WaitInv /\ StageInv /\ KeyInv /\ OneInPlay
  /\ [Next]_vars
  => OneInPlay'
<1> SUFFICES ASSUME TypeOK, LoopInv, ClaimInv, SpendInv, WaitInv, StageInv, KeyInv, OneInPlay,
                    [Next]_vars, NEW i \in Id, NEW j \in Id, status'[i] # "none",
                    status'[j] # "none", i # j, ctxOf'[i] = ctxOf'[j],
                    Conflict(opOf'[i], opOf'[j])
             PROVE  ~(InPlay(i)' /\ InPlay(j)')
  BY DEF OneInPlay, Created
<1>1. CASE status[i] = "none"
  BY <1>1, NewIsAlone
<1>2. CASE status[j] = "none"
  BY <1>2, NewIsAlone
<1>3. CASE status[i] # "none" /\ status[j] # "none"
  <2>1. /\ opOf'[i] = opOf[i] /\ ctxOf'[i] = ctxOf[i]
        /\ opOf'[j] = opOf[j] /\ ctxOf'[j] = ctxOf[j]
    BY <1>3, CreatedStays
  <2>2. ~(InPlay(i) /\ InPlay(j))
    BY <1>3, <2>1 DEF OneInPlay, Created
  <2> QED BY <1>3, <2>2, StaysInPlay
<1> QED BY <1>1, <1>2, <1>3

LEMMA KeysFollow == KeyInv /\ OneInPlay => KeysAreUnique
<1> SUFFICES ASSUME KeyInv, OneInPlay, NEW i \in Created, NEW j \in Created,
                    active[i], active[j], ctxOf[i] = ctxOf[j], opOf[i] = opOf[j]
             PROVE  i = j
  BY DEF KeysAreUnique
<1>1. InPlay(i) /\ InPlay(j)
  BY DEF KeyInv, InPlay, Created
<1> QED BY <1>1 DEF OneInPlay, Conflict

(***************************************************************************)
(* A batch stops at its first failure.                                     *)
(***************************************************************************)

(* What a step does to a decision. *)
BatchOf(d) ==
    /\ decision[d].pc \in Claimed => decision[d].allow
    /\ decision[d].pc = "rejecting" => ~decision[d].allow
    /\ decision[d].allow =>
          \A j \in decision[d].batch :
             \/ j < decision[d].id
             \/ j = decision[d].id /\ decision[d].pc = "next"
             => row[j] = "succeeded"

(* A decision that stays at its code has the same predecessors. *)
LEMMA BatchSame ==
  ASSUME TypeOK, NEW d \in Decider, BatchOf(d),
         \A i \in Id : row[i] = "succeeded" => row'[i] = "succeeded",
         decision'[d].batch = decision[d].batch, decision'[d].allow = decision[d].allow,
         decision'[d].id = decision[d].id,
         \/ decision'[d].pc = decision[d].pc
         \/ decision[d].pc \in Claimed /\ decision'[d].pc \notin {"next", "rejecting"}
  PROVE  BatchOf(d)'
<1>1. \A j \in decision[d].batch : j \in Id
  BY DecisionFields DEF TypeOK, ProcessOK
<1> QED BY <1>1 DEF BatchOf

LEMMA BatchDone ==
  ASSUME NEW d \in Decider, ~decision'[d].allow, decision'[d].pc \notin Claimed
  PROVE  BatchOf(d)'
  BY DEF BatchOf

LEMMA IdsAreNumbers == 0 \in Nat /\ \A i \in Id : i \in Nat /\ ~(i < 0) /\ i # 0
  BY BoundsAssumption DEF Id

(* Where a decision stands keeps its batch and its answer. *)
LEMMA GotoKeeps ==
  ASSUME TypeOK, NEW d \in Decider, NEW pc \in DecisionPc, NEW i \in Id, Goto(d, pc, i)
  PROVE  /\ decision'[d].pc = pc /\ decision'[d].id = i
         /\ decision'[d].batch = decision[d].batch /\ decision'[d].allow = decision[d].allow
  BY DEF Goto, TypeOK, ProcessOK, DecisionType

LEMMA OutcomesKeep ==
  ASSUME TypeOK, NEW d \in Decider, NEW pc \in DecisionPc, NEW o \in Outcome, Outcomes(d, pc, o)
  PROVE  /\ decision'[d].pc = pc /\ decision'[d].id = decision[d].id
         /\ decision'[d].batch = decision[d].batch /\ decision'[d].allow = decision[d].allow
  BY DEF Outcomes, TypeOK, ProcessOK, DecisionType

(* A refused code ends a batch to allow. *)
LEMMA RefusedDone ==
  ASSUME TypeOK, NEW d \in Decider, NEW i \in Id, CodeRefused(d, i)
  PROVE  ~decision'[d].allow /\ decision'[d].pc \in {"idle", "next"}
<1>1. CASE decision[d].allow
  BY <1>1 DEF CodeRefused, IdleDecision, TypeOK, ProcessOK
<1>2. CASE ~decision[d].allow
  BY <1>2, GotoKeeps DEF CodeRefused, DecisionPc
<1> QED BY <1>1, <1>2

LEMMA BatchStep ==
  /\ TypeOK /\ LoopInv /\ ClaimInv /\ SpendInv /\ WaitInv /\ StageInv /\ BatchInv
  /\ [Next]_vars
  => BatchInv'
<1> SUFFICES ASSUME TypeOK, LoopInv, ClaimInv, SpendInv, WaitInv, StageInv, BatchInv, [Next]_vars
             PROVE  \A d \in Decider : BatchOf(d)'
  BY DEF BatchInv, BatchOf
<1> USE DEF approvals, effects, process
<1>0. /\ \A d \in Decider : BatchOf(d)
      /\ \A i \in Id : row[i] = "succeeded" => row'[i] = "succeeded"
  BY RowFinal DEF BatchInv, BatchOf, FinalRow, ClosedRow
<1>1. ASSUME NEW d \in Decider, Others(d), BatchOf(d)'
      PROVE  \A e \in Decider : BatchOf(e)'
  <2>1. \A e \in Decider \ {d} : BatchOf(e)'
    BY <1>0, <1>1, BatchSame DEF Others
  <2> QED BY <1>1, <2>1
<1>2. ASSUME \/ \E k \in Caller :
                  \/ \E o \in Op, c \in Context : StartCall(k, o, c)
                  \/ TurnStep(k) \/ AbandonTurn(k)
             \/ \E i \in Id : Expire(i) \/ LoseGrant(i)
             \/ UNCHANGED vars \/ Recover
      PROVE  \A e \in Decider : BatchOf(e)'
  <2>1. UNCHANGED decision
    BY <1>2 DEF TurnStep, StartCall, RunGranted, RequestRefused, RequestReuse, RequestNew,
       EndTurn, CreateRow, MarkPresented, AbandonTurn, Expire, LoseGrant, vars, Recover
  <2> QED BY <1>0, <2>1, BatchSame
<1>3. CASE Crash
  BY <1>3, BatchDone DEF Crash, IdleDecision, Claimed
<1>4. ASSUME NEW d \in Decider,
             \/ \E c \in Context, allow \in BOOLEAN : DecideAll(d, c, allow)
             \/ \E c \in Context, allow \in BOOLEAN, s \in Scope : DecideCodes(d, c, allow, s)
             \/ RejectCode(d)
      PROVE  \A e \in Decider : BatchOf(e)'
  <2>1. /\ Others(d) /\ decision'[d].pc = "next"
        /\ decision'[d].batch \subseteq Id
    BY <1>4, BeginEffect
  <2>2. decision'[d].id = 0
    BY <1>4 DEF DecideAll, DecideCodes, RejectCode, Begin, TypeOK, ProcessOK
  <2>3. \A j \in decision'[d].batch : ~(j < decision'[d].id) /\ j # decision'[d].id
    BY <2>1, <2>2, IdsAreNumbers
  <2>4. BatchOf(d)'
    BY <2>1, <2>3 DEF BatchOf, Claimed
  <2> QED BY <1>1, <2>1, <2>4
<1>5. ASSUME NEW d \in Decider, NEW i \in Id, Reject(d, i)
      PROVE  \A e \in Decider : BatchOf(e)'
  <2>1. Others(d) /\ ~decision[d].allow
    BY <1>5, RejectEffect DEF Reject
  <2>2. ~decision'[d].allow /\ decision'[d].pc \in {"idle", "next", "rejecting"}
    <3>1. CASE status[i] = "pending"
      BY <1>5, <2>1, <3>1, GotoKeeps DEF Reject, DecisionPc
    <3>2. CASE status[i] # "pending"
      BY <1>5, <3>2, RefusedDone DEF Reject
    <3> QED BY <3>1, <3>2
  <2>3. BatchOf(d)'
    BY <2>2, BatchDone DEF Claimed
  <2> QED BY <1>1, <2>1, <2>3
<1>6. ASSUME NEW d \in Decider, NEW i \in Id, ResolveUnbound(d, i)
      PROVE  \A e \in Decider : BatchOf(e)'
  <2>1. Others(d) /\ ~decision'[d].allow /\ decision'[d].pc \in {"idle", "next"}
    BY <1>6, ResolveEffect, RefusedDone DEF ResolveUnbound
  <2> QED BY <1>1, <2>1, BatchDone DEF Claimed
<1>7. ASSUME NEW d \in Decider, NEW i \in Id, Claim(d, i)
      PROVE  \A e \in Decider : BatchOf(e)'
  <2>1. Others(d) /\ AtNextCode(d, i) /\ decision[d].allow /\ decision[d].pc = "next"
    BY <1>7, ClaimEffect DEF Claim, AtNextCode
  <2>2. CASE row[i] = "pending"
    <3>1. /\ decision'[d].pc = "approving" /\ decision'[d].id = i
          /\ decision'[d].batch = decision[d].batch /\ decision'[d].allow = decision[d].allow
      BY <1>7, <2>2, GotoKeeps DEF Claim, DecisionPc
    <3>2. ASSUME NEW j \in decision[d].batch, j < i
          PROVE  row'[j] = "succeeded"
      <4>1. j \in Id /\ j \in Nat /\ i \in Nat /\ decision[d].id \in Nat
        <5>1. j \in Id /\ decision[d].id \in Id \cup {0}
          BY DecisionFields DEF TypeOK, ProcessOK
        <5> QED BY <5>1, IdsAreNumbers
      <4>2. j \notin Remaining(d)
        BY <2>1, <3>2, <4>1 DEF AtNextCode
      <4>3. j < decision[d].id \/ j = decision[d].id
        BY <4>1, <4>2 DEF Remaining
      <4>4. row[j] = "succeeded"
        BY <1>0, <2>1, <4>3 DEF BatchOf
      <4> QED BY <1>0, <4>1, <4>4
    <3>3. BatchOf(d)'
      BY <2>1, <3>1, <3>2 DEF BatchOf
    <3> QED BY <1>1, <2>1, <3>3
  <2>3. CASE row[i] # "pending"
    <3>1. ~decision'[d].allow /\ decision'[d].pc \in {"idle", "next"}
      BY <1>7, <2>3, RefusedDone DEF Claim
    <3> QED BY <1>1, <2>1, <3>1, BatchDone DEF Claimed
  <2> QED BY <2>2, <2>3
<1>8. ASSUME NEW d \in Decider, RejectRow(d)
      PROVE  \A e \in Decider : BatchOf(e)'
  <2>1. Others(d) /\ decision[d].pc = "rejecting" /\ decision[d].id \in Id
    BY <1>8, RejectRowEffect DEF RejectRow, WaitInv
  <2>2. decision'[d].allow = decision[d].allow /\ decision'[d].pc = "next"
    BY <1>8, <2>1, GotoKeeps DEF RejectRow, DecisionPc
  <2>3. ~decision[d].allow
    BY <1>0, <2>1 DEF BatchOf
  <2> QED BY <1>1, <2>1, <2>2, <2>3, BatchDone DEF Claimed
<1>9. ASSUME NEW d \in Decider, FailRow(d)
      PROVE  \A e \in Decider : BatchOf(e)'
  <2>1. Others(d) /\ decision[d].id \in Id
    BY <1>9, FailRowEffect DEF FailRow, ClaimInv, Claimed
  <2>2. ~decision'[d].allow /\ decision'[d].pc \in {"idle", "next"}
    BY <1>9, <2>1, RefusedDone DEF FailRow
  <2> QED BY <1>1, <2>1, <2>2, BatchDone DEF Claimed
<1>10. ASSUME NEW d \in Decider,
              \/ Approve(d) \/ InvalidateUnapproved(d) \/ PrepareRefused(d) \/ Consume(d)
              \/ RunTool(d) \/ WriteReceipt(d)
       PROVE  \A e \in Decider : BatchOf(e)'
  <2>1. /\ Others(d)
        /\ decision'[d].pc \in {"preparing", "invalidating", "failing", "executing",
                                "recording", "auditing"}
    BY <1>10, ApproveEffect, InvalidateEffect, PrepareEffect, ConsumeEffect, RunToolEffect,
       WriteReceiptEffect
  <2>2. decision[d].pc \in Claimed /\ decision[d].id \in Id
    BY <1>10 DEF Approve, InvalidateUnapproved, PrepareRefused, Consume, RunTool, WriteReceipt,
       Claimed, ClaimInv
  <2>3. /\ decision'[d].id = decision[d].id
        /\ decision'[d].batch = decision[d].batch /\ decision'[d].allow = decision[d].allow
    <3>1. CASE Approve(d) \/ InvalidateUnapproved(d)
      BY <2>2, <3>1, GotoKeeps DEF Approve, InvalidateUnapproved, DecisionPc
    <3>2. CASE PrepareRefused(d) \/ Consume(d) \/ RunTool(d)
      BY <3>2, OutcomesKeep DEF PrepareRefused, Consume, RunTool, DecisionPc, Outcome
    <3>3. CASE WriteReceipt(d)
      BY <3>3, OutcomesKeep, DecisionFields DEF WriteReceipt, DecisionPc, TypeOK, ProcessOK
    <3> QED BY <1>10, <3>1, <3>2, <3>3
  <2>4. BatchOf(d)'
    BY <1>0, <2>1, <2>2, <2>3, BatchSame
  <2> QED BY <1>1, <2>1, <2>4
<1>11. ASSUME NEW d \in Decider, RecordOutcome(d)
       PROVE  \A e \in Decider : BatchOf(e)'
  <2>1. Others(d) /\ decision[d].pc = "recording" /\ decision[d].id \in Id
    BY <1>11, RecordEffect DEF RecordOutcome, ClaimInv, Claimed
  <2>2. CASE decision' = [decision EXCEPT ![d] = IdleDecision]
    <3>1. ~decision'[d].allow /\ decision'[d].pc = "idle"
      BY <2>2 DEF IdleDecision, TypeOK, ProcessOK
    <3> QED BY <1>1, <2>1, <3>1, BatchDone DEF Claimed
  <2>3. CASE decision[d].outcome = "ok" /\ Goto(d, "next", decision[d].id)
    <3>1. /\ decision'[d].pc = "next" /\ decision'[d].id = decision[d].id
          /\ decision'[d].batch = decision[d].batch /\ decision'[d].allow = decision[d].allow
      BY <2>1, <2>3, GotoKeeps DEF DecisionPc
    <3>2. row'[decision[d].id] = "succeeded"
      BY <1>11, <2>1, <2>3 DEF RecordOutcome, TypeOK, TablesOK
    <3>3. \A j \in decision[d].batch : j \in Id
      BY DecisionFields DEF TypeOK, ProcessOK
    <3>4. BatchOf(d)'
      BY <1>0, <3>1, <3>2, <3>3 DEF BatchOf, Claimed
    <3> QED BY <1>1, <2>1, <3>4
  <2>4. CASE Goto(d, "withdrawing", decision[d].id)
    <3>1. /\ decision'[d].pc = "withdrawing" /\ decision'[d].id = decision[d].id
          /\ decision'[d].batch = decision[d].batch /\ decision'[d].allow = decision[d].allow
      BY <2>1, <2>4, GotoKeeps DEF DecisionPc
    <3>2. BatchOf(d)'
      BY <1>0, <2>1, <3>1, BatchSame DEF Claimed
    <3> QED BY <1>1, <2>1, <3>2
  <2> QED BY <1>11, <2>2, <2>3, <2>4 DEF RecordOutcome
<1>12. ASSUME NEW d \in Decider, WithdrawFailed(d) \/ FinishDecision(d)
       PROVE  \A e \in Decider : BatchOf(e)'
  <2>1. Others(d) /\ decision' = [decision EXCEPT ![d] = IdleDecision]
    BY <1>12, StopEffect DEF WithdrawFailed, FinishDecision
  <2>2. ~decision'[d].allow /\ decision'[d].pc = "idle"
    BY <2>1 DEF IdleDecision, TypeOK, ProcessOK
  <2> QED BY <1>1, <2>1, <2>2, BatchDone DEF Claimed
<1> QED
  BY <1>2, <1>3, <1>4, <1>5, <1>6, <1>7, <1>8, <1>9, <1>10, <1>11, <1>12
     DEF Next, DecisionStep

(***************************************************************************)
(* Grants for the session.                                                 *)
(***************************************************************************)

(* What a step does to a grant. *)
LEMMA GrantSteps ==
  ASSUME TypeOK, SpendInv, [Next]_vars, NEW i \in Id
  PROVE  \/ grant'[i] = grant[i]
         \/ grant[i] # "none" /\ grant'[i] # "none"
         \/ grant'[i] = "live" /\ scope'[i] = "session" /\ used'[i] = 1
<1> USE DEF approvals, effects, process, TypeOK, TablesOK
<1>1. ASSUME NEW d \in Decider, Consume(d)
      PROVE  \/ grant'[i] = grant[i]
             \/ grant'[i] = "live" /\ scope'[i] = "session" /\ used'[i] = 1
  BY <1>1 DEF Consume
<1>2. ASSUME NEW d \in Decider,
             \/ \E c \in Context, allow \in BOOLEAN : DecideAll(d, c, allow)
             \/ \E c \in Context, allow \in BOOLEAN, s \in Scope : DecideCodes(d, c, allow, s)
             \/ RejectCode(d)
      PROVE  UNCHANGED grant
  BY <1>2, BeginEffect
<1>3. ASSUME NEW d \in Decider,
             \/ \E j \in Id : Reject(d, j) \/ ResolveUnbound(d, j) \/ Claim(d, j)
             \/ RejectRow(d) \/ Approve(d) \/ InvalidateUnapproved(d) \/ FailRow(d)
             \/ PrepareRefused(d) \/ RunTool(d) \/ WriteReceipt(d)
             \/ RecordOutcome(d) \/ WithdrawFailed(d) \/ FinishDecision(d)
      PROVE  UNCHANGED grant
  BY <1>3 DEF Reject, ResolveUnbound, Claim, RejectRow, Approve, InvalidateUnapproved, FailRow,
     PrepareRefused, RunTool, WriteReceipt, RecordOutcome, WithdrawFailed, FinishDecision
<1>4. ASSUME \/ \E k \in Caller :
                  \/ \E o \in Op, c \in Context : StartCall(k, o, c)
                  \/ TurnStep(k) \/ AbandonTurn(k)
             \/ \E j \in Id : Expire(j)
             \/ UNCHANGED vars \/ Crash \/ Recover
      PROVE  UNCHANGED grant
  BY <1>4 DEF TurnStep, StartCall, RunGranted, RequestRefused, AbandonTurn, CreateRow, EndTurn,
     MarkPresented, RequestReuse, RequestNew, Expire, vars, Crash, Recover
<1>5. ASSUME NEW j \in Id, LoseGrant(j)
      PROVE  grant'[i] = grant[i] \/ (grant[i] # "none" /\ grant'[i] # "none")
  BY <1>5 DEF LoseGrant
<1> QED
  BY <1>1, <1>2, <1>3, <1>4, <1>5 DEF Next, DecisionStep

(* A turn is granted a tool only as it starts the call. *)
LEMMA GrantedStart ==
  ASSUME TypeOK, [Next]_vars, NEW k \in Caller, call'[k].pc = "granted"
  PROVE  \/ call'[k] = call[k]
         \/ /\ HasSessionGrant(Tool[call'[k].op], call'[k].ctx)
            /\ UNCHANGED <<approvals, effects>>
<1> USE DEF approvals, effects, process, TypeOK, ProcessOK
<1>1. ASSUME NEW j \in Caller, NEW o \in Op, NEW c \in Context, StartCall(j, o, c)
      PROVE  \/ call'[k] = call[k]
             \/ /\ HasSessionGrant(Tool[call'[k].op], call'[k].ctx)
                /\ UNCHANGED <<approvals, effects>>
  BY <1>1 DEF StartCall
<1>2. ASSUME NEW j \in Caller,
             RunGranted(j) \/ RequestRefused(j) \/ AbandonTurn(j) \/ MarkPresented(j)
      PROVE  call'[k] = call[k]
  BY <1>2 DEF RunGranted, RequestRefused, AbandonTurn, MarkPresented, IdleCall
<1>3. ASSUME NEW j \in Caller, CreateRow(j) \/ EndTurn(j)
      PROVE  call'[k] = call[k]
  BY <1>3 DEF CreateRow, EndTurn, IdleCall, CallType
<1>4. ASSUME NEW j \in Caller, RequestReuse(j) \/ RequestNew(j)
      PROVE  call'[k] = call[k]
  BY <1>4, RequestEffect
<1>5. ASSUME NEW d \in Decider,
             \/ \E c \in Context, allow \in BOOLEAN : DecideAll(d, c, allow)
             \/ \E c \in Context, allow \in BOOLEAN, s \in Scope : DecideCodes(d, c, allow, s)
             \/ RejectCode(d)
      PROVE  UNCHANGED call
  BY <1>5, BeginEffect
<1>6. ASSUME NEW d \in Decider, DecisionStep(d)
      PROVE  UNCHANGED call
  BY <1>6 DEF DecisionStep, Claim, Reject, ResolveUnbound, RejectRow, Approve,
     InvalidateUnapproved, FailRow, PrepareRefused, Consume, RunTool, WriteReceipt,
     RecordOutcome, WithdrawFailed, FinishDecision
<1>7. ASSUME \/ \E i \in Id : Expire(i) \/ LoseGrant(i)
             \/ UNCHANGED vars \/ Recover
      PROVE  UNCHANGED call
  BY <1>7 DEF Expire, LoseGrant, vars, Recover
<1>8. ~Crash
  BY DEF Crash, IdleCall
<1> QED
  BY <1>1, <1>2, <1>3, <1>4, <1>5, <1>6, <1>7, <1>8 DEF Next, TurnStep

LEMMA GrantStep ==
  TypeOK /\ SpendInv /\ ClaimInv /\ StageInv /\ GrantInv /\ [Next]_vars => GrantInv'
<1> SUFFICES ASSUME TypeOK, SpendInv, ClaimInv, StageInv, GrantInv, [Next]_vars PROVE GrantInv'
  OBVIOUS
<1>1. ASSUME NEW i \in Id, grant'[i] # "none"
      PROVE  used'[i] = 1 /\ scope'[i] = "session"
  <2>1. CASE grant[i] = "none"
    BY <1>1, <2>1, GrantSteps
  <2>2. CASE grant[i] # "none"
    <3>1. used[i] = 1 /\ scope[i] = "session"
      BY <2>2 DEF GrantInv
    <3>2. status[i] \notin {"none", "pending", "approved", "revoked"}
      BY <3>1 DEF SpendInv
    <3> QED BY <3>1, <3>2, ApprovalSteps
  <2> QED BY <2>1, <2>2
<1>2. ASSUME NEW k \in Caller, call'[k].pc = "granted"
      PROVE  \E i \in Id : /\ status'[i] # "none" /\ ctxOf'[i] = call'[k].ctx
                           /\ Tool[opOf'[i]] = Tool[call'[k].op] /\ grant'[i] # "none"
  <2>1. CASE call'[k] = call[k]
    <3>1. PICK i \in InContext(call[k].op, call[k].ctx) : grant[i] # "none"
      BY <1>2, <2>1 DEF GrantInv
    <3>2. i \in Id /\ status[i] # "none"
      BY <3>1 DEF InContext, Created
    <3>3. status'[i] # "none" /\ opOf'[i] = opOf[i] /\ ctxOf'[i] = ctxOf[i]
      BY <3>2, CreatedStays
    <3>4. grant'[i] # "none"
      BY <3>1, <3>2, GrantSteps, <1>1
    <3> QED BY <2>1, <3>1, <3>2, <3>3, <3>4 DEF InContext
  <2>2. CASE /\ HasSessionGrant(Tool[call'[k].op], call'[k].ctx)
             /\ UNCHANGED <<approvals, effects>>
    BY <2>2 DEF HasSessionGrant, Created, approvals, effects
  <2> QED BY <1>2, <2>1, <2>2, GrantedStart
<1> QED BY <1>1, <1>2 DEF GrantInv, InContext, Created

(***************************************************************************)
(* The theorems.                                                           *)
(***************************************************************************)

LEMMA InitHolds == Init => IInv
<1> SUFFICES ASSUME Init PROVE IInv
  OBVIOUS
<1>1. TypeOK
  BY IdleTypes, BoundsAssumption DEF Init, TypeOK, TablesOK, ProcessOK, ApprovalStatus, RowStatus, Scope, Outcome
<1>2. SpendInv /\ LoopInv /\ ClaimInv /\ WaitInv
  BY DEF Init, SpendInv, LoopInv, ClaimInv, WaitInv, IdleCall, IdleDecision, Holding, Claimed
<1>3. StageInv
  BY DEF Init, StageInv, StageOf, IdleDecision
<1>4. ReportsAreTrue /\ KeyInv /\ OneInPlay
  BY DEF Init, ReportsAreTrue, KeyInv, OneInPlay, Created, IdleCall
<1>5. BatchInv /\ GrantInv
  BY DEF Init, BatchInv, GrantInv, IdleCall, IdleDecision, Claimed
<1> QED BY <1>1, <1>2, <1>3, <1>4, <1>5 DEF IInv

(* The invariant that every property below follows from, kept by every     *)
(* transaction of requests, decisions, executions and start-ups.           *)
THEOREM Inductive == Spec => []IInv
<1>1. IInv /\ [Next]_vars /\ TypeOK' => IInv'
  BY SpendStep, LoopStep, ClaimStep, WaitStep, StageStep, ReportsStep, KeyStep, PlayStep,
     BatchStep, GrantStep DEF IInv
<1> QED BY <1>1, InitHolds, TypeCorrect, PTL DEF Spec

(* Of two operations that exclude each other at most one waits, runs or is *)
(* under review, and ix_approvals_active_key is never violated             *)
(* (PermissionManager.create_pending).                                     *)
THEOREM EachOperationOnce == Spec => []OneOperationEach
<1>1. IInv => OneOperationEach
  BY KeysFollow DEF IInv, OneOperationEach
<1> QED BY <1>1, Inductive, PTL

(* What a decision executes comes after everything it was given to allow   *)
(* before it, and all of that has succeeded (decide_approvals).            *)
THEOREM BatchesStopAtAFailure == Spec => []PredecessorsSucceeded
<1>1. IInv => PredecessorsSucceeded
  BY DEF IInv, PredecessorsSucceeded, BatchInv, Claimed, Executing
<1> QED BY <1>1, Inductive, PTL

(* The end that a continuation reports is what happened, and no later      *)
(* decision, turn or start-up rewrites it (PendingToolStore).              *)
THEOREM ReportsCanBeTrusted == Spec => ReportsHold
<1>1. IInv => ReportsAreTrue
  BY DEF IInv
<1>2. IInv /\ [Next]_vars => [\A i \in Id : row[i] \in FinalRow => row'[i] = row[i]]_row
  BY RowFinal DEF IInv
<1> QED BY <1>1, <1>2, Inductive, PTL DEF Spec, ReportsHold, ReportsStay

(* A tool that runs under a grant runs where the owner gave one for the    *)
(* session, by a decision that was consumed (has_session_grant).           *)
THEOREM GrantsWereGiven == Spec => GrantedRunsHaveAGrant
<1>1. ASSUME IInv, NEW k \in Caller, RunGranted(k)
      PROVE  \E i \in InContext(call[k].op, call[k].ctx) :
                 grant[i] # "none" /\ used[i] = 1 /\ scope[i] = "session"
  <2>1. PICK i \in InContext(call[k].op, call[k].ctx) : grant[i] # "none"
    BY <1>1 DEF RunGranted, IInv, GrantInv
  <2>2. used[i] = 1 /\ scope[i] = "session"
    BY <1>1, <2>1 DEF IInv, GrantInv, InContext, Created
  <2> QED BY <2>1, <2>2
<1>2. IInv /\ [Next]_vars =>
         [\A k \in Caller : RunGranted(k) =>
             \E i \in InContext(call[k].op, call[k].ctx) :
                 grant[i] # "none" /\ used[i] = 1 /\ scope[i] = "session"]_vars
  BY <1>1
<1> QED BY <1>2, Inductive, PTL DEF Spec, GrantedRunsHaveAGrant

(***************************************************************************)
(* The workflow implements the consent ledger.                             *)
(***************************************************************************)

LEMMA LedgerPhases == \A i \in Id : LedgerPhase(i) \in Ledger!Consent
  BY DEF LedgerPhase, Ledger!Consent

(* Each entry moves along its own life. *)
LEMMA EntriesMoveOn ==
  ASSUME TypeOK, SpendInv, ClaimInv, StageInv, WaitInv, [Next]_vars, NEW i \in Id
  PROVE  LedgerPhase(i)' \in Ledger!Follows(LedgerPhase(i))
<1> DEFINE p == LedgerPhase(i)
<1> DEFINE q == LedgerPhase(i)'
<1>1. /\ status[i] \in ApprovalStatus /\ used[i] \in {0, 1}
      /\ status[i] \in {"none", "pending", "approved", "revoked"} => used[i] = 0
      /\ status[i] \in {"consumed", "rejected"} => used[i] = 1
      /\ row[i] = "running" => status[i] \notin {"none", "rejected"}
      /\ receipt[i] = "ok" => used[i] = 1 /\ status[i] \in {"consumed", "awaiting_review"}
  BY DEF TypeOK, TablesOK, SpendInv, ClaimInv, WaitInv
<1>2. \/ status'[i] = status[i] /\ used'[i] = used[i]
      \/ status[i] = "none" /\ status'[i] = "pending"
      \/ status[i] = "pending" /\ status'[i] = "approved"
      \/ status[i] = "pending" /\ status'[i] = "rejected"
      \/ status[i] \in {"pending", "approved"} /\ status'[i] = "revoked"
      \/ status[i] = "approved" /\ status'[i] = "consumed"
      \/ /\ row[i] = "running" /\ used'[i] = used[i]
         /\ \/ receipt[i] = "ok" /\ status'[i] = "consumed"
            \/ status'[i] = "awaiting_review"
  BY ApprovalSteps
<1>3. \/ q = p
      \/ p = "unasked" /\ q = "asked"
      \/ p = "asked" /\ q \in {"granted", "closed"}
      \/ p = "granted" /\ q \in {"spent", "closed"}
  BY <1>1, <1>2 DEF LedgerPhase, ApprovalStatus
<1>4. p \in Ledger!Consent
  BY LedgerPhases
<1> HIDE DEF p, q
<1>5. q \in Ledger!Follows(p)
  BY <1>3, <1>4 DEF Ledger!Follows, Ledger!Consent
<1> QED BY <1>5 DEF p, q

(* A tool is executed, for the first time, only by RunTool. *)
LEMMA OnlyRunsAct ==
  ASSUME TypeOK, [Next]_vars, ran' # ran
  PROVE  \E d \in Decider : RunTool(d)
<1> USE DEF approvals, effects, process
<1>1. ASSUME NEW d \in Decider,
             \/ \E c \in Context, allow \in BOOLEAN : DecideAll(d, c, allow)
             \/ \E c \in Context, allow \in BOOLEAN, s \in Scope : DecideCodes(d, c, allow, s)
             \/ RejectCode(d)
      PROVE  UNCHANGED ran
  BY <1>1, BeginEffect
<1>2. ASSUME NEW d \in Decider,
             \/ \E j \in Id : Reject(d, j) \/ ResolveUnbound(d, j) \/ Claim(d, j)
             \/ RejectRow(d) \/ Approve(d) \/ InvalidateUnapproved(d) \/ FailRow(d)
             \/ PrepareRefused(d) \/ Consume(d) \/ WriteReceipt(d)
             \/ RecordOutcome(d) \/ WithdrawFailed(d) \/ FinishDecision(d)
      PROVE  UNCHANGED ran
  BY <1>2 DEF Reject, ResolveUnbound, Claim, RejectRow, Approve, InvalidateUnapproved, FailRow,
     PrepareRefused, Consume, WriteReceipt, RecordOutcome, WithdrawFailed, FinishDecision
<1>3. ASSUME \/ \E k \in Caller :
                  \/ \E o \in Op, c \in Context : StartCall(k, o, c)
                  \/ TurnStep(k) \/ AbandonTurn(k)
             \/ \E j \in Id : Expire(j) \/ LoseGrant(j)
             \/ UNCHANGED vars \/ Crash \/ Recover
      PROVE  UNCHANGED ran
  BY <1>3 DEF TurnStep, StartCall, RunGranted, RequestRefused, AbandonTurn, CreateRow, EndTurn,
     MarkPresented, RequestReuse, RequestNew, Expire, LoseGrant, vars, Crash, Recover
<1> QED BY <1>1, <1>2, <1>3 DEF Next, DecisionStep

LEMMA LedgerStep == IInv /\ [Next]_vars => [Ledger!Next]_(Ledger!ledger)
<1> SUFFICES ASSUME IInv, [Next]_vars PROVE [Ledger!Next]_(Ledger!ledger)
  OBVIOUS
<1> DEFINE acted == {i \in Id : ran[i] # 0}
<1>1. /\ [i \in Id |-> LedgerPhase(i)]' \in [Id -> Ledger!Consent]
      /\ \A i \in Id : [j \in Id |-> LedgerPhase(j)]'[i]
                          \in Ledger!Follows([j \in Id |-> LedgerPhase(j)][i])
  <2>1. \A i \in Id : LedgerPhase(i)' \in Ledger!Consent
    BY DEF LedgerPhase, Ledger!Consent
  <2>2. \A i \in Id : LedgerPhase(i)' \in Ledger!Follows(LedgerPhase(i))
    BY EntriesMoveOn DEF IInv
  <2> QED BY <2>1, <2>2
<1>2. CASE acted' = acted
  BY <1>1, <1>2 DEF Ledger!Next, Ledger!Decide
<1>3. CASE acted' # acted
  <2>1. PICK d \in Decider : RunTool(d)
    BY <1>3, OnlyRunsAct DEF IInv
  <2>2. decision[d].pc = "executing" /\ UNCHANGED <<status, used>>
    BY <2>1 DEF RunTool, approvals
  <2>3. PICK i \in Id : i = decision[d].id
    BY <2>2 DEF IInv, SpendInv
  <2>4. status[i] = "consumed" /\ ran[i] = 0 /\ ran' = [ran EXCEPT ![i] = @ + 1]
    BY <2>1, <2>2, <2>3 DEF RunTool, IInv, SpendInv
  <2>5. acted' = acted \cup {i} /\ i \notin acted
    BY <2>3, <2>4 DEF IInv, TypeOK, TablesOK
  <2>6. [j \in Id |-> LedgerPhase(j)]' = [j \in Id |-> LedgerPhase(j)]
    BY <2>2 DEF LedgerPhase
  <2>7. [j \in Id |-> LedgerPhase(j)][i] = "spent"
    BY <2>3, <2>4 DEF LedgerPhase
  <2>8. Ledger!Act(i)
    BY <2>5, <2>6, <2>7 DEF Ledger!Act
  <2> QED BY <2>3, <2>8 DEF Ledger!Next
<1> QED BY <1>2, <1>3

(* Whatever transactions, threads, crashes and restarts lie between them,  *)
(* each approval is asked, granted, spent and acted on in this order and   *)
(* at most once.                                                           *)
THEOREM LedgerIsImplemented == Spec => ImplementsLedger
<1>1. Init => Ledger!Init
  BY DEF Init, Ledger!Init, LedgerPhase
<1> QED BY <1>1, LedgerStep, Inductive, PTL DEF Spec, ImplementsLedger, Ledger!Spec
==============================================================================
