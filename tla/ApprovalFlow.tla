----------------------------- MODULE ApprovalFlow -----------------------------
(***************************************************************************)
(* The approval workflow of WhiteNight: a tool call that needs the owner's *)
(* consent is turned into an approval (policy/approvals.py), a durable     *)
(* continuation of it (tools/pending.py) is stored when the turn ends, and *)
(* the owner's decision (agent/service.py) claims, approves, consumes,     *)
(* executes and records it, each in a database transaction of its own.     *)
(*                                                                         *)
(* One action is one transaction, or one tool execution.  Coroutines of    *)
(* the event loop keep it from one await to the next: `loop` names the     *)
(* coroutine that holds it.  Executor threads (requests, tool executions)  *)
(* run at any time, also while a coroutine holds the loop.  A crash may    *)
(* fall between any two transactions; the tables survive it.               *)
(***************************************************************************)
EXTENDS Naturals, FiniteSets

CONSTANTS
    MaxId,          \* bound: approvals ever created; numbered by created_at
    Caller,         \* model turns, each executing one tool call at a time
    Decider,        \* owner's decisions being handled at the same time
    Op,             \* a tool with its bound parameters (params_digest)
    Tool,           \* [Op -> tool name]
    Source,         \* [Op -> source path of a file.move, None for others]
    SessionTool,    \* tools whose policy mode is SESSION (low_write)
    Context,        \* a session, its channel and its recipient
    MaxCrashes,     \* bound: crashes of the process
    None, Free      \* no value; nobody holds the event loop

Id == 1..MaxId

ASSUME BoundsAssumption == MaxId \in Nat /\ MaxCrashes \in Nat
ASSUME NoneAssumption == None \notin Op /\ None \notin Context
ASSUME LoopAssumption == Free \notin Caller \cup Decider
ASSUME ActorsAssumption == Caller \cap Decider = {}
ASSUME ToolAssumption == DOMAIN Tool = Op /\ DOMAIN Source = Op

VARIABLES
    \* table approvals, one column each
    status, scope, used, active, expired, presented, opOf, ctxOf,
    row,            \* table pending_tool_calls, by approval: its status
    grant,          \* table session_grants, by approval
    receipt,        \* table audit_events: last event of the approval
    ran,            \* history: tool executions under the approval
    call, decision, \* coroutines and their executor threads
    loop,           \* the coroutine that holds the event loop
    up, crashes     \* the process runs; crashes so far

approvals == <<status, scope, used, active, expired, presented, opOf, ctxOf>>
effects == <<grant, receipt, ran>>
process == <<up, crashes>>
vars == <<approvals, row, effects, call, decision, loop, process>>

ApprovalStatus == {"none", "pending", "approved", "consumed", "rejected",
                   "revoked", "awaiting_review"}
RowStatus == {"none", "pending", "running", "succeeded", "failed",
              "awaiting_review", "rejected", "expired", "superseded"}
ClosedRow == {"succeeded", "failed", "rejected", "expired", "superseded"}
Scope == {"once", "session"}
Outcome == {"none", "refused", "ok", "failed", "error"}

IdleCall == [pc |-> "idle", op |-> None, ctx |-> None, id |-> 0]
CallPc == {"idle", "asking", "granted", "waiting", "creating", "marking"}

CallType == [pc : CallPc, op : Op \cup {None}, ctx : Context \cup {None},
             id : Id \cup {0}]

IdleDecision == [pc |-> "idle", batch |-> {}, allow |-> FALSE,
                 scope |-> "once", id |-> 0, outcome |-> "none"]
DecisionPc == {"idle", "next", "rejecting", "approving", "invalidating",
               "failing", "preparing", "executing", "auditing", "recording",
               "withdrawing"}
DecisionType == [pc : DecisionPc, batch : SUBSET Id, allow : BOOLEAN,
                 scope : Scope, id : Id \cup {0}, outcome : Outcome]

TablesOK ==
    /\ status \in [Id -> ApprovalStatus]
    /\ scope \in [Id -> Scope]
    /\ used \in [Id -> {0, 1}]
    /\ active \in [Id -> BOOLEAN]
    /\ expired \in [Id -> BOOLEAN]
    /\ presented \in [Id -> BOOLEAN]
    /\ opOf \in [Id -> Op \cup {None}]
    /\ ctxOf \in [Id -> Context \cup {None}]
    /\ row \in [Id -> RowStatus]
    /\ grant \in [Id -> {"none", "live", "gone"}]
    /\ receipt \in [Id -> Outcome]
    /\ ran \in [Id -> Nat]

ProcessOK ==
    /\ call \in [Caller -> CallType]
    /\ decision \in [Decider -> DecisionType]
    /\ loop \in Caller \cup Decider \cup {Free}
    /\ up \in BOOLEAN
    /\ crashes \in 0..MaxCrashes

TypeOK == TablesOK /\ ProcessOK

Init ==
    /\ status = [i \in Id |-> "none"]
    /\ scope = [i \in Id |-> "once"]
    /\ used = [i \in Id |-> 0]
    /\ active = [i \in Id |-> FALSE]
    /\ expired = [i \in Id |-> FALSE]
    /\ presented = [i \in Id |-> FALSE]
    /\ opOf = [i \in Id |-> None]
    /\ ctxOf = [i \in Id |-> None]
    /\ row = [i \in Id |-> "none"]
    /\ grant = [i \in Id |-> "none"]
    /\ receipt = [i \in Id |-> "none"]
    /\ ran = [i \in Id |-> 0]
    /\ call = [k \in Caller |-> IdleCall]
    /\ decision = [d \in Decider |-> IdleDecision]
    /\ loop = Free
    /\ up = TRUE
    /\ crashes = 0

-----------------------------------------------------------------------------
(* What the queries of the code select. *)

PolicyScope(o) == IF Tool[o] \in SessionTool THEN "session" ELSE "once"

SameSource(o, p) == Source[o] # None /\ Source[o] = Source[p]

(* Two operations that may not be in play together: the same tool with the *)
(* same parameters, or two moves of the same source.                       *)
Conflict(o, p) == Tool[o] = Tool[p] /\ (o = p \/ SameSource(o, p))

Created == {i \in Id : status[i] # "none"}

InContext(o, c) ==
    {i \in Created : ctxOf[i] = c /\ Tool[opOf[i]] = Tool[o]}

(* Definitions named Fault... are slips the code could have made in the    *)
(* definition that follows; no specification uses them.                    *)

(* Fault: only the same parameters count, not another move of the source.  *)
FaultUnderway(o, c) ==
    {i \in InContext(o, c) : row[i] \in {"running", "awaiting_review"} /\ opOf[i] = o}

(* Calls already claimed, or whose result is waiting for review. *)
Underway(o, c) ==
    {i \in InContext(o, c) : /\ row[i] \in {"running", "awaiting_review"}
                             /\ Conflict(opOf[i], o)}

(* Approvals that are decided but still hold the operation. *)
Held(o, c) ==
    {i \in InContext(o, c) : /\ status[i] \in {"approved", "awaiting_review"}
                             /\ \/ active[i] /\ opOf[i] = o
                                \/ SameSource(opOf[i], o)}

Lapsed(o, c) == {i \in InContext(o, c) : status[i] = "pending" /\ expired[i]}

Reusable(o, c) ==
    {i \in InContext(o, c) : /\ status[i] = "pending" /\ ~expired[i]
                             /\ opOf[i] = o /\ scope[i] = PolicyScope(o)}

Rivals(o, c) ==
    {i \in InContext(o, c) \ Reusable(o, c) :
        status[i] = "pending" /\ ~expired[i] /\ SameSource(opOf[i], o)}

Available(c) == {i \in Created : status[i] = "pending" /\ ~expired[i] /\ ctxOf[i] = c}

(* Fault: a grant is not tied to the channel and recipient it was given in. *)
FaultHasSessionGrant(t, c) ==
    \E i \in Created : /\ grant[i] = "live" /\ status[i] = "consumed"
                       /\ Tool[opOf[i]] = t

HasSessionGrant(t, c) ==
    \E i \in Created : /\ grant[i] = "live" /\ status[i] = "consumed"
                       /\ Tool[opOf[i]] = t /\ ctxOf[i] = c

(* Grants can be given for the session only where the policy allows it. *)
MayGrant(i, s) == s = "once" \/ scope[i] = "session"

-----------------------------------------------------------------------------
(* A model turn executes a tool: executor thread, then the turn's end.     *)

LoopFree == up /\ loop = Free

StartCall(k, o, c) ==
    /\ up /\ call[k].pc = "idle"
    /\ call' = [call EXCEPT ![k] =
                  [pc |-> IF Tool[o] \in SessionTool /\ HasSessionGrant(Tool[o], c)
                          THEN "granted" ELSE "asking",
                   op |-> o, ctx |-> c, id |-> 0]]
    /\ UNCHANGED <<approvals, row, effects, decision, loop, process>>

(* The tool runs under a grant for the session; no approval is consumed.   *)
RunGranted(k) ==
    /\ up /\ call[k].pc = "granted"
    /\ call' = [call EXCEPT ![k] = IdleCall]
    /\ UNCHANGED <<approvals, row, effects, decision, loop, process>>

(* ApprovalService.request finds the operation claimed, decided or under   *)
(* review, and rolls back.                                                 *)
RequestRefused(k) ==
    /\ up /\ call[k].pc = "asking"
    /\ Underway(call[k].op, call[k].ctx) \cup Held(call[k].op, call[k].ctx) # {}
    /\ call' = [call EXCEPT ![k] = IdleCall]
    /\ UNCHANGED <<approvals, row, effects, decision, loop, process>>

(* Approvals the request closes on its way, and their continuations.       *)
Sweep(lapsed, rivals) ==
    /\ row' = [i \in Id |->
                 IF row[i] = "pending" /\ i \in lapsed THEN "expired"
                 ELSE IF row[i] = "pending" /\ i \in rivals THEN "superseded"
                 ELSE row[i]]

(* The same operation is already pending: its approval is used again.  The *)
(* candidates are read in no particular order, so any of those to close    *)
(* may have come before it.                                                *)
RequestReuse(k) ==
    LET o == call[k].op
        c == call[k].ctx
    IN  /\ up /\ call[k].pc = "asking"
        /\ Underway(o, c) = {}
        /\ \E i \in Reusable(o, c), lapsed \in SUBSET Lapsed(o, c),
              rivals \in SUBSET Rivals(o, c) :
              /\ status' = [j \in Id |-> IF j \in lapsed \cup rivals
                                        THEN "revoked" ELSE status[j]]
              /\ active' = [j \in Id |-> j = i \/ (active[j] /\ j \notin lapsed \cup rivals)]
              /\ Sweep(lapsed, rivals)
              /\ call' = [call EXCEPT ![k].pc = "waiting", ![k].id = i]
        /\ UNCHANGED <<scope, used, expired, presented, opOf, ctxOf, effects,
                       decision, loop, process>>

(* A new approval: lapsed ones and other moves of the source are closed.   *)
RequestNew(k) ==
    LET o == call[k].op
        c == call[k].ctx
        closed == Lapsed(o, c) \cup Rivals(o, c)
    IN  /\ up /\ call[k].pc = "asking"
        /\ Underway(o, c) \cup Held(o, c) \cup Reusable(o, c) = {}
        /\ \E n \in Id :
              /\ status[n] = "none" /\ \A j \in 1..(n - 1) : status[j] # "none"
              /\ status' = [j \in Id |-> IF j = n THEN "pending"
                                        ELSE IF j \in closed THEN "revoked"
                                        ELSE status[j]]
              /\ active' = [j \in Id |-> j = n \/ (active[j] /\ j \notin closed)]
              /\ scope' = [scope EXCEPT ![n] = PolicyScope(o)]
              /\ opOf' = [opOf EXCEPT ![n] = o]
              /\ ctxOf' = [ctxOf EXCEPT ![n] = c]
              /\ call' = [call EXCEPT ![k].pc = "waiting", ![k].id = n]
        /\ Sweep(Lapsed(o, c), Rivals(o, c))
        /\ UNCHANGED <<used, expired, presented, effects, decision, loop, process>>

(* The turn ends without storing its continuation: cancelled, a failed     *)
(* later call, a storage error, an early return.                           *)
AbandonTurn(k) ==
    /\ up /\ call[k].pc \in {"asking", "waiting"}
    /\ call' = [call EXCEPT ![k] = IdleCall]
    /\ UNCHANGED <<approvals, row, effects, decision, loop, process>>

(* Back on the event loop, the turn keeps the approvals still pending; a   *)
(* move of a received attachment is stored without looking again.          *)
EndTurn(k) ==
    LET live == call[k].id \in Available(call[k].ctx)
    IN  /\ LoopFree /\ call[k].pc = "waiting"
        /\ \/ /\ live \/ Source[call[k].op] # None
              /\ call' = [call EXCEPT ![k].pc = "creating"]
              /\ loop' = k
           \/ /\ ~live
              /\ call' = [call EXCEPT ![k] = IdleCall]
              /\ UNCHANGED loop
        /\ UNCHANGED <<approvals, row, effects, decision, process>>

(* Fault: the continuation is written again if there is one already. *)
FaultCreateRow(k) ==
    LET i == call[k].id
    IN  /\ up /\ call[k].pc = "creating"
        /\ row' = [row EXCEPT ![i] = IF status[i] = "pending" THEN "pending"
                                     ELSE "superseded"]
        /\ call' = [call EXCEPT ![k].pc = "marking"]
        /\ UNCHANGED <<approvals, effects, decision, loop, process>>

(* PendingToolStore.create: the stored continuation is kept if there is one. *)
CreateRow(k) ==
    LET i == call[k].id
    IN  /\ up /\ call[k].pc = "creating"
        /\ row' = [row EXCEPT ![i] = IF @ # "none" THEN @
                                     ELSE IF status[i] = "pending" THEN "pending"
                                     ELSE "superseded"]
        /\ call' = [call EXCEPT ![k].pc = "marking"]
        /\ UNCHANGED <<approvals, effects, decision, loop, process>>

MarkPresented(k) ==
    LET i == call[k].id
    IN  /\ up /\ call[k].pc = "marking"
        /\ presented' = [presented EXCEPT ![i] = @ \/ status[i] = "pending"]
        /\ call' = [call EXCEPT ![k] = IdleCall]
        /\ loop' = Free
        /\ UNCHANGED <<status, scope, used, active, expired, opOf, ctxOf, row,
                       effects, decision, process>>

-----------------------------------------------------------------------------
(* The owner decides: ChatService.decide_approvals, on the event loop.     *)

Begin(d, batch, allow, s) ==
    /\ LoopFree /\ decision[d].pc = "idle"
    /\ decision' = [decision EXCEPT ![d] =
                      [pc |-> "next", batch |-> batch, allow |-> allow,
                       scope |-> s, id |-> 0, outcome |-> "none"]]
    /\ loop' = d
    /\ UNCHANGED <<approvals, row, effects, call, process>>

(* "approve all": every approval of the context that has been presented.   *)
DecideAll(d, c, allow) ==
    LET shown == {i \in Available(c) : presented[i]}
    IN  shown # {} /\ Begin(d, shown, allow, "once")

(* Approvals chosen by code; a scope for the session is chosen one by one. *)
DecideCodes(d, c, allow, s) ==
    \E batch \in SUBSET Available(c) :
        /\ batch # {}
        /\ s = "session" => allow /\ Cardinality(batch) = 1
        /\ Begin(d, batch, allow, s)

(* The reject endpoint takes one code and does not look at its expiry.     *)
RejectCode(d) ==
    \E i \in Created :
        /\ status[i] = "pending" /\ row[i] \in {"none", "pending"}
        /\ Begin(d, {i}, FALSE, "once")

Remaining(d) == {i \in decision[d].batch : i > decision[d].id}

(* d holds the loop, or takes it back after an execution, for its next code. *)
AtNextCode(d, i) ==
    /\ up /\ decision[d].pc = "next" /\ loop \in {d, Free}
    /\ i \in Remaining(d) /\ \A j \in Remaining(d) : i <= j

(* d's decision goes on at pc with its code, keeping or leaving the loop.  *)
Goto(d, pc, i) ==
    decision' = [decision EXCEPT ![d].pc = pc, ![d].id = i, ![d].outcome = "none"]

(* Fault: a failure does not stop the rest of a batch to allow. *)
FaultCodeRefused(d, i) == Goto(d, "next", i) /\ loop' = d

(* A code that could not be decided.  The rest of a batch to allow stays   *)
(* pending; a batch to reject goes on.                                     *)
CodeRefused(d, i) ==
    IF decision[d].allow
    THEN decision' = [decision EXCEPT ![d] = IdleDecision] /\ loop' = Free
    ELSE Goto(d, "next", i) /\ loop' = d

FinishDecision(d) ==
    /\ up /\ decision[d].pc = "next" /\ loop \in {d, Free} /\ Remaining(d) = {}
    /\ decision' = [decision EXCEPT ![d] = IdleDecision]
    /\ loop' = Free
    /\ UNCHANGED <<approvals, row, effects, call, process>>

(* ApprovalService.reject, for a decision that refuses. *)
Reject(d, i) ==
    /\ AtNextCode(d, i) /\ ~decision[d].allow
    /\ \/ /\ status[i] = "pending"
          /\ status' = [status EXCEPT ![i] = "rejected"]
          /\ used' = [used EXCEPT ![i] = 1]
          /\ active' = [active EXCEPT ![i] = FALSE]
          /\ Goto(d, IF row[i] = "none" THEN "next" ELSE "rejecting", i)
          /\ loop' = d
       \/ /\ status[i] # "pending"
          /\ CodeRefused(d, i)
          /\ UNCHANGED <<status, used, active>>
    /\ UNCHANGED <<scope, expired, presented, opOf, ctxOf, row, effects, call, process>>

RejectRow(d) ==
    LET i == decision[d].id
    IN  /\ up /\ decision[d].pc = "rejecting"
        /\ row' = [row EXCEPT ![i] = "rejected"]
        /\ Goto(d, "next", i)
        /\ UNCHANGED <<approvals, effects, call, loop, process>>

(* No continuation is stored: resolve_once is called without a tool, so    *)
(* its first transaction approves and its second, which wants the bound    *)
(* tool and parameters, always refuses.                                    *)
ResolveUnbound(d, i) ==
    /\ AtNextCode(d, i) /\ decision[d].allow /\ row[i] = "none"
    /\ \/ /\ MayGrant(i, decision[d].scope) /\ status[i] = "pending" /\ ~expired[i]
          /\ status' = [status EXCEPT ![i] = "approved"]
          /\ scope' = [scope EXCEPT ![i] = decision[d].scope]
          /\ UNCHANGED active
       \/ /\ MayGrant(i, decision[d].scope) /\ status[i] = "pending" /\ expired[i]
          /\ status' = [status EXCEPT ![i] = "revoked"]
          /\ active' = [active EXCEPT ![i] = FALSE]
          /\ UNCHANGED scope
       \/ /\ ~MayGrant(i, decision[d].scope) \/ status[i] # "pending"
          /\ UNCHANGED <<status, scope, active>>
    /\ CodeRefused(d, i)
    /\ UNCHANGED <<used, expired, presented, opOf, ctxOf, row, effects, call, process>>

(* PendingToolStore.claim: pending to running, or the code is unavailable. *)
Claim(d, i) ==
    /\ AtNextCode(d, i) /\ decision[d].allow /\ row[i] # "none"
    /\ \/ /\ row[i] = "pending"
          /\ row' = [row EXCEPT ![i] = "running"]
          /\ Goto(d, "approving", i)
          /\ loop' = d
       \/ /\ row[i] # "pending"
          /\ CodeRefused(d, i)
          /\ UNCHANGED row
    /\ UNCHANGED <<approvals, effects, call, process>>

(* Fault: the tool is executed on the event loop. *)
FaultApprove(d) ==
    LET i == decision[d].id
    IN  /\ up /\ decision[d].pc = "approving"
        /\ MayGrant(i, decision[d].scope) /\ status[i] = "pending" /\ ~expired[i]
        /\ status' = [status EXCEPT ![i] = "approved"]
        /\ scope' = [scope EXCEPT ![i] = decision[d].scope]
        /\ Goto(d, "preparing", i)
        /\ UNCHANGED <<used, active, expired, presented, opOf, ctxOf, row,
                       effects, call, loop, process>>

(* ApprovalService.approve; an approved call goes to an executor thread.   *)
Approve(d) ==
    LET i == decision[d].id
        s == decision[d].scope
        open == MayGrant(i, s) /\ status[i] = "pending"
    IN  /\ up /\ decision[d].pc = "approving"
        /\ \/ /\ open /\ ~expired[i]
              /\ status' = [status EXCEPT ![i] = "approved"]
              /\ scope' = [scope EXCEPT ![i] = s]
              /\ used' = [used EXCEPT ![i] = 0]
              /\ Goto(d, "preparing", i)
              /\ loop' = Free
              /\ UNCHANGED active
           \/ /\ open /\ expired[i]
              /\ status' = [status EXCEPT ![i] = "revoked"]
              /\ active' = [active EXCEPT ![i] = FALSE]
              /\ Goto(d, "invalidating", i)
              /\ UNCHANGED <<scope, used, loop>>
           \/ /\ ~open
              /\ Goto(d, "invalidating", i)
              /\ UNCHANGED <<status, scope, used, active, loop>>
        /\ UNCHANGED <<expired, presented, opOf, ctxOf, row, effects, call, process>>

(* Fault: a consumed approval is closed like an undecided one. *)
FaultWithdraw(i) ==
    /\ status' = [status EXCEPT ![i] = "revoked"]
    /\ active' = [active EXCEPT ![i] = FALSE]

(* A call that could not be approved is closed, then marked failed. *)
Withdraw(i) ==
    LET closes == status[i] \in {"pending", "approved"}
    IN  /\ status' = [status EXCEPT ![i] = IF closes THEN "revoked" ELSE @]
        /\ active' = [active EXCEPT ![i] = @ /\ ~closes]

InvalidateUnapproved(d) ==
    /\ up /\ decision[d].pc = "invalidating"
    /\ Withdraw(decision[d].id)
    /\ Goto(d, "failing", decision[d].id)
    /\ UNCHANGED <<scope, used, expired, presented, opOf, ctxOf, row, effects,
                   call, loop, process>>

FailRow(d) ==
    /\ up /\ decision[d].pc = "failing"
    /\ row' = [row EXCEPT ![decision[d].id] = "failed"]
    /\ CodeRefused(d, decision[d].id)
    /\ UNCHANGED <<approvals, effects, call, process>>

-----------------------------------------------------------------------------
(* The executor thread of an approved call: ToolExecutor.execute.          *)

Outcomes(d, pc, o) ==
    decision' = [decision EXCEPT ![d].pc = pc, ![d].outcome = o]

(* The tool refuses its own parameters before the approval is consumed.    *)
PrepareRefused(d) ==
    /\ up /\ decision[d].pc = "preparing"
    /\ Outcomes(d, "recording", "refused")
    /\ UNCHANGED <<approvals, row, effects, call, loop, process>>

Consume(d) ==
    LET i == decision[d].id
    IN  /\ up /\ decision[d].pc = "preparing"
        /\ \/ /\ status[i] = "approved" /\ used[i] = 0 /\ ~expired[i]
              /\ status' = [status EXCEPT ![i] = "consumed"]
              /\ used' = [used EXCEPT ![i] = 1]
              /\ active' = [active EXCEPT ![i] = FALSE]
              /\ grant' = [grant EXCEPT ![i] = IF scope[i] = "session" THEN "live" ELSE @]
              /\ Outcomes(d, "executing", "none")
           \/ /\ status[i] # "approved" \/ used[i] # 0 \/ expired[i]
              /\ Outcomes(d, "recording", "refused")
              /\ UNCHANGED <<status, used, active, grant>>
        /\ UNCHANGED <<scope, expired, presented, opOf, ctxOf, row, receipt, ran,
                       call, loop, process>>

(* The tool runs: it succeeds, reports a failure, or raises.               *)
RunTool(d) ==
    /\ up /\ decision[d].pc = "executing"
    /\ ran' = [ran EXCEPT ![decision[d].id] = @ + 1]
    /\ \E o \in {"ok", "failed", "error"} : Outcomes(d, "auditing", o)
    /\ UNCHANGED <<approvals, row, grant, receipt, call, loop, process>>

WriteReceipt(d) ==
    /\ up /\ decision[d].pc = "auditing"
    /\ receipt' = [receipt EXCEPT ![decision[d].id] = decision[d].outcome]
    /\ Outcomes(d, "recording", decision[d].outcome)
    /\ UNCHANGED <<approvals, row, grant, ran, call, loop, process>>

(* Back on the event loop, the continuation takes the outcome.  A decision *)
(* whose request was cancelled meanwhile ends here.                        *)
RecordOutcome(d) ==
    LET i == decision[d].id
        o == decision[d].outcome
    IN  /\ LoopFree /\ decision[d].pc = "recording"
        /\ row' = [row EXCEPT ![i] = CASE o = "ok"    -> "succeeded"
                                       [] o = "error" -> "awaiting_review"
                                       [] OTHER       -> "failed"]
        /\ \/ /\ o = "ok"
              /\ \/ Goto(d, "next", i)
                 \/ decision' = [decision EXCEPT ![d] = IdleDecision]
              /\ UNCHANGED loop
           \/ /\ o # "ok"
              /\ Goto(d, "withdrawing", i)
              /\ loop' = d
        /\ UNCHANGED <<approvals, effects, call, process>>

WithdrawFailed(d) ==
    /\ up /\ decision[d].pc = "withdrawing"
    /\ Withdraw(decision[d].id)
    /\ decision' = [decision EXCEPT ![d] = IdleDecision]
    /\ loop' = Free
    /\ UNCHANGED <<scope, used, expired, presented, opOf, ctxOf, row, effects,
                   call, process>>

-----------------------------------------------------------------------------
(* Time, the owner's dashboard, and the process.                           *)

(* The ten minutes of an undecided or unconsumed approval pass. *)
Expire(i) ==
    /\ status[i] \in {"pending", "approved"} /\ ~expired[i]
    /\ expired' = [expired EXCEPT ![i] = TRUE]
    /\ UNCHANGED <<status, scope, used, active, presented, opOf, ctxOf, row,
                   effects, call, decision, loop, process>>

(* A grant for the session is revoked, or its 24 hours pass. *)
LoseGrant(i) ==
    /\ grant[i] = "live"
    /\ grant' = [grant EXCEPT ![i] = "gone"]
    /\ UNCHANGED <<approvals, row, receipt, ran, call, decision, loop, process>>

Crash ==
    /\ up /\ crashes < MaxCrashes
    /\ up' = FALSE
    /\ crashes' = crashes + 1
    /\ call' = [k \in Caller |-> IdleCall]
    /\ decision' = [d \in Decider |-> IdleDecision]
    /\ loop' = Free
    /\ UNCHANGED <<approvals, row, effects>>

(* Fault: start-up takes every interrupted call for a finished one. *)
FaultRecover ==
    LET interrupted == {i \in Id : row[i] = "running"}
    IN  /\ ~up
        /\ up' = TRUE
        /\ row' = [i \in Id |-> IF i \in interrupted THEN "succeeded" ELSE row[i]]
        /\ status' = [i \in Id |-> IF i \in interrupted THEN "consumed" ELSE status[i]]
        /\ UNCHANGED <<scope, used, active, expired, presented, opOf, ctxOf,
                       effects, call, decision, loop, crashes>>

(* Fault: the approval takes over the status of its continuation. *)
FaultRecoverStatus ==
    LET interrupted == {i \in Id : row[i] = "running"}
    IN  /\ ~up
        /\ up' = TRUE
        /\ row' = [i \in Id |-> IF i \notin interrupted THEN row[i]
                               ELSE IF receipt[i] = "ok" THEN "succeeded"
                               ELSE "awaiting_review"]
        /\ status' = [i \in Id |-> IF i \in interrupted THEN row'[i] ELSE status[i]]
        /\ UNCHANGED <<scope, used, active, expired, presented, opOf, ctxOf,
                       effects, call, decision, loop, crashes>>

(* Start-up reconciles interrupted calls with their receipts before it     *)
(* serves; the active key of an uncertain one is not freed.                *)
Recover ==
    LET interrupted == {i \in Id : row[i] = "running"}
        finished == {i \in interrupted : receipt[i] = "ok"}
    IN  /\ ~up
        /\ up' = TRUE
        /\ row' = [i \in Id |-> IF i \in finished THEN "succeeded"
                               ELSE IF i \in interrupted THEN "awaiting_review"
                               ELSE row[i]]
        /\ status' = [i \in Id |-> IF i \in finished THEN "consumed"
                                  ELSE IF i \in interrupted THEN "awaiting_review"
                                  ELSE status[i]]
        /\ UNCHANGED <<scope, used, active, expired, presented, opOf, ctxOf,
                       effects, call, decision, loop, crashes>>

TurnStep(k) ==
    \/ RunGranted(k)
    \/ RequestRefused(k) \/ RequestReuse(k) \/ RequestNew(k)
    \/ EndTurn(k) \/ CreateRow(k) \/ MarkPresented(k)

(* The steps of a decision that has begun: on the loop and in its thread.  *)
DecisionStep(d) ==
    \/ \E i \in Id : Reject(d, i) \/ ResolveUnbound(d, i) \/ Claim(d, i)
    \/ RejectRow(d) \/ Approve(d) \/ InvalidateUnapproved(d) \/ FailRow(d)
    \/ PrepareRefused(d) \/ Consume(d) \/ RunTool(d) \/ WriteReceipt(d)
    \/ RecordOutcome(d) \/ WithdrawFailed(d) \/ FinishDecision(d)

Next ==
    \/ \E k \in Caller :
          \/ \E o \in Op, c \in Context : StartCall(k, o, c)
          \/ TurnStep(k)
          \/ AbandonTurn(k)
    \/ \E d \in Decider :
          \/ \E c \in Context, allow \in BOOLEAN : DecideAll(d, c, allow)
          \/ \E c \in Context, allow \in BOOLEAN, s \in Scope : DecideCodes(d, c, allow, s)
          \/ RejectCode(d)
          \/ DecisionStep(d)
    \/ \E i \in Id : Expire(i) \/ LoseGrant(i)
    \/ Crash
    \/ Recover

Spec == Init /\ [][Next]_vars

(* Coroutines that can go on do, threads end, a stopped process is started *)
(* again.  The holder of the loop runs to its next await; a coroutine that *)
(* waits for the loop gets it in its turn, however often others take it.   *)
Fairness ==
    /\ \A k \in Caller : SF_vars(TurnStep(k))
    /\ \A d \in Decider : SF_vars(DecisionStep(d))
    /\ WF_vars(Recover)

FairSpec == Spec /\ Fairness

-----------------------------------------------------------------------------
(* Properties. *)

(* A tool has run at most once under an approval, and only under one that  *)
(* was consumed: neither a crash, a second decision of the same code nor   *)
(* an expiry between two transactions lets it run again, or run without.   *)
RanOnlyWithConsent ==
    \A i \in Id : ran[i] # 0 =>
        /\ ran[i] = 1 /\ used[i] = 1
        /\ status[i] \in {"consumed", "awaiting_review"}

(* What the continuation reports is what happened: a success has run and   *)
(* has a receipt, a call reported as rejected, expired or superseded never *)
(* ran, one reported as failed did not raise, and one whose receipt says   *)
(* it succeeded is never left for review.                                  *)
ReportsAreTrue ==
    \A i \in Id :
        /\ row[i] = "succeeded" => ran[i] = 1 /\ receipt[i] = "ok"
        /\ row[i] \in {"rejected", "expired", "superseded"} => ran[i] = 0
        /\ row[i] = "failed" => ran[i] = 0 \/ receipt[i] = "failed"
        /\ row[i] = "awaiting_review" => receipt[i] # "ok"

InPlay(i) ==
    \/ status[i] \in {"pending", "approved"}
    \/ row[i] \in {"running", "awaiting_review"}

(* Of the same operation, or of the moves of one source, at most one is    *)
(* waiting for consent, executing or under review in a context: two        *)
(* requests, or a request and a decision, never let both proceed.          *)
OneInPlay ==
    \A i, j \in Created :
        /\ i # j /\ ctxOf[i] = ctxOf[j] /\ Conflict(opOf[i], opOf[j])
        => ~(InPlay(i) /\ InPlay(j))

(* The unique index ix_approvals_active_key is never violated.             *)
KeysAreUnique ==
    \A i, j \in Created :
        active[i] /\ active[j] /\ ctxOf[i] = ctxOf[j] /\ opOf[i] = opOf[j] => i = j

(* An operation is in the hands of one approval at a time: nothing that     *)
(* conflicts with it proceeds beside it, and its key in the table is its    *)
(* own (PermissionManager.create_pending).                                  *)
OneOperationEach == OneInPlay /\ KeysAreUnique

Executing == {"preparing", "executing", "auditing"}

(* A batch executes in the order of creation, and a failed predecessor     *)
(* stops what follows: whatever a decision executes, everything it was     *)
(* given to allow before it has succeeded.                                 *)
PredecessorsSucceeded ==
    \A d \in Decider : decision[d].pc \in Executing =>
        \A j \in decision[d].batch : j < decision[d].id => row[j] = "succeeded"

FinalRow == ClosedRow \cup {"awaiting_review"}

(* What was reported as the end of a call stays: no later decision, late   *)
(* turn or restart reopens or rewrites it.                                 *)
ReportsStay ==
    [][\A i \in Id : row[i] \in FinalRow => row'[i] = row[i]]_row

(* A report is true when it is made, and it stays what it was.             *)
ReportsHold == []ReportsAreTrue /\ ReportsStay

(* A tool that runs without an approval of its own runs where the owner    *)
(* gave a session grant for that tool, in that context, by a decision that *)
(* itself was consumed (the grant may have been revoked since it was read). *)
GrantedRunsHaveAGrant ==
    [][\A k \in Caller : RunGranted(k) =>
          \E i \in InContext(call[k].op, call[k].ctx) :
              grant[i] # "none" /\ used[i] = 1 /\ scope[i] = "session"]_vars

(* A claimed call is always brought to an end, by its decision or by the   *)
(* next start-up.                                                          *)
ClaimedCallsEnd ==
    \A i \in Id : row[i] = "running" ~> row[i] # "running"

(* Every decision comes to an end, whoever else wants the loop. *)
DecisionsEnd ==
    \A d \in Decider : decision[d].pc # "idle" ~> decision[d].pc = "idle"

(* What was claimed and what is being decided comes to an end.             *)
ApprovalsEnd == ClaimedCallsEnd /\ DecisionsEnd

(* The workflow keeps the promises of the consent ledger. *)
LedgerPhase(i) ==
    CASE status[i] = "none"     -> "unasked"
      [] status[i] = "pending"  -> "asked"
      [] status[i] = "approved" -> "granted"
      [] status[i] = "consumed" -> "spent"
      [] status[i] = "awaiting_review" /\ used[i] = 1 -> "spent"
      [] OTHER -> "closed"

Ledger == INSTANCE ConsentLedger WITH
    consent <- [i \in Id |-> LedgerPhase(i)],
    acted <- {i \in Id : ran[i] # 0}

ImplementsLedger == Ledger!Spec

(* policy/approvals.py:285: an action that is not the approved one cannot  *)
(* make another operation's code unusable.  Stated of the tables: a code   *)
(* that is approved is in the hands of a decision that will spend or close *)
(* it.                                                                     *)
ApprovedIsInHand ==
    \A i \in Id : status[i] = "approved" =>
        \E d \in Decider :
            /\ decision[d].id = i
            /\ decision[d].pc \in {"preparing", "recording", "withdrawing"}

(* tools/pending.py:77 and docs/contracts/file-operations.md:31: an        *)
(* interrupted operation without a conclusive receipt is not executed      *)
(* again before it has been reviewed.                                      *)
NoBlindRerun ==
    [][\A k \in Caller : RunGranted(k) =>
          ~\E i \in InContext(call[k].op, call[k].ctx) :
              /\ row[i] = "awaiting_review" /\ receipt[i] = "none"
              /\ opOf[i] = call[k].op]_vars

-----------------------------------------------------------------------------
(* The inductive invariant: why the properties above hold.                 *)

(* What is undecided or only approved has not been spent, what is closed   *)
(* unspent stays so, and what is executing has been spent but has not run. *)
SpendInv ==
    /\ \A i \in Id :
          /\ status[i] \in {"none", "pending", "approved", "revoked"} => used[i] = 0
          /\ status[i] \in {"consumed", "rejected"} => used[i] = 1
    /\ \A i \in Id : ran[i] # 0 =>
          ran[i] = 1 /\ used[i] = 1 /\ status[i] \in {"consumed", "awaiting_review"}
    /\ \A i \in Id : receipt[i] # "none" => ran[i] # 0
    /\ \A d \in Decider :
          LET i == decision[d].id
              pc == decision[d].pc
          IN  /\ pc \in {"approving", "preparing", "executing", "auditing"} => i \in Id
              /\ pc = "executing" => status[i] = "consumed" /\ ran[i] = 0
              /\ pc = "auditing" => ran[i] # 0
    /\ \A d, e \in Decider :
          /\ decision[d].pc = "executing" /\ decision[e].pc = "executing"
          /\ decision[d].id = decision[e].id
          => d = e
    /\ ~up => \A d \in Decider : decision[d].pc = "idle"

Holding == {"rejecting", "approving", "invalidating", "failing", "withdrawing"}

(* A coroutine between two awaits holds the loop. *)
LoopInv ==
    /\ \A d \in Decider : decision[d].pc \in Holding => loop = d
    /\ \A k \in Caller : call[k].pc \in {"creating", "marking"} => loop = k
    /\ ~up => \A k \in Caller : call[k].pc = "idle"

Claimed == {"approving", "invalidating", "failing", "preparing", "executing",
            "auditing", "recording"}

(* A claimed call belongs to one decision; what has a continuation, or is  *)
(* asked for by a turn, has an approval.                                   *)
ClaimInv ==
    /\ \A d \in Decider : decision[d].pc \in Claimed =>
          decision[d].id \in Id /\ row[decision[d].id] = "running"
    /\ \A d, e \in Decider :
          /\ decision[d].pc \in Claimed /\ decision[e].pc \in Claimed
          /\ decision[d].id = decision[e].id
          => d = e
    /\ \A i \in Id : row[i] # "none" => status[i] # "none"
    /\ \A k \in Caller : call[k].pc \in {"waiting", "creating", "marking"} =>
          call[k].id \in Id /\ status[call[k].id] # "none"
    /\ \A d \in Decider : \A i \in decision[d].batch : status[i] # "none"

(* A continuation that waits belongs to an approval that waits, or to one  *)
(* whose rejection is being recorded or was cut off by a crash, and which  *)
(* no decision can have selected since.                                    *)
WaitInv ==
    /\ \A i \in Id :
          /\ row[i] = "pending" => status[i] \in {"pending", "rejected"}
          /\ row[i] = "running" => status[i] # "rejected"
          /\ status[i] = "pending" => row[i] \in {"none", "pending", "running"}
          /\ row[i] = "running" /\ status[i] = "pending" /\ up =>
                \E d \in Decider : /\ decision[d].pc \in {"approving", "invalidating"}
                                   /\ decision[d].id = i
    /\ \A d \in Decider : decision[d].pc = "rejecting" =>
          /\ decision[d].id \in Id
          /\ status[decision[d].id] = "rejected" /\ row[decision[d].id] = "pending"
    /\ \A d \in Decider : \A i \in decision[d].batch :
          row[i] = "pending" /\ status[i] = "rejected" =>
                \E e \in Decider : decision[e].pc = "rejecting" /\ decision[e].id = i

(* How far the call that a decision claimed has come. *)
StageOf(d) ==
    LET i == decision[d].id
        o == decision[d].outcome
        pc == decision[d].pc
    IN  /\ pc \in {"approving", "invalidating", "failing", "preparing"} => ran[i] = 0
        /\ pc = "failing" => status[i] \notin {"pending", "approved"}
        /\ pc = "preparing" => status[i] = "approved"
        /\ pc = "auditing" => o \in {"ok", "failed", "error"}
        /\ pc = "withdrawing" => i \in Id /\ row[i] \in {"failed", "awaiting_review"}
        /\ pc = "recording" =>
              /\ status[i] # "pending"
              /\ \/ o = "refused" /\ ran[i] = 0
                 \/ o \in {"ok", "failed", "error"} /\ ran[i] = 1 /\ receipt[i] = o

StageInv ==
    /\ \A i \in Id : row[i] \in {"none", "pending"} => ran[i] = 0
    /\ \A d \in Decider : StageOf(d)

(* Which approvals hold the key of their operation. *)
KeyInv ==
    /\ \A k \in Caller : call[k].pc # "idle" => call[k].op \in Op /\ call[k].ctx \in Context
    /\ \A i \in Created : opOf[i] \in Op /\ ctxOf[i] \in Context
    /\ \A i \in Id :
          /\ status[i] = "pending" => scope[i] = PolicyScope(opOf[i])
          /\ status[i] \in {"pending", "approved"} => active[i]
          /\ active[i] => \/ status[i] \in {"pending", "approved"}
                          \/ status[i] = "awaiting_review" /\ row[i] = "awaiting_review"

(* A batch to allow has come as far as its calls have succeeded.           *)
BatchInv ==
    \A d \in Decider :
        /\ decision[d].pc \in Claimed => decision[d].allow
        /\ decision[d].pc = "rejecting" => ~decision[d].allow
        /\ decision[d].allow =>
              \A j \in decision[d].batch :
                 \/ j < decision[d].id
                 \/ j = decision[d].id /\ decision[d].pc = "next"
                 => row[j] = "succeeded"

(* A grant was consumed for the session, and a turn that found it runs     *)
(* under what it found.                                                    *)
GrantInv ==
    /\ \A i \in Id : grant[i] # "none" => used[i] = 1 /\ scope[i] = "session"
    /\ \A k \in Caller : call[k].pc = "granted" =>
          \E i \in InContext(call[k].op, call[k].ctx) : grant[i] # "none"

IInv ==
    /\ TypeOK /\ SpendInv /\ LoopInv /\ ClaimInv /\ WaitInv /\ StageInv
    /\ ReportsAreTrue /\ KeyInv /\ OneInPlay /\ BatchInv /\ GrantInv
=============================================================================
