------------------------------ MODULE Dispatch ------------------------------
(* Where a message goes (ChatService._generate_reply up to the model, the   *)
(* router and the policy for delegates): an approval, a status, a delegate, *)
(* or the model that is installed when the turn begins. A text is the set   *)
(* of the patterns it matches.                                              *)
EXTENDS Integers, FiniteSets

CONSTANTS
    ChatMessage,      \* messages of the owner
    Texts,        \* texts they may have: sets of patterns
    Model,        \* model providers the owner may install
    Sees,         \* those that declare vision
    MaxSwaps      \* bound on the changes of the provider

ASSUME DispatchAssumption == MaxSwaps \in Nat

VARIABLES
    text,       \* text of each message
    image,      \* messages with an image
    files,      \* messages with attachments
    hermes,     \* hermes_enabled
    overrides,  \* setting model_supports_vision: "yes", "no" or "unset"
    installed,  \* provider of the application
    swaps,      \* changes of it
    stage,      \* how far the turn of a message is
    plan,       \* what the router decided for it
    uses,       \* provider its turn holds
    answer      \* how its turn answered

dispatchVars == <<text, image, files, hermes, overrides, installed, swaps, stage, plan, uses,
                  answer>>
-----------------------------------------------------------------------------
NoModel == "none"
NoPlan == [to |-> "nobody", risk |-> "none", image |-> FALSE]
Risks == {"none", "read_only", "medium", "high"}
Answers == {"none", "approval", "status", "usage", "delegated", "refused", "no_vision",
            "generated", "image_error", "attachment_error"}

DispatchTypeOK ==
    /\ text \in [ChatMessage -> Texts]
    /\ image \subseteq ChatMessage
    /\ files \subseteq ChatMessage
    /\ hermes \in BOOLEAN
    /\ overrides \in {"yes", "no", "unset"}
    /\ installed \in Model
    /\ swaps \in 0..MaxSwaps
    /\ stage \in [ChatMessage -> {"new", "stored", "commanded", "routed", "local", "ended"}]
    /\ plan \in [ChatMessage -> [to : {"nobody", "whitenight", "codex", "hermes"}, risk : Risks,
                             image : BOOLEAN]]
    /\ uses \in [ChatMessage -> Model \cup {NoModel}]
    /\ answer \in [ChatMessage -> Answers]

DispatchInit ==
    /\ text \in [ChatMessage -> Texts]
    /\ image \in SUBSET ChatMessage
    /\ files \in SUBSET ChatMessage
    /\ hermes \in BOOLEAN
    /\ overrides \in {"yes", "no", "unset"}
    /\ installed \in Model
    /\ swaps = 0
    /\ stage = [m \in ChatMessage |-> "new"]
    /\ plan = [m \in ChatMessage |-> NoPlan]
    /\ uses = [m \in ChatMessage |-> NoModel]
    /\ answer = [m \in ChatMessage |-> "none"]
-----------------------------------------------------------------------------
Stages(m, s) == stage' = [stage EXCEPT ![m] = s]
Ends(m, how) ==
    /\ Stages(m, "ended")
    /\ answer' = [answer EXCEPT ![m] = how]

(* The turn takes the provider once; an image that cannot be kept ends it,  *)
(* and so does an attachment that is not there or is bound already.         *)
StoreMessage(m) ==
    /\ stage[m] = "new"
    /\ uses' = [uses EXCEPT ![m] = installed]
    /\ \/ Stages(m, "stored") /\ UNCHANGED answer
       \/ m \in image /\ Ends(m, "image_error")
       \/ m \in files /\ Ends(m, "attachment_error")
    /\ UNCHANGED <<text, image, files, hermes, overrides, installed, swaps, plan>>

(* Only a text that comes alone is read as a command: first as an approval, *)
(* then as a status, which is given when there is an operation to speak of. *)
ComesAlone(m) == m \notin image \cup files
Command(m) ==
    /\ stage[m] = "stored"
    /\ \/ ComesAlone(m) /\ "approval" \in text[m] /\ Ends(m, "approval")
       \/ ComesAlone(m) /\ "approval" \notin text[m] /\ "status" \in text[m] /\ Ends(m, "status")
       \/ /\ ComesAlone(m) => "approval" \notin text[m]
          /\ Stages(m, "commanded")
          /\ UNCHANGED answer
    /\ UNCHANGED <<text, image, files, hermes, overrides, installed, swaps, plan, uses>>

Plan(to, risk, pic) == [to |-> to, risk |-> risk, image |-> pic]
(* RuleRouter.route: the first rule that matches. It always answers, so     *)
(* the model is never asked to route.                                       *)
RulePlan(t, pic) ==
    CASE "hermes" \in t /\ ~hermes -> Plan("whitenight", "medium", FALSE)
      [] "hermes" \in t /\ hermes -> Plan("hermes", "medium", FALSE)
      [] "hermes" \notin t /\ "codex" \in t -> Plan("codex", "high", FALSE)
      [] t \cap {"hermes", "codex"} = {} /\ "local" \in t -> Plan("whitenight", "read_only", FALSE)
      [] t \cap {"hermes", "codex", "local"} = {} /\ pic /\ "long" \notin t ->
            Plan("whitenight", "read_only", TRUE)
      [] t \cap {"hermes", "codex", "local"} = {} /\ (pic => "long" \in t) ->
            IF "code" \in t THEN Plan("whitenight", "high", FALSE)
            ELSE IF "gui" \in t THEN Plan(IF hermes THEN "hermes" ELSE "whitenight", "medium", FALSE)
            ELSE Plan("whitenight", "read_only", FALSE)

(* RoutingEngine.route keeps delegates to explicit requests.                *)
Guarded(p, t) ==
    IF \/ p.to = "codex" /\ "codex" \notin t
       \/ p.to = "hermes" /\ ~hermes
    THEN [p EXCEPT !.to = "whitenight"]
    ELSE p

Route(m) ==
    /\ stage[m] = "commanded"
    /\ plan' = [plan EXCEPT ![m] = Guarded(RulePlan(text[m], m \in image), text[m])]
    /\ Stages(m, "routed")
    /\ UNCHANGED <<text, image, files, hermes, overrides, installed, swaps, uses, answer>>

(* PolicyEngine.evaluate_delegate, with the capabilities the adapters       *)
(* declare: Codex isolates what only reads, neither offers a policy per     *)
(* action.                                                                  *)
IsolatesReads == {"codex"}
OffersActionPolicy == {}
DelegateAllowed(p) ==
    \/ p.risk = "read_only" /\ p.to \in IsolatesReads
    \/ p.to \in OffersActionPolicy

(* /codex without a task is answered with its usage, whoever was meant.     *)
Hand(m) ==
    /\ stage[m] = "routed"
    /\ \/ "codex_empty" \in text[m] /\ Ends(m, "usage")
       \/ /\ "codex_empty" \notin text[m]
          /\ plan[m].to # "whitenight"
          /\ Ends(m, IF DelegateAllowed(plan[m]) THEN "delegated" ELSE "refused")
       \/ /\ "codex_empty" \notin text[m]
          /\ plan[m].to = "whitenight"
          /\ Stages(m, "local")
          /\ UNCHANGED answer
    /\ UNCHANGED <<text, image, files, hermes, overrides, installed, swaps, plan, uses>>

SupportsVision(model) == IF overrides = "unset" THEN model \in Sees ELSE overrides = "yes"
(* Fault: the turn asks the application's provider. *)
FaultMaySee(m) == m \notin image \/ SupportsVision(installed)
MaySee(m) == m \notin image \/ SupportsVision(uses[m])

(* The attachments are looked up again for the prompt.                      *)
Generate(m) ==
    /\ stage[m] = "local"
    /\ \/ Ends(m, IF MaySee(m) THEN "generated" ELSE "no_vision")
       \/ m \in files /\ MaySee(m) /\ Ends(m, "attachment_error")
    /\ UNCHANGED <<text, image, files, hermes, overrides, installed, swaps, plan, uses>>

(* set_provider: for turns to come.                                         *)
SetProvider(p) ==
    /\ swaps < MaxSwaps
    /\ swaps' = swaps + 1
    /\ installed' = p
    /\ UNCHANGED <<text, image, files, hermes, overrides, stage, plan, uses, answer>>

DispatchNext ==
    \/ \E m \in ChatMessage : StoreMessage(m) \/ Command(m) \/ Route(m) \/ Hand(m) \/ Generate(m)
    \/ \E p \in Model \ {installed} : SetProvider(p)

DispatchSpec == DispatchInit /\ [][DispatchNext]_dispatchVars
-----------------------------------------------------------------------------
(* A message stays where it belongs, whatever its text matches besides and  *)
(* whenever the provider is changed: an approval or its refusal that comes  *)
(* alone never goes to a model (agent/service.py:216), only an explicit     *)
(* /codex goes to Codex and nothing to a Hermes that is disabled            *)
(* (routing/engine.py:126-142), and an image is only given to a provider    *)
(* that sees, the one the turn holds (agent/service.py:259-277). The same   *)
(* words with an image or an attachment decide nothing: they go on to the   *)
(* router and, unless it fails them, to the model.                          *)
MessagesStayWhereTheyBelong ==
    \A m \in ChatMessage :
        /\ stage[m] = "ended" /\ "approval" \in text[m] /\ ComesAlone(m) => answer[m] = "approval"
        /\ answer[m] \in {"approval", "status"} => ComesAlone(m)
        /\ plan[m].to = "codex" => "codex" \in text[m]
        /\ plan[m].to = "hermes" => hermes
        /\ answer[m] = "generated" /\ m \in image => SupportsVision(uses[m])

(* "Codex currently supports only newly created read-only sandbox tasks     *)
(* after an explicit /codex request" (docs/contracts/                       *)
(* provider-interface.md:54): such a request is delegated.                  *)
CodexRequestsReachCodex ==
    \A m \in ChatMessage : stage[m] = "ended" /\ plan[m].to = "codex" => answer[m] \in {"delegated", "usage"}
=============================================================================
