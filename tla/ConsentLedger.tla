---------------------------- MODULE ConsentLedger ----------------------------
(***************************************************************************)
(* What the approval workflow promises, with every table, thread and      *)
(* coroutine left out: a ledger with one entry per approval number.  A     *)
(* request is asked, the owner may grant it or it is closed, a grant is    *)
(* spent once, and only a spent grant lets the tool act, once.             *)
(*                                                                         *)
(* One transaction of the service may move several entries (a new request  *)
(* closes the ones it replaces; start-up closes every interrupted one), so *)
(* a step moves each entry along its own life or leaves it alone.          *)
(***************************************************************************)
CONSTANT Id

VARIABLES
    consent,    \* [Id -> "unasked" | "asked" | "granted" | "spent" | "closed"]
    acted       \* the entries under which a tool was executed

ledger == <<consent, acted>>

Consent == {"unasked", "asked", "granted", "spent", "closed"}

(* The successors of each phase; "spent" and "closed" are final. *)
Follows(phase) ==
    CASE phase = "unasked" -> {"unasked", "asked"}
      [] phase = "asked"   -> {"asked", "granted", "closed"}
      [] phase = "granted" -> {"granted", "spent", "closed"}
      [] OTHER             -> {phase}

Init ==
    /\ consent = [i \in Id |-> "unasked"]
    /\ acted = {}

Decide ==
    /\ consent' \in [Id -> Consent]
    /\ \A i \in Id : consent'[i] \in Follows(consent[i])
    /\ UNCHANGED acted

Act(i) ==
    /\ consent[i] = "spent"
    /\ i \notin acted
    /\ acted' = acted \cup {i}
    /\ UNCHANGED consent

Next == Decide \/ \E i \in Id : Act(i)

Spec == Init /\ [][Next]_ledger
=============================================================================
