----------------------------- MODULE Worldbook -----------------------------
(* Which entries of the lorebooks enter a prompt (personality/worldbook.py, *)
(* WorldbookEngine.activate), and the state of their timers from one turn   *)
(* to the next (PersonalityStore.save_world_effect). The scan of a turn     *)
(* takes one entry after the other, step after step: nothing else runs      *)
(* meanwhile. Keys and texts are reduced to where an entry is first found.  *)
EXTENDS Integers, FiniteSets, FiniteSetsExt

CONSTANTS
    Entry,        \* entries, of every book in use
    Book,         \* lorebooks in use for the session
    Lores,        \* the contents the books may have: functions on Entry
    Shelves,      \* the settings the books may have: functions on Book
    Finds,        \* where the keys may be found: functions from Entry to Nat
    MaxSequence   \* bound on the messages of the session

ASSUME WorldbookAssumption ==
    /\ MaxSequence \in Nat \ {0}
    /\ IsFiniteSet(Entry)
    /\ \A l \in Lores, e \in Entry :
          {l[e].sticky, l[e].cooldown, l[e].delay, l[e].cost} \subseteq Nat
    /\ \A l \in Lores, e \in Entry : l[e].book \in Book
    /\ \A f \in Shelves, b \in Book : f[b].budget \in Nat
    /\ Finds \subseteq [Entry -> Nat]

VARIABLES
    lore,       \* the entries
    shelf,      \* the books
    sequence,   \* messages of the session
    effects,    \* saved timers of the entries
    compiling,  \* where the compilation of a prompt is
    scan,       \* the scan of the history: step, entries left in it, ...
    placing,    \* candidates that are not placed yet
    placed,     \* entries in the prompt
    lastUsed    \* sequence at which a kept prompt last had the entry

worldVars == <<lore, shelf, sequence, effects, compiling, scan, placing, placed, lastUsed>>
-----------------------------------------------------------------------------
Timers == [sticky : Nat, cooldown : Nat, delayed : Nat]
NotUsed == 0
NoScan == [now |-> 0, step |-> 0, left |-> {}, candidates |-> {}, fresh |-> {}, heard |-> {},
           foundAt |-> [e \in Entry |-> 0], keep |-> FALSE, exact |-> FALSE]

WorldTypeOK ==
    /\ lore \in Lores
    /\ shelf \in Shelves
    /\ sequence \in 0..MaxSequence
    /\ effects \in [Entry -> Timers]
    /\ compiling \in {"idle", "scan", "place"}
    /\ scan \in [now : 0..MaxSequence, step : Nat, left : SUBSET Entry, candidates : SUBSET Entry,
                 fresh : SUBSET Entry, heard : SUBSET Entry,
                 foundAt : [Entry -> Nat], keep : BOOLEAN, exact : BOOLEAN]
    /\ placing \subseteq Entry
    /\ placed \subseteq Entry
    /\ lastUsed \in [Entry -> 0..MaxSequence]

WorldInit ==
    /\ lore \in Lores
    /\ shelf \in Shelves
    /\ sequence = 0
    /\ effects = [e \in Entry |-> [sticky |-> 0, cooldown |-> 0, delayed |-> 0]]
    /\ compiling = "idle"
    /\ scan = NoScan
    /\ placing = {}
    /\ placed = {}
    /\ lastUsed = [e \in Entry |-> NotUsed]
-----------------------------------------------------------------------------
BookOf(e) == lore[e].book
Found(b) == {e \in scan.candidates : BookOf(e) = b}
MaxSteps == Max({shelf[b].steps : b \in Book} \cup {IF scan.now < 32 THEN scan.now ELSE 32})

(* A new message of the owner, or a preview of the prompt: the places where *)
(* the keys are found in the history, counted from its newest message, are  *)
(* as they happen to be; 0 is nowhere. Tokens are counted exactly when a    *)
(* tokenizer is configured.                                                 *)
BeginPrompt(keep, exact, at) ==
    /\ compiling = "idle"
    /\ sequence < MaxSequence
    /\ sequence' = IF keep THEN sequence + 1 ELSE sequence
    /\ compiling' = "scan"
    /\ scan' = [NoScan EXCEPT !.now = sequence + 1, !.left = Entry, !.foundAt = at,
                             !.keep = keep, !.exact = exact]
    /\ UNCHANGED <<lore, shelf, effects, placing, placed, lastUsed>>

(* The answer, and messages of the channel, also count.                     *)
OtherMessage ==
    /\ compiling = "idle"
    /\ sequence < MaxSequence
    /\ sequence' = sequence + 1
    /\ UNCHANGED <<lore, shelf, effects, compiling, scan, placing, placed, lastUsed>>

Sticks(e) == effects[e].sticky > scan.now
(* Fault: the cooldown of an entry ends with the message it was used in. *)
FaultRests(e) ==
    \/ effects[e].delayed > scan.now
    \/ effects[e].cooldown > scan.now + 1 /\ ~Sticks(e)
Rests(e) ==
    \/ effects[e].delayed > scan.now
    \/ effects[e].cooldown > scan.now /\ ~Sticks(e)

(* While a book has too few candidates, every step looks deeper into the    *)
(* history; later steps also look at the entries found before.              *)
Depth(e) ==
    LET b == BookOf(e) IN
    lore[e].depth + IF Cardinality(scan.candidates) < shelf[b].minimum THEN scan.step ELSE 0
Heard(e) == scan.step > 0 /\ lore[e].hears /\ \E o \in scan.heard : e \in lore[o].mentions
IsFound(e) ==
    \/ lore[e].constant
    \/ Sticks(e)
    \/ scan.foundAt[e] \in 1..Depth(e)
    \/ Heard(e)

(* Secondary keys and the probability decide in the end, anew at each step. *)
Admits(e) ==
    IF Rests(e) \/ lore[e].recursion > scan.step \/ ~IsFound(e) THEN {FALSE}
    ELSE IF lore[e].doubtful THEN BOOLEAN ELSE {TRUE}

(* One turn of the loop over the entries, in the order of the listing.      *)
ScanEntry(e) ==
    /\ compiling = "scan"
    /\ e \in scan.left
    /\ \A o \in scan.left : lore[e].rank <= lore[o].rank
    /\ \E admitted \in IF e \in scan.candidates THEN {FALSE} ELSE Admits(e) :
          scan' = [scan EXCEPT
                     !.left = @ \ {e},
                     !.candidates = IF admitted THEN @ \cup {e} ELSE @,
                     !.fresh = IF admitted /\ lore[e].contagious THEN @ \cup {e} ELSE @]
    /\ UNCHANGED <<lore, shelf, sequence, effects, compiling, placing, placed, lastUsed>>

NeedsMore == \E b \in Book : Cardinality(Found(b)) < shelf[b].minimum
GoesOn ==
    /\ NeedsMore \/ (scan.fresh # {} /\ \E b \in Book : shelf[b].recursive)
    /\ scan.step + 1 < MaxSteps

NextStep ==
    /\ compiling = "scan"
    /\ scan.left = {}
    /\ GoesOn
    /\ scan' = [scan EXCEPT !.step = @ + 1, !.left = Entry, !.fresh = {},
                            !.heard = @ \cup scan.fresh]
    /\ UNCHANGED <<lore, shelf, sequence, effects, compiling, placing, placed, lastUsed>>
-----------------------------------------------------------------------------
(* One candidate of every group, of those that override when there are any. *)
InGroup(g) == {e \in scan.candidates : lore[e].group = g}
Pool(g) == LET overriding == {e \in InGroup(g) : lore[e].override}
           IN  IF overriding = {} THEN InGroup(g) ELSE overriding
Groups == {lore[e].group : e \in scan.candidates} \ {"none"}

ChooseOfGroups ==
    /\ compiling = "scan"
    /\ scan.left = {}
    /\ ~GoesOn
    /\ \E pick \in [Groups -> scan.candidates] :
          /\ \A g \in Groups : pick[g] \in Pool(g)
          /\ placing' = InGroup("none") \cup {pick[g] : g \in Groups}
    /\ compiling' = "place"
    /\ UNCHANGED <<lore, shelf, sequence, effects, scan, placed, lastUsed>>

Used(b) == MapThenSumSet(LAMBDA e : lore[e].cost, {e \in placed : BookOf(e) = b})
Fits(e) ==
    ~scan.exact \/ lore[e].free \/ Used(BookOf(e)) + lore[e].cost <= shelf[BookOf(e)].budget

(* Placing in the order of the entries; the timers start here, also those   *)
(* of an entry that is in the prompt because it sticks.                     *)
Timed(e) ==
    [sticky |-> IF lore[e].sticky > 0 THEN scan.now + lore[e].sticky ELSE effects[e].sticky,
     cooldown |-> IF lore[e].cooldown > 0 THEN scan.now + lore[e].cooldown
                  ELSE effects[e].cooldown,
     delayed |-> IF lore[e].delay > 0 THEN scan.now + lore[e].delay ELSE effects[e].delayed]

PlaceEntry(e) ==
    /\ compiling = "place"
    /\ e \in placing
    /\ \A o \in placing : lore[e].order <= lore[o].order
    /\ placing' = placing \ {e}
    /\ placed' = IF Fits(e) THEN placed \cup {e} ELSE placed
    /\ UNCHANGED <<lore, shelf, sequence, effects, compiling, scan, lastUsed>>

(* PromptCompiler.compile keeps the timers of a generation, never those of  *)
(* a preview, before it knows whether the prompt fits the model.            *)
SaveEffects ==
    /\ compiling = "place"
    /\ placing = {}
    /\ IF scan.keep
       THEN /\ effects' = [e \in Entry |-> IF e \in placed THEN Timed(e) ELSE effects[e]]
            /\ lastUsed' = [e \in Entry |-> IF e \in placed THEN scan.now ELSE lastUsed[e]]
       ELSE UNCHANGED <<effects, lastUsed>>
    /\ compiling' = "idle"
    /\ scan' = NoScan
    /\ placed' = {}
    /\ UNCHANGED <<lore, shelf, sequence, placing>>

WorldNext ==
    \/ \E keep, exact \in BOOLEAN, at \in Finds : BeginPrompt(keep, exact, at)
    \/ OtherMessage
    \/ \E e \in Entry : ScanEntry(e) \/ PlaceEntry(e)
    \/ NextStep
    \/ ChooseOfGroups
    \/ SaveEffects

WorldSpec == WorldInit /\ [][WorldNext]_worldVars
-----------------------------------------------------------------------------
(* With an exact count the entries of a book that obey its budget stay      *)
(* within it, whatever order they are taken in.                             *)
BudgetsHold ==
    \A b \in Book :
        scan.exact => MapThenSumSet(LAMBDA e : lore[e].cost,
                          {e \in placed : BookOf(e) = b /\ ~lore[e].free}) <= shelf[b].budget

(* A group gives one entry to a prompt.                                     *)
OneOfEachGroup ==
    \A e, o \in placed : lore[e].group = lore[o].group => e = o \/ lore[e].group = "none"

(* An entry that waits (delay), or rests and does not stick (cooldown), is  *)
(* not used again before its messages have passed.                          *)
TimersAreKept ==
    \A e \in placed : lastUsed[e] # NotUsed =>
        /\ scan.now - lastUsed[e] >= lore[e].delay
        /\ Sticks(e) \/ scan.now - lastUsed[e] >= lore[e].cooldown

(* The bounds of personality/worldbook.py, however the turns, previews and  *)
(* messages in between came (docs/contracts/personality-prompt.md:32-34).   *)
LoreIsBounded == compiling = "place" => BudgetsHold /\ OneOfEachGroup /\ TimersAreKept
=============================================================================
