----------------------------- MODULE FileFind ------------------------------
(* FileFindTool.execute (tools/files.py): a search of a tree that may run   *)
(* out of time or of permissions at any entry, exact matches before fuzzy   *)
(* ones, and the answer to whether the model may go on without asking.      *)
EXTENDS Integers, FiniteSets

CONSTANTS
    Query,      \* names that may be searched for
    Item,      \* entries of the type asked for; links are skipped by the code
    Folder,     \* directories below the root
    MaxFound    \* max_results

ASSUME FindAssumption == MaxFound \in Nat \ {0} /\ Query # {} /\ IsFiniteSet(Item)

VARIABLES
    tree,       \* where each entry is, how it resembles each query, and which folders may be read
    asked,      \* names, match_mode and expected_count
    walk,       \* folders still to visit
    current,    \* entries of the folder being visited that are still to be looked at
    matches,    \* <<entry, query, method>>
    errors,     \* a folder could not be read
    timedOut,
    result      \* metadata of the result, or NoAnswer

findVars == <<tree, asked, walk, current, matches, errors, timedOut, result>>
-----------------------------------------------------------------------------
NoAnswer == [paths |-> {}, needs |-> TRUE, partial |-> TRUE, given |-> FALSE]
Likeness == {"exact", "fuzzy", "none"}
Trees == [at : [Item -> Folder], like : [Item \X Query -> Likeness], readable : SUBSET Folder]
Questions == [names : SUBSET Query \ {{}}, mode : {"auto", "exact", "fuzzy"},
              count : 1..Cardinality(Item)]

FindTypeOK ==
    /\ tree \in Trees
    /\ asked \in Questions
    /\ walk \subseteq Folder
    /\ current \subseteq Item
    /\ matches \subseteq Item \X Query \X {"exact", "fuzzy"}
    /\ errors \in BOOLEAN
    /\ timedOut \in BOOLEAN
    /\ result \in [paths : SUBSET Item, needs : BOOLEAN, partial : BOOLEAN, given : BOOLEAN]

FindInit ==
    /\ tree \in Trees
    /\ asked \in Questions
    /\ walk = Folder
    /\ current = {}
    /\ matches = {}
    /\ errors = FALSE
    /\ timedOut = FALSE
    /\ result = NoAnswer
-----------------------------------------------------------------------------
Searching == ~timedOut /\ ~result.given

(* os.walk goes on to the next folder, or reports that it cannot read it.   *)
VisitFolder(d) ==
    /\ Searching
    /\ current = {}
    /\ d \in walk
    /\ walk' = walk \ {d}
    /\ IF d \in tree.readable
       THEN /\ current' = {e \in Item : tree.at[e] = d}
            /\ UNCHANGED errors
       ELSE /\ errors' = TRUE
            /\ UNCHANGED current
    /\ UNCHANGED <<tree, asked, matches, timedOut, result>>

(* How an entry matches: by its name, or by its likeness unless only exact  *)
(* matches are wanted.                                                      *)
Resembles(e, q) ==
    \/ tree.like[<<e, q>>] = "exact"
    \/ tree.like[<<e, q>>] = "fuzzy" /\ asked.mode # "exact"
MatchesWith(e) == {<<e, q, tree.like[<<e, q>>]>> : q \in {q \in asked.names : Resembles(e, q)}}

LookAt(e) ==
    /\ Searching
    /\ e \in current
    /\ current' = current \ {e}
    /\ matches' = matches \cup MatchesWith(e)
    /\ UNCHANGED <<tree, asked, walk, errors, timedOut, result>>

(* The deadline is read before a folder, before every 128th entry, and      *)
(* after a folder.                                                          *)
RunOutOfTime ==
    /\ Searching
    /\ timedOut' = TRUE
    /\ UNCHANGED <<tree, asked, walk, current, matches, errors, result>>
-----------------------------------------------------------------------------
(* Which matches of a query count: fuzzy ones only when no name matches     *)
(* exactly, unless fuzzy matching was asked for.                            *)
MatchesOf(q, ms) == {m \in ms : m[2] = q}
Counted(q, ms) ==
    LET exact == {m \in MatchesOf(q, ms) : m[3] = "exact"}
    IN  IF asked.mode = "exact" \/ (asked.mode = "auto" /\ exact # {})
        THEN exact
        ELSE MatchesOf(q, ms)
AllCounted(ms) == UNION {Counted(q, ms) : q \in asked.names}

(* Each path is listed once, for the query it matches best.                 *)
Best(e, ms) ==
    LET mine == {m \in AllCounted(ms) : m[1] = e}
    IN  {m \in mine : m[3] = "exact" \/ \A n \in mine : n[3] = "fuzzy"}

(* The ranking and the metadata at the end of execute; the order of equals  *)
(* is left open.                                                            *)
Conclude ==
    /\ ~result.given
    /\ timedOut \/ (walk = {} /\ current = {})
    /\ LET paths == {m[1] : m \in AllCounted(matches)}
       IN  \E credit \in [paths -> matches], kept \in SUBSET paths :
             /\ \A e \in paths : credit[e] \in Best(e, matches)
             /\ Cardinality(kept) = (IF Cardinality(paths) > MaxFound
                                     THEN MaxFound ELSE Cardinality(paths))
             /\ \A e \in kept, d \in paths \ kept :
                   credit[d][3] = "exact" => credit[e][3] = "exact"
             /\ LET partial == timedOut \/ errors \/ Cardinality(paths) > MaxFound
                    missed == {q \in asked.names : \A e \in kept : credit[e][2] # q}
                IN  result' = [paths |-> kept, partial |-> partial, given |-> TRUE,
                               needs |-> \/ Cardinality(kept) # asked.count
                                         \/ missed # {}
                                         \/ partial]
    /\ UNCHANGED <<tree, asked, walk, current, matches, errors, timedOut>>

FindNext ==
    \/ \E d \in Folder : VisitFolder(d)
    \/ \E e \in Item : LookAt(e)
    \/ RunOutOfTime
    \/ Conclude

FindSpec == FindInit /\ [][FindNext]_findVars
-----------------------------------------------------------------------------
(* A search the model may act on without asking the owner found everything: *)
(* each name has a match, and no entry anywhere in the tree that should     *)
(* have been among the results is missing (FileFindTool.description: a      *)
(* search that ran out of time or of permissions proves nothing).           *)
Wanted == UNION {MatchesWith(e) : e \in Item}
SilentMeansComplete ==
    result.given /\ ~result.needs =>
        /\ result.paths = {m[1] : m \in AllCounted(Wanted)}
        /\ \A q \in asked.names : Counted(q, Wanted) # {}
=============================================================================
