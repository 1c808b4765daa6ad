----------------------------- MODULE MemoryFacts -----------------------------
(* What the assistant remembers: facts with their conflicts and successors, *)
(* episodes, the cache of their embeddings, and the retrieval that runs in  *)
(* a thread beside the owner's edits (memory/store.py, memory/retrieval.py, *)
(* MemoryService).                                                          *)
EXTENDS Integers, Sequences, SequencesExt

CONSTANTS
    Scope,       \* a fact's character, owner namespace and key
    Value,       \* normalized values of a fact
    Content,     \* normalized contents of an episode
    Reader,      \* retrievals running at a time
    MaxFacts,    \* bound on the facts ever stored
    MaxEpisodes  \* bound on the episodes ever stored

ASSUME FactsAssumption == {MaxFacts, MaxEpisodes} \subseteq Nat

VARIABLES
    facts,      \* profile_facts, in the order they were stored
    episodes,   \* episodic_memories
    vectors,    \* memory_vectors: the contents with a cached embedding
    reader,     \* the retrievals
    withdrawn   \* facts and episodes the owner has taken back

factsVars == <<facts, episodes, vectors, reader, withdrawn>>
-----------------------------------------------------------------------------
FactStatus == {"active", "superseded", "deleted"}
Conflict == {"none", "conflicted", "resolved"}

Fact(k, v, conflict, edited) ==
    [scope |-> k, value |-> v, status |-> "active", conflict |-> conflict, edited |-> edited]

(* The ids of items, and the text an item is embedded and cached under. *)
FactId(i) == <<"fact", i>>
EpisodeId(j) == <<"episode", j>>
TextOfFact(i) == <<facts[i].scope, facts[i].value>>
Texts == (Scope \X Value) \cup Content
Ids == ({"fact"} \X (1..MaxFacts)) \cup ({"episode"} \X (1..MaxEpisodes))
TextOfId(id) == IF id[1] = "fact" THEN TextOfFact(id[2]) ELSE episodes[id[2]].content

NoReader == [at |-> "idle"]

FactsTypeOK ==
    /\ Len(facts) <= MaxFacts
    /\ \A i \in DOMAIN facts :
          facts[i] \in [scope : Scope, value : Value, status : FactStatus,
                        conflict : Conflict, edited : BOOLEAN]
    /\ Len(episodes) <= MaxEpisodes
    /\ \A j \in DOMAIN episodes : episodes[j] \in [content : Content, deleted : BOOLEAN]
    /\ vectors \subseteq Texts
    /\ \A r \in Reader :
          \/ reader[r] = NoReader
          \/ /\ reader[r].at \in {"facts", "episodes", "embedding", "answered"}
             /\ reader[r].docs \subseteq Ids
             /\ reader[r].missing \subseteq Texts
             /\ reader[r].hidden \subseteq Ids
    /\ withdrawn \subseteq Ids

FactsInit ==
    /\ facts = <<>>
    /\ episodes = <<>>
    /\ vectors = {}
    /\ reader = [r \in Reader |-> NoReader]
    /\ withdrawn = {}
-----------------------------------------------------------------------------
ActiveFacts(k) == {i \in DOMAIN facts : facts[i].scope = k /\ facts[i].status = "active"}

(* The owner takes items back, or one up again in their place: a retrieval  *)
(* that began before either may or may not show them.                       *)
Withdraw(ids) == withdrawn' = withdrawn \cup ids

Readmit(id, ids) ==
    /\ withdrawn' = (withdrawn \cup ids) \ {id}
    /\ reader' = [r \in Reader |->
                     IF reader[r] = NoReader THEN NoReader
                     ELSE [reader[r] EXCEPT !.hidden = @ \ {id}]]

Supersede(fs, losers) ==
    [i \in DOMAIN fs |->
        IF i \in losers THEN [fs[i] EXCEPT !.status = "superseded", !.conflict = "resolved"]
        ELSE fs[i]]

(* upsert_fact: nothing is known yet. *)
FirstFact(k, v) ==
    /\ Len(facts) < MaxFacts
    /\ ActiveFacts(k) = {}
    /\ facts' = Append(facts, Fact(k, v, "none", FALSE))
    /\ UNCHANGED <<episodes, vectors, reader, withdrawn>>

(* upsert_fact: a value told again settles the conflict. *)
ConfirmFact(k, v) ==
    \E winner \in ActiveFacts(k) :
        /\ facts[winner].value = v
        /\ LET losers == ActiveFacts(k) \ {winner} IN
             /\ facts' = [Supersede(facts, losers) EXCEPT ![winner].conflict = "none"]
             /\ Withdraw({FactId(i) : i \in losers})
        /\ UNCHANGED <<episodes, vectors, reader>>

(* upsert_fact: another value makes a conflict, marked on all sides. *)
ContradictFact(k, v) ==
    /\ Len(facts) < MaxFacts
    /\ ActiveFacts(k) # {}
    /\ \A i \in ActiveFacts(k) : facts[i].value # v
    /\ facts' = Append([i \in DOMAIN facts |->
                           IF i \in ActiveFacts(k) THEN [facts[i] EXCEPT !.conflict = "conflicted"]
                           ELSE facts[i]],
                       Fact(k, v, "conflicted", FALSE))
    /\ UNCHANGED <<episodes, vectors, reader, withdrawn>>

UpsertFact(k, v) == FirstFact(k, v) \/ ConfirmFact(k, v) \/ ContradictFact(k, v)

(* update_fact: a new fact takes the place of one not deleted. *)
UpdateFact(i, v) ==
    /\ Len(facts) < MaxFacts
    /\ facts[i].status # "deleted"
    /\ facts' = Append(Supersede(facts, {i}), Fact(facts[i].scope, v, "resolved", TRUE))
    /\ vectors' = vectors \ {TextOfFact(i)}
    /\ Withdraw({FactId(i)})
    /\ UNCHANGED <<episodes, reader>>

(* delete_fact *)
DeleteFact(i) ==
    /\ facts' = [facts EXCEPT ![i].status = "deleted", ![i].conflict = "resolved"]
    /\ vectors' = vectors \ {TextOfFact(i)}
    /\ Withdraw({FactId(i)})
    /\ UNCHANGED <<episodes, reader>>

(* resolve_fact_conflict with keep: the others of the scope fall. *)
KeepFact(i) ==
    /\ LET losers == ActiveFacts(facts[i].scope) \ {i} IN
         /\ facts' = [Supersede(facts, losers)
                         EXCEPT ![i].status = "active", ![i].conflict = "resolved"]
         /\ Readmit(FactId(i), {FactId(j) : j \in losers})
    /\ UNCHANGED <<episodes, vectors>>

(* resolve_fact_conflict without keep: the others stay as they are. *)
DiscardFact(i) ==
    /\ facts' = Supersede(facts, {i})
    /\ Withdraw({FactId(i)})
    /\ UNCHANGED <<episodes, vectors, reader>>
-----------------------------------------------------------------------------
LiveEpisodes == {j \in DOMAIN episodes : ~episodes[j].deleted}

(* add_episode, by hand. *)
AddEpisode(c) ==
    /\ Len(episodes) < MaxEpisodes
    /\ episodes' = Append(episodes, [content |-> c, deleted |-> FALSE])
    /\ UNCHANGED <<facts, vectors, reader, withdrawn>>

(* An extraction adds an episode only when no live one says the same. *)
ExtractEpisode(c) ==
    /\ \A j \in LiveEpisodes : episodes[j].content # c
    /\ AddEpisode(c)

(* Fault: the deleted episode is only dropped from the cache. *)
FaultDeleteEpisode(j) ==
    /\ vectors' = vectors \ {episodes[j].content}
    /\ Withdraw({EpisodeId(j)})
    /\ UNCHANGED <<facts, episodes, reader>>

(* delete_episode *)
DeleteEpisode(j) ==
    /\ episodes' = [episodes EXCEPT ![j].deleted = TRUE]
    /\ vectors' = vectors \ {episodes[j].content}
    /\ Withdraw({EpisodeId(j)})
    /\ UNCHANGED <<facts, reader>>
-----------------------------------------------------------------------------
(* retrieve: each step is a transaction of its own, in a thread. *)

(* The facts a retrieval may show: active and not in conflict. *)
ShownFacts == {i \in DOMAIN facts : facts[i].status = "active" /\ facts[i].conflict # "conflicted"}

ListFacts(r) ==
    /\ reader[r] = NoReader
    /\ reader' = [reader EXCEPT ![r] =
                     [at |-> "facts", docs |-> {FactId(i) : i \in ShownFacts},
                      missing |-> {}, hidden |-> withdrawn]]
    /\ UNCHANGED <<facts, episodes, vectors, withdrawn>>

ListEpisodes(r) ==
    /\ reader[r].at = "facts"
    /\ reader' = [reader EXCEPT ![r].at = "episodes",
                                ![r].docs = @ \cup {EpisodeId(j) : j \in LiveEpisodes}]
    /\ UNCHANGED <<facts, episodes, vectors, withdrawn>>

(* The cached vectors are read; the other texts go to the embedding model. *)
ReadCache(r) ==
    /\ reader[r].at = "episodes"
    /\ reader' = [reader EXCEPT ![r].at = "embedding",
                                ![r].missing = {TextOfId(id) : id \in reader[r].docs} \ vectors]
    /\ UNCHANGED <<facts, episodes, vectors, withdrawn>>

(* cache_vector, for one text after the other. *)
CacheVector(r) ==
    /\ reader[r].at = "embedding"
    /\ \E text \in reader[r].missing :
          /\ vectors' = vectors \cup {text}
          /\ reader' = [reader EXCEPT ![r].missing = @ \ {text}]
    /\ UNCHANGED <<facts, episodes, withdrawn>>

(* The best documents are the answer; without embeddings those that the     *)
(* words of the query find.                                                 *)
Answer(r) ==
    /\ \/ reader[r].at = "embedding" /\ reader[r].missing = {}
       \/ reader[r].at \in {"episodes", "embedding"}   \* the embedding model failed
    /\ \E hits \in SUBSET reader[r].docs :
          reader' = [reader EXCEPT ![r].at = "answered", ![r].docs = hits, ![r].missing = {}]
    /\ UNCHANGED <<facts, episodes, vectors, withdrawn>>

TakeAnswer(r) ==
    /\ reader[r].at = "answered"
    /\ reader' = [reader EXCEPT ![r] = NoReader]
    /\ UNCHANGED <<facts, episodes, vectors, withdrawn>>
-----------------------------------------------------------------------------
FactsNext ==
    \/ \E k \in Scope, v \in Value : UpsertFact(k, v)
    \/ \E i \in DOMAIN facts : \/ \E v \in Value : UpdateFact(i, v)
                               \/ DeleteFact(i) \/ KeepFact(i) \/ DiscardFact(i)
    \/ \E c \in Content : AddEpisode(c) \/ ExtractEpisode(c)
    \/ \E j \in DOMAIN episodes : DeleteEpisode(j)
    \/ \E r \in Reader : \/ ListFacts(r) \/ ListEpisodes(r) \/ ReadCache(r)
                         \/ CacheVector(r) \/ Answer(r) \/ TakeAnswer(r)

FactsSpec == FactsInit /\ [][FactsNext]_factsVars
-----------------------------------------------------------------------------
(* What the owner took back before a retrieval began (an edited, deleted or *)
(* discarded fact, the losers of a settled conflict, a deleted episode) is  *)
(* in no answer of it, whatever the cache still holds.                      *)
WithdrawnIsHidden ==
    \A r \in Reader : reader[r].at = "answered" => reader[r].docs \cap reader[r].hidden = {}

(* Two values of one fact that are both active are both marked, so that no  *)
(* retrieval shows either; only an edit, which asks no other fact, makes an *)
(* exception.                                                               *)
ConflictsAreMarked ==
    \A i, j \in DOMAIN facts :
        /\ {i, j} \subseteq ActiveFacts(facts[i].scope)
        /\ facts[i].value # facts[j].value
        /\ ~facts[i].edited /\ ~facts[j].edited
        => facts[i].conflict = "conflicted" /\ facts[j].conflict = "conflicted"
=============================================================================
