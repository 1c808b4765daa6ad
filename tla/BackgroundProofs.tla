-------------------------- MODULE BackgroundProofs --------------------------
(* Theorems about what goes on beside the chats, for any messages, clocks,  *)
(* configurations, events, sessions and batch sizes, any number of crashes: *)
(* first about OneBotQueue, then about Proactive with the sender, then      *)
(* about MemoryMaintenance, then about the three beside each other.         *)
EXTENDS MCBackground, TLAPS, FiniteSetTheorems, SequenceTheorems, WellFoundedInduction

-----------------------------------------------------------------------------
(* OneBotQueue.                                                             *)

WorkerType ==
    {NoWorker} \cup
    [pc : WorkerPc, batch : Seq(Arrival), previous : Arrival \cup {NoArrival}, next : Nat,
     request : BOOLEAN, waits : BOOLEAN]

Started(w) == worker[w] # NoWorker
Runs(w) == Started(w) /\ worker[w].pc # "done"
Accepted == 1..Len(accepted)

QueueTypes ==
    /\ seen \in SUBSET Event
    /\ forgotten \in [Event -> Nat]
    /\ accepted \in Seq(Event) /\ Len(accepted) <= MaxArrivals
    /\ worker \in [Arrival -> WorkerType]
    /\ {pending, current, lock} \subseteq Arrival \cup {NoArrival}
    /\ deciding \in SUBSET Arrival
    /\ handled \in Seq(Accepted)
    /\ session \in Nat
    /\ up \in BOOLEAN /\ forgets \in 0..MaxForgets
    /\ outages \in 0..MaxOutages

(* A batch is what arrived from its worker's own message on, in that order, *)
(* and before the next worker was started; none of it is an approval.       *)
BatchOf(w) ==
    /\ w \in Accepted
    /\ worker[w].next \in 1..(Len(worker[w].batch) + 1)
    /\ \A i \in DOMAIN worker[w].batch :
          /\ worker[w].batch[i] \in w..Len(accepted)
          /\ KindOf(worker[w].batch[i]) # "approval"
    /\ \A i, j \in DOMAIN worker[w].batch : i < j => worker[w].batch[i] < worker[w].batch[j]
    /\ \A v \in Arrival : Started(v) /\ w < v =>
          \A i \in DOMAIN worker[w].batch : worker[w].batch[i] < v

(* The workers form a chain: each waits for the one before it, nobody was   *)
(* started between the two, and who has begun has only ended ones before.   *)
ChainOf(w) ==
    /\ worker[w].previous = NoArrival => \A v \in Arrival : v < w => ~Runs(v)
    /\ worker[w].previous # NoArrival =>
          /\ worker[w].previous < w
          /\ \A v \in Arrival : Started(v) => v <= worker[w].previous \/ w <= v
    /\ worker[w].pc \in {"handling", "replying", "done"} => \A v \in Arrival : v < w => ~Runs(v)

(* The last of the chain, and the open batch, which is the last one's.      *)
EndOfChain ==
    /\ current = NoArrival => \A v \in Arrival : ~Runs(v)
    /\ current # NoArrival => Runs(current) /\ \A v \in Arrival : Started(v) => v <= current
    /\ pending # NoArrival => pending = current /\ worker[pending].pc = "window"

(* What has been handled arrived before what a worker still has to handle.  *)
HandledIsBefore(w) ==
    Runs(w) =>
        \A n \in DOMAIN handled, i \in DOMAIN worker[w].batch :
            handled[n] \in Waiting /\ worker[w].next <= i => handled[n] < worker[w].batch[i]

HandledDiffer == \A m, n \in DOMAIN handled : m # n => handled[m] # handled[n]

(* The deduplicator lets an event in once, and again for every time it has  *)
(* lost it.                                                                 *)
ArrivalsOf(e) == {a \in DOMAIN accepted : accepted[a] = e}
LetInOnce(e) ==
    Cardinality(ArrivalsOf(e)) <= forgotten[e] + (IF e \in seen THEN 1 ELSE 0)

QueueInv ==
    /\ QueueTypes
    /\ \A w \in Arrival : Started(w) => BatchOf(w) /\ ChainOf(w) /\ HandledIsBefore(w)
    /\ EndOfChain
    /\ HandledInOrder
    /\ HandledDiffer
    /\ \A e \in Event : LetInOnce(e)

WorkerRecord ==
    [pc : WorkerPc, batch : Seq(Arrival), previous : Arrival \cup {NoArrival}, next : Nat,
     request : BOOLEAN, waits : BOOLEAN]

LEMMA StartedIsRecord ==
    ASSUME QueueTypes, NEW w \in Arrival
    PROVE  /\ Started(w) => worker[w] \in WorkerRecord
           /\ worker[w].pc # "none" => Started(w)
           /\ ~Started(w) => worker[w].pc = "none"
BY DEF QueueTypes, Started, WorkerType, WorkerRecord, NoWorker

LEMMA NumbersAre ==
    ASSUME QueueTypes
    PROVE  /\ Len(accepted) \in Nat /\ DOMAIN accepted = Accepted /\ Accepted \subseteq Arrival
           /\ Accepted \subseteq Nat /\ Arrival \subseteq Nat
           /\ NoArrival \notin Arrival
           /\ \A n \in DOMAIN handled : handled[n] \in Accepted
           /\ \A w \in Arrival : Started(w) => \A i \in DOMAIN worker[w].batch : i \in Nat \ {0}
BY QueueAssumption, StartedIsRecord DEF QueueTypes, Accepted, Arrival, WorkerRecord

(* How far a worker is says nothing of its batch nor of its place.          *)
LEMMA WorkersMoveOn ==
    ASSUME QueueInv, UNCHANGED <<accepted, handled>>,
           \A v \in Arrival : worker[v] = NoWorker => worker'[v] = NoWorker,
           \A v \in Arrival : Started(v) =>
               /\ Started(v)'
               /\ worker'[v].batch = worker[v].batch
               /\ worker'[v].previous = worker[v].previous
               /\ worker'[v].next = worker[v].next
               /\ worker'[v].pc # "done" => worker[v].pc # "done"
               /\ worker'[v].pc \in {"handling", "replying", "done"} =>
                      \/ worker[v].pc \in {"handling", "replying", "done"}
                      \/ \A u \in Arrival : u < v => ~Runs(u)
    PROVE  \A w \in Arrival : Started(w)' => (BatchOf(w) /\ ChainOf(w) /\ HandledIsBefore(w))'
<1> SUFFICES ASSUME NEW w \in Arrival, Started(w)'
             PROVE  (BatchOf(w) /\ ChainOf(w) /\ HandledIsBefore(w))'
  OBVIOUS
<1>1. \A v \in Arrival : /\ Started(v)' <=> Started(v)
                         /\ Runs(v)' => Runs(v)
  BY DEF Started, Runs
<1>2. BatchOf(w) /\ ChainOf(w) /\ HandledIsBefore(w) /\ Started(w)
  BY <1>1 DEF QueueInv
<1>3. BatchOf(w)'
  BY <1>1, <1>2 DEF BatchOf, Accepted, KindOf
<1>4. ChainOf(w)'
  BY <1>1, <1>2 DEF ChainOf
<1>5. HandledIsBefore(w)'
  BY <1>1, <1>2 DEF HandledIsBefore, Waiting, KindOf
<1>6. QED
  BY <1>3, <1>4, <1>5

LEMMA HistoryStays ==
    ASSUME QueueInv, UNCHANGED <<seen, forgotten, accepted, handled>>
    PROVE  HandledInOrder' /\ HandledDiffer' /\ \A e \in Event : LetInOnce(e)'
BY DEF QueueInv, HandledInOrder, Waiting, KindOf, HandledDiffer, LetInOnce, ArrivalsOf

(* One worker's place changes, its batch does not.                          *)
LEMMA OneMovesOn ==
    ASSUME QueueInv, NEW w \in Arrival, NEW p \in WorkerPc, NEW x,
           Started(w), worker' = [worker EXCEPT ![w] = x],
           x \in WorkerRecord, x.pc = p, x.batch = worker[w].batch,
           x.previous = worker[w].previous, x.next = worker[w].next,
           worker[w].pc # "done",
           p \in {"handling", "replying", "done"} =>
               \/ worker[w].pc \in {"handling", "replying", "done"}
               \/ \A u \in Arrival : u < w => ~Runs(u),
           UNCHANGED <<dedupe, accepted, handled, session, deciding, up, forgets, outages>>,
           {pending, current, lock}' \subseteq Arrival \cup {NoArrival},
           EndOfChain'
    PROVE  QueueInv'
<1>1. worker \in [Arrival -> WorkerType] /\ x # NoWorker /\ x \in WorkerType
  BY DEF QueueInv, QueueTypes, WorkerType, WorkerRecord, NoWorker, WorkerPc
<1>2. QueueTypes'
  BY <1>1 DEF QueueInv, QueueTypes, dedupe, Accepted
<1>3. \A v \in Arrival : worker'[v] = IF v = w THEN x ELSE worker[v]
  BY <1>1
<1>4. \A v \in Arrival : worker[v] = NoWorker => worker'[v] = NoWorker
  BY <1>3 DEF Started
<1>5. \A v \in Arrival : Started(v) =>
               /\ Started(v)'
               /\ worker'[v].batch = worker[v].batch
               /\ worker'[v].previous = worker[v].previous
               /\ worker'[v].next = worker[v].next
               /\ worker'[v].pc # "done" => worker[v].pc # "done"
               /\ worker'[v].pc \in {"handling", "replying", "done"} =>
                      \/ worker[v].pc \in {"handling", "replying", "done"}
                      \/ \A u \in Arrival : u < v => ~Runs(u)
  BY <1>1, <1>3 DEF Started
<1>6. \A v \in Arrival : Started(v)' => (BatchOf(v) /\ ChainOf(v) /\ HandledIsBefore(v))'
  BY <1>4, <1>5, WorkersMoveOn
<1>7. HandledInOrder' /\ HandledDiffer' /\ \A e \in Event : LetInOnce(e)'
  BY HistoryStays DEF dedupe
<1>8. QED
  BY <1>2, <1>6, <1>7 DEF QueueInv

LEMMA WorkerFields ==
    ASSUME NEW x \in WorkerRecord, NEW p \in WorkerPc, NEW b \in BOOLEAN
    PROVE  /\ [x EXCEPT !.pc = p] \in WorkerRecord
           /\ [x EXCEPT !.pc = p].pc = p
           /\ [x EXCEPT !.pc = p].batch = x.batch
           /\ [x EXCEPT !.pc = p].previous = x.previous
           /\ [x EXCEPT !.pc = p].next = x.next
           /\ [x EXCEPT !.pc = p, !.waits = b] \in WorkerRecord
           /\ [x EXCEPT !.pc = p, !.waits = b].pc = p
           /\ [x EXCEPT !.pc = p, !.waits = b].batch = x.batch
           /\ [x EXCEPT !.pc = p, !.waits = b].previous = x.previous
           /\ [x EXCEPT !.pc = p, !.waits = b].next = x.next
BY DEF WorkerRecord

LEMMA NextFields ==
    ASSUME NEW x \in WorkerRecord, NEW k \in Nat, NEW r \in BOOLEAN
    PROVE  /\ [x EXCEPT !.next = k, !.request = r] \in WorkerRecord
           /\ [x EXCEPT !.next = k, !.request = r].pc = x.pc
           /\ [x EXCEPT !.next = k, !.request = r].batch = x.batch
           /\ [x EXCEPT !.next = k, !.request = r].previous = x.previous
           /\ [x EXCEPT !.next = k, !.request = r].next = k
BY DEF WorkerRecord

LEMMA AppendedIs ==
    ASSUME NEW S, NEW s \in Seq(S), NEW a \in S
    PROVE  /\ Append(s, a) \in Seq(S) /\ Len(s) \in Nat /\ DOMAIN s = 1..Len(s)
           /\ Len(Append(s, a)) = Len(s) + 1
           /\ DOMAIN Append(s, a) = 1..(Len(s) + 1)
           /\ \A k \in DOMAIN s : Append(s, a)[k] = s[k] /\ s[k] \in S
           /\ Append(s, a)[Len(s) + 1] = a
OBVIOUS

LEMMA WindowEndsStep ==
    ASSUME QueueInv, NEW w \in Arrival, WindowEnds(w)
    PROVE  QueueInv'
<1>1. /\ worker[w].pc = "window" /\ Started(w) /\ worker[w] \in WorkerRecord
      /\ worker' = [worker EXCEPT ![w] = [worker[w] EXCEPT !.pc = "chained"]]
      /\ pending' = IF pending = w THEN NoArrival ELSE pending
      /\ UNCHANGED <<current, lock, dedupe, accepted, handled, session, deciding, up, forgets,
                     outages>>
  BY StartedIsRecord DEF WindowEnds, QueueInv, Others, history
<1> DEFINE x == [worker[w] EXCEPT !.pc = "chained"]
<1>2. /\ x \in WorkerRecord /\ x.pc = "chained" /\ x.batch = worker[w].batch
      /\ x.previous = worker[w].previous /\ x.next = worker[w].next
  BY <1>1, WorkerFields DEF WorkerPc
<1>3. x # NoWorker /\ worker' = [worker EXCEPT ![w] = x]
  BY <1>1, <1>2 DEF NoWorker
<1> HIDE DEF x
<1>4. /\ \A v \in Arrival : Started(v)' <=> Started(v)
      /\ \A v \in Arrival : Runs(v)' <=> Runs(v)
      /\ \A v \in Arrival : v # w => worker'[v] = worker[v]
  BY <1>1, <1>2, <1>3 DEF QueueInv, QueueTypes, Started, Runs
<1>5. {pending, current, lock}' \subseteq Arrival \cup {NoArrival}
  BY <1>1 DEF QueueInv, QueueTypes
<1>6. EndOfChain'
  <2>1. /\ current' = NoArrival => \A v \in Arrival : ~Runs(v)'
        /\ current' # NoArrival => Runs(current)' /\ \A v \in Arrival : Started(v)' => v <= current'
    BY <1>1, <1>4 DEF QueueInv, EndOfChain, QueueTypes
  <2>2. pending' # NoArrival => pending' = current' /\ worker'[pending'].pc = "window"
    BY <1>1, <1>4 DEF QueueInv, EndOfChain, QueueTypes
  <2>3. QED
    BY <2>1, <2>2 DEF EndOfChain
<1>7. QED
  BY <1>1, <1>2, <1>3, <1>5, <1>6, OneMovesOn DEF WorkerPc

(* A worker that may take the lock has only ended ones before it.           *)
LEMMA FirstOfChain ==
    ASSUME QueueInv, NEW w \in Arrival, Started(w), PreviousIsDone(w)
    PROVE  \A u \in Arrival : u < w => ~Runs(u)
<1> DEFINE p == worker[w].previous
<1>1. ChainOf(w) /\ p \in Arrival \cup {NoArrival}
  BY StartedIsRecord DEF QueueInv, WorkerRecord
<1>2. CASE p = NoArrival
  BY <1>1, <1>2 DEF ChainOf
<1>3. CASE p # NoArrival
  <2>1. p \in Arrival /\ worker[p].pc = "done"
    BY <1>1, <1>3 DEF PreviousIsDone
  <2>2. Started(p) /\ ChainOf(p) /\ ~Runs(p)
    BY <2>1, StartedIsRecord DEF QueueInv, Runs
  <2>3. /\ \A u \in Arrival : u < p => ~Runs(u)
        /\ \A v \in Arrival : Started(v) => v <= p \/ w <= v
    BY <1>1, <1>3, <2>1, <2>2 DEF ChainOf
  <2>4. QED
    BY <2>1, <2>2, <2>3, NumbersAre DEF Runs, QueueInv
<1>4. QED
  BY <1>2, <1>3

LEMMA TakeLockStep ==
    ASSUME QueueInv, NEW w \in Arrival, TakeLock(w)
    PROVE  QueueInv'
<1>1. /\ worker[w].pc = "chained" /\ Started(w) /\ worker[w] \in WorkerRecord
      /\ worker' = [worker EXCEPT ![w] = [worker[w] EXCEPT !.pc = "handling"]]
      /\ lock' = w /\ PreviousIsDone(w)
      /\ UNCHANGED <<pending, current, dedupe, accepted, handled, session, deciding, up, forgets,
                     outages>>
  BY StartedIsRecord DEF TakeLock, QueueInv, Others, history
<1> DEFINE x == [worker[w] EXCEPT !.pc = "handling"]
<1>2. /\ x \in WorkerRecord /\ x.pc = "handling" /\ x.batch = worker[w].batch
      /\ x.previous = worker[w].previous /\ x.next = worker[w].next
  BY <1>1, WorkerFields DEF WorkerPc
<1>3. x # NoWorker /\ worker' = [worker EXCEPT ![w] = x]
  BY <1>1, <1>2 DEF NoWorker
<1> HIDE DEF x
<1>4. /\ \A v \in Arrival : Started(v)' <=> Started(v)
      /\ \A v \in Arrival : Runs(v)' <=> Runs(v)
      /\ \A v \in Arrival : v # w => worker'[v] = worker[v]
  BY <1>1, <1>2, <1>3 DEF QueueInv, QueueTypes, Started, Runs
<1>5. {pending, current, lock}' \subseteq Arrival \cup {NoArrival}
  BY <1>1 DEF QueueInv, QueueTypes
<1>6. EndOfChain'
  <2>1. /\ current' = NoArrival => \A v \in Arrival : ~Runs(v)'
        /\ current' # NoArrival => Runs(current)' /\ \A v \in Arrival : Started(v)' => v <= current'
    BY <1>1, <1>4 DEF QueueInv, EndOfChain, QueueTypes
  <2>2. pending' # NoArrival => pending' = current' /\ worker'[pending'].pc = "window"
    BY <1>1, <1>4 DEF QueueInv, EndOfChain, QueueTypes
  <2>3. QED
    BY <2>1, <2>2 DEF EndOfChain
<1>7. \A u \in Arrival : u < w => ~Runs(u)
  BY <1>1, FirstOfChain
<1>8. QED
  BY <1>1, <1>2, <1>3, <1>5, <1>6, <1>7, OneMovesOn DEF WorkerPc

LEMMA StartReplyStep ==
    ASSUME QueueInv, NEW w \in Arrival, StartReply(w)
    PROVE  QueueInv'
<1>1. PICK b \in BOOLEAN : worker' = [worker EXCEPT ![w].pc = "replying", ![w].waits = b]
  BY DEF StartReply
<1>2. /\ worker[w].pc = "handling" /\ Started(w) /\ worker[w] \in WorkerRecord
      /\ worker' = [worker EXCEPT ![w] = [worker[w] EXCEPT !.pc = "replying", !.waits = b]]
      /\ UNCHANGED <<pending, current, lock, dedupe, accepted, handled, session, deciding, up,
                     forgets, outages>>
  BY <1>1, StartedIsRecord DEF StartReply, QueueInv, QueueTypes, Others, history
<1> DEFINE x == [worker[w] EXCEPT !.pc = "replying", !.waits = b]
<1>3. /\ x \in WorkerRecord /\ x.pc = "replying" /\ x.batch = worker[w].batch
      /\ x.previous = worker[w].previous /\ x.next = worker[w].next
  BY <1>1, <1>2 DEF WorkerPc, WorkerRecord
<1>4. x # NoWorker /\ worker' = [worker EXCEPT ![w] = x]
  BY <1>2, <1>3 DEF NoWorker
<1> HIDE DEF x
<1>5. /\ \A v \in Arrival : Started(v)' <=> Started(v)
      /\ \A v \in Arrival : Runs(v)' <=> Runs(v)
      /\ \A v \in Arrival : v # w => worker'[v] = worker[v]
  BY <1>2, <1>3, <1>4 DEF QueueInv, QueueTypes, Started, Runs
<1>6. {pending, current, lock}' \subseteq Arrival \cup {NoArrival}
  BY <1>2 DEF QueueInv, QueueTypes
<1>7. EndOfChain'
  <2>1. /\ current' = NoArrival => \A v \in Arrival : ~Runs(v)'
        /\ current' # NoArrival => Runs(current)' /\ \A v \in Arrival : Started(v)' => v <= current'
    BY <1>2, <1>5 DEF QueueInv, EndOfChain, QueueTypes
  <2>2. pending' # NoArrival => pending' = current' /\ worker'[pending'].pc = "window"
    BY <1>2, <1>5 DEF QueueInv, EndOfChain, QueueTypes
  <2>3. QED
    BY <2>1, <2>2 DEF EndOfChain
<1>8. QED
  BY <1>2, <1>3, <1>4, <1>6, <1>7, OneMovesOn DEF WorkerPc

(* The worker that ends is the first that still runs.                       *)
LEMMA FinishStep ==
    ASSUME QueueInv, NEW w \in Arrival, worker[w].pc \in {"handling", "replying"}, Finish(w)
    PROVE  QueueInv'
<1>1. /\ Started(w) /\ worker[w] \in WorkerRecord
      /\ worker' = [worker EXCEPT ![w] = [worker[w] EXCEPT !.pc = "done", !.waits = FALSE]]
      /\ lock' = NoArrival
      /\ pending' = IF pending = w THEN NoArrival ELSE pending
      /\ current' = IF current = w THEN NoArrival ELSE current
      /\ UNCHANGED <<dedupe, accepted, handled, session, deciding, up, forgets, outages>>
  BY StartedIsRecord DEF Finish, QueueInv, QueueTypes, Others, history
<1> DEFINE x == [worker[w] EXCEPT !.pc = "done", !.waits = FALSE]
<1>2. /\ x \in WorkerRecord /\ x.pc = "done" /\ x.batch = worker[w].batch
      /\ x.previous = worker[w].previous /\ x.next = worker[w].next
  BY <1>1, WorkerFields DEF WorkerPc
<1>3. x # NoWorker /\ worker' = [worker EXCEPT ![w] = x]
  BY <1>1, <1>2 DEF NoWorker
<1> HIDE DEF x
<1>4. /\ \A v \in Arrival : Started(v)' <=> Started(v)
      /\ \A v \in Arrival : Runs(v)' <=> Runs(v) /\ v # w
      /\ \A v \in Arrival : v # w => worker'[v] = worker[v]
  BY <1>1, <1>2, <1>3 DEF QueueInv, QueueTypes, Started, Runs
<1>5. {pending, current, lock}' \subseteq Arrival \cup {NoArrival}
  BY <1>1 DEF QueueInv, QueueTypes
<1>6. Runs(w) /\ \A v \in Arrival : v < w => ~Runs(v)
  BY <1>1 DEF QueueInv, ChainOf, Runs
<1>7. /\ current # NoArrival /\ current \in Arrival /\ Runs(current)
      /\ \A v \in Arrival : Started(v) => v <= current
      /\ pending # NoArrival => pending = current /\ worker[pending].pc = "window"
  BY <1>6 DEF QueueInv, EndOfChain, QueueTypes
<1>8. EndOfChain'
  <2>1. CASE current = w
    <3>1. current' = NoArrival /\ pending' = NoArrival
      BY <1>1, <1>7, <2>1
    <3>2. \A v \in Arrival : ~Runs(v)'
      BY <1>4, <1>6, <1>7, <2>1, NumbersAre DEF Runs, QueueInv
    <3>3. QED
      BY <3>1, <3>2 DEF EndOfChain
  <2>2. CASE current # w
    <3>1. /\ current' = current /\ Runs(current)'
          /\ \A v \in Arrival : Started(v)' => v <= current
      BY <1>1, <1>4, <1>7, <2>2
    <3>2. pending' # NoArrival => pending' = current /\ worker'[pending'].pc = "window"
      BY <1>1, <1>4, <1>7, <2>2
    <3>3. QED
      BY <1>7, <3>1, <3>2 DEF EndOfChain
  <2>3. QED
    BY <2>1, <2>2
<1>9. QED
  BY <1>1, <1>2, <1>3, <1>5, <1>6, <1>8, OneMovesOn DEF WorkerPc, Runs

LEMMA DecidedStep ==
    ASSUME QueueInv, NEW a \in Arrival, Decided(a)
    PROVE  QueueInv'
<1> DEFINE x(v) == IF worker[v].pc = "replying" THEN [worker[v] EXCEPT !.waits = FALSE]
                   ELSE worker[v]
<1>1. /\ worker' = [v \in Arrival |-> x(v)] /\ deciding' = deciding \ {a}
      /\ UNCHANGED <<pending, current, lock, dedupe, accepted, handled, session, up, forgets,
                     outages>>
  BY DEF Decided, Others, history
<1>2. \A v \in Arrival :
          /\ x(v) \in WorkerType /\ (worker[v] = NoWorker => x(v) = NoWorker)
          /\ x(v).pc = worker[v].pc
          /\ Started(v) => /\ x(v) # NoWorker /\ x(v).batch = worker[v].batch
                           /\ x(v).previous = worker[v].previous /\ x(v).next = worker[v].next
  <2> TAKE v \in Arrival
  <2>1. CASE Started(v)
    <3>1. worker[v] \in WorkerRecord
      BY <2>1, StartedIsRecord DEF QueueInv
    <3>2. /\ x(v) \in WorkerRecord /\ x(v).pc = worker[v].pc /\ x(v).batch = worker[v].batch
          /\ x(v).previous = worker[v].previous /\ x(v).next = worker[v].next
      BY <3>1 DEF WorkerRecord
    <3>3. QED
      BY <2>1, <3>2 DEF WorkerRecord, WorkerType, NoWorker, Started, WorkerPc
  <2>2. CASE ~Started(v)
    BY <2>2 DEF Started, NoWorker, WorkerType
  <2>3. QED
    BY <2>1, <2>2
<1>3. \A v \in Arrival : worker'[v] = x(v)
  BY <1>1
<1> HIDE DEF x
<1>4. worker' \in [Arrival -> WorkerType]
  BY <1>1, <1>2
<1>5. QueueTypes'
  BY <1>1, <1>4 DEF QueueInv, QueueTypes, dedupe, Accepted
<1>6. /\ \A v \in Arrival : Started(v)' <=> Started(v)
      /\ \A v \in Arrival : Runs(v)' <=> Runs(v)
  BY <1>2, <1>3 DEF Started, Runs
<1>7. \A v \in Arrival : Started(v)' => (BatchOf(v) /\ ChainOf(v) /\ HandledIsBefore(v))'
  BY <1>1, <1>2, <1>3, <1>6, WorkersMoveOn DEF Started
<1>8. EndOfChain'
  <2>1. /\ current' = NoArrival => \A v \in Arrival : ~Runs(v)'
        /\ current' # NoArrival => Runs(current)' /\ \A v \in Arrival : Started(v)' => v <= current'
    BY <1>1, <1>6 DEF QueueInv, EndOfChain, QueueTypes
  <2>2. pending' # NoArrival => pending' = current' /\ worker'[pending'].pc = "window"
    BY <1>1, <1>2, <1>3 DEF QueueInv, EndOfChain, QueueTypes
  <2>3. QED
    BY <2>1, <2>2 DEF EndOfChain
<1>9. HandledInOrder' /\ HandledDiffer' /\ \A e \in Event : LetInOnce(e)'
  BY <1>1, HistoryStays DEF dedupe
<1>10. QED
  BY <1>5, <1>7, <1>8, <1>9 DEF QueueInv

(* A message is handed on: everything handled so far arrived before it, and *)
(* whatever a later worker has to handle arrived after it.                  *)
LEMMA HandleNextStep ==
    ASSUME QueueInv, NEW w \in Arrival, HandleNext(w)
    PROVE  QueueInv'
<1> DEFINE n == worker[w].next
           a == worker[w].batch[n]
<1>1. PICK asks \in BOOLEAN, resets \in BOOLEAN :
          /\ Handle(a, resets)
          /\ worker' = [worker EXCEPT ![w].next = @ + 1, ![w].request = @ \/ asks]
  BY DEF HandleNext
<1>2. /\ worker[w].pc = "handling" /\ Started(w) /\ worker[w] \in WorkerRecord
      /\ n <= Len(worker[w].batch)
      /\ UNCHANGED <<pending, current, lock, dedupe, accepted, deciding, up, forgets, outages>>
  BY StartedIsRecord DEF HandleNext, QueueInv, Others
<1>3. /\ BatchOf(w) /\ ChainOf(w) /\ HandledIsBefore(w) /\ Runs(w)
  BY <1>2 DEF QueueInv, Runs
<1>4. /\ n \in DOMAIN worker[w].batch /\ n \in Nat /\ a \in Accepted /\ a \in Waiting
      /\ a \in Arrival /\ n + 1 \in 1..(Len(worker[w].batch) + 1)
  <2>1. /\ worker[w].batch \in Seq(Arrival) /\ Len(worker[w].batch) \in Nat
        /\ DOMAIN worker[w].batch = 1..Len(worker[w].batch)
    BY <1>2 DEF WorkerRecord
  <2>2. n \in 1..(Len(worker[w].batch) + 1) /\ w \in Accepted
    BY <1>3 DEF BatchOf
  <2>3. n \in DOMAIN worker[w].batch /\ n \in Nat /\ n + 1 \in 1..(Len(worker[w].batch) + 1)
    BY <1>2, <2>1, <2>2
  <2>4. a \in w..Len(accepted) /\ KindOf(a) # "approval"
    BY <1>3, <2>3 DEF BatchOf
  <2>5. QED
    BY <2>2, <2>3, <2>4, NumbersAre DEF Accepted, Waiting, QueueInv
<1> DEFINE r == worker[w].request \/ asks
           x == [worker[w] EXCEPT !.next = n + 1, !.request = r]
<1>5. worker' = [worker EXCEPT ![w] = x]
  BY <1>1, <1>2 DEF QueueInv, QueueTypes
<1>6. /\ x \in WorkerRecord /\ x.pc = "handling" /\ x.batch = worker[w].batch
      /\ x.previous = worker[w].previous /\ x.next = n + 1
  <2>1. r \in BOOLEAN
    OBVIOUS
  <2> HIDE DEF r
  <2>2. n + 1 \in Nat
    BY <1>4
  <2> DEFINE k == n + 1
  <2> HIDE DEF k, n
  <2>3. k \in Nat
    BY <2>2 DEF k
  <2> DEFINE y == [worker[w] EXCEPT !.next = k, !.request = r]
  <2>4. /\ y \in WorkerRecord /\ y.pc = worker[w].pc /\ y.batch = worker[w].batch
        /\ y.previous = worker[w].previous /\ y.next = k
    <3>1. worker[w] \in WorkerRecord
      BY <1>2
    <3> DEFINE z == worker[w]
    <3> HIDE DEF z
    <3>2. z \in WorkerRecord
      BY <3>1 DEF z
    <3>3. /\ [z EXCEPT !.next = k, !.request = r] \in WorkerRecord
          /\ [z EXCEPT !.next = k, !.request = r].pc = z.pc
          /\ [z EXCEPT !.next = k, !.request = r].batch = z.batch
          /\ [z EXCEPT !.next = k, !.request = r].previous = z.previous
          /\ [z EXCEPT !.next = k, !.request = r].next = k
      BY <2>1, <2>3, <3>2 DEF WorkerRecord
    <3>4. QED
      BY <3>3 DEF z
  <2>5. x = y /\ k = n + 1
    BY DEF k
  <2> HIDE DEF x, y
  <2>6. QED
    BY <1>2, <2>4, <2>5
<1> HIDE DEF x
<1>7. x # NoWorker /\ x \in WorkerType /\ worker \in [Arrival -> WorkerType]
  BY <1>6 DEF NoWorker, WorkerType, WorkerRecord, QueueInv, QueueTypes
<1>8. \A v \in Arrival : worker'[v] = IF v = w THEN x ELSE worker[v]
  BY <1>5, <1>7
<1>9. /\ \A v \in Arrival : Started(v)' <=> Started(v)
      /\ \A v \in Arrival : Runs(v)' <=> Runs(v)
  BY <1>2, <1>6, <1>7, <1>8 DEF Started, Runs
<1>10. /\ handled \in Seq(Accepted) /\ handled' = Append(handled, a)
       /\ Len(handled) \in Nat /\ DOMAIN handled = 1..Len(handled)
       /\ DOMAIN handled' = 1..(Len(handled) + 1)
       /\ \A k \in DOMAIN handled : handled'[k] = handled[k]
       /\ handled'[Len(handled) + 1] = a
       /\ handled' \in Seq(Accepted)
       /\ \A k \in DOMAIN handled : handled[k] \in Accepted /\ handled[k] \in Nat
  <2>1. handled \in Seq(Accepted) /\ handled' = Append(handled, a) /\ Accepted \subseteq Nat
    BY <1>1, NumbersAre DEF Handle, QueueInv, QueueTypes
  <2> HIDE DEF a
  <2>2. a \in Accepted
    BY <1>4
  <2>3. /\ Append(handled, a) \in Seq(Accepted) /\ Len(handled) \in Nat
        /\ DOMAIN handled = 1..Len(handled)
        /\ DOMAIN Append(handled, a) = 1..(Len(handled) + 1)
        /\ \A k \in DOMAIN handled : Append(handled, a)[k] = handled[k] /\ handled[k] \in Accepted
        /\ Append(handled, a)[Len(handled) + 1] = a
    BY <2>1, <2>2, AppendedIs
  <2>4. QED
    BY <2>1, <2>3
<1>11. QueueTypes'
  <2>1. worker' \in [Arrival -> WorkerType]
    BY <1>5, <1>7
  <2>2. session' \in Nat
    BY <1>1 DEF Handle, Mapped, QueueInv, QueueTypes
  <2>3. QED
    BY <1>2, <1>10, <2>1, <2>2 DEF QueueInv, QueueTypes, dedupe, Accepted
<1>12. \A k \in DOMAIN handled : handled[k] \in Waiting => handled[k] < a
  BY <1>2, <1>3, <1>4 DEF HandledIsBefore
<1>13. ASSUME NEW v \in Arrival, Started(v)'
       PROVE  (BatchOf(v) /\ ChainOf(v) /\ HandledIsBefore(v))'
  <2>1. Started(v) /\ BatchOf(v) /\ ChainOf(v) /\ HandledIsBefore(v)
    BY <1>9, <1>13 DEF QueueInv
  <2>2. /\ worker'[v].pc = worker[v].pc /\ worker'[v].batch = worker[v].batch
        /\ worker'[v].previous = worker[v].previous
        /\ worker'[v].next = IF v = w THEN n + 1 ELSE worker[v].next
    BY <1>2, <1>6, <1>8
  <2>3. BatchOf(v)'
    BY <1>2, <1>4, <1>9, <2>1, <2>2 DEF BatchOf, Accepted, KindOf
  <2>4. ChainOf(v)'
    BY <1>9, <2>1, <2>2 DEF ChainOf
  <2>5. ASSUME Runs(v), NEW i \in DOMAIN worker[v].batch, worker'[v].next <= i,
               NEW k \in DOMAIN handled', handled'[k] \in Waiting
        PROVE  handled'[k] < worker[v].batch[i]
    <3>1. /\ i \in Nat /\ worker[v].next \in Nat /\ worker[v].batch[i] \in Nat
      BY <2>1, NumbersAre, StartedIsRecord DEF WorkerRecord, QueueInv
    <3>2. CASE k \in DOMAIN handled
      BY <1>4, <1>10, <2>1, <2>2, <2>5, <3>1, <3>2 DEF HandledIsBefore
    <3>3. CASE k = Len(handled) + 1 /\ v = w
      BY <1>3, <1>4, <1>10, <2>2, <2>5, <3>1, <3>3 DEF BatchOf
    <3>4. CASE k = Len(handled) + 1 /\ v # w
      <4>1. v \in Nat /\ w \in Nat /\ ~(v < w)
        BY <1>2, <1>3, <2>5, NumbersAre DEF ChainOf, QueueInv
      <4>2. w < v /\ a < v
        BY <1>3, <1>4, <2>1, <3>4, <4>1 DEF BatchOf
      <4>3. worker[v].batch[i] \in v..Len(accepted) /\ Len(accepted) \in Nat
        BY <2>1, NumbersAre DEF BatchOf, QueueInv
      <4>4. QED
        BY <1>4, <1>10, <3>4, <4>1, <4>2, <4>3, NumbersAre DEF QueueInv
    <3>5. QED
      BY <1>10, <2>5, <3>2, <3>3, <3>4
  <2>6. HandledIsBefore(v)'
    BY <1>2, <1>9, <2>2, <2>5 DEF HandledIsBefore, Waiting, KindOf
  <2>7. QED
    BY <2>3, <2>4, <2>6
<1>14. EndOfChain'
  <2>1. \A v \in Arrival : worker'[v].pc = worker[v].pc
    BY <1>2, <1>6, <1>8
  <2>2. /\ current' = NoArrival => \A v \in Arrival : ~Runs(v)'
        /\ current' # NoArrival => Runs(current)' /\ \A v \in Arrival : Started(v)' => v <= current'
    BY <1>2, <1>9 DEF QueueInv, EndOfChain, QueueTypes
  <2>3. pending' # NoArrival => pending' = current' /\ worker'[pending'].pc = "window"
    BY <1>2, <2>1 DEF QueueInv, EndOfChain, QueueTypes
  <2>4. QED
    BY <2>2, <2>3 DEF EndOfChain
<1>15. HandledInOrder' /\ HandledDiffer'
  <2>1. Waiting' = Waiting
    BY <1>2 DEF Waiting, KindOf
  <2>2. \A i, k \in DOMAIN handled' :
            i < k /\ {handled'[i], handled'[k]} \subseteq Waiting => handled'[i] < handled'[k]
    BY <1>4, <1>10, <1>12 DEF QueueInv, HandledInOrder
  <2>3. \A k \in DOMAIN handled : handled[k] # a
    BY <1>4, <1>10, <1>12
  <2>4. HandledDiffer'
    BY <1>10, <2>3 DEF QueueInv, HandledDiffer
  <2>5. QED
    BY <2>1, <2>2, <2>4 DEF HandledInOrder
<1>16. \A e \in Event : LetInOnce(e)'
  BY <1>2 DEF QueueInv, LetInOnce, ArrivalsOf, dedupe
<1>17. QED
  BY <1>11, <1>13, <1>14, <1>15, <1>16 DEF QueueInv

(* An event that is accepted becomes the latest arrival, and nothing that   *)
(* is known of the arrivals before it changes.                              *)
LEMMA AcceptIs ==
    ASSUME QueueInv, NEW e \in Event, Accept(e)
    PROVE  /\ This \in Arrival /\ This \in Nat /\ This = Len(accepted) + 1
           /\ accepted' \in Seq(Event) /\ Len(accepted') = This /\ Len(accepted') <= MaxArrivals
           /\ Accepted' = 1..This /\ Accepted \subseteq 1..This /\ This \notin Accepted
           /\ \A a \in Accepted : KindOf(a)' = KindOf(a) /\ (a \in Waiting' <=> a \in Waiting)
           /\ Kind[accepted'[This]] = Kind[e] /\ (This \in Waiting' <=> Kind[e] # "approval")
           /\ worker[This] = NoWorker /\ ~Started(This)
           /\ \A v \in Arrival : Started(v) => v < This
           /\ seen' \in SUBSET Event
<1> DEFINE m == This
<1>1. /\ accepted \in Seq(Event) /\ Len(accepted) < MaxArrivals /\ accepted' = Append(accepted, e)
      /\ Len(accepted) \in Nat /\ m = Len(accepted) + 1 /\ MaxArrivals \in Nat
      /\ seen' \in SUBSET Event
  BY QueueAssumption DEF QueueInv, QueueTypes, Accept, This
<1> HIDE DEF m
<1>2. /\ m \in Arrival /\ m \in Nat /\ accepted' \in Seq(Event) /\ Len(accepted') = m
      /\ Len(accepted') <= MaxArrivals /\ Accepted' = 1..m /\ Accepted \subseteq 1..m
      /\ m \notin Accepted
  BY <1>1 DEF Arrival, Accepted
<1>3. /\ DOMAIN accepted = Accepted /\ DOMAIN accepted' = 1..m /\ accepted'[m] = e
      /\ \A a \in Accepted : accepted'[a] = accepted[a]
  BY <1>1, <1>2 DEF Accepted
<1>4. /\ \A a \in Accepted : KindOf(a)' = KindOf(a) /\ (a \in Waiting' <=> a \in Waiting)
      /\ Kind[accepted'[m]] = Kind[e] /\ (m \in Waiting' <=> Kind[e] # "approval")
  <2>1. \A a \in Accepted : KindOf(a)' = KindOf(a)
    BY <1>3 DEF KindOf
  <2>2. Waiting' = {a \in 1..m : Kind[accepted'[a]] # "approval"}
    BY <1>3 DEF KindOf, Waiting
  <2>3. Waiting = {a \in Accepted : Kind[accepted[a]] # "approval"}
    BY <1>3 DEF KindOf, Waiting
  <2>4. m \in 1..m
    BY <1>2 DEF Arrival
  <2>5. QED
    BY <1>2, <1>3, <2>1, <2>2, <2>3, <2>4
<1>5. \A v \in Arrival : Started(v) => v < m
  BY <1>1 DEF QueueInv, BatchOf, Accepted
<1>6. worker[m] = NoWorker /\ ~Started(m)
  BY <1>2, <1>5 DEF Started
<1>7. QED
  BY <1>1, <1>2, <1>4, <1>5, <1>6 DEF m

LEMMA AcceptLetsInOnce ==
    ASSUME QueueInv, NEW e \in Event, Accept(e)
    PROVE  \A f \in Event : LetInOnce(f)'
<1> SUFFICES ASSUME NEW f \in Event PROVE LetInOnce(f)'
  OBVIOUS
<1> DEFINE m == Len(accepted) + 1
<1>1. /\ accepted \in Seq(Event) /\ accepted' = Append(accepted, e) /\ Len(accepted) \in Nat
      /\ e \notin seen /\ seen' = seen \cup {e} /\ forgotten' = forgotten
      /\ forgotten[f] \in Nat
  BY DEF QueueInv, QueueTypes, Accept
<1>2. /\ DOMAIN accepted = 1..Len(accepted) /\ DOMAIN accepted' = 1..m /\ accepted'[m] = e
      /\ \A a \in DOMAIN accepted : accepted'[a] = accepted[a]
  BY <1>1
<1>3. ArrivalsOf(f)' = IF f = e THEN ArrivalsOf(f) \cup {m} ELSE ArrivalsOf(f)
  BY <1>1, <1>2 DEF ArrivalsOf
<1>4. m \notin ArrivalsOf(f)
  BY <1>1, <1>2 DEF ArrivalsOf
<1>5. IsFiniteSet(ArrivalsOf(f)) /\ Cardinality(ArrivalsOf(f)) \in Nat
  <2>1. IsFiniteSet(1..Len(accepted))
    BY <1>1, FS_Interval
  <2>2. ArrivalsOf(f) \subseteq 1..Len(accepted)
    BY <1>2 DEF ArrivalsOf
  <2>3. QED
    BY <2>1, <2>2, FS_Subset, FS_CardinalityType
<1>6. LetInOnce(f)
  BY DEF QueueInv
<1>7. CASE f = e
  <2>1. Cardinality(ArrivalsOf(f) \cup {m}) = Cardinality(ArrivalsOf(f)) + 1
    BY <1>4, <1>5, FS_AddElement
  <2>2. Cardinality(ArrivalsOf(f)) <= forgotten[f]
    BY <1>1, <1>5, <1>6, <1>7 DEF LetInOnce
  <2>3. QED
    BY <1>1, <1>3, <1>5, <1>7, <2>1, <2>2 DEF LetInOnce
<1>8. CASE f # e
  BY <1>1, <1>3, <1>6, <1>8 DEF LetInOnce
<1>9. QED
  BY <1>7, <1>8

(* A worker whose batch is not touched: only a later one may be new, and    *)
(* only an approval is handled meanwhile.                                   *)
LEMMA OldWorkerStays ==
    ASSUME QueueInv, NEW e \in Event, Accept(e), NEW v \in Arrival, Started(v),
           worker'[v] = worker[v],
           \A u \in Arrival : /\ Started(u)' => Started(u) \/ u = This
                              /\ Runs(u)' /\ u # This => Runs(u),
           \/ handled' = handled
           \/ Kind[e] = "approval" /\ handled' = Append(handled, This)
    PROVE  BatchOf(v)' /\ ChainOf(v)' /\ HandledIsBefore(v)'
<1> DEFINE m == This
<1>1. BatchOf(v) /\ ChainOf(v) /\ HandledIsBefore(v)
  BY DEF QueueInv
<1>2. /\ m \in Arrival /\ m \in Nat /\ m = Len(accepted) + 1 /\ Len(accepted') = m
      /\ Accepted' = 1..m /\ Accepted \subseteq 1..m /\ m \notin Accepted
      /\ \A a \in Accepted : KindOf(a)' = KindOf(a) /\ (a \in Waiting' <=> a \in Waiting)
      /\ (m \in Waiting' <=> Kind[e] # "approval")
      /\ v < m
  BY AcceptIs
<1>3. /\ \A u \in Arrival : /\ Started(u)' => Started(u) \/ u = m
                            /\ Runs(u)' /\ u # m => Runs(u)
      /\ \/ handled' = handled
         \/ Kind[e] = "approval" /\ handled' = Append(handled, m)
  OBVIOUS
<1>4. /\ Len(accepted) \in Nat /\ Accepted \subseteq Nat /\ Arrival \subseteq Nat
      /\ \A i \in DOMAIN worker[v].batch : i \in Nat \ {0}
      /\ \A n \in DOMAIN handled : handled[n] \in Accepted
      /\ handled \in Seq(Accepted)
  BY NumbersAre DEF QueueInv, QueueTypes
<1> HIDE DEF m
<1>5. \A i \in DOMAIN worker[v].batch : worker[v].batch[i] \in Accepted
  BY <1>1, <1>4 DEF BatchOf, Accepted
<1>6. BatchOf(v)'
  <2>1. v \in Accepted' /\ worker'[v].next \in 1..(Len(worker'[v].batch) + 1)
    BY <1>1, <1>2 DEF BatchOf
  <2>2. \A i \in DOMAIN worker'[v].batch :
          /\ worker'[v].batch[i] \in v..Len(accepted')
          /\ KindOf(worker[v].batch[i])' # "approval"
    BY <1>1, <1>2, <1>4, <1>5 DEF BatchOf
  <2>3. \A i, j \in DOMAIN worker'[v].batch : i < j => worker'[v].batch[i] < worker'[v].batch[j]
    BY <1>1 DEF BatchOf
  <2>4. \A u \in Arrival : Started(u)' /\ v < u =>
          \A i \in DOMAIN worker'[v].batch : worker'[v].batch[i] < u
    BY <1>1, <1>2, <1>3, <1>4, <1>5 DEF BatchOf, Accepted
  <2>5. QED
    BY <2>1, <2>2, <2>3, <2>4 DEF BatchOf, KindOf
<1>7. ChainOf(v)'
  BY <1>1, <1>2, <1>3, <1>4 DEF ChainOf
<1>8. HandledIsBefore(v)'
  <2> SUFFICES ASSUME Runs(v)', NEW n \in DOMAIN handled', NEW i \in DOMAIN worker[v].batch,
                      handled'[n] \in Waiting', worker[v].next <= i
               PROVE  handled'[n] < worker[v].batch[i]
    BY DEF HandledIsBefore
  <2>1. Runs(v)
    BY <1>2, <1>3, <1>4
  <2>2. CASE n \in DOMAIN handled /\ handled'[n] = handled[n]
    BY <1>1, <1>2, <1>4, <2>1, <2>2 DEF HandledIsBefore
  <2>3. CASE Kind[e] = "approval" /\ handled' = Append(handled, m)
    BY <1>2, <1>4, <2>2, <2>3
  <2>4. QED
    BY <1>3, <2>2, <2>3
<1>9. QED
  BY <1>6, <1>7, <1>8

LEMMA AcceptApprovalStep ==
    ASSUME QueueInv, NEW e \in Event, AcceptApproval(e)
    PROVE  QueueInv'
<1> DEFINE m == This
<1>1. /\ Accept(e) /\ Kind[e] = "approval" /\ deciding' = deciding \cup {m}
      /\ handled' = Append(handled, m) /\ session' = Mapped
      /\ UNCHANGED <<worker, pending, current, lock, forgotten, up, outages, forgets>>
  BY DEF AcceptApproval, Accept, Handle, queue
<1>2. /\ m \in Arrival /\ m \in Nat /\ accepted' \in Seq(Event) /\ Len(accepted') <= MaxArrivals
      /\ Accepted' = 1..m /\ Accepted \subseteq 1..m /\ m \notin Accepted
      /\ \A a \in Accepted : a \in Waiting' <=> a \in Waiting
      /\ m \notin Waiting' /\ seen' \in SUBSET Event
  BY <1>1, AcceptIs
<1>3. /\ handled \in Seq(Accepted) /\ handled \in Seq(1..m)
  BY <1>2, SeqMonotonic DEF QueueInv, QueueTypes
<1>4. ASSUME NEW v \in Arrival, Started(v)'
      PROVE  BatchOf(v)' /\ ChainOf(v)' /\ HandledIsBefore(v)'
  BY <1>1, <1>4, OldWorkerStays DEF Started, Runs
<1> HIDE DEF m
<1>5. /\ handled' \in Seq(1..m) /\ Len(handled) \in Nat /\ DOMAIN handled = 1..Len(handled)
      /\ DOMAIN handled' = 1..(Len(handled) + 1)
      /\ \A k \in DOMAIN handled : handled'[k] = handled[k] /\ handled[k] \in Accepted
      /\ handled'[Len(handled) + 1] = m
  <2>1. m \in 1..m
    BY <1>2 DEF Arrival
  <2>2. handled' = Append(handled, m)
    BY <1>1
  <2>3. /\ Append(handled, m) \in Seq(1..m) /\ Len(handled) \in Nat
        /\ DOMAIN handled = 1..Len(handled)
        /\ DOMAIN Append(handled, m) = 1..(Len(handled) + 1)
        /\ \A k \in DOMAIN handled : Append(handled, m)[k] = handled[k]
        /\ Append(handled, m)[Len(handled) + 1] = m
    BY <1>3, <2>1, AppendedIs
  <2>4. \A k \in DOMAIN handled : handled[k] \in Accepted
    BY <1>3
  <2>5. QED
    BY <2>2, <2>3, <2>4
<1>6. QueueTypes'
  <2>1. session' \in Nat
    BY <1>1 DEF Mapped, QueueInv, QueueTypes
  <2>2. QED
    BY <1>1, <1>2, <1>5, <2>1 DEF QueueInv, QueueTypes
<1>7. EndOfChain'
  BY <1>1 DEF QueueInv, EndOfChain, Started, Runs
<1>8. HandledInOrder'
  BY <1>2, <1>5 DEF QueueInv, HandledInOrder
<1>9. HandledDiffer'
  BY <1>2, <1>5 DEF QueueInv, HandledDiffer
<1>10. \A f \in Event : LetInOnce(f)'
  BY <1>1, AcceptLetsInOnce
<1>11. QED
  BY <1>4, <1>6, <1>7, <1>8, <1>9, <1>10 DEF QueueInv

(* A worker that is started is the new end of the chain.                    *)
LEMMA NewWorkerStep ==
    ASSUME QueueInv, NEW e \in Event, Accept(e), Kind[e] # "approval",
           NEW p \in {"chained", "window"}, NEW m, m = This,
           worker' = [worker EXCEPT ![m] = NewWorker(p)], current' = m,
           pending' = IF p = "window" THEN m ELSE NoArrival,
           UNCHANGED <<lock, deciding, handled, session>>
    PROVE  QueueInv'
<1> DEFINE x == NewWorker(p)
<1>1. /\ m \in Arrival /\ m \in Nat /\ m = Len(accepted) + 1 /\ accepted' \in Seq(Event)
      /\ Len(accepted') = m /\ Len(accepted') <= MaxArrivals
      /\ Accepted' = 1..m /\ Accepted \subseteq 1..m /\ m \notin Accepted
      /\ \A a \in Accepted : a \in Waiting' <=> a \in Waiting
      /\ m \in Waiting' /\ Kind[accepted'[m]] = Kind[e] /\ seen' \in SUBSET Event
      /\ ~Started(m) /\ \A v \in Arrival : Started(v) => v < m
  BY AcceptIs
<1>2. /\ x = [pc |-> p, batch |-> <<m>>, previous |-> current, next |-> 1,
              request |-> FALSE, waits |-> FALSE]
  BY DEF NewWorker
<1>3. /\ worker' = [worker EXCEPT ![m] = x] /\ current' = m
      /\ pending' = IF p = "window" THEN m ELSE NoArrival
      /\ UNCHANGED <<lock, deciding, handled, session, forgotten, up, outages, forgets>>
      /\ worker \in [Arrival -> WorkerType]
      /\ {pending, current, lock} \subseteq Arrival \cup {NoArrival}
  BY DEF Accept, QueueInv, QueueTypes
<1> HIDE DEF x
<1>4. /\ x \in WorkerRecord /\ x.pc = p /\ x.batch = <<m>> /\ x.previous = current /\ x.next = 1
      /\ x.pc # "done"
  <2>1. <<m>> \in Seq(Arrival)
    BY <1>1
  <2>2. current \in Arrival \cup {NoArrival} /\ p \in WorkerPc
    BY <1>3 DEF WorkerPc
  <2>3. QED
    BY <1>2, <2>1, <2>2 DEF WorkerRecord
<1>5. x # NoWorker /\ x \in WorkerType
  BY <1>4 DEF NoWorker, WorkerType, WorkerRecord
<1>6. /\ \A v \in Arrival : worker'[v] = IF v = m THEN x ELSE worker[v]
      /\ worker' \in [Arrival -> WorkerType]
  BY <1>1, <1>3, <1>5
<1>7. /\ \A v \in Arrival : v # m => (Started(v)' <=> Started(v)) /\ (Runs(v)' <=> Runs(v))
      /\ Started(m)' /\ Runs(m)'
  BY <1>1, <1>4, <1>5, <1>6 DEF Started, Runs
<1>8. /\ \A n \in DOMAIN handled : handled[n] \in Accepted
      /\ Arrival \subseteq Nat /\ NoArrival \notin Arrival /\ handled \in Seq(Accepted)
  BY NumbersAre DEF QueueInv, QueueTypes
<1>9. QueueTypes'
  <2>1. handled' \in Seq(1..m)
    BY <1>1, <1>3, <1>8, SeqMonotonic
  <2>2. {pending', current', lock'} \subseteq Arrival \cup {NoArrival}
    BY <1>1, <1>3
  <2>3. QED
    BY <1>1, <1>3, <1>6, <2>1, <2>2 DEF QueueInv, QueueTypes
<1>10. ASSUME NEW v \in Arrival, Started(v)', v # m
       PROVE  BatchOf(v)' /\ ChainOf(v)' /\ HandledIsBefore(v)'
  BY <1>3, <1>6, <1>7, <1>10, OldWorkerStays
<1>11. BatchOf(m)' /\ ChainOf(m)' /\ HandledIsBefore(m)'
  <2>1. /\ worker'[m].batch = <<m>> /\ worker'[m].next = 1 /\ worker'[m].previous = current
        /\ worker'[m].pc = p
    BY <1>1, <1>4, <1>6
  <2>2. /\ Len(<<m>>) = 1 /\ DOMAIN <<m>> = {1} /\ <<m>>[1] = m
    OBVIOUS
  <2>3. \A v \in Arrival : Started(v)' => v <= m
    BY <1>1, <1>7, <1>8
  <2>5. BatchOf(m)'
    <3>1. m \in Accepted' /\ worker'[m].next \in 1..(Len(worker'[m].batch) + 1)
      BY <1>1, <2>1, <2>2 DEF Arrival
    <3>2. /\ m \in m..Len(accepted') /\ KindOf(m)' # "approval"
      BY <1>1 DEF KindOf
    <3>3. \A i \in DOMAIN worker'[m].batch :
              worker'[m].batch[i] \in m..Len(accepted') /\ KindOf(worker[m].batch[i])' # "approval"
      BY <2>1, <2>2, <3>2 DEF KindOf
    <3>4. QED
      BY <1>8, <2>1, <2>2, <2>3, <3>1, <3>3 DEF BatchOf, KindOf
  <2>7. /\ current = NoArrival => \A v \in Arrival : ~Runs(v)
        /\ current # NoArrival => current \in Arrival /\ Started(current)
                                  /\ \A v \in Arrival : Started(v) => v <= current
    BY <1>3 DEF QueueInv, EndOfChain, Runs
  <2>8. ChainOf(m)'
    <3>1. current = NoArrival => \A v \in Arrival : v < m => ~Runs(v)'
      BY <1>1, <1>7, <1>8, <2>7
    <3>2. \A v \in Arrival : Started(v)' => v = m \/ Started(v)
      BY <1>7
    <3>3. current # NoArrival =>
            /\ current < m
            /\ \A v \in Arrival : Started(v)' => v <= current \/ m <= v
      <4> SUFFICES ASSUME current # NoArrival
                   PROVE  /\ current < m
                          /\ \A v \in Arrival : Started(v)' => v <= current \/ m <= v
        OBVIOUS
      <4>1. current < m
        BY <1>1, <2>7
      <4>2. m <= m
        BY <1>1
      <4>3. \A v \in Arrival : Started(v)' => v <= current \/ v = m
        BY <2>7, <3>2
      <4>4. QED
        BY <4>1, <4>2, <4>3
    <3>4. QED
      BY <2>1, <3>1, <3>3 DEF ChainOf
  <2>9. HandledIsBefore(m)'
    BY <1>1, <1>3, <1>8, <2>1, <2>2 DEF HandledIsBefore, Accepted
  <2>10. QED
    BY <2>5, <2>8, <2>9
<1>12. EndOfChain'
  <2>1. current' # NoArrival /\ Runs(m)' /\ \A v \in Arrival : Started(v)' => v <= m
    BY <1>1, <1>3, <1>7, <1>8
  <2>2. pending' # NoArrival => pending' = m /\ worker'[m].pc = "window"
    BY <1>1, <1>3, <1>4, <1>6
  <2>3. QED
    BY <1>3, <2>1, <2>2 DEF EndOfChain, Runs, Started
<1>13. HandledInOrder' /\ HandledDiffer'
  BY <1>1, <1>3, <1>8 DEF QueueInv, HandledInOrder, HandledDiffer
<1>14. \A f \in Event : LetInOnce(f)'
  BY AcceptLetsInOnce
<1>15. \A v \in Arrival : Started(v)' => BatchOf(v)' /\ ChainOf(v)' /\ HandledIsBefore(v)'
  BY <1>10, <1>11
<1>16. QED
  BY <1>9, <1>12, <1>13, <1>14, <1>15 DEF QueueInv

LEMMA AcceptSeparateStep ==
    ASSUME QueueInv, NEW e \in Event, AcceptSeparate(e)
    PROVE  QueueInv'
<1>1. PICK m : m = This
  OBVIOUS
<1>2. /\ Accept(e) /\ Kind[e] # "approval" /\ current' = m /\ pending' = NoArrival
      /\ worker' = [worker EXCEPT ![m] = NewWorker("chained")]
      /\ UNCHANGED <<lock, deciding, handled, session>>
  BY <1>1 DEF AcceptSeparate, history
<1>3. QED
  BY <1>1, <1>2, NewWorkerStep

LEMMA AcceptNewBatchStep ==
    ASSUME QueueInv, NEW e \in Event, AcceptNewBatch(e)
    PROVE  QueueInv'
<1>1. PICK m : m = This
  OBVIOUS
<1>2. /\ Accept(e) /\ Kind[e] # "approval" /\ current' = m /\ pending' = m
      /\ worker' = [worker EXCEPT ![m] = NewWorker("window")]
      /\ UNCHANGED <<lock, deciding, handled, session>>
  BY <1>1 DEF AcceptNewBatch, history
<1>3. QED
  BY <1>1, <1>2, NewWorkerStep

(* The batch that is open is the last one's, so nobody was started since.   *)
LEMMA AcceptIntoBatchStep ==
    ASSUME QueueInv, NEW e \in Event, AcceptIntoBatch(e)
    PROVE  QueueInv'
<1>1. PICK m, w, b : m = This /\ w = pending /\ b = Append(worker[w].batch, m)
  OBVIOUS
<1>2. /\ Accept(e) /\ Kind[e] # "approval" /\ w # NoArrival
      /\ worker' = [worker EXCEPT ![w].batch = Append(@, m)]
      /\ UNCHANGED <<pending, current, lock, deciding, handled, session, forgotten, up, outages,
                     forgets>>
  BY <1>1 DEF AcceptIntoBatch, Accept, history
<1>3. /\ m \in Arrival /\ m \in Nat /\ m = Len(accepted) + 1 /\ accepted' \in Seq(Event)
      /\ Len(accepted') = m /\ Len(accepted') <= MaxArrivals
      /\ Accepted' = 1..m /\ Accepted \subseteq 1..m /\ m \notin Accepted
      /\ \A a \in Accepted : KindOf(a)' = KindOf(a) /\ (a \in Waiting' <=> a \in Waiting)
      /\ m \in Waiting' /\ Kind[accepted'[m]] # "approval" /\ seen' \in SUBSET Event
      /\ ~Started(m) /\ \A v \in Arrival : Started(v) => v < m
  BY <1>1, <1>2, AcceptIs
<1>4. /\ w \in Arrival /\ w = current /\ worker[w].pc = "window" /\ Started(w) /\ Runs(w)
      /\ \A v \in Arrival : Started(v) => v <= w
      /\ worker[w] \in WorkerRecord
      /\ BatchOf(w) /\ ChainOf(w) /\ HandledIsBefore(w)
  BY <1>1, <1>2, StartedIsRecord DEF QueueInv, QueueTypes, EndOfChain, Runs
<1> DEFINE x == [worker[w] EXCEPT !.batch = b]
<1>5. /\ b \in Seq(Arrival) /\ Len(worker[w].batch) \in Nat
      /\ DOMAIN worker[w].batch = 1..Len(worker[w].batch)
      /\ Len(b) = Len(worker[w].batch) + 1
      /\ DOMAIN b = 1..(Len(worker[w].batch) + 1)
      /\ \A i \in DOMAIN worker[w].batch : b[i] = worker[w].batch[i]
      /\ b[Len(worker[w].batch) + 1] = m
  <2>1. worker[w].batch \in Seq(Arrival)
    BY <1>4 DEF WorkerRecord
  <2>2. QED
    BY <1>1, <1>3, <2>1, AppendedIs
<1>6. /\ worker' = [worker EXCEPT ![w] = x] /\ worker \in [Arrival -> WorkerType]
  BY <1>1, <1>2, <1>4 DEF QueueInv, QueueTypes
<1>7. /\ x \in WorkerRecord /\ x.pc = "window" /\ x.batch = b /\ x.previous = worker[w].previous
      /\ x.next = worker[w].next
  BY <1>4, <1>5 DEF WorkerRecord
<1> HIDE DEF x
<1>8. x # NoWorker /\ x \in WorkerType
  BY <1>7 DEF NoWorker, WorkerType, WorkerRecord
<1>9. /\ \A v \in Arrival : worker'[v] = IF v = w THEN x ELSE worker[v]
      /\ worker' \in [Arrival -> WorkerType]
  BY <1>6, <1>8
<1>10. \A v \in Arrival : (Started(v)' <=> Started(v)) /\ (Runs(v)' <=> Runs(v))
  BY <1>4, <1>7, <1>8, <1>9 DEF Started, Runs
<1>11. /\ \A n \in DOMAIN handled : handled[n] \in Accepted
       /\ Arrival \subseteq Nat /\ NoArrival \notin Arrival /\ handled \in Seq(Accepted)
  BY NumbersAre DEF QueueInv, QueueTypes
<1>12. QueueTypes'
  <2>1. handled' \in Seq(1..m)
    BY <1>2, <1>3, <1>11, SeqMonotonic
  <2>2. QED
    BY <1>2, <1>3, <1>9, <2>1 DEF QueueInv, QueueTypes
<1>13. ASSUME NEW v \in Arrival, Started(v)', v # w
       PROVE  BatchOf(v)' /\ ChainOf(v)' /\ HandledIsBefore(v)'
  BY <1>2, <1>9, <1>10, <1>13, OldWorkerStays
<1>14. \A i \in DOMAIN worker[w].batch :
           /\ i \in Nat /\ worker[w].batch[i] \in Accepted /\ worker[w].batch[i] \in w..m
           /\ worker[w].batch[i] < m /\ KindOf(worker[w].batch[i]) # "approval"
  BY <1>3, <1>4, <1>5, <1>11, NumbersAre DEF BatchOf, Accepted, QueueInv
<1>15. BatchOf(w)'
  <2>1. /\ worker'[w].batch = b /\ worker'[w].next = worker[w].next
    BY <1>4, <1>7, <1>9
  <2>2. w \in Accepted' /\ worker[w].next \in 1..(Len(b) + 1) /\ w \in Nat
    <3>1. /\ w \in Accepted /\ worker[w].next \in 1..(Len(worker[w].batch) + 1) /\ w \in Nat
      BY <1>4, <1>11 DEF BatchOf
    <3>2. worker[w].next \in 1..(Len(b) + 1)
      BY <1>5, <3>1
    <3>3. QED
      BY <1>3, <3>1, <3>2
  <2>3. \A i \in DOMAIN b : b[i] \in w..m /\ KindOf(b[i])' # "approval"
    <3> SUFFICES ASSUME NEW i \in DOMAIN b PROVE b[i] \in w..m /\ Kind[accepted'[b[i]]] # "approval"
      BY <1>3 DEF KindOf
    <3>1. CASE i \in DOMAIN worker[w].batch
      BY <1>3, <1>5, <1>14, <3>1 DEF KindOf
    <3>2. CASE i = Len(worker[w].batch) + 1
      BY <1>3, <1>4, <1>5, <2>2, <3>2
    <3>3. QED
      BY <1>5, <3>1, <3>2
  <2>4. \A i, j \in DOMAIN b : i < j => b[i] < b[j]
    BY <1>4, <1>5, <1>14 DEF BatchOf
  <2>5. \A v \in Arrival : ~(Started(v)' /\ w < v)
    BY <1>4, <1>10, <1>11
  <2>6. QED
    BY <1>3, <2>1, <2>2, <2>3, <2>4, <2>5 DEF BatchOf, KindOf
<1>16. ChainOf(w)'
  BY <1>4, <1>7, <1>9, <1>10 DEF ChainOf
<1>17. HandledIsBefore(w)'
  <2>1. \A n \in DOMAIN handled, i \in DOMAIN b :
            handled[n] \in Waiting' /\ worker[w].next <= i => handled[n] < b[i]
    <3> SUFFICES ASSUME NEW n \in DOMAIN handled, NEW i \in DOMAIN b,
                        handled[n] \in Waiting', worker[w].next <= i
                 PROVE  handled[n] < b[i]
      OBVIOUS
    <3>1. handled[n] \in Accepted /\ handled[n] \in Waiting
      BY <1>3, <1>11
    <3>2. CASE i \in DOMAIN worker[w].batch
      BY <1>4, <1>5, <3>1, <3>2 DEF HandledIsBefore
    <3>3. CASE i = Len(worker[w].batch) + 1
      BY <1>3, <1>5, <3>1, <3>3 DEF Accepted
    <3>4. QED
      BY <1>5, <3>2, <3>3
  <2>2. worker'[w].batch = b /\ worker'[w].next = worker[w].next /\ handled' = handled
    BY <1>2, <1>4, <1>7, <1>9
  <2>3. QED
    BY <2>1, <2>2 DEF HandledIsBefore
<1>18. EndOfChain'
  <2>1. \A v \in Arrival : worker'[v].pc = worker[v].pc
    BY <1>4, <1>7, <1>9
  <2>2. /\ current' = NoArrival => \A v \in Arrival : ~Runs(v)'
        /\ current' # NoArrival => Runs(current)' /\ \A v \in Arrival : Started(v)' => v <= current'
    BY <1>2, <1>10 DEF QueueInv, EndOfChain, QueueTypes
  <2>3. pending' # NoArrival => pending' = current' /\ worker'[pending'].pc = "window"
    BY <1>2, <2>1 DEF QueueInv, EndOfChain, QueueTypes
  <2>4. QED
    BY <2>2, <2>3 DEF EndOfChain
<1>19. HandledInOrder' /\ HandledDiffer'
  BY <1>2, <1>3, <1>11 DEF QueueInv, HandledInOrder, HandledDiffer
<1>20. \A f \in Event : LetInOnce(f)'
  BY <1>2, AcceptLetsInOnce
<1>21. \A v \in Arrival : Started(v)' => BatchOf(v)' /\ ChainOf(v)' /\ HandledIsBefore(v)'
  BY <1>13, <1>15, <1>16, <1>17
<1>22. QED
  BY <1>12, <1>18, <1>19, <1>20, <1>21 DEF QueueInv

(* The process dies and loses what it had in memory, which counts as        *)
(* forgetting every event the deduplicator knew.                            *)
LEMMA CrashChannelStep ==
    ASSUME QueueInv, CrashChannel
    PROVE  QueueInv'
<1>1. /\ UNCHANGED <<accepted, handled, session>> /\ seen' = {}
      /\ forgotten' = [e \in Event |-> IF e \in seen THEN forgotten[e] + 1 ELSE forgotten[e]]
      /\ worker' = [w \in Arrival |-> NoWorker]
      /\ pending' = NoArrival /\ current' = NoArrival
  BY DEF CrashChannel, history
<1>2. QueueTypes'
  <2>1. forgotten' \in [Event -> Nat]
    BY <1>1 DEF QueueInv, QueueTypes
  <2>2. worker' \in [Arrival -> WorkerType]
    BY <1>1 DEF WorkerType
  <2>3. QED
    <3>1. outages' \in 0..MaxOutages
      BY QueueAssumption DEF QueueInv, QueueTypes, CrashChannel
    <3>2. /\ lock' = NoArrival /\ deciding' = {} /\ up' = FALSE /\ forgets' = forgets
      BY DEF CrashChannel
    <3>3. QED
      BY <1>1, <2>1, <2>2, <3>1, <3>2 DEF QueueInv, QueueTypes, Accepted
<1>3. \A w \in Arrival : ~Started(w)' /\ ~Runs(w)'
  BY <1>1 DEF Started, Runs
<1>4. EndOfChain'
  BY <1>1, <1>3 DEF EndOfChain
<1>5. HandledInOrder' /\ HandledDiffer'
  BY <1>1 DEF QueueInv, HandledInOrder, Waiting, KindOf, HandledDiffer
<1>6. ASSUME NEW e \in Event PROVE LetInOnce(e)'
  <2>1. /\ forgotten'[e] = IF e \in seen THEN forgotten[e] + 1 ELSE forgotten[e]
        /\ forgotten[e] \in Nat /\ ArrivalsOf(e)' = ArrivalsOf(e) /\ LetInOnce(e)
    BY <1>1 DEF QueueInv, QueueTypes, ArrivalsOf
  <2>2. QED
    BY <1>1, <2>1 DEF LetInOnce
<1>7. QED
  BY <1>2, <1>3, <1>4, <1>5, <1>6 DEF QueueInv

LEMMA ForgetStep ==
    ASSUME QueueInv, NEW e \in Event, Forget(e)
    PROVE  QueueInv'
<1>1. /\ UNCHANGED <<accepted, worker, pending, current, lock, deciding, handled, session, up,
                     outages>>
      /\ e \in seen /\ seen' = seen \ {e} /\ forgotten' = [forgotten EXCEPT ![e] = @ + 1]
  BY DEF Forget, queue, history
<1>2. QueueTypes'
  <2>1. forgotten' \in [Event -> Nat]
    BY <1>1 DEF QueueInv, QueueTypes
  <2>2. forgets' \in 0..MaxForgets
    BY QueueAssumption DEF Forget, QueueInv, QueueTypes
  <2>3. QED
    BY <1>1, <2>1, <2>2 DEF QueueInv, QueueTypes, Accepted
<1>3. \A w \in Arrival : Started(w)' => BatchOf(w)' /\ ChainOf(w)' /\ HandledIsBefore(w)'
  <2>1. \A w \in Arrival : Started(w)' => (BatchOf(w) /\ ChainOf(w) /\ HandledIsBefore(w))'
    BY <1>1, WorkersMoveOn DEF Started
  <2>2. QED
    BY <2>1
<1>4. EndOfChain'
  BY <1>1 DEF QueueInv, EndOfChain, Started, Runs
<1>5. HandledInOrder' /\ HandledDiffer'
  BY <1>1 DEF QueueInv, HandledInOrder, Waiting, KindOf, HandledDiffer
<1>6. ASSUME NEW f \in Event PROVE LetInOnce(f)'
  <2>1. /\ forgotten'[f] = IF f = e THEN forgotten[f] + 1 ELSE forgotten[f]
        /\ forgotten[f] \in Nat /\ ArrivalsOf(f)' = ArrivalsOf(f) /\ LetInOnce(f)
    BY <1>1 DEF QueueInv, QueueTypes, ArrivalsOf
  <2>2. QED
    BY <1>1, <2>1 DEF LetInOnce
<1>7. QED
  BY <1>2, <1>3, <1>4, <1>5, <1>6 DEF QueueInv

(* Steps that leave everything the invariant is about alone.                *)
LEMMA QueueIdles ==
    ASSUME QueueInv, up' \in BOOLEAN,
           UNCHANGED <<seen, forgotten, accepted, worker, pending, current, lock, deciding,
                       handled, session, outages, forgets>>
    PROVE  QueueInv'
<1>1. QueueTypes'
  BY DEF QueueInv, QueueTypes, Accepted
<1>2. \A w \in Arrival : Started(w)' => (BatchOf(w) /\ ChainOf(w) /\ HandledIsBefore(w))'
  BY WorkersMoveOn DEF Started
<1>3. EndOfChain'
  BY DEF QueueInv, EndOfChain, Started, Runs
<1>4. HandledInOrder' /\ HandledDiffer' /\ \A e \in Event : LetInOnce(e)'
  BY HistoryStays
<1>5. QED
  BY <1>1, <1>2, <1>3, <1>4 DEF QueueInv

LEMMA QueueStarts ==
    ASSUME QueueInit
    PROVE  QueueInv
<1>1. \A w \in Arrival : ~Started(w) /\ ~Runs(w)
  BY DEF QueueInit, Started, Runs
<1>2. QueueTypes
  <2>1. worker \in [Arrival -> WorkerType] /\ forgotten \in [Event -> Nat]
    BY DEF QueueInit, WorkerType
  <2>2. accepted \in Seq(Event) /\ Len(accepted) <= MaxArrivals /\ handled \in Seq(Accepted)
    BY QueueAssumption DEF QueueInit
  <2>3. QED
    BY <2>1, <2>2, QueueAssumption DEF QueueInit, QueueTypes
<1>3. EndOfChain /\ HandledInOrder /\ HandledDiffer
  BY <1>1 DEF QueueInit, EndOfChain, HandledInOrder, HandledDiffer
<1>4. ASSUME NEW e \in Event PROVE LetInOnce(e)
  <2>1. ArrivalsOf(e) = {}
    BY DEF QueueInit, ArrivalsOf
  <2>2. QED
    BY <2>1, FS_EmptySet DEF QueueInit, LetInOnce
<1>5. QED
  BY <1>1, <1>2, <1>3, <1>4 DEF QueueInv

LEMMA QueueSteps ==
    ASSUME QueueInv, [QueueNext]_queueVars
    PROVE  QueueInv'
<1>1. ASSUME NEW e \in Event, AcceptApproval(e) PROVE QueueInv'
  BY <1>1, AcceptApprovalStep
<1>2. ASSUME NEW e \in Event, AcceptSeparate(e) PROVE QueueInv'
  BY <1>2, AcceptSeparateStep
<1>3. ASSUME NEW e \in Event, AcceptIntoBatch(e) PROVE QueueInv'
  BY <1>3, AcceptIntoBatchStep
<1>4. ASSUME NEW e \in Event, AcceptNewBatch(e) PROVE QueueInv'
  BY <1>4, AcceptNewBatchStep
<1>5. ASSUME NEW e \in Event, Forget(e) PROVE QueueInv'
  BY <1>5, ForgetStep
<1>6. ASSUME NEW w \in Arrival, WindowEnds(w) PROVE QueueInv'
  BY <1>6, WindowEndsStep
<1>7. ASSUME NEW w \in Arrival, TakeLock(w) PROVE QueueInv'
  BY <1>7, TakeLockStep
<1>8. ASSUME NEW w \in Arrival, HandleNext(w) PROVE QueueInv'
  BY <1>8, HandleNextStep
<1>9. ASSUME NEW w \in Arrival, StartReply(w) PROVE QueueInv'
  BY <1>9, StartReplyStep
<1>10. ASSUME NEW w \in Arrival, NothingToReply(w) PROVE QueueInv'
  BY <1>10, FinishStep DEF NothingToReply
<1>11. ASSUME NEW w \in Arrival, ReplyEnds(w) PROVE QueueInv'
  BY <1>11, FinishStep DEF ReplyEnds
<1>12. ASSUME NEW w \in Arrival, WorkerFails(w) PROVE QueueInv'
  BY <1>12, FinishStep DEF WorkerFails
<1>13. ASSUME NEW a \in Arrival, Decided(a) PROVE QueueInv'
  BY <1>13, DecidedStep
<1>14. CASE CrashChannel
  BY <1>14, CrashChannelStep
<1>15. CASE RestartChannel
  BY <1>15, QueueIdles DEF RestartChannel, dedupe, queue, history
<1>16. CASE UNCHANGED queueVars
  BY <1>16, QueueIdles DEF queueVars, QueueInv, QueueTypes
<1>17. QED
  BY <1>1, <1>2, <1>3, <1>4, <1>5, <1>6, <1>7, <1>8, <1>9, <1>10, <1>11, <1>12, <1>13, <1>14,
     <1>15, <1>16 DEF QueueNext, AcceptEvent, WorkerStep

(* Everything handled is an arrival of its own, and the deduplicator bounds *)
(* the arrivals of an event.                                                *)
LEMMA OncePerMemory ==
    ASSUME QueueInv
    PROVE  HandledOncePerMemory
<1> SUFFICES ASSUME NEW e \in Event
             PROVE  Cardinality({i \in DOMAIN handled : accepted[handled[i]] = e})
                        <= 1 + forgotten[e]
  BY DEF HandledOncePerMemory
<1> DEFINE H == {i \in DOMAIN handled : accepted[handled[i]] = e}
           f == [i \in H |-> handled[i]]
<1>1. /\ accepted \in Seq(Event) /\ Len(accepted) \in Nat
      /\ DOMAIN accepted = 1..Len(accepted) /\ forgotten[e] \in Nat
      /\ \A i \in DOMAIN handled : handled[i] \in DOMAIN accepted
  BY NumbersAre DEF QueueInv, QueueTypes
<1>2. IsFiniteSet(ArrivalsOf(e)) /\ Cardinality(ArrivalsOf(e)) \in Nat
  <2>1. IsFiniteSet(1..Len(accepted))
    BY <1>1, FS_Interval
  <2>2. ArrivalsOf(e) \subseteq 1..Len(accepted)
    BY <1>1 DEF ArrivalsOf
  <2>3. QED
    BY <2>1, <2>2, FS_Subset, FS_CardinalityType
<1>3. f \in Injection(H, ArrivalsOf(e))
  <2>1. f \in [H -> ArrivalsOf(e)]
    BY <1>1 DEF ArrivalsOf
  <2>2. \A i, k \in H : f[i] = f[k] => i = k
    BY DEF QueueInv, HandledDiffer
  <2>3. QED
    BY <2>1, <2>2 DEF Injection, IsInjective
<1>4. Cardinality(H) <= Cardinality(ArrivalsOf(e)) /\ Cardinality(H) \in Nat
  BY <1>2, <1>3, FS_Injection, FS_CardinalityType
<1>5. Cardinality(ArrivalsOf(e)) <= forgotten[e] + (IF e \in seen THEN 1 ELSE 0)
  BY DEF QueueInv, LetInOnce
<1>6. QED
  BY <1>1, <1>2, <1>4, <1>5

LEMMA QueueTypesAreOK ==
    ASSUME QueueInv
    PROVE  QueueTypeOK
<1>1. \A w \in Arrival :
          \/ worker[w] = NoWorker
          \/ /\ worker[w].pc \in WorkerPc
             /\ \A i \in DOMAIN worker[w].batch : worker[w].batch[i] \in Arrival
             /\ worker[w].previous \in Arrival \cup {NoArrival}
             /\ worker[w].next \in 1..(Len(worker[w].batch) + 1)
             /\ worker[w].request \in BOOLEAN /\ worker[w].waits \in BOOLEAN
  <2> SUFFICES ASSUME NEW w \in Arrival, Started(w)
               PROVE  /\ worker[w].pc \in WorkerPc
                      /\ \A i \in DOMAIN worker[w].batch : worker[w].batch[i] \in Arrival
                      /\ worker[w].previous \in Arrival \cup {NoArrival}
                      /\ worker[w].next \in 1..(Len(worker[w].batch) + 1)
                      /\ worker[w].request \in BOOLEAN /\ worker[w].waits \in BOOLEAN
    BY DEF Started
  <2>1. worker[w] \in WorkerRecord /\ BatchOf(w)
    BY StartedIsRecord DEF QueueInv
  <2>2. QED
    BY <2>1 DEF WorkerRecord, BatchOf
<1>2. \A i \in DOMAIN handled : handled[i] \in Arrival
  BY NumbersAre DEF QueueInv
<1>3. QED
  BY <1>1, <1>2 DEF QueueInv, QueueTypes, QueueTypeOK

(* The inductive invariant of the channel's queue: every worker's batch is  *)
(* what arrived between its start and the next one's, the workers form a    *)
(* chain, and what is handled comes before what is left (OneBotAdapter).    *)
THEOREM QueueInductive == QueueSpec => []QueueInv
BY QueueStarts, QueueSteps, PTL DEF QueueSpec

-----------------------------------------------------------------------------
(* Texts and their pieces.                                                  *)

LEMMA LeastOf ==
    ASSUME NEW S \in SUBSET Nat, S # {}
    PROVE  \E x \in S : \A y \in S : x <= y
<1>1. PICK x \in S : \A y \in S : ~(<<y, x>> \in OpToRel(<, Nat))
  BY NatLessThanWellFounded, WFMin
<1>2. ASSUME NEW y \in S PROVE ~(y < x)
  <2>1. <<y, x>> \in Nat \X Nat /\ <<y, x>>[1] = y /\ <<y, x>>[2] = x
    OBVIOUS
  <2>2. QED
    BY <1>1, <2>1, Zenon DEF OpToRel
<1>3. \A y \in S : x <= y
  BY <1>2
<1>4. QED
  BY <1>3

(* Induction over the natural numbers, with the set of those for which the  *)
(* claim holds.                                                             *)
LEMMA ByInduction ==
    ASSUME NEW Holds, 0 \in Holds, \A n \in Nat : n \in Holds => n + 1 \in Holds
    PROVE  Nat \subseteq Holds
<1>1. SUFFICES ASSUME Nat \ Holds # {} PROVE FALSE
  OBVIOUS
<1>2. PICK n \in Nat \ Holds : \A m \in Nat \ Holds : n <= m
  BY <1>1, LeastOf
<1>3. n # 0 /\ n - 1 \in Nat /\ n - 1 \in Holds
  BY <1>2
<1>4. QED
  BY <1>2, <1>3

LEMMA LastOf ==
    ASSUME NEW n \in Nat, NEW T \in SUBSET (1..n), T # {}
    PROVE  Max(T) \in T
<1> DEFINE Holds == {k \in Nat : \A U \in SUBSET (1..k) :
                        U # {} => \E x \in U : \A y \in U : x >= y}
<1>1. 0 \in Holds
  <2>1. \A U \in SUBSET (1..0) : U = {}
    OBVIOUS
  <2>2. QED
    BY <2>1
<1>2. ASSUME NEW k \in Nat, k \in Holds
      PROVE  k + 1 \in Holds
  <2>1. ASSUME NEW U \in SUBSET (1..(k + 1)), U # {}
        PROVE  \E x \in U : \A y \in U : x >= y
    <3>1. CASE k + 1 \in U
      BY <3>1
    <3>2. CASE k + 1 \notin U
      <4>1. U \in SUBSET (1..k)
        BY <3>2
      <4>2. QED
        BY <1>2, <2>1, <4>1
    <3>3. QED
      BY <3>1, <3>2
  <2>2. QED
    BY <2>1
<1>3. Nat \subseteq Holds
  <2> HIDE DEF Holds
  <2>1. QED
    BY <1>1, <1>2, ByInduction
<1>4. \E x \in T : \A y \in T : x >= y
  BY <1>3
<1>5. QED
  BY <1>4 DEF Max

LEMMA IntervalIs ==
    ASSUME NEW n \in Nat
    PROVE  IsFiniteSet(1..n) /\ Cardinality(1..n) = n
<1>1. /\ IsFiniteSet(1..n)
      /\ Cardinality(1..n) = IF 1 > n THEN 0 ELSE n - 1 + 1
  BY FS_Interval
<1>2. (IF 1 > n THEN 0 ELSE n - 1 + 1) = n
  OBVIOUS
<1>3. QED
  BY <1>1, <1>2

(* The function a fold goes along exists, with values in A when what it     *)
(* applies has its values there; F is that operator as a function.          *)
Folds(g, A, F, base, items) ==
    /\ g \in [SUBSET DOMAIN items -> A]
    /\ \A T \in SUBSET DOMAIN items :
          g[T] = IF T = {} THEN base ELSE F[<<g[T \ {Max(T)}], items[Max(T)]>>]

LEMMA FoldExists ==
    ASSUME NEW A, NEW P, NEW F \in [A \X P -> A], NEW base \in A, NEW items \in Seq(P)
    PROVE  \E g : Folds(g, A, F, base, items)
<1> DEFINE n == Len(items)
<1> DEFINE S == 1..n
<1> DEFINE Small(k) == {T \in SUBSET S : Cardinality(T) <= k}
<1> DEFINE Value(g, T) == IF T = {} THEN base ELSE F[<<g[T \ {Max(T)}], items[Max(T)]>>]
<1> DEFINE Upto(k) == \E g \in [Small(k) -> A] : \A T \in Small(k) : g[T] = Value(g, T)
<1> DEFINE Holds == {k \in Nat : Upto(k)}
<1>0. n \in Nat /\ DOMAIN items = S /\ \A x \in S : items[x] \in P
  BY ElementOfSeq
<1>1. \A T \in SUBSET S : IsFiniteSet(T) /\ Cardinality(T) \in Nat /\ Cardinality(T) <= n
  <2>1. IsFiniteSet(S) /\ Cardinality(S) = n
    BY <1>0, IntervalIs
  <2> HIDE DEF S, n
  <2>2. \A T \in SUBSET S : IsFiniteSet(T) /\ Cardinality(T) <= Cardinality(S)
    BY <2>1, FS_Subset
  <2>3. QED
    BY <2>1, <2>2, FS_CardinalityType
<1>2. \A T \in SUBSET S : T # {} => /\ Max(T) \in T /\ T \ {Max(T)} \in SUBSET S
                                   /\ Cardinality(T \ {Max(T)}) = Cardinality(T) - 1
  BY <1>0, <1>1, LastOf, FS_RemoveElement
<1> HIDE DEF S, n
<1>3. 0 \in Holds
  <2> DEFINE g == [T \in Small(0) |-> base]
  <2>1. \A T \in Small(0) : T = {}
    BY <1>1, FS_EmptySet
  <2>2. g \in [Small(0) -> A] /\ \A T \in Small(0) : g[T] = Value(g, T)
    BY <2>1
  <2>3. QED
    BY <2>2
<1>4. ASSUME NEW k \in Nat, k \in Holds
      PROVE  k + 1 \in Holds
  <2>1. PICK g \in [Small(k) -> A] : \A T \in Small(k) : g[T] = Value(g, T)
    BY <1>4
  <2> DEFINE h == [T \in Small(k + 1) |-> Value(g, T)]
  <2>2. ASSUME NEW T \in Small(k + 1), T # {}
        PROVE  T \ {Max(T)} \in Small(k) /\ items[Max(T)] \in P
    BY <1>0, <1>1, <1>2, <2>2
  <2>3. \A T \in Small(k + 1) : Value(g, T) \in A
    BY <2>2
  <2>4. \A T \in Small(k) : T \in Small(k + 1) /\ h[T] = g[T]
    <3>1. ASSUME NEW T \in Small(k)
          PROVE  T \in Small(k + 1) /\ h[T] = g[T]
      <4>1. T \in Small(k + 1)
        BY <1>1
      <4>2. h[T] = Value(g, T)
        BY <4>1
      <4>3. g[T] = Value(g, T)
        BY <2>1
      <4>4. QED
        BY <4>1, <4>2, <4>3
    <3>2. QED
      BY <3>1
  <2>5. \A T \in Small(k + 1) : Value(g, T) = Value(h, T)
    BY <2>2, <2>4
  <2>6. h \in [Small(k + 1) -> A] /\ \A T \in Small(k + 1) : h[T] = Value(h, T)
    BY <2>3, <2>5
  <2> HIDE DEF h, Value
  <2>7. Upto(k + 1)
    BY <2>6
  <2> HIDE DEF Upto
  <2>8. QED
    BY <2>7
<1>5. n \in Holds
  <2>1. Nat \subseteq Holds
    <3> HIDE DEF Holds
    <3>1. QED
      BY <1>3, <1>4, ByInduction
  <2>2. QED
    BY <1>0, <2>1
<1>6. Small(n) = SUBSET S
  BY <1>1
<1>7. QED
  BY <1>0, <1>5, <1>6 DEF Folds

(* What the fold goes along stays in A.                                     *)
LEMMA FoldStays ==
    ASSUME NEW A, NEW n \in Nat, NEW it,
           it[{}] \in A,
           \A T \in SUBSET (1..n) : T # {} /\ it[T \ {Max(T)}] \in A => it[T] \in A
    PROVE  \A T \in SUBSET (1..n) : it[T] \in A
<1> DEFINE S == 1..n
<1> DEFINE Holds == {k \in Nat : \A T \in SUBSET S : Cardinality(T) = k => it[T] \in A}
<1>1. \A T \in SUBSET S : IsFiniteSet(T) /\ Cardinality(T) \in Nat
  <2>1. IsFiniteSet(S)
    BY IntervalIs
  <2> HIDE DEF S
  <2>2. \A T \in SUBSET S : IsFiniteSet(T)
    BY <2>1, FS_Subset
  <2>3. QED
    BY <2>2, FS_CardinalityType
<1>2. \A T \in SUBSET S : T # {} => /\ T \ {Max(T)} \in SUBSET S
                                   /\ Cardinality(T \ {Max(T)}) = Cardinality(T) - 1
  BY <1>1, LastOf, FS_RemoveElement
<1>3. 0 \in Holds
  BY <1>1, FS_EmptySet
<1>4. ASSUME NEW k \in Nat, k \in Holds
      PROVE  k + 1 \in Holds
  <2>1. ASSUME NEW T \in SUBSET S, Cardinality(T) = k + 1
        PROVE  it[T] \in A
    <3>1. T # {}
      <4>1. Cardinality({}) = 0
        BY FS_EmptySet
      <4>2. Cardinality(T) # 0
        BY <2>1
      <4>3. QED
        BY <4>1, <4>2
    <3>2. it[T \ {Max(T)}] \in A
      BY <1>2, <1>4, <2>1, <3>1
    <3>3. QED
      BY <3>1, <3>2
  <2>2. QED
    BY <2>1
<1>5. Nat \subseteq Holds
  <2> HIDE DEF Holds
  <2>1. QED
    BY <1>3, <1>4, ByInduction
<1>6. QED
  BY <1>1, <1>5

LEMMA JoinedIsText ==
    ASSUME NEW text \in Seq(Seq(Char)), text # <<>>
    PROVE  JoinLines(text) \in Seq(Char)
<1> DEFINE items == Tail(text)
<1> DEFINE F == [q \in Seq(Char) \X Seq(Char) |-> q[1] \o <<NewLine>> \o q[2]]
<1> DEFINE Along(f) == f = [T \in SUBSET DOMAIN items |->
             IF T = {} THEN Head(text) ELSE f[T \ {Max(T)}] \o <<NewLine>> \o items[Max(T)]]
<1>1. Head(text) \in Seq(Char) /\ items \in Seq(Seq(Char))
  BY HeadTailProperties
<1>2. \A s, p \in Seq(Char) : s \o <<NewLine>> \o p \in Seq(Char)
  BY SenderAssumption
<1>3. F \in [Seq(Char) \X Seq(Char) -> Seq(Char)]
  BY <1>2
<1>4. DOMAIN items = 1..Len(items) /\ Len(items) \in Nat /\ \A x \in DOMAIN items : items[x] \in Seq(Char)
  BY <1>1, ElementOfSeq
<1> HIDE DEF items
<1>5. \A T \in SUBSET DOMAIN items : T # {} => Max(T) \in T /\ T \ {Max(T)} \in SUBSET DOMAIN items
  BY <1>4, LastOf
<1>6. \E g : Along(g)
  <2>1. PICK g \in [SUBSET DOMAIN items -> Seq(Char)] :
           \A T \in SUBSET DOMAIN items :
              g[T] = IF T = {} THEN Head(text) ELSE F[<<g[T \ {Max(T)}], items[Max(T)]>>]
    <3> DEFINE values == Seq(Char)
    <3> DEFINE parts == Seq(Char)
    <3> DEFINE first == Head(text)
    <3>1. first \in values /\ F \in [values \X parts -> values] /\ items \in Seq(parts)
      BY <1>1, <1>3
    <3> HIDE DEF F, values, parts, first
    <3>2. \E g : Folds(g, values, F, first, items)
      BY <3>1, FoldExists
    <3>3. QED
      BY <3>2 DEF Folds, values, first
  <2>2. ASSUME NEW T \in SUBSET DOMAIN items, T # {}
        PROVE  g[T] = g[T \ {Max(T)}] \o <<NewLine>> \o items[Max(T)]
    <3>1. g[T \ {Max(T)}] \in Seq(Char) /\ items[Max(T)] \in Seq(Char)
      BY <1>4, <1>5, <2>1, <2>2
    <3>2. F[<<g[T \ {Max(T)}], items[Max(T)]>>] = g[T \ {Max(T)}] \o <<NewLine>> \o items[Max(T)]
      BY <3>1
    <3>3. QED
      BY <2>1, <2>2, <3>2
  <2>3. Along(g)
    BY <2>1, <2>2
  <2>4. QED
    BY <2>3
<1> DEFINE it == CHOOSE f : Along(f)
<1>7. JoinLines(text) = it[DOMAIN items]
  BY DEF JoinLines, FoldLeft, MapThenFoldSet, items
<1>8. Along(it)
  BY <1>6
<1> HIDE DEF it
<1>9. \A T \in SUBSET DOMAIN items :
         it[T] = IF T = {} THEN Head(text) ELSE it[T \ {Max(T)}] \o <<NewLine>> \o items[Max(T)]
  BY <1>8
<1> HIDE DEF Along
<1>10. it[{}] \in Seq(Char)
  BY <1>1, <1>9
<1>11. ASSUME NEW T \in SUBSET DOMAIN items, T # {}, it[T \ {Max(T)}] \in Seq(Char)
       PROVE  it[T] \in Seq(Char)
  BY <1>2, <1>4, <1>5, <1>9, <1>11
<1>12. \A T \in SUBSET DOMAIN items : it[T] \in Seq(Char)
  BY <1>4, <1>10, <1>11, FoldStays
<1>13. QED
  BY <1>7, <1>12

(* What is in a piece, and how much of it.                                  *)
Piece == {s \in Seq(Char) : Len(s) \in 1..MaxChars}
Line == {s \in Seq(Char) : Len(s) <= MaxChars}
Split == [chunks : Seq(Piece), current : Line]

LEMMA CutsAre ==
    ASSUME NEW n \in Nat
    PROVE  /\ CutsOf(n) \in Nat
           /\ CutsOf(n) * MaxChars \in 0..n
           /\ n - CutsOf(n) * MaxChars <= MaxChars
           /\ \A i \in 1..CutsOf(n) :
                 (i - 1) * MaxChars \in Nat /\ i * MaxChars <= n
                 /\ i * MaxChars = (i - 1) * MaxChars + MaxChars
<1>1. MaxChars \in Nat \ {0}
  BY SenderAssumption
<1>2. CASE n <= MaxChars
  BY <1>1, <1>2 DEF CutsOf
<1>3. CASE n > MaxChars
  <2> DEFINE c == (n - 1) \div MaxChars
  <2>1. c \in Nat /\ c * MaxChars <= n - 1 /\ n - 1 < c * MaxChars + MaxChars
    BY <1>1, <1>3
  <2>2. CutsOf(n) = c
    BY <1>3 DEF CutsOf
  <2> HIDE DEF c
  <2>3. c * MaxChars \in Nat
    BY <1>1, <2>1
  <2>4. ASSUME NEW i \in 1..c
        PROVE  (i - 1) * MaxChars \in Nat /\ i * MaxChars <= n
               /\ i * MaxChars = (i - 1) * MaxChars + MaxChars
    <3>1. i * MaxChars \in Nat /\ (i - 1) * MaxChars \in Nat /\ (c - i) * MaxChars \in Nat
      BY <1>1, <2>1
    <3>2. c * MaxChars = i * MaxChars + (c - i) * MaxChars
          /\ i * MaxChars = (i - 1) * MaxChars + MaxChars
      BY <1>1, <2>1
    <3>3. QED
      BY <2>1, <2>3, <3>1, <3>2
  <2>5. QED
    BY <1>1, <2>1, <2>2, <2>3, <2>4
<1>4. QED
  BY <1>1, <1>2, <1>3

LEMMA ParagraphAdded ==
    ASSUME NEW acc \in Split, NEW p \in Seq(Char)
    PROVE  AddParagraph(acc, p) \in Split
<1> DEFINE rest == CutRest(p)
<1> DEFINE cut == CutPieces(p)
<1> DEFINE c == CutsOf(Len(p))
<1>1. /\ Len(p) \in Nat /\ MaxChars \in Nat \ {0} /\ NewLine \in Char
      /\ acc.chunks \in Seq(Piece) /\ acc.current \in Seq(Char) /\ Len(acc.current) <= MaxChars
  BY SenderAssumption DEF Split, Line
<1>2. /\ c \in Nat /\ c * MaxChars \in 0..Len(p) /\ Len(p) - c * MaxChars <= MaxChars
      /\ \A i \in 1..c : /\ (i - 1) * MaxChars \in Nat /\ i * MaxChars <= Len(p)
                         /\ i * MaxChars = (i - 1) * MaxChars + MaxChars
  BY <1>1, CutsAre
<1> HIDE DEF c
<1>3. rest \in Line
  <2>1. c * MaxChars + 1 \in 1..(Len(p) + 1)
    BY <1>1, <1>2
  <2> DEFINE a == c * MaxChars + 1
  <2> DEFINE b == Len(p)
  <2>2. a \in Int /\ b \in Int /\ \A i \in a..b : p[i] \in Char
    BY <1>1, <2>1, ElementOfSeq
  <2>3. (IF a <= b THEN b - a + 1 ELSE 0) = Len(p) - c * MaxChars
    <3> DEFINE k == c * MaxChars
    <3>1. k \in Nat /\ Len(p) \in Nat /\ k <= Len(p)
      BY <1>1, <1>2
    <3> HIDE DEF k
    <3>2. (IF k + 1 <= Len(p) THEN Len(p) - (k + 1) + 1 ELSE 0) = Len(p) - k
      BY <3>1
    <3>3. QED
      BY <3>2 DEF k
  <2>4. /\ SubSeq(p, a, b) \in Seq(Char)
        /\ Len(SubSeq(p, a, b)) = Len(p) - c * MaxChars
    <3>1. /\ SubSeq(p, a, b) \in Seq(Char)
          /\ Len(SubSeq(p, a, b)) = IF a <= b THEN b - a + 1 ELSE 0
      <4> HIDE DEF a, b
      <4>1. QED
        BY <2>2, SubSeqProperties
    <3>2. QED
      BY <2>3, <3>1
  <2>5. QED
    BY <1>2, <2>4 DEF CutRest, Line, c
<1>4. cut \in Seq(Piece)
  <2>1. ASSUME NEW i \in 1..c
        PROVE  SubSeq(p, (i - 1) * MaxChars + 1, i * MaxChars) \in Piece
    <3> DEFINE a == (i - 1) * MaxChars + 1
    <3> DEFINE b == i * MaxChars
    <3>1. a \in 1..(Len(p) + 1) /\ b \in (a - 1)..Len(p) /\ b - a + 1 = MaxChars
      BY <1>1, <1>2
    <3> HIDE DEF a, b
    <3>2. SubSeq(p, a, b) \in Seq(Char) /\ Len(SubSeq(p, a, b)) = MaxChars
      BY <1>1, <3>1, SubSeqProperties
    <3>3. SubSeq(p, a, b) \in Piece
      BY <1>1, <3>2 DEF Piece
    <3>4. QED
      BY <3>3 DEF a, b
  <2>2. cut \in [1..c -> Piece]
    BY <2>1 DEF CutPieces, c
  <2>3. QED
    BY <1>2, <2>2, SeqDef
<1> HIDE DEF rest, cut
<1> DEFINE chunks == acc.chunks \o cut
<1>5. chunks \in Seq(Piece)
  BY <1>1, <1>4
<1> HIDE DEF chunks
<1>6. CASE acc.current # <<>> /\ Len(acc.current) + 1 + Len(rest) > MaxChars
  <2>1. acc.current \in Piece
    BY <1>1, <1>6 DEF Piece
  <2>2. Append(chunks, acc.current) \in Seq(Piece)
    BY <1>5, <2>1
  <2>3. AddParagraph(acc, p) = [chunks |-> Append(chunks, acc.current), current |-> rest]
    BY <1>6 DEF AddParagraph, chunks, rest, cut
  <2>4. QED
    BY <1>3, <2>2, <2>3 DEF Split
<1>7. CASE ~(acc.current # <<>> /\ Len(acc.current) + 1 + Len(rest) > MaxChars)
  <2> DEFINE line == IF acc.current = <<>> THEN rest
                     ELSE acc.current \o <<NewLine>> \o rest
  <2>1. AddParagraph(acc, p) = [chunks |-> chunks, current |-> line]
    BY <1>7 DEF AddParagraph, chunks, rest, cut
  <2>2. line \in Line
    <3>1. CASE acc.current = <<>>
      BY <1>3, <3>1
    <3>2. CASE acc.current # <<>>
      <4>1. rest \in Seq(Char) /\ Len(rest) \in Nat /\ Len(acc.current) \in Nat
        BY <1>1, <1>3 DEF Line
      <4>2. Len(acc.current) + 1 + Len(rest) <= MaxChars
        BY <1>1, <1>7, <3>2, <4>1
      <4>3. /\ acc.current \o <<NewLine>> \o rest \in Seq(Char)
            /\ Len(acc.current \o <<NewLine>> \o rest) = Len(acc.current) + 1 + Len(rest)
        BY <1>1, <4>1
      <4>4. QED
        BY <3>2, <4>2, <4>3 DEF Line
    <3>3. QED
      BY <3>1, <3>2
  <2> HIDE DEF line
  <2>3. QED
    BY <1>5, <2>1, <2>2 DEF Split
<1>8. QED
  BY <1>6, <1>7

LEMMA SplitIsPieces ==
    ASSUME NEW text \in Seq(Seq(Char)), text # <<>>, JoinLines(text) # <<>>
    PROVE  SplitText(text) \in Seq(Piece)
<1> DEFINE F == [q \in Split \X Seq(Char) |-> AddParagraph(q[1], q[2])]
<1> DEFINE base == [chunks |-> <<>>, current |-> <<>>]
<1> DEFINE Along(f) == f = [T \in SUBSET DOMAIN text |->
             IF T = {} THEN base ELSE AddParagraph(f[T \ {Max(T)}], text[Max(T)])]
<1>1. base \in Split
  BY SenderAssumption DEF Split, Line
<1>3. F \in [Split \X Seq(Char) -> Split]
  BY ParagraphAdded
<1>4. DOMAIN text = 1..Len(text) /\ Len(text) \in Nat /\ \A x \in DOMAIN text : text[x] \in Seq(Char)
  BY ElementOfSeq
<1>5. \A T \in SUBSET DOMAIN text : T # {} => Max(T) \in T /\ T \ {Max(T)} \in SUBSET DOMAIN text
  BY <1>4, LastOf
<1> HIDE DEF base
<1>6. \E g : Along(g)
  <2>1. PICK g \in [SUBSET DOMAIN text -> Split] :
           \A T \in SUBSET DOMAIN text :
              g[T] = IF T = {} THEN base ELSE F[<<g[T \ {Max(T)}], text[Max(T)]>>]
    <3> DEFINE values == Split
    <3> DEFINE parts == Seq(Char)
    <3> DEFINE first == base
    <3>1. first \in values /\ F \in [values \X parts -> values] /\ text \in Seq(parts)
      BY <1>1, <1>3
    <3> HIDE DEF F, values, parts, first
    <3>2. \E g : Folds(g, values, F, first, text)
      BY <3>1, FoldExists
    <3>3. QED
      BY <3>2 DEF Folds, values, first
  <2>2. ASSUME NEW T \in SUBSET DOMAIN text, T # {}
        PROVE  g[T] = AddParagraph(g[T \ {Max(T)}], text[Max(T)])
    <3>1. g[T \ {Max(T)}] \in Split /\ text[Max(T)] \in Seq(Char)
      BY <1>4, <1>5, <2>1, <2>2
    <3>2. F[<<g[T \ {Max(T)}], text[Max(T)]>>] = AddParagraph(g[T \ {Max(T)}], text[Max(T)])
      BY <3>1
    <3>3. QED
      BY <2>1, <2>2, <3>2
  <2>3. Along(g)
    BY <2>1, <2>2
  <2>4. QED
    BY <2>3
<1> DEFINE it == CHOOSE f : Along(f)
<1> DEFINE r == FoldLeft(AddParagraph, [chunks |-> <<>>, current |-> <<>>], text)
<1>7. r = it[DOMAIN text]
  BY DEF FoldLeft, MapThenFoldSet, base
<1>8. Along(it)
  BY <1>6
<1> HIDE DEF it
<1>9. \A T \in SUBSET DOMAIN text :
         it[T] = IF T = {} THEN base ELSE AddParagraph(it[T \ {Max(T)}], text[Max(T)])
  BY <1>8
<1> HIDE DEF Along, r
<1>10. it[{}] \in Split
  BY <1>1, <1>9
<1>11. ASSUME NEW T \in SUBSET DOMAIN text, T # {}, it[T \ {Max(T)}] \in Split
       PROVE  it[T] \in Split
  BY <1>4, <1>5, <1>9, <1>11, ParagraphAdded
<1>12. r \in Split
  BY <1>4, <1>7, <1>10, <1>11, FoldStays
<1>13. CASE Len(JoinLines(text)) <= MaxChars
  <2>1. JoinLines(text) \in Piece
    BY <1>13, JoinedIsText, SenderAssumption DEF Piece
  <2>2. SplitText(text) = <<JoinLines(text)>>
    BY <1>13 DEF SplitText
  <2>3. QED
    BY <2>1, <2>2
<1>14. CASE ~(Len(JoinLines(text)) <= MaxChars)
  <2>1. SplitText(text) = r.chunks \o (IF r.current = <<>> THEN <<>> ELSE <<r.current>>)
    BY <1>14 DEF SplitText, r
  <2>2. r.chunks \in Seq(Piece) /\ r.current \in Seq(Char) /\ Len(r.current) <= MaxChars
    BY <1>12 DEF Split, Line
  <2>3. CASE r.current = <<>>
    BY <2>1, <2>2, <2>3
  <2>4. CASE r.current # <<>>
    <3>1. r.current \in Piece
      BY <2>2, <2>4, SenderAssumption DEF Piece
    <3>2. QED
      BY <2>1, <2>2, <2>4, <3>1
  <2>5. QED
    BY <2>3, <2>4
<1>15. QED
  BY <1>13, <1>14

(* Whatever a message's text is, what is posted of it are texts of at least *)
(* one character and at most reply_max_chars (channels/onebot/sender.py,    *)
(* split_text), as many as a list has.                                      *)
THEOREM PiecesAreSent ==
    \A m \in Message :
       /\ PiecesOf(m) \in Seq({s \in Seq(Char) : Len(s) \in 1..MaxChars})
       /\ Len(PiecesOf(m)) \in Nat /\ (Len(PiecesOf(m)) = 0 => PiecesOf(m) = <<>>)
<1>1. ASSUME NEW m \in Message
      PROVE  PiecesOf(m) \in Seq(Piece)
  <2>1. TextOf[m] \in Seq(Seq(Char)) /\ TextOf[m] # <<>>
    BY SenderAssumption
  <2>2. CASE JoinLines(TextOf[m]) = <<>>
    BY <2>2 DEF PiecesOf
  <2>3. CASE JoinLines(TextOf[m]) # <<>>
    BY <2>1, <2>3, SplitIsPieces DEF PiecesOf
  <2>4. QED
    BY <2>2, <2>3
<1>2. ASSUME NEW m \in Message
      PROVE  Len(PiecesOf(m)) \in Nat /\ (Len(PiecesOf(m)) = 0 => PiecesOf(m) = <<>>)
  BY <1>1
<1>3. QED
  BY <1>1, <1>2 DEF Piece

-----------------------------------------------------------------------------
(* Proactive.                                                               *)

Parcel == [msg : Message, piece : Nat]
Number(m) == Len(PiecesOf(m))

JobType ==
    {NoJob} \cup [state : SendEnds, msg : Message]
            \cup [state : {"posting"}, msg : Message, piece : Nat, attempt : 1..MaxAttempts]

TickType ==
    [pc : TickPc, local : 0..Horizon, candidate : 0..Horizon,
     activity : {Unset} \cup 0..Horizon, attempt : 1..MaxSends]

StateRow ==
    /\ now \in 0..Horizon
    /\ config \in Config
    /\ paused \in {Unset} \cup 0..Forever
    /\ activity \in {Unset} \cup 0..Horizon
    /\ candidate \in {Unset} \cup 0..Later
    /\ lastSent \in {Unset} \cup Message
    /\ slot \in 0..MaxSlots

ProcessTypes ==
    /\ tick \in {NoTick} \cup TickType
    /\ owner \in BOOLEAN
    /\ stage \in {"up", "stopping", "down"}
    /\ life \in 1..MaxLives
    /\ job \in [Thread -> JobType]
    /\ inbox \in Seq(Parcel)

(* What the owner received was sent by this life or an earlier one, for the *)
(* candidate of now or an earlier one, and no piece came twice.             *)
InboxFits ==
    /\ \A n \in DOMAIN inbox : /\ inbox[n].piece \in 1..Number(inbox[n].msg)
                               /\ inbox[n].msg[2] <= life
                               /\ inbox[n].msg[2] = life => inbox[n].msg[1] <= slot
    /\ \A n, k \in DOMAIN inbox : inbox[n] = inbox[k] => n = k

(* The thread sends the message of now, and works only for a tick that      *)
(* waits for it or was cancelled by a shutdown.                             *)
JobFits ==
    job[poster] # NoJob =>
        /\ job[poster].msg = ThisMessage
        /\ tick.pc = "sending" \/ (tick = NoTick /\ stage = "stopping")

(* The pieces before the one that is posted arrived, it and the ones after  *)
(* it did not; the end that is reported says what arrived.                  *)
JobIsTrue ==
    /\ job[poster].state = "posting" =>
          /\ job[poster].piece \in 1..Number(job[poster].msg)
          /\ \A i \in 1..(job[poster].piece - 1) : Arrivals(job[poster].msg, i) # {}
          /\ \A i \in job[poster].piece..Number(job[poster].msg) :
                Arrivals(job[poster].msg, i) = {}
    /\ job[poster].state = "sent" => AllArrived(job[poster].msg)
    /\ job[poster].state \in {"safe", "nothing"} => NoneArrived(job[poster].msg)

(* A message that may still be sent has not arrived in part; once the bound *)
(* on the candidates is reached, the last one is never due.                 *)
TickFits ==
    /\ candidate = Unset => slot = 0 /\ tick = NoTick
    /\ stage = "down" => tick = NoTick
    /\ tick.pc \in {"composing", "pausing"} => NoneArrived(ThisMessage)
    /\ stage = "up" /\ tick = NoTick =>
          NoneArrived(ThisMessage) \/ (slot = MaxSlots /\ candidate = Later)

ProactiveInv == StateRow /\ ProcessTypes /\ InboxFits /\ JobFits /\ JobIsTrue /\ TickFits

LEMMA Bounds ==
    /\ Horizon \in Nat /\ Later \in Nat /\ Forever \in Nat /\ Later = Horizon + 1
    /\ MaxSlots \in Nat \ {0} /\ MaxLives \in Nat \ {0} /\ MaxSends \in Nat \ {0}
    /\ MaxAttempts \in Nat \ {0} /\ poster \in Thread /\ Thread = {poster} /\ Unset \notin Nat
    /\ Message = (0..MaxSlots) \X (1..MaxLives)
BY ProactiveAssumption, SenderAssumption DEF Later, Forever

LEMMA NumberIs ==
    ASSUME NEW m \in Message
    PROVE  Number(m) \in Nat /\ (Number(m) = 0 => PiecesOf(m) = <<>>)
BY PiecesAreSent DEF Number

LEMMA ThisIs ==
    ASSUME StateRow, ProcessTypes
    PROVE  ThisMessage \in Message /\ ThisMessage[1] = slot /\ ThisMessage[2] = life
           /\ slot \in Nat /\ life \in Nat
BY Bounds DEF StateRow, ProcessTypes, ThisMessage

LEMMA InboxIs ==
    ASSUME ProcessTypes
    PROVE  /\ \A n \in DOMAIN inbox : /\ inbox[n] \in Parcel /\ inbox[n].msg \in Message
                                      /\ inbox[n].piece \in Nat
                                      /\ inbox[n].msg[1] \in Nat /\ inbox[n].msg[2] \in Nat
           /\ Len(inbox) \in Nat /\ DOMAIN inbox = 1..Len(inbox)
<1>1. inbox \in Seq(Parcel)
  BY DEF ProcessTypes
<1>2. \A n \in DOMAIN inbox : inbox[n] \in Parcel
  BY <1>1
<1>3. \A m \in Message : m[1] \in Nat /\ m[2] \in Nat
  BY Bounds
<1>4. QED
  BY <1>1, <1>2, <1>3 DEF Parcel

(* Nothing has arrived of a message that is still to be drawn.              *)
LEMMA AheadIsFresh ==
    ASSUME StateRow, ProcessTypes, InboxFits, NEW m,
           m[2] \in Nat, m[1] \in Nat, m[2] > life \/ (m[2] = life /\ m[1] > slot)
    PROVE  NoneArrived(m)
<1>1. ASSUME NEW n \in DOMAIN inbox PROVE inbox[n].msg # m
  BY <1>1, InboxIs, ThisIs DEF InboxFits
<1>2. QED
  BY <1>1 DEF NoneArrived, Arrivals

(* What arrived depends on the inbox alone.                                 *)
LEMMA InboxTells ==
    ASSUME inbox' = inbox, NEW m
    PROVE  /\ NoneArrived(m)' <=> NoneArrived(m)
           /\ AllArrived(m)' <=> AllArrived(m)
           /\ \A i : Arrivals(m, i)' = Arrivals(m, i)
BY DEF NoneArrived, AllArrived, Arrivals

LEMMA JobIs ==
    ASSUME ProcessTypes
    PROVE  /\ job[poster] = NoJob <=> job[poster].state = "idle"
           /\ job[poster].state = "posting" =>
                 job[poster] \in [state : {"posting"}, msg : Message, piece : Nat,
                                  attempt : 1..MaxAttempts]
           /\ job[poster].state \in SendEnds =>
                 job[poster] \in [state : SendEnds, msg : Message]
           /\ job[poster].state \in {"idle", "posting"} \cup SendEnds
BY Bounds DEF ProcessTypes, JobType, NoJob, SendEnds

LEMMA TickIs ==
    ASSUME ProcessTypes
    PROVE  /\ tick = NoTick <=> tick.pc = "idle"
           /\ tick # NoTick => tick \in TickType /\ tick.pc \in TickPc
BY DEF ProcessTypes, NoTick, TickType, TickPc

LEMMA CandidatesAre ==
    ASSUME StateRow, NEW t \in 0..Horizon, ScheduleNext(t)
    PROVE  /\ candidate' \in 0..Later /\ candidate' # Unset
           /\ slot = MaxSlots => candidate' = Later /\ slot' = slot
           /\ slot # MaxSlots => slot' = slot + 1
           /\ slot' \in 0..MaxSlots
<1>1. candidate' \in {Later} \cup t..Horizon
  BY DEF ScheduleNext, CandidatesFrom
<1>2. QED
  BY <1>1, Bounds DEF ScheduleNext, CandidatesFrom, StateRow

(* A tick that ends with the next candidate drawn.                          *)
LEMMA ScheduledStep ==
    ASSUME ProactiveInv, NEW t \in 0..Horizon, ScheduleNext(t), tick' = NoTick,
           job' = [job EXCEPT ![poster] = NoJob], stage # "down",
           UNCHANGED <<now, config, activity, owner, stage, life, inbox>>,
           paused' \in {Unset} \cup 0..Forever, lastSent' \in {Unset} \cup Message
    PROVE  ProactiveInv'
<1>1. /\ candidate' \in 0..Later /\ candidate' # Unset /\ slot' \in 0..MaxSlots
      /\ slot = MaxSlots => candidate' = Later /\ slot' = slot
      /\ slot # MaxSlots => slot' = slot + 1
  BY CandidatesAre DEF ProactiveInv
<1>2. StateRow'
  BY <1>1 DEF ProactiveInv, StateRow
<1>3. job' \in [Thread -> JobType] /\ job'[poster] = NoJob
  BY Bounds DEF ProactiveInv, ProcessTypes, JobType
<1>4. ProcessTypes'
  BY <1>3 DEF ProactiveInv, ProcessTypes
<1>5. slot' >= slot /\ slot \in Nat /\ slot' \in Nat
  BY <1>1, ThisIs DEF ProactiveInv
<1>6. InboxFits'
  BY <1>5, InboxIs DEF ProactiveInv, InboxFits
<1>7. JobFits' /\ JobIsTrue'
  BY <1>3 DEF JobFits, JobIsTrue, NoJob
<1>8. slot # MaxSlots => NoneArrived(ThisMessage)'
  <2> SUFFICES ASSUME slot # MaxSlots PROVE NoneArrived(ThisMessage)'
    OBVIOUS
  <2>1. NoneArrived(<<slot + 1, life>>)
    BY <1>5, AheadIsFresh, ThisIs DEF ProactiveInv
  <2>2. ThisMessage' = <<slot', life>>
    BY DEF ThisMessage
  <2>3. QED
    BY <1>1, <2>1, <2>2 DEF NoneArrived, Arrivals
<1>9. TickFits'
  BY <1>1, <1>8 DEF TickFits, NoTick, ProactiveInv
<1>10. QED
  BY <1>2, <1>4, <1>6, <1>7, <1>9 DEF ProactiveInv

(* Steps that leave the message of now, its job and the inbox alone.        *)
LEMMA RowStep ==
    ASSUME ProactiveInv, StateRow', ProcessTypes', TickFits',
           UNCHANGED <<slot, life, job, inbox>>,
           job[poster] # NoJob =>
               tick'.pc = "sending" \/ (tick' = NoTick /\ stage' = "stopping")
    PROVE  ProactiveInv'
<1>1. InboxFits'
  BY DEF ProactiveInv, InboxFits
<1>2. JobFits'
  BY DEF ProactiveInv, JobFits, ThisMessage
<1>3. JobIsTrue'
  BY DEF ProactiveInv, JobIsTrue, Arrivals, NoneArrived, AllArrived
<1>4. QED
  BY <1>1, <1>2, <1>3 DEF ProactiveInv

LEMMA PausedIs ==
    ASSUME StateRow
    PROVE  PausedNow \in {Unset} \cup 0..Forever
BY DEF StateRow, PausedNow

LEMMA IdleJob ==
    ASSUME ProactiveInv, job[poster] = NoJob
    PROVE  job = [job EXCEPT ![poster] = NoJob]
BY Bounds DEF ProactiveInv, ProcessTypes

LEMMA NoJobBut ==
    ASSUME ProactiveInv, tick.pc # "sending", tick # NoTick \/ stage # "stopping"
    PROVE  job[poster] = NoJob
BY DEF ProactiveInv, JobFits

LEMMA TickStartsStep ==
    ASSUME ProactiveInv, TickStarts
    PROVE  ProactiveInv'
<1>1. /\ stage = "up" /\ tick = NoTick /\ paused' = PausedNow
      /\ UNCHANGED <<now, config, activity, lastSent, owner, stage, life, job, inbox>>
      /\ job[poster] = NoJob
  BY NoJobBut DEF TickStarts, senderVars, NoTick
<1>2. CASE UNCHANGED <<candidate, slot, tick>>
  <2>1. StateRow' /\ ProcessTypes'
    BY <1>1, <1>2, PausedIs DEF ProactiveInv, StateRow, ProcessTypes
  <2>2. TickFits'
    BY <1>1, <1>2 DEF ProactiveInv, TickFits, ThisMessage, NoneArrived, Arrivals
  <2>3. QED
    BY <1>1, <1>2, <2>1, <2>2, RowStep
<1>3. CASE ScheduleNext(now) /\ UNCHANGED tick
  <2>1. /\ now \in 0..Horizon /\ paused' \in {Unset} \cup 0..Forever
        /\ lastSent' \in {Unset} \cup Message
    BY <1>1, PausedIs DEF ProactiveInv, StateRow
  <2>2. job' = [job EXCEPT ![poster] = NoJob]
    BY <1>1, IdleJob
  <2>3. QED
    BY <1>1, <1>3, <2>1, <2>2, ScheduledStep
<1>4. CASE /\ candidate # Unset /\ candidate <= now
           /\ tick' = [pc |-> "composing", local |-> now, candidate |-> candidate,
                       activity |-> activity, attempt |-> 1]
           /\ UNCHANGED <<candidate, slot>>
  <2>1. StateRow'
    BY <1>1, <1>4, PausedIs DEF ProactiveInv, StateRow
  <2>2. now \in 0..Horizon /\ candidate \in 0..Horizon /\ candidate # Later
    BY <1>4, Bounds DEF ProactiveInv, StateRow
  <2>3. tick' \in TickType /\ tick'.pc = "composing" /\ tick' # NoTick
    BY <1>4, <2>2, Bounds DEF ProactiveInv, StateRow, TickType, TickPc, NoTick
  <2>4. ProcessTypes'
    BY <1>1, <2>3 DEF ProactiveInv, ProcessTypes
  <2>5. NoneArrived(ThisMessage)
    BY <1>1, <2>2 DEF ProactiveInv, TickFits
  <2>6. TickFits'
    BY <1>1, <1>4, <2>3, <2>5 DEF TickFits, ThisMessage, NoneArrived, Arrivals
  <2>7. QED
    BY <1>1, <1>4, <2>1, <2>4, <2>6, RowStep
<1>5. QED
  BY <1>2, <1>3, <1>4 DEF TickStarts

LEMMA ComposeFailsStep ==
    ASSUME ProactiveInv, ComposeFails
    PROVE  ProactiveInv'
<1>1. /\ stage # "down" /\ tick.pc = "composing" /\ tick # NoTick
      /\ ScheduleNext(tick.local) /\ tick' = NoTick
      /\ UNCHANGED <<now, config, paused, activity, lastSent, owner, stage, life, job, inbox>>
  BY DEF ComposeFails, senderVars, NoTick
<1>2. tick.local \in 0..Horizon
  BY <1>1, TickIs DEF ProactiveInv, TickType
<1>3. job' = [job EXCEPT ![poster] = NoJob]
  BY <1>1, NoJobBut, IdleJob
<1>4. paused' \in {Unset} \cup 0..Forever /\ lastSent' \in {Unset} \cup Message
  BY <1>1 DEF ProactiveInv, StateRow
<1>5. QED
  BY <1>1, <1>2, <1>3, <1>4, ScheduledStep

LEMMA DropMessageStep ==
    ASSUME ProactiveInv, DropMessage
    PROVE  ProactiveInv'
<1>1. /\ stage # "down" /\ tick.pc \in {"composing", "pausing"} /\ tick # NoTick
      /\ tick' = NoTick /\ paused' = PausedNow
      /\ UNCHANGED <<now, config, activity, lastSent, owner, stage, life, job, inbox>>
      /\ ScheduleNext(now) \/ UNCHANGED <<candidate, slot>>
  BY DEF DropMessage, CheckPoint, senderVars, NoTick
<1>2. job[poster] = NoJob /\ job' = [job EXCEPT ![poster] = NoJob]
  BY <1>1, NoJobBut, IdleJob
<1>3. /\ paused' \in {Unset} \cup 0..Forever /\ lastSent' \in {Unset} \cup Message
      /\ now \in 0..Horizon
  BY <1>1, PausedIs DEF ProactiveInv, StateRow
<1>4. CASE ScheduleNext(now)
  BY <1>1, <1>2, <1>3, <1>4, ScheduledStep
<1>5. CASE UNCHANGED <<candidate, slot>>
  <2>1. StateRow' /\ ProcessTypes'
    BY <1>1, <1>3, <1>5 DEF ProactiveInv, StateRow, ProcessTypes
  <2>2. NoneArrived(ThisMessage) /\ candidate # Unset
    BY <1>1 DEF ProactiveInv, TickFits
  <2>3. TickFits'
    BY <1>1, <1>5, <2>2 DEF TickFits, ThisMessage, NoneArrived, Arrivals, NoTick
  <2>4. QED
    BY <1>1, <1>2, <1>5, <2>1, <2>3, RowStep
<1>6. QED
  BY <1>1, <1>4, <1>5

(* The message is handed to the thread; nothing of it has arrived yet.      *)
LEMMA SendMessageStep ==
    ASSUME ProactiveInv, SendMessage
    PROVE  ProactiveInv'
<1>1. PICK m : m = ThisMessage
  OBVIOUS
<1> DEFINE j == job'[poster]
<1>2. /\ stage # "down" /\ tick.pc \in {"composing", "pausing"} /\ tick # NoTick
      /\ paused' = PausedNow /\ tick' = [tick EXCEPT !.pc = "sending"]
      /\ UNCHANGED <<now, config, activity, candidate, lastSent, slot, owner, stage, life, inbox>>
  BY DEF SendMessage, CheckPoint, BeginSend, NoTick
<1>3. m \in Message /\ Number(m) \in Nat /\ (Number(m) = 0 => PiecesOf(m) = <<>>)
  BY <1>1, ThisIs, NumberIs DEF ProactiveInv
<1>4. \/ job' = [job EXCEPT ![poster] = Ended(m, "nothing")]
      \/ Number(m) # 0 /\ job' = [job EXCEPT ![poster] = Posting(m, 1, 1)]
  <2>1. job' = [job EXCEPT ![poster] = Ended(m, "nothing")]
        \/ (PiecesOf(m) # <<>> /\ job' = [job EXCEPT ![poster] = Posting(m, 1, 1)])
    BY <1>1 DEF SendMessage, BeginSend
  <2>2. QED
    BY <1>3, <2>1
<1>5. /\ job' \in [Thread -> JobType]
      /\ j.msg = m /\ j.state \in {"nothing", "posting"}
      /\ j.state = "posting" => Number(m) # 0 /\ j.piece = 1
  <2>1. Ended(m, "nothing") \in JobType /\ Posting(m, 1, 1) \in JobType
    BY <1>3, Bounds DEF JobType, Ended, Posting, SendEnds
  <2>2. job \in [Thread -> JobType]
    BY DEF ProactiveInv, ProcessTypes
  <2>3. QED
    BY <1>4, <2>1, <2>2, Bounds DEF Ended, Posting
<1> HIDE DEF j
<1>6. tick' \in TickType /\ tick'.pc = "sending" /\ tick' # NoTick
  BY <1>2, TickIs DEF ProactiveInv, TickType, TickPc, NoTick
<1>7. StateRow' /\ ProcessTypes'
  BY <1>2, <1>5, <1>6, PausedIs DEF ProactiveInv, StateRow, ProcessTypes
<1>8. NoneArrived(m) /\ candidate # Unset
  BY <1>1, <1>2 DEF ProactiveInv, TickFits
<1>9. InboxFits'
  BY <1>2 DEF ProactiveInv, InboxFits
<1>10. JobFits'
  BY <1>1, <1>2, <1>5, <1>6 DEF JobFits, ThisMessage, j
<1>11. JobIsTrue'
  <2>1. /\ j.state = "posting" => /\ j.piece \in 1..Number(j.msg)
                                  /\ \A i \in 1..(j.piece - 1) : Arrivals(j.msg, i) # {}
                                  /\ \A i \in j.piece..Number(j.msg) : Arrivals(j.msg, i) = {}
        /\ j.state \in {"safe", "nothing"} => NoneArrived(j.msg)
        /\ j.state # "sent"
    BY <1>3, <1>5, <1>8 DEF NoneArrived, Number
  <2>2. QED
    BY <1>2, <2>1 DEF JobIsTrue, j, NoneArrived, Arrivals
<1>12. TickFits'
  BY <1>2, <1>6, <1>8 DEF TickFits
<1>13. QED
  BY <1>7, <1>9, <1>10, <1>11, <1>12 DEF ProactiveInv

(* The piece that is posted is the first that has not arrived; when it      *)
(* arrives, the message has arrived up to it.                               *)
LEMMA ArrivalStep ==
    ASSUME ProactiveInv, NEW m, NEW i, job[poster].state = "posting",
           m = job[poster].msg, i = job[poster].piece, Arrives(poster),
           UNCHANGED <<slot, life>>
    PROVE  /\ inbox' \in Seq(Parcel) /\ InboxFits'
           /\ \A k \in 1..i : Arrivals(m, k)' # {}
           /\ \A k \in (i + 1)..Number(m) : Arrivals(m, k)' = {}
<1> DEFINE q == [msg |-> m, piece |-> i]
<1>1. /\ m \in Message /\ Number(m) \in Nat /\ i \in 1..Number(m) /\ m = ThisMessage
      /\ m[1] = slot /\ m[2] = life /\ i \in Nat
  <2>1. m \in Message /\ i \in 1..Number(m)
    BY JobIs DEF ProactiveInv, JobIsTrue
  <2>2. Number(m) \in Nat
    BY <2>1, NumberIs
  <2>3. m = ThisMessage
    BY DEF ProactiveInv, JobFits, NoJob
  <2>4. QED
    BY <2>1, <2>2, <2>3, ThisIs DEF ProactiveInv
<1>2. q \in Parcel /\ inbox \in Seq(Parcel) /\ inbox' = Append(inbox, q)
  BY <1>1 DEF Parcel, Arrives, ProactiveInv, ProcessTypes
<1>3. q.msg = m /\ q.piece = i
  OBVIOUS
<1> HIDE DEF q
<1>4. /\ inbox' \in Seq(Parcel) /\ Len(inbox) \in Nat /\ DOMAIN inbox = 1..Len(inbox)
      /\ DOMAIN inbox' = 1..(Len(inbox) + 1) /\ inbox'[Len(inbox) + 1] = q
      /\ \A n \in DOMAIN inbox : inbox'[n] = inbox[n]
  BY <1>2
<1>5. /\ \A k \in 1..(i - 1) : Arrivals(m, k) # {}
      /\ \A k \in i..Number(m) : Arrivals(m, k) = {}
  BY DEF ProactiveInv, JobIsTrue
<1>6. \A n \in DOMAIN inbox : inbox[n] # q
  BY <1>1, <1>3, <1>5 DEF Arrivals
<1>7. InboxFits'
  <2>1. \A n \in DOMAIN inbox' : /\ inbox'[n].piece \in 1..Number(inbox'[n].msg)
                                 /\ inbox'[n].msg[2] <= life
                                 /\ inbox'[n].msg[2] = life => inbox'[n].msg[1] <= slot
    <3>1. i \in 1..Number(m) /\ m[2] <= life /\ m[1] <= slot
      BY <1>1, ThisIs DEF ProactiveInv
    <3>2. QED
      BY <1>3, <1>4, <3>1 DEF ProactiveInv, InboxFits
  <2>2. \A n, k \in DOMAIN inbox' : inbox'[n] = inbox'[k] => n = k
    BY <1>4, <1>6 DEF ProactiveInv, InboxFits
  <2>3. QED
    BY <2>1, <2>2 DEF InboxFits
<1>8. \A k \in 1..(i - 1) : Arrivals(m, k)' # {}
  BY <1>4, <1>5 DEF Arrivals
<1>9. Arrivals(m, i)' # {}
  BY <1>3, <1>4 DEF Arrivals
<1>10. \A k \in 1..i : Arrivals(m, k)' # {}
  BY <1>1, <1>8, <1>9
<1>11. \A k \in (i + 1)..Number(m) : Arrivals(m, k)' = {}
  BY <1>1, <1>3, <1>4, <1>5 DEF Arrivals
<1>12. QED
  BY <1>4, <1>7, <1>10, <1>11

(* What a post changes: the job, and the inbox when a piece arrives.        *)
LEMMA PostedStep ==
    ASSUME ProactiveInv, NEW m, NEW i, NEW x, job[poster].state = "posting",
           m = job[poster].msg, i = job[poster].piece, stage # "down",
           job' = [job EXCEPT ![poster] = x], x \in JobType, x.msg = m, x # NoJob,
           inbox' = inbox \/ Arrives(poster), JobIsTrue',
           UNCHANGED <<now, row, tick, owner, stage, life>>
    PROVE  ProactiveInv'
<1>1. /\ m = ThisMessage
      /\ tick.pc = "sending" \/ (tick = NoTick /\ stage = "stopping")
  BY DEF ProactiveInv, JobFits, NoJob
<1>2. StateRow'
  BY DEF row, ProactiveInv, StateRow
<1>3. inbox' \in Seq(Parcel) /\ InboxFits'
  <2>1. CASE inbox' = inbox
    BY <2>1 DEF row, ProactiveInv, ProcessTypes, InboxFits
  <2>2. CASE Arrives(poster)
    BY <2>2, ArrivalStep DEF row
  <2>3. QED
    BY <2>1, <2>2
<1>4. job' \in [Thread -> JobType] /\ job'[poster] = x
  BY Bounds DEF ProactiveInv, ProcessTypes
<1>5. ProcessTypes'
  BY <1>3, <1>4 DEF ProactiveInv, ProcessTypes
<1>6. JobFits'
  BY <1>1, <1>4 DEF JobFits, ThisMessage, row, NoTick, ProactiveInv
<1>7. TickFits'
  BY <1>1 DEF TickFits, ProactiveInv, row, NoTick
<1>8. QED
  BY <1>2, <1>3, <1>5, <1>6, <1>7 DEF ProactiveInv

LEMMA PostsStep ==
    ASSUME ProactiveInv, Posts
    PROVE  ProactiveInv'
<1> DEFINE j == job[poster]
<1>1. PICK m, i, a : m = j.msg /\ i = j.piece /\ a = j.attempt
  OBVIOUS
<1>2. /\ j.state = "posting" /\ stage # "down" /\ UNCHANGED <<now, row, tick, owner, stage, life>>
      /\ UNCHANGED <<slot, life>>
  BY DEF Posts, Post, PostOk, PostNoConnection, PostUncertain, PostRefused, row
<1>3. /\ m \in Message /\ i \in Nat /\ a \in 1..MaxAttempts /\ i \in 1..Number(m)
      /\ Number(m) \in Nat
      /\ \A k \in 1..(i - 1) : Arrivals(m, k) # {}
      /\ \A k \in i..Number(m) : Arrivals(m, k) = {}
  BY <1>1, <1>2, JobIs, NumberIs DEF ProactiveInv, JobIsTrue
<1>4. job \in [Thread -> JobType] /\ poster \in Thread
  BY Bounds DEF ProactiveInv, ProcessTypes
<1>5. ASSUME NEW how \in {"safe", "unsafe"}, how = "safe" => i = 1 /\ inbox' = inbox,
             job' = [job EXCEPT ![poster] = Ended(m, how)], inbox' = inbox \/ Arrives(poster)
      PROVE  ProactiveInv'
  <2>1. PICK x : x = Ended(m, how)
    OBVIOUS
  <2>2. x \in JobType /\ x.msg = m /\ x # NoJob /\ x.state = how
    BY <1>3, <2>1 DEF Ended, JobType, NoJob, SendEnds
  <2>3. job'[poster] = x
    BY <1>4, <1>5, <2>1
  <2>4. how = "safe" => NoneArrived(m)'
    BY <1>3, <1>5 DEF NoneArrived, Arrivals, Number
  <2>5. JobIsTrue'
    BY <2>2, <2>3, <2>4 DEF JobIsTrue
  <2>6. QED
    BY <1>1, <1>2, <1>5, <2>1, <2>2, <2>5, PostedStep
<1>6. CASE PostOk(poster)
  <2>1. PICK x : x = IF i < Number(m) THEN Posting(m, i + 1, 1) ELSE Ended(m, "sent")
    OBVIOUS
  <2>2. job' = [job EXCEPT ![poster] = x] /\ Arrives(poster)
    BY <1>1, <1>4, <1>6, <2>1 DEF PostOk, Number
  <2>3. /\ x \in JobType /\ x.msg = m /\ x # NoJob
        /\ x.state = "posting" => i < Number(m) /\ x.piece = i + 1
        /\ x.state = "sent" => ~(i < Number(m))
        /\ x.state \in {"posting", "sent"}
    BY <1>3, <2>1, Bounds DEF Ended, Posting, JobType, NoJob, SendEnds
  <2>4. job'[poster] = x
    BY <1>4, <2>2
  <2>5. /\ \A k \in 1..i : Arrivals(m, k)' # {}
        /\ \A k \in (i + 1)..Number(m) : Arrivals(m, k)' = {}
    BY <1>1, <1>2, <2>2, ArrivalStep
  <2>6. x.state = "posting" =>
          /\ x.piece \in 1..Number(m)
          /\ \A k \in 1..(x.piece - 1) : Arrivals(m, k)' # {}
          /\ \A k \in x.piece..Number(m) : Arrivals(m, k)' = {}
    BY <1>3, <2>3, <2>5
  <2>7. x.state = "sent" => AllArrived(m)'
    BY <1>3, <2>3, <2>5 DEF AllArrived, Number
  <2>8. JobIsTrue'
    BY <2>3, <2>4, <2>6, <2>7 DEF JobIsTrue
  <2>9. inbox' = inbox \/ Arrives(poster)
    BY <2>2
  <2>10. QED
    BY <1>1, <1>2, <2>1, <2>2, <2>3, <2>8, <2>9, PostedStep
<1>7. CASE PostNoConnection(poster)
  <2>1. CASE a < MaxAttempts
    <3>1. PICK x : x = Posting(m, i, a + 1)
      OBVIOUS
    <3>2. job' = [job EXCEPT ![poster] = x] /\ inbox' = inbox
      BY <1>1, <1>4, <1>7, <2>1, <3>1 DEF PostNoConnection
    <3>3. x \in JobType /\ x.msg = m /\ x # NoJob /\ x.state = "posting" /\ x.piece = i
      BY <1>3, <2>1, <3>1, Bounds DEF Posting, JobType, NoJob
    <3>4. job'[poster] = x
      BY <1>4, <3>2
    <3>5. JobIsTrue'
      BY <1>3, <3>2, <3>3, <3>4 DEF JobIsTrue, Arrivals
    <3>6. inbox' = inbox \/ Arrives(poster)
      BY <3>2
    <3>7. QED
      BY <1>1, <1>2, <3>1, <3>2, <3>3, <3>5, <3>6, PostedStep
  <2>2. CASE ~(a < MaxAttempts)
    <3>1. /\ job' = [job EXCEPT ![poster] = Ended(m, IF i = 1 THEN "safe" ELSE "unsafe")]
          /\ inbox' = inbox
      BY <1>1, <1>4, <1>7, <2>2 DEF PostNoConnection, Failure
    <3>2. PICK how \in {"safe", "unsafe"} : how = IF i = 1 THEN "safe" ELSE "unsafe"
      OBVIOUS
    <3>3. QED
      BY <1>5, <3>1, <3>2
  <2>3. QED
    BY <2>1, <2>2
<1>8. CASE PostUncertain(poster) \/ PostRefused(poster)
  <2>1. /\ job' = [job EXCEPT ![poster] = Ended(m, "unsafe")]
        /\ inbox' = inbox \/ Arrives(poster)
    BY <1>1, <1>4, <1>8 DEF PostUncertain, PostRefused, Failure
  <2>2. QED
    BY <1>5, <2>1
<1>9. QED
  BY <1>6, <1>7, <1>8 DEF Posts, Post

LEMMA MarkSentStep ==
    ASSUME ProactiveInv, MarkSent
    PROVE  ProactiveInv'
<1>1. /\ stage # "down" /\ tick.pc = "sending" /\ tick # NoTick
      /\ job' = [job EXCEPT ![poster] = NoJob] /\ lastSent' = ThisMessage
      /\ tick' = [tick EXCEPT !.pc = "marked"]
      /\ UNCHANGED <<now, config, paused, activity, candidate, slot, owner, stage, life, inbox>>
  BY DEF MarkSent, SendHasEnded, Take, NoTick
<1>2. StateRow'
  BY <1>1, ThisIs DEF ProactiveInv, StateRow
<1>3. tick' \in TickType /\ tick'.pc = "marked" /\ tick' # NoTick
  BY <1>1, TickIs DEF ProactiveInv, TickType, TickPc, NoTick
<1>4. job' \in [Thread -> JobType] /\ job'[poster] = NoJob
  BY <1>1, Bounds DEF ProactiveInv, ProcessTypes, JobType
<1>5. ProcessTypes'
  BY <1>1, <1>3, <1>4 DEF ProactiveInv, ProcessTypes
<1>6. InboxFits' /\ JobFits' /\ JobIsTrue'
  BY <1>1, <1>4 DEF ProactiveInv, InboxFits, JobFits, JobIsTrue, NoJob
<1>7. TickFits'
  BY <1>1, <1>3 DEF ProactiveInv, TickFits
<1>8. QED
  BY <1>2, <1>5, <1>6, <1>7 DEF ProactiveInv

(* Only a send that delivered nothing is tried again.                       *)
LEMMA SendAgainStep ==
    ASSUME ProactiveInv, SendAgain
    PROVE  ProactiveInv'
<1>1. /\ stage # "down" /\ tick.pc = "sending" /\ tick # NoTick
      /\ job[poster].state \in {"safe", "nothing"} /\ tick.attempt < MaxSends
      /\ job' = [job EXCEPT ![poster] = NoJob]
      /\ tick' = [tick EXCEPT !.pc = "pausing", !.attempt = @ + 1]
      /\ UNCHANGED <<now, config, paused, activity, candidate, lastSent, slot, owner, stage, life,
                     inbox>>
  BY DEF SendAgain, SendHasEnded, Take, NoTick, row
<1>2. StateRow'
  BY <1>1 DEF ProactiveInv, StateRow
<1>3. tick' \in TickType /\ tick'.pc = "pausing" /\ tick' # NoTick
  <2>1. tick \in TickType
    BY <1>1, TickIs DEF ProactiveInv
  <2>2. tick.attempt + 1 \in 1..MaxSends
    BY <1>1, <2>1, Bounds DEF TickType
  <2>3. tick' = [tick EXCEPT !.pc = "pausing", !.attempt = tick.attempt + 1]
    BY <1>1, <2>1 DEF TickType
  <2>4. QED
    BY <2>1, <2>2, <2>3 DEF TickType, TickPc, NoTick
<1>4. job' \in [Thread -> JobType] /\ job'[poster] = NoJob
  BY <1>1, Bounds DEF ProactiveInv, ProcessTypes, JobType
<1>5. ProcessTypes'
  BY <1>1, <1>3, <1>4 DEF ProactiveInv, ProcessTypes
<1>6. InboxFits' /\ JobFits' /\ JobIsTrue'
  BY <1>1, <1>4 DEF ProactiveInv, InboxFits, JobFits, JobIsTrue, NoJob
<1>7. NoneArrived(ThisMessage)
  BY <1>1 DEF ProactiveInv, JobFits, JobIsTrue, NoJob
<1>8. TickFits'
  BY <1>1, <1>3, <1>7 DEF ProactiveInv, TickFits, ThisMessage, NoneArrived, Arrivals
<1>9. QED
  BY <1>2, <1>5, <1>6, <1>8 DEF ProactiveInv

LEMMA GiveUpStep ==
    ASSUME ProactiveInv, GiveUp
    PROVE  ProactiveInv'
<1>1. /\ stage # "down" /\ tick.pc = "sending" /\ tick # NoTick
      /\ ScheduleNext(tick.local) /\ tick' = NoTick
      /\ job' = [job EXCEPT ![poster] = NoJob]
      /\ UNCHANGED <<now, config, paused, activity, lastSent, owner, stage, life, inbox>>
  BY DEF GiveUp, SendHasEnded, Take, NoTick
<1>2. tick.local \in 0..Horizon
  BY <1>1, TickIs DEF ProactiveInv, TickType
<1>3. paused' \in {Unset} \cup 0..Forever /\ lastSent' \in {Unset} \cup Message
  BY <1>1 DEF ProactiveInv, StateRow
<1>4. QED
  BY <1>1, <1>2, <1>3, ScheduledStep

LEMMA RescheduleSentStep ==
    ASSUME ProactiveInv, RescheduleSent
    PROVE  ProactiveInv'
<1>1. /\ stage # "down" /\ tick.pc = "marked" /\ tick # NoTick
      /\ ScheduleNext(now) /\ tick' = NoTick
      /\ UNCHANGED <<now, config, paused, activity, lastSent, owner, stage, life, job, inbox>>
  BY DEF RescheduleSent, senderVars, NoTick
<1>2. job' = [job EXCEPT ![poster] = NoJob]
  BY <1>1, NoJobBut, IdleJob
<1>3. /\ paused' \in {Unset} \cup 0..Forever /\ lastSent' \in {Unset} \cup Message
      /\ now \in 0..Horizon
  BY <1>1 DEF ProactiveInv, StateRow
<1>4. QED
  BY <1>1, <1>2, <1>3, ScheduledStep

(* What the owner and the clock do while a message is on its way.           *)
LEMMA OwnerStep ==
    ASSUME ProactiveInv, StateRow',
           UNCHANGED <<candidate, slot, tick, owner, stage, life, job, inbox>>
    PROVE  ProactiveInv'
<1>1. ProcessTypes' /\ TickFits'
  BY DEF ProactiveInv, ProcessTypes, TickFits, ThisMessage, NoneArrived, Arrivals
<1>2. QED
  BY <1>1, RowStep DEF ProactiveInv, JobFits

(* The first candidate is drawn before any tick began.                      *)
LEMMA FirstCandidateStep ==
    ASSUME ProactiveInv, NEW on, FirstCandidate(on), stage = "up",
           config' \in Config, paused' \in {Unset} \cup 0..Forever,
           UNCHANGED <<now, activity, lastSent, tick, owner, stage, life, job, inbox>>
    PROVE  ProactiveInv'
<1>1. CASE UNCHANGED <<candidate, slot>>
  <2>1. StateRow'
    BY <1>1 DEF ProactiveInv, StateRow
  <2>2. QED
    BY <1>1, <2>1, OwnerStep
<1>2. CASE candidate = Unset /\ slot' = slot + 1
           /\ candidate' \in {Later} \cup now..Horizon
  <2>1. slot = 0 /\ tick = NoTick /\ tick.pc # "sending"
    BY <1>2 DEF ProactiveInv, TickFits, NoTick
  <2>2. job[poster] = NoJob
    BY <2>1, NoJobBut
  <2>3. slot' \in 0..MaxSlots /\ candidate' \in 0..Later /\ candidate' # Unset
    BY <1>2, <2>1, Bounds DEF ProactiveInv, StateRow
  <2>4. StateRow' /\ ProcessTypes'
    BY <2>3 DEF ProactiveInv, StateRow, ProcessTypes
  <2>5. InboxFits'
    BY <1>2, <2>1, InboxIs DEF ProactiveInv, InboxFits
  <2>6. JobFits' /\ JobIsTrue'
    BY <2>2 DEF JobFits, JobIsTrue, NoJob
  <2>7. NoneArrived(<<slot + 1, life>>)
    BY <2>1, ThisIs, AheadIsFresh DEF ProactiveInv
  <2>8. TickFits'
    BY <1>2, <2>1, <2>3, <2>7 DEF TickFits, ThisMessage, NoneArrived, Arrivals, NoTick
  <2>9. QED
    BY <2>4, <2>5, <2>6, <2>8 DEF ProactiveInv
<1>3. QED
  BY <1>1, <1>2 DEF FirstCandidate

LEMMA StopStep ==
    ASSUME ProactiveInv, StopProactive \/ CancelTick
    PROVE  ProactiveInv'
<1>1. /\ stage' = "stopping" /\ stage # "down"
      /\ tick' = tick \/ tick' = NoTick
      /\ UNCHANGED <<now, config, paused, activity, candidate, lastSent, slot, owner, life, job,
                     inbox>>
  BY DEF StopProactive, CancelTick, row, senderVars
<1>2. StateRow' /\ ProcessTypes'
  BY <1>1 DEF ProactiveInv, StateRow, ProcessTypes
<1>3. TickFits'
  BY <1>1 DEF ProactiveInv, TickFits, ThisMessage, NoneArrived, Arrivals, NoTick
<1>4. job[poster] # NoJob => tick'.pc = "sending" \/ (tick' = NoTick /\ stage' = "stopping")
  BY <1>1 DEF ProactiveInv, JobFits
<1>5. QED
  BY <1>1, <1>2, <1>3, <1>4, RowStep

LEMMA DownStep ==
    ASSUME ProactiveInv, Exit \/ CrashProactive
    PROVE  ProactiveInv'
<1>1. /\ stage' = "down" /\ tick' = NoTick /\ job' = [job EXCEPT ![poster] = NoJob]
      /\ UNCHANGED <<now, config, paused, activity, candidate, lastSent, slot, owner, life, inbox>>
  BY DEF Exit, CrashProactive, row
<1>2. job' \in [Thread -> JobType] /\ job'[poster] = NoJob
  BY <1>1, Bounds DEF ProactiveInv, ProcessTypes, JobType
<1>3. StateRow' /\ ProcessTypes'
  BY <1>1, <1>2 DEF ProactiveInv, StateRow, ProcessTypes
<1>4. InboxFits' /\ JobFits' /\ JobIsTrue'
  BY <1>1, <1>2 DEF ProactiveInv, InboxFits, JobFits, JobIsTrue, NoJob
<1>5. TickFits'
  BY <1>1 DEF ProactiveInv, TickFits, NoTick
<1>6. QED
  BY <1>3, <1>4, <1>5 DEF ProactiveInv

(* A new life has sent nothing.                                             *)
LEMMA RestartProactiveStep ==
    ASSUME ProactiveInv, RestartProactive
    PROVE  ProactiveInv'
<1>1. /\ stage = "down" /\ stage' = "up" /\ life' = life + 1 /\ life < MaxLives
      /\ UNCHANGED <<now, config, paused, activity, candidate, lastSent, slot, tick, owner, job,
                     inbox>>
      /\ tick = NoTick /\ tick.pc # "sending" /\ job[poster] = NoJob
  BY DEF RestartProactive, row, senderVars, ProactiveInv, TickFits, JobFits, NoTick
<1>2. life \in Nat /\ slot \in Nat /\ life' \in 1..MaxLives
  BY <1>1, Bounds, ThisIs DEF ProactiveInv, ProcessTypes
<1>3. StateRow' /\ ProcessTypes'
  BY <1>1, <1>2 DEF ProactiveInv, StateRow, ProcessTypes
<1>4. InboxFits'
  BY <1>1, <1>2, InboxIs DEF ProactiveInv, InboxFits
<1>5. JobFits' /\ JobIsTrue'
  BY <1>1 DEF JobFits, JobIsTrue, NoJob
<1>6. NoneArrived(<<slot, life + 1>>)
  BY <1>2, AheadIsFresh DEF ProactiveInv
<1>7. TickFits'
  BY <1>1, <1>6 DEF ProactiveInv, TickFits, ThisMessage, NoneArrived, Arrivals, NoTick
<1>8. QED
  BY <1>3, <1>4, <1>5, <1>7 DEF ProactiveInv

LEMMA ProactiveStarts ==
    ASSUME now = 0, config \in Config, paused = Unset, activity = Unset, candidate = Unset,
           lastSent = Unset, slot = 0, tick = NoTick, owner \in BOOLEAN,
           stage \in {"up", "down"}, life = 1, SenderInit
    PROVE  ProactiveInv
<1>1. job \in [Thread -> JobType] /\ job[poster] = NoJob /\ inbox = <<>> /\ inbox \in Seq(Parcel)
  BY Bounds DEF SenderInit, JobType
<1>2. StateRow /\ ProcessTypes
  BY <1>1, Bounds DEF StateRow, ProcessTypes
<1>3. NoneArrived(ThisMessage)
  BY <1>1 DEF NoneArrived, Arrivals
<1>4. InboxFits /\ JobFits /\ JobIsTrue
  BY <1>1 DEF InboxFits, JobFits, JobIsTrue, NoJob
<1>5. TickFits
  BY <1>3 DEF TickFits, NoTick
<1>6. QED
  BY <1>2, <1>4, <1>5 DEF ProactiveInv

LEMMA ProactiveSteps ==
    ASSUME ProactiveInv, [ProactiveNext]_proactiveVars
    PROVE  ProactiveInv'
<1>1. CASE TickStarts
  BY <1>1, TickStartsStep
<1>2. CASE ComposeFails
  BY <1>2, ComposeFailsStep
<1>3. CASE DropMessage
  BY <1>3, DropMessageStep
<1>4. CASE SendMessage
  BY <1>4, SendMessageStep
<1>5. CASE MarkSent
  BY <1>5, MarkSentStep
<1>6. CASE SendAgain
  BY <1>6, SendAgainStep
<1>7. CASE GiveUp
  BY <1>7, GiveUpStep
<1>8. CASE RescheduleSent
  BY <1>8, RescheduleSentStep
<1>9. CASE Posts
  BY <1>9, PostsStep
<1>10. CASE MarkActivity
  <2>1. StateRow'
    BY <1>10 DEF MarkActivity, ProactiveInv, StateRow
  <2>2. QED
    BY <1>10, <2>1, OwnerStep DEF MarkActivity, senderVars
<1>11. CASE Resume
  <2>1. config' \in Config /\ paused' \in {Unset} \cup 0..Forever
    BY <1>11 DEF Resume, ProactiveInv, StateRow
  <2>2. QED
    BY <1>11, <2>1, FirstCandidateStep DEF Resume, senderVars
<1>12. ASSUME NEW c \in Config, UpdateConfig(c) PROVE ProactiveInv'
  <2>1. config' \in Config /\ paused' \in {Unset} \cup 0..Forever
    BY <1>12 DEF UpdateConfig, ProactiveInv, StateRow
  <2>2. QED
    BY <1>12, <2>1, FirstCandidateStep DEF UpdateConfig, senderVars
<1>13. ASSUME NEW u \in PauseEnd, Pause(u) PROVE ProactiveInv'
  <2>1. StateRow'
    BY <1>13, ProactiveAssumption DEF Pause, ProactiveInv, StateRow
  <2>2. QED
    BY <1>13, <2>1, OwnerStep DEF Pause, senderVars
<1>14. CASE ClockTicks
  <2>1. StateRow'
    BY <1>14, Bounds DEF ClockTicks, row, ProactiveInv, StateRow
  <2>2. QED
    BY <1>14, <2>1, OwnerStep DEF ClockTicks, row, senderVars
<1>15. CASE StopProactive \/ CancelTick
  BY <1>15, StopStep
<1>16. CASE Exit \/ CrashProactive
  BY <1>16, DownStep
<1>17. CASE RestartProactive
  BY <1>17, RestartProactiveStep
<1>18. CASE UNCHANGED proactiveVars
  <2>1. StateRow'
    BY <1>18 DEF proactiveVars, ProactiveInv, StateRow
  <2>2. QED
    BY <1>18, <2>1, OwnerStep DEF proactiveVars
<1>19. QED
  BY <1>1, <1>2, <1>3, <1>4, <1>5, <1>6, <1>7, <1>8, <1>9, <1>10, <1>11, <1>12, <1>13, <1>14,
     <1>15, <1>16, <1>17, <1>18 DEF ProactiveNext, TickSteps

LEMMA ProactiveTypesAreOK ==
    ASSUME ProactiveInv
    PROVE  ProactiveTypeOK
<1>1. tick = NoTick \/ tick \in TickType
  BY DEF ProactiveInv, ProcessTypes
<1>2. SenderTypeOK
  <2>1. \A n \in DOMAIN inbox : /\ inbox[n].msg \in Message
                                /\ inbox[n].piece \in 1..Len(PiecesOf(inbox[n].msg))
    BY InboxIs DEF ProactiveInv, InboxFits, Number
  <2>2. \/ job[poster] = NoJob
        \/ \E m \in Message, how \in SendEnds : job[poster] = Ended(m, how)
        \/ \E m \in Message, a \in 1..MaxAttempts :
              \E i \in 1..Len(PiecesOf(m)) : job[poster] = Posting(m, i, a)
    <3>1. CASE job[poster].state \in SendEnds
      <4>1. job[poster] \in [state : SendEnds, msg : Message]
        BY <3>1, JobIs DEF ProactiveInv
      <4>2. job[poster] = Ended(job[poster].msg, job[poster].state)
        BY <4>1 DEF Ended
      <4>3. QED
        BY <4>1, <4>2
    <3>2. CASE job[poster].state = "posting"
      <4>1. job[poster] \in [state : {"posting"}, msg : Message, piece : Nat,
                             attempt : 1..MaxAttempts]
        BY <3>2, JobIs DEF ProactiveInv
      <4>2. job[poster] = Posting(job[poster].msg, job[poster].piece, job[poster].attempt)
        BY <4>1 DEF Posting
      <4>3. job[poster].piece \in 1..Len(PiecesOf(job[poster].msg))
        BY <3>2 DEF ProactiveInv, JobIsTrue, Number
      <4>4. QED
        BY <4>1, <4>2, <4>3
    <3>3. QED
      BY <3>1, <3>2, JobIs DEF ProactiveInv
  <2>3. QED
    BY <2>1, <2>2, Bounds DEF SenderTypeOK
<1>3. QED
  BY <1>1, <1>2 DEF ProactiveInv, StateRow, ProcessTypes, ProactiveTypeOK, TickType

LEMMA ArrivalsAreSingle ==
    ASSUME ProactiveInv
    PROVE  DeliveredOnce /\ SafeMeansNothingSent
<1>1. ASSUME NEW m \in Message, NEW i \in 1..Len(PiecesOf(m))
      PROVE  Cardinality(Arrivals(m, i)) <= 1
  <2>1. \A n, k \in Arrivals(m, i) : n = k
    <3> SUFFICES ASSUME NEW n \in Arrivals(m, i), NEW k \in Arrivals(m, i)
                 PROVE  n = k
      OBVIOUS
    <3>1. /\ n \in DOMAIN inbox /\ inbox[n].msg = m /\ inbox[n].piece = i
          /\ k \in DOMAIN inbox /\ inbox[k].msg = m /\ inbox[k].piece = i
      BY DEF Arrivals
    <3>2. inbox[n] \in Parcel /\ inbox[k] \in Parcel
      BY <3>1, InboxIs DEF ProactiveInv
    <3>3. inbox[n] = inbox[k]
      BY <3>1, <3>2 DEF Parcel
    <3>4. QED
      BY <3>1, <3>3 DEF ProactiveInv, InboxFits
  <2>2. CASE Arrivals(m, i) = {}
    BY <2>2, FS_EmptySet
  <2>3. CASE Arrivals(m, i) # {}
    <3>1. PICK n : Arrivals(m, i) = {n}
      BY <2>1, <2>3
    <3>2. Cardinality({n}) = 1
      BY FS_Singleton
    <3>3. QED
      BY <3>1, <3>2
  <2>4. QED
    BY <2>2, <2>3
<1>2. DeliveredOnce
  BY <1>1 DEF DeliveredOnce
<1>3. SafeMeansNothingSent
  BY Bounds DEF SafeMeansNothingSent, ProactiveInv, JobIsTrue
<1>4. QED
  BY <1>2, <1>3

(* A send begins in one step alone, the one after the check.                *)
LEMMA BeginsAreChecked ==
    ASSUME ProactiveInv, [ProactiveNext]_proactiveVars,
           job[poster].state = "idle", job'[poster].state # "idle"
    PROVE  /\ config.enabled /\ paused' = Unset
           /\ ~InQuiet(now, config)
           /\ activity = tick.activity /\ SuppressedUntil(config) <= now
           /\ now <= candidate + config.grace
<1>1. SendMessage
  <2>1. job'[poster] # job[poster] /\ job'[poster] # NoJob
    BY DEF NoJob
  <2>2. ~ Take(poster) /\ ~ Post(poster)
    BY DEF Take, SendEnds, Post, PostOk, PostNoConnection, PostUncertain, PostRefused
  <2>3. job \in [Thread -> JobType] /\ poster \in Thread
    BY Bounds DEF ProactiveInv, ProcessTypes
  <2>4. ~ Exit /\ ~ CrashProactive
    BY <2>1, <2>3 DEF Exit, CrashProactive
  <2>5. job' # job
    BY <2>1
  <2>6. QED
    BY <2>2, <2>4, <2>5
    DEF ProactiveNext, TickSteps, proactiveVars, TickStarts, ComposeFails, DropMessage,
        SendHasEnded, MarkSent, SendAgain, GiveUp, RescheduleSent, Posts, MarkActivity, Resume,
        UpdateConfig, Pause, ClockTicks, StopProactive, CancelTick, RestartProactive, senderVars
<1>2. /\ CheckPoint /\ ~SwitchedOff /\ ~Outdated /\ candidate = tick.candidate
      /\ paused' = PausedNow
  BY <1>1 DEF SendMessage, MayDeliver
<1>3. config.enabled /\ paused' = Unset
  BY <1>2, ProactiveAssumption DEF SwitchedOff, ProactiveInv, StateRow
<1>4. ~InQuiet(now, config) /\ activity = tick.activity /\ ~(now < SuppressedUntil(config))
      /\ ~(now > candidate + config.grace)
  BY <1>2 DEF Outdated, Disturbing, Expired
<1>5. /\ now \in Nat /\ SuppressedUntil(config) \in Nat /\ candidate \in Nat /\ config.grace \in Nat
  <2>1. config.suppress \in Nat /\ config.grace \in Nat /\ now \in Nat
    BY ProactiveAssumption DEF ProactiveInv, StateRow
  <2>2. candidate \in Nat
    BY <1>2, TickIs, Bounds DEF CheckPoint, ProactiveInv, TickType, NoTick
  <2>3. SuppressedUntil(config) \in Nat
    BY <2>1, Bounds DEF SuppressedUntil, ProactiveInv, StateRow
  <2>4. QED
    BY <2>1, <2>2, <2>3
<1>6. QED
  BY <1>3, <1>4, <1>5

LEMMA SentIsWhole ==
    ASSUME ProactiveInv, [ProactiveNext]_proactiveVars, lastSent' # lastSent
    PROVE  AllArrived(ThisMessage)
<1>1. MarkSent
  BY DEF ProactiveNext, TickSteps, proactiveVars, TickStarts, ComposeFails, DropMessage,
        SendMessage, SendAgain, GiveUp, RescheduleSent, Posts, MarkActivity, Resume, row,
        UpdateConfig, Pause, ClockTicks, StopProactive, CancelTick, RestartProactive, Exit,
        CrashProactive
<1>2. QED
  BY <1>1 DEF MarkSent, ProactiveInv, JobFits, JobIsTrue, NoJob

(* The inductive invariant of the proactive messages: the inbox holds no    *)
(* piece twice, the thread's report is true of it, and what may be sent     *)
(* again has not arrived in part (ProactiveScheduler, OneBotSender).        *)
THEOREM ProactiveInductive == ProactiveSpec => []ProactiveInv
<1>1. ProactiveInit => ProactiveInv
  BY ProactiveStarts DEF ProactiveInit
<1>2. QED
  BY <1>1, ProactiveSteps, PTL DEF ProactiveSpec

-----------------------------------------------------------------------------
(* MemoryMaintenance.                                                       *)

Seqno == 0..MaxMessages
JobRow == [target : Seqno, completed : Seqno, summary : Seqno, due : BOOLEAN]
WaitType == [at : {"wait"}, stage : Stage, session : Sessions, upto : Seqno]
BusyType == [at : {"busy"}, stage : Stage, session : Sessions, upto : Seqno, done : Seqno]
WorkType ==
    {Resting} \cup WaitType \cup BusyType
    \cup [at : {"cancelled"}, of : WaitType \cup BusyType]

MaintenanceTypes ==
    /\ messages \in [Sessions -> Seqno]
    /\ alive \in SUBSET Sessions
    /\ jobs \in [Sessions -> JobRow]
    /\ order \in SetToSeqs(Sessions)
    /\ extracted \in [Sessions -> Seqno]
    /\ manuals \in Nat /\ failures \in Nat /\ restarts \in Nat
    /\ manuals + failures + restarts <= MaxMishaps
    /\ work \in [Worker -> WorkType]
    /\ locks \in [Sessions -> [Stage -> Worker \cup {"free"}]]
    /\ chat \in [Sessions -> Chats]
    /\ foreground \in Nat
    /\ turns \in 0..MaxTurns
    /\ cooling \in BOOLEAN
    /\ heard \in [Sessions -> [1..MaxMessages -> Nat]]
    /\ told \in [Sessions -> [1..MaxMessages -> Nat]]

(* Who works on a stage of a session holds its lock, and nobody else does;  *)
(* a cancelled pass holds it until it has unwound.                          *)
IsAt(x, s, g) == x.at = "busy" /\ x.session = s /\ x.stage = g
Holds(x, s, g) == IsAt(x, s, g) \/ (x.at = "cancelled" /\ IsAt(x.of, s, g))

LocksFit ==
    \A w \in Worker, s \in Sessions, g \in Stage :
        Holds(work[w], s, g) <=> locks[s][g] = w

(* Under its lock a worker is as far as the checkpoint, and a pass          *)
(* summarizes what is extracted.                                            *)
WorkFits ==
    /\ \A w \in Worker : work[w].at = "busy" =>
           work[w].done = Checkpoint(work[w].stage, work[w].session)
    /\ work["pass"].at \in {"wait", "busy"} /\ work["pass"].stage = "summary" =>
           work["pass"].upto <= extracted[work["pass"].session]

InForeground == {s \in Sessions : chat[s] \in {"begun", "asked"}}

MaintenanceInv ==
    /\ MaintenanceTypes
    /\ LocksFit
    /\ WorkFits
    /\ foreground = Cardinality(InForeground)
    /\ CompletedIsCovered
    /\ CheckpointsAreTrue

LEMMA MaxOfTwo ==
    ASSUME NEW a \in Int, NEW b \in Int
    PROVE  /\ Max({a, b}) = IF a >= b THEN a ELSE b
           /\ Min({a, b}) = IF a <= b THEN a ELSE b
<1> DEFINE m == IF a >= b THEN a ELSE b
           n == IF a <= b THEN a ELSE b
<1>1. /\ m \in {a, b} /\ \A y \in {a, b} : m >= y
      /\ n \in {a, b} /\ \A y \in {a, b} : n =< y
  OBVIOUS
<1>2. /\ \A x \in {a, b} : (\A y \in {a, b} : x >= y) => x = m
      /\ \A x \in {a, b} : (\A y \in {a, b} : x =< y) => x = n
  OBVIOUS
<1> HIDE DEF m, n
<1>3. Max({a, b}) = m /\ Min({a, b}) = n
  BY <1>1, <1>2, Zenon DEF Max, Min
<1>4. QED
  BY <1>3 DEF m, n

LEMMA MaxOfInterval ==
    ASSUME NEW a \in Int, NEW b \in Int, a <= b
    PROVE  /\ Max(a..b) = b
           /\ \A c \in Int : c <= b => Max({c} \cup a..b) = b
<1>1. b \in a..b /\ \A y \in a..b : b >= y
  OBVIOUS
<1>2. \A x \in a..b : (\A y \in a..b : x >= y) => x = b
  OBVIOUS
<1>3. Max(a..b) = b
  BY <1>1, <1>2, Zenon DEF Max
<1>4. ASSUME NEW c \in Int, c <= b PROVE Max({c} \cup a..b) = b
  <2> DEFINE S == {c} \cup a..b
  <2>1. b \in S /\ \A y \in S : b >= y
    BY <1>4
  <2>2. \A x \in S : (\A y \in S : x >= y) => x = b
    BY <1>4
  <2> HIDE DEF S
  <2>3. Max(S) = b
    BY <2>1, <2>2, Zenon DEF Max
  <2>4. QED
    BY <2>3 DEF S
<1>5. QED
  BY <1>3, <1>4

(* Every session has one place in the order of the jobs.                    *)
LEMMA PlaceIs ==
    ASSUME order \in SetToSeqs(Sessions), NEW s \in Sessions, NEW n, n = Cardinality(Sessions)
    PROVE  /\ n \in Nat /\ order \in [1..n -> Sessions] /\ DOMAIN order = 1..n
           /\ \A i, j \in 1..n : i # j => order[i] # order[j]
           /\ Place(s) \in 1..n /\ order[Place(s)] = s
<1>1. n \in Nat /\ IsFiniteSet(Sessions)
  BY MaintenanceAssumption, FS_CardinalityType
<1>2. /\ order \in [1..n -> Sessions] /\ DOMAIN order = 1..n
      /\ \A i, j \in 1..n : i # j => order[i] # order[j]
  BY DEF SetToSeqs
<1>3. order \in Injection(1..n, Sessions)
  BY <1>2 DEF Injection, IsInjective
<1>4. Cardinality(1..n) = n
  BY <1>1, FS_Interval
<1>5. order \in Surjection(1..n, Sessions)
  BY <1>1, <1>3, <1>4, FS_Injection
<1>6. \E i \in 1..n : order[i] = s
  BY <1>5 DEF Surjection
<1>7. Place(s) \in DOMAIN order /\ order[Place(s)] = s
  BY <1>2, <1>6, Zenon DEF Place
<1>8. QED
  BY <1>1, <1>2, <1>7

(* A session that is touched comes last; the others keep their order.       *)
LEMMA TouchedKeepsOrder ==
    ASSUME order \in SetToSeqs(Sessions), NEW s \in Sessions, Touched(s)
    PROVE  order' \in SetToSeqs(Sessions)
<1>1. PICK n, p : n = Cardinality(Sessions) /\ p = Place(s)
  OBVIOUS
<1>2. /\ n \in Nat /\ order \in [1..n -> Sessions] /\ DOMAIN order = 1..n
      /\ \A i, j \in 1..n : i # j => order[i] # order[j]
      /\ p \in 1..n /\ order[p] = s
  BY <1>1, PlaceIs
<1> DEFINE front == SubSeq(order, 1, p - 1)
           back  == SubSeq(order, p + 1, n)
<1>3. order \in Seq(Sessions) /\ Len(order) = n
  BY <1>2
<1>4. order' = Append(front \o back, s)
  BY <1>1, <1>3 DEF Touched, RemoveAt
<1>5. /\ front \in Seq(Sessions) /\ Len(front) = p - 1
      /\ \A i \in 1..(p - 1) : front[i] = order[i]
  <2>1. /\ 1 \in Int /\ p - 1 \in Int /\ \A i \in 1..(p - 1) : order[i] \in Sessions
        /\ p - 1 - 1 + 1 = p - 1
    BY <1>2
  <2>2. /\ front \in Seq(Sessions) /\ Len(front) = IF 1 <= p - 1 THEN p - 1 - 1 + 1 ELSE 0
        /\ \A i \in 1..(p - 1 - 1 + 1) : front[i] = order[1 + i - 1]
    BY <2>1, SubSeqProperties
  <2>3. QED
    BY <1>2, <2>1, <2>2
<1>6. /\ back \in Seq(Sessions) /\ Len(back) = n - p
      /\ \A i \in 1..(n - p) : back[i] = order[p + i]
  <2>1. /\ p + 1 \in Int /\ n \in Int /\ \A i \in (p + 1)..n : order[i] \in Sessions
    BY <1>2
  <2>2. /\ back \in Seq(Sessions)
        /\ Len(back) = IF p + 1 <= n THEN n - (p + 1) + 1 ELSE 0
        /\ \A i \in 1..(n - (p + 1) + 1) : back[i] = order[p + 1 + i - 1]
    BY <2>1, SubSeqProperties
  <2>3. QED
    BY <1>2, <2>2
<1> HIDE DEF front, back
<1>7. /\ front \o back \in Seq(Sessions) /\ Len(front \o back) = n - 1
      /\ \A i \in 1..(n - 1) : (front \o back)[i] = IF i <= p - 1 THEN order[i] ELSE order[i + 1]
  <2>1. /\ front \o back \in Seq(Sessions) /\ Len(front \o back) = (p - 1) + (n - p)
        /\ \A i \in 1..((p - 1) + (n - p)) :
              (front \o back)[i] = IF i <= p - 1 THEN front[i] ELSE back[i - (p - 1)]
    BY <1>5, <1>6, ConcatProperties
  <2>2. (p - 1) + (n - p) = n - 1
    BY <1>2
  <2>3. ASSUME NEW i \in 1..(n - 1)
        PROVE  (front \o back)[i] = IF i <= p - 1 THEN order[i] ELSE order[i + 1]
    <3>1. CASE i <= p - 1
      BY <1>2, <1>5, <2>1, <2>2, <3>1
    <3>2. CASE ~(i <= p - 1)
      <4>1. i - (p - 1) \in 1..(n - p) /\ p + (i - (p - 1)) = i + 1
        BY <1>2, <3>2
      <4>2. (front \o back)[i] = back[i - (p - 1)]
        BY <2>1, <2>2, <3>2
      <4>3. QED
        BY <1>6, <3>2, <4>1, <4>2
    <3>3. QED
      BY <3>1, <3>2
  <2>4. QED
    BY <2>1, <2>2, <2>3
<1>8. /\ order' \in Seq(Sessions) /\ Len(order') = n /\ order'[n] = s
      /\ \A i \in 1..(n - 1) : order'[i] = IF i <= p - 1 THEN order[i] ELSE order[i + 1]
  <2>1. /\ order' \in Seq(Sessions) /\ Len(order') = n - 1 + 1
        /\ \A i \in 1..(n - 1) : order'[i] = (front \o back)[i]
        /\ order'[n - 1 + 1] = s
    BY <1>4, <1>7, AppendProperties
  <2>2. n - 1 + 1 = n
    BY <1>2
  <2>3. QED
    BY <1>7, <2>1, <2>2
<1>9. order' \in [1..n -> Sessions]
  BY <1>2, <1>8
<1>10. \A i \in 1..n : i = n \/ i \in 1..(n - 1)
  BY <1>2
<1>11. \A i, j \in 1..n : i # j => order'[i] # order'[j]
  <2> SUFFICES ASSUME NEW i \in 1..n, NEW j \in 1..n, i # j, order'[i] = order'[j]
               PROVE  FALSE
    OBVIOUS
  <2> DEFINE was(k) == IF k = n THEN p ELSE IF k <= p - 1 THEN k ELSE k + 1
  <2>1. \A k \in 1..n : was(k) \in 1..n /\ order'[k] = order[was(k)]
    BY <1>2, <1>8, <1>10
  <2>2. was(i) # was(j)
    BY <1>2
  <2>3. QED
    BY <1>2, <2>1, <2>2
<1>12. QED
  BY <1>1, <1>9, <1>11 DEF SetToSeqs

LEMMA MaintenanceBounds ==
    /\ MaxMessages \in Nat /\ MaxTurns \in Nat /\ MaxMishaps \in Nat
    /\ ExtractBatch \in Nat \ {0} /\ SummaryBatch \in Nat \ {0} /\ Threshold \in Nat \ {0}
    /\ IsFiniteSet(Sessions) /\ Room \in [Sessions -> Seqno] /\ Seqno \subseteq Nat
BY MaintenanceAssumption DEF Seqno

LEMMA WorkIs ==
    ASSUME MaintenanceTypes, NEW w \in Worker
    PROVE  /\ work[w].at = "wait" => work[w] \in WaitType
           /\ work[w].at = "busy" => work[w] \in BusyType
           /\ work[w].at = "cancelled" => work[w].of \in WaitType \cup BusyType
           /\ work[w].at \in {"rest", "wait", "busy", "cancelled"}
           /\ work[w].at = "rest" <=> work[w] = Resting
BY DEF MaintenanceTypes, WorkType, WaitType, BusyType, Resting

LEMMA RowIs ==
    ASSUME MaintenanceTypes, NEW s \in Sessions
    PROVE  /\ jobs[s] \in JobRow
           /\ jobs[s].target \in Seqno /\ jobs[s].completed \in Seqno /\ jobs[s].summary \in Seqno
           /\ extracted[s] \in Seqno /\ messages[s] \in Seqno
BY DEF MaintenanceTypes, JobRow

(* The messages a worker stores next are those right after the checkpoint,  *)
(* and if there are none, the worker has come as far as it wanted.          *)
LEMMA BatchIs ==
    ASSUME MaintenanceInv, NEW w \in Worker, work[w].at = "busy"
    PROVE  \E d, k \in Seqno :
              /\ d = work[w].done /\ d = Checkpoint(work[w].stage, work[w].session)
              /\ NextBatch(w) # {} => /\ d < k /\ k <= work[w].upto /\ NextBatch(w) = (d + 1)..k
                                      /\ Max(NextBatch(w)) = k
              /\ NextBatch(w) = {} => work[w].upto <= d
<1>1. PICK d, u, size : /\ d = work[w].done /\ u = work[w].upto
                        /\ size = IF work[w].stage = "extract" THEN ExtractBatch ELSE SummaryBatch
  OBVIOUS
<1>2. /\ d \in Seqno /\ u \in Seqno /\ size \in Nat \ {0} /\ d \in Nat /\ u \in Nat
  BY <1>1, WorkIs, MaintenanceBounds DEF MaintenanceInv, BusyType
<1>3. d = Checkpoint(work[w].stage, work[w].session)
  BY <1>1 DEF MaintenanceInv, WorkFits
<1>4. PICK e : e = Min({d + size, u})
  OBVIOUS
<1>5. NextBatch(w) = (d + 1)..e
  BY <1>1, <1>4 DEF NextBatch
<1>6. e = IF d + size <= u THEN d + size ELSE u
  <2>1. d + size \in Int /\ u \in Int
    BY <1>2
  <2>2. QED
    BY <1>4, <2>1, MaxOfTwo
<1>7. e \in Seqno /\ e \in Nat
  BY <1>2, <1>6, MaintenanceBounds DEF Seqno
<1>8. CASE NextBatch(w) = {}
  <2>1. u <= d
    <3>1. ~(d + 1 <= e)
      BY <1>2, <1>5, <1>7, <1>8
    <3>2. QED
      BY <1>2, <1>6, <1>7, <3>1
  <2>2. QED
    BY <1>1, <1>2, <1>3, <1>8, <2>1
<1>9. CASE NextBatch(w) # {}
  <2>1. d < e /\ e <= u
    <3>1. d + 1 <= e
      BY <1>2, <1>5, <1>7, <1>9
    <3>2. QED
      BY <1>2, <1>6, <1>7, <3>1
  <2>2. Max((d + 1)..e) = e
    <3>1. d + 1 \in Int /\ e \in Int /\ d + 1 <= e
      BY <1>2, <1>7, <2>1
    <3>2. QED
      BY <3>1, MaxOfInterval
  <2>3. QED
    BY <1>1, <1>2, <1>3, <1>5, <1>7, <1>9, <2>1, <2>2
<1>10. QED
  BY <1>8, <1>9

LEMMA CountedIs ==
    ASSUME NEW f \in [1..MaxMessages -> Nat], NEW b
    PROVE  /\ Counted(f, b) \in [1..MaxMessages -> Nat]
           /\ \A m \in 1..MaxMessages : Counted(f, b)[m] = IF m \in b THEN f[m] + 1 ELSE f[m]
BY DEF Counted

(* Steps that leave the workers and the checkpoints alone.                  *)
LEMMA WorkStays ==
    ASSUME MaintenanceInv, UNCHANGED <<work, locks, extracted>>,
           \A s \in Sessions : jobs'[s].summary = jobs[s].summary
    PROVE  LocksFit' /\ WorkFits'
<1>1. LocksFit'
  BY DEF MaintenanceInv, LocksFit
<1>2. \A w \in Worker : work[w].at = "busy" => work[w].session \in Sessions
  BY WorkIs DEF MaintenanceInv, BusyType
<1>3. WorkFits'
  BY <1>2 DEF MaintenanceInv, WorkFits, Checkpoint
<1>4. QED
  BY <1>1, <1>3

LEMMA CheckpointsStay ==
    ASSUME MaintenanceInv, UNCHANGED <<heard, told, extracted, restarts>>,
           \A s \in Sessions : jobs'[s].summary = jobs[s].summary
    PROVE  CheckpointsAreTrue'
BY DEF MaintenanceInv, CheckpointsAreTrue

LEMMA CoverStays ==
    ASSUME MaintenanceInv, alive' \subseteq alive, extracted' = extracted,
           \A s \in alive : /\ jobs'[s].summary = jobs[s].summary
                            /\ jobs'[s].completed = jobs[s].completed
    PROVE  CompletedIsCovered'
BY DEF MaintenanceInv, CompletedIsCovered

LEMMA ForegroundStays ==
    ASSUME MaintenanceInv, UNCHANGED foreground,
           \A s \in Sessions : chat'[s] \in {"begun", "asked"} <=> chat[s] \in {"begun", "asked"}
    PROVE  foreground' = Cardinality(InForeground')
BY DEF MaintenanceInv, InForeground

LEMMA ForegroundIsFinite ==
    ASSUME MaintenanceInv
    PROVE  /\ IsFiniteSet(InForeground) /\ Cardinality(InForeground) \in Nat
           /\ Cardinality(InForeground) <= Cardinality(Sessions)
           /\ Cardinality(Sessions) \in Nat
BY MaintenanceBounds, FS_Subset, FS_CardinalityType DEF InForeground

(* What a step that touches a job's row may change of it.                   *)
LEMMA RowChange ==
    ASSUME MaintenanceTypes, NEW s \in Sessions, NEW r \in JobRow,
           jobs' = [jobs EXCEPT ![s] = r], Touched(s)
    PROVE  /\ jobs' \in [Sessions -> JobRow] /\ order' \in SetToSeqs(Sessions)
           /\ \A t \in Sessions : jobs'[t] = IF t = s THEN r ELSE jobs[t]
BY TouchedKeepsOrder DEF MaintenanceTypes

LEMMA QueueIs ==
    ASSUME MaintenanceTypes, NEW s \in Sessions, NEW n \in Seqno, Queue(s, n)
    PROVE  /\ jobs' \in [Sessions -> JobRow] /\ order' \in SetToSeqs(Sessions)
           /\ \A t \in Sessions : /\ jobs'[t].summary = jobs[t].summary
                                  /\ jobs'[t].completed = jobs[t].completed
<1> DEFINE x == Max({jobs[s].target, n})
           r == [jobs[s] EXCEPT !.target = x, !.due = FALSE]
<1>1. x \in Seqno
  <2>1. PICK c \in Seqno : c = jobs[s].target
    BY RowIs
  <2>2. c \in Int /\ n \in Int
    BY <2>1, MaintenanceBounds DEF Seqno
  <2>3. Max({c, n}) = c \/ Max({c, n}) = n
    BY <2>2, MaxOfTwo
  <2>4. QED
    BY <2>1, <2>3
<1> HIDE DEF x
<1>2. jobs' = [jobs EXCEPT ![s] = r] /\ Touched(s)
  BY DEF Queue, MaintenanceTypes, x
<1>3. r \in JobRow /\ r.summary = jobs[s].summary /\ r.completed = jobs[s].completed
  BY <1>1, RowIs DEF JobRow
<1> HIDE DEF r
<1>4. QED
  BY <1>2, <1>3, RowChange

LEMMA CompleteIs ==
    ASSUME MaintenanceTypes, NEW s \in Sessions, NEW n \in Seqno, Complete(s, n)
    PROVE  /\ jobs' \in [Sessions -> JobRow] /\ order' \in SetToSeqs(Sessions)
           /\ \A t \in Sessions : /\ jobs'[t].summary = jobs[t].summary
                                  /\ t # s => jobs'[t].completed = jobs[t].completed
           /\ jobs'[s].completed = jobs[s].completed \/ jobs'[s].completed = n
<1> DEFINE x == Max({jobs[s].completed, n})
           r == [jobs[s] EXCEPT !.completed = x, !.due = TRUE]
<1>1. x \in Seqno /\ (x = jobs[s].completed \/ x = n)
  <2>1. PICK c \in Seqno : c = jobs[s].completed
    BY RowIs
  <2>2. c \in Int /\ n \in Int
    BY <2>1, MaintenanceBounds DEF Seqno
  <2>3. Max({c, n}) = c \/ Max({c, n}) = n
    BY <2>2, MaxOfTwo
  <2>4. QED
    BY <2>1, <2>3
<1> HIDE DEF x
<1>2. jobs' = [jobs EXCEPT ![s] = r] /\ Touched(s)
  BY DEF Complete, MaintenanceTypes, x
<1>3. r \in JobRow /\ r.summary = jobs[s].summary /\ r.completed = x
  BY <1>1, RowIs DEF JobRow
<1> HIDE DEF r
<1>4. QED
  BY <1>1, <1>2, <1>3, RowChange

LEMMA DeferIs ==
    ASSUME MaintenanceTypes, NEW s \in Sessions, Defer(s)
    PROVE  /\ jobs' \in [Sessions -> JobRow] /\ order' \in SetToSeqs(Sessions)
           /\ \A t \in Sessions : /\ jobs'[t].summary = jobs[t].summary
                                  /\ jobs'[t].completed = jobs[t].completed
<1> DEFINE r == [jobs[s] EXCEPT !.due = FALSE]
<1>1. jobs' = [jobs EXCEPT ![s] = r] /\ Touched(s)
  BY DEF Defer, MaintenanceTypes
<1>2. r \in JobRow /\ r.summary = jobs[s].summary /\ r.completed = jobs[s].completed
  BY RowIs DEF JobRow
<1> HIDE DEF r
<1>3. QED
  BY <1>1, <1>2, RowChange

(* Nobody works on what nobody holds.                                       *)
LEMMA OneAtATime ==
    ASSUME MaintenanceInv, NEW w \in Worker, NEW v \in Worker, w # v,
           NEW s \in Sessions, NEW g \in Stage, Holds(work[w], s, g)
    PROVE  ~ Holds(work[v], s, g)
BY DEF MaintenanceInv, LocksFit

(* Rows and chats that change without the work.                             *)
LEMMA RestIs ==
    ASSUME MaintenanceInv, MaintenanceTypes',
           UNCHANGED <<work, locks, extracted, heard, told, restarts>>, alive' \subseteq alive,
           \A s \in Sessions : /\ jobs'[s].summary = jobs[s].summary
                               /\ s \in alive => jobs'[s].completed = jobs[s].completed,
           foreground' = Cardinality(InForeground')
    PROVE  MaintenanceInv'
<1>1. alive \subseteq Sessions
  BY DEF MaintenanceInv, MaintenanceTypes
<1>2. LocksFit' /\ WorkFits'
  BY WorkStays
<1>3. CheckpointsAreTrue'
  BY CheckpointsStay
<1>4. CompletedIsCovered'
  BY <1>1, CoverStays
<1>5. QED
  BY <1>2, <1>3, <1>4 DEF MaintenanceInv

LEMMA BecomesDueStep ==
    ASSUME MaintenanceInv, NEW s \in Sessions, BecomesDue(s)
    PROVE  MaintenanceInv'
<1> DEFINE r == [jobs[s] EXCEPT !.due = TRUE]
<1>1. /\ jobs' = [jobs EXCEPT ![s] = r]
      /\ UNCHANGED <<manuals, messages, alive, chat, foreground, turns, order, extracted, work,
                     locks, cooling, heard, told, failures, restarts>>
  BY DEF BecomesDue, chatState, mishaps, MaintenanceInv, MaintenanceTypes
<1>2. r \in JobRow /\ r.summary = jobs[s].summary /\ r.completed = jobs[s].completed
  BY RowIs DEF MaintenanceInv, JobRow
<1> HIDE DEF r
<1>3. /\ jobs' \in [Sessions -> JobRow]
      /\ \A t \in Sessions : jobs'[t] = IF t = s THEN r ELSE jobs[t]
  BY <1>1, <1>2 DEF MaintenanceInv, MaintenanceTypes
<1>4. MaintenanceTypes'
  BY <1>1, <1>3 DEF MaintenanceInv, MaintenanceTypes
<1>5. foreground' = Cardinality(InForeground')
  BY <1>1, ForegroundStays
<1>6. QED
  BY <1>1, <1>2, <1>3, <1>4, <1>5, RestIs

LEMMA StoreMessageStep ==
    ASSUME MaintenanceInv, NEW s \in Sessions, StoreMessage(s)
    PROVE  MaintenanceInv'
<1>1. /\ messages[s] < Room[s] /\ messages' = [messages EXCEPT ![s] = @ + 1]
      /\ Queue(s, messages[s] + 1)
      /\ UNCHANGED <<manuals, alive, foreground, turns, extracted, work, locks, cooling, heard,
                     told, failures, restarts>>
  BY DEF StoreMessage, mishaps
<1>2. messages[s] + 1 \in Seqno /\ messages' \in [Sessions -> Seqno]
  <2>1. messages[s] \in 0..MaxMessages /\ Room[s] \in 0..MaxMessages
    BY RowIs, MaintenanceBounds DEF MaintenanceInv, Seqno
  <2>2. messages[s] + 1 \in Seqno
    BY <1>1, <2>1, MaintenanceBounds DEF Seqno
  <2>3. QED
    BY <1>1, <2>2 DEF MaintenanceInv, MaintenanceTypes
<1>3. /\ jobs' \in [Sessions -> JobRow] /\ order' \in SetToSeqs(Sessions)
      /\ \A t \in Sessions : /\ jobs'[t].summary = jobs[t].summary
                             /\ jobs'[t].completed = jobs[t].completed
  BY <1>1, <1>2, QueueIs DEF MaintenanceInv
<1>4. /\ chat' \in [Sessions -> Chats]
      /\ \A t \in Sessions : chat'[t] \in {"begun", "asked"} <=> chat[t] \in {"begun", "asked"}
  BY DEF StoreMessage, MaintenanceInv, MaintenanceTypes, Chats
<1>5. MaintenanceTypes'
  BY <1>1, <1>2, <1>3, <1>4 DEF MaintenanceInv, MaintenanceTypes
<1>6. foreground' = Cardinality(InForeground')
  BY <1>1, <1>4, ForegroundStays
<1>7. QED
  BY <1>1, <1>3, <1>5, <1>6, RestIs

LEMMA EndChatStep ==
    ASSUME MaintenanceInv, NEW s \in Sessions, EndChat(s)
    PROVE  MaintenanceInv'
<1>1. /\ chat[s] \in {"begun", "asked"} /\ foreground' = Max({0, foreground - 1})
      /\ cooling' = TRUE
      /\ UNCHANGED <<manuals, messages, alive, turns, jobs, order, extracted, heard, told, work,
                     locks, failures, restarts>>
  BY DEF EndChat, memoryStore, mishaps
<1>2. PICK c \in Chats : c \notin {"begun", "asked"} /\ chat' = [chat EXCEPT ![s] = c]
  <2>1. \/ chat' = [chat EXCEPT ![s] = "none"]
        \/ chat' = [chat EXCEPT ![s] = IF chat[s] = "begun" THEN "left begun" ELSE "left asked"]
    BY DEF EndChat, MaintenanceInv, MaintenanceTypes
  <2>2. QED
    BY <2>1 DEF Chats
<1>3. /\ chat' \in [Sessions -> Chats]
      /\ \A t \in Sessions : chat'[t] = IF t = s THEN c ELSE chat[t]
  BY <1>2 DEF MaintenanceInv, MaintenanceTypes
<1>4. InForeground' = InForeground \ {s} /\ s \in InForeground
  BY <1>1, <1>2, <1>3 DEF InForeground
<1>5. /\ Cardinality(InForeground') = Cardinality(InForeground) - 1
      /\ Cardinality(InForeground') \in Nat
  <2>1. IsFiniteSet(InForeground)
    BY ForegroundIsFinite
  <2>2. /\ IsFiniteSet(InForeground \ {s})
        /\ Cardinality(InForeground \ {s}) = Cardinality(InForeground) - 1
    BY <1>4, <2>1, FS_RemoveElement
  <2>3. Cardinality(InForeground \ {s}) \in Nat
    BY <2>2, FS_CardinalityType
  <2>4. QED
    BY <1>4, <2>2, <2>3
<1>6. foreground' = Cardinality(InForeground')
  <2>1. foreground = Cardinality(InForeground) /\ foreground \in Nat
    BY DEF MaintenanceInv, MaintenanceTypes
  <2>2. foreground - 1 \in Nat
    BY <1>5, <2>1
  <2>3. Max({0, foreground - 1}) = foreground - 1
    BY <2>2, MaxOfTwo
  <2>4. QED
    BY <1>1, <1>5, <2>1, <2>3
<1>7. MaintenanceTypes'
  BY <1>1, <1>3, <1>5, <1>6 DEF MaintenanceInv, MaintenanceTypes
<1>8. QED
  BY <1>1, <1>6, <1>7, RestIs

LEMMA TurnDrainedStep ==
    ASSUME MaintenanceInv, NEW s \in Sessions, TurnDrained(s)
    PROVE  MaintenanceInv'
<1>1. /\ chat' = [chat EXCEPT ![s] = "none"] /\ chat[s] \notin {"begun", "asked"}
      /\ UNCHANGED <<manuals, messages, alive, foreground, turns, jobs, order, extracted, heard,
                     told, work, locks, cooling, failures, restarts>>
  BY DEF TurnDrained, memoryStore, mishaps
<1>2. /\ chat' \in [Sessions -> Chats]
      /\ \A t \in Sessions : chat'[t] = IF t = s THEN "none" ELSE chat[t]
  BY <1>1 DEF MaintenanceInv, MaintenanceTypes, Chats
<1>3. foreground' = Cardinality(InForeground')
  BY <1>1, <1>2, ForegroundStays
<1>4. MaintenanceTypes'
  BY <1>1, <1>2 DEF MaintenanceInv, MaintenanceTypes
<1>5. QED
  BY <1>1, <1>3, <1>4, RestIs

LEMMA CooledOrDeleted ==
    ASSUME MaintenanceInv, Cooled \/ \E s \in Sessions : DeleteSession(s)
    PROVE  MaintenanceInv'
<1>1. /\ alive' \subseteq alive /\ cooling' \in BOOLEAN
      /\ UNCHANGED <<manuals, messages, chat, foreground, turns, jobs, order, extracted, heard,
                     told, work, locks, failures, restarts>>
  BY DEF Cooled, DeleteSession, memoryStore, mishaps, chatState, MaintenanceInv, MaintenanceTypes
<1>2. MaintenanceTypes'
  BY <1>1 DEF MaintenanceInv, MaintenanceTypes
<1>3. foreground' = Cardinality(InForeground')
  BY <1>1, ForegroundStays
<1>4. QED
  BY <1>1, <1>2, <1>3, RestIs

(* A chat begins; the pass keeps its lock until it has unwound.             *)
LEMMA BeginChatStep ==
    ASSUME MaintenanceInv, NEW s \in Sessions, BeginChat(s)
    PROVE  MaintenanceInv'
<1> DEFINE p == work["pass"]
<1>1. PICK x : x = IF p.at \in {"wait", "busy"} THEN Cancelled(p) ELSE p
  OBVIOUS
<1>2. /\ chat[s] = "none" /\ turns < MaxTurns /\ turns' = turns + 1
      /\ chat' = [chat EXCEPT ![s] = "begun"] /\ foreground' = foreground + 1
      /\ cooling' = TRUE /\ work' = [work EXCEPT !["pass"] = x]
      /\ UNCHANGED <<manuals, messages, alive, jobs, order, extracted, heard, told, locks,
                     failures, restarts>>
  BY <1>1 DEF BeginChat, Interrupt, memoryStore, mishaps, MaintenanceInv, MaintenanceTypes, Worker
<1>3. /\ x \in WorkType /\ x.at \notin {"wait", "busy"}
      /\ \A t \in Sessions, g \in Stage : Holds(x, t, g) <=> Holds(p, t, g)
  <2>1. CASE p.at \in {"wait", "busy"}
    <3>1. p \in WaitType \cup BusyType
      BY <2>1, WorkIs DEF MaintenanceInv, Worker
    <3>2. x = [at |-> "cancelled", of |-> p]
      BY <1>1, <2>1 DEF Cancelled
    <3> HIDE DEF p
    <3>3. x \in WorkType /\ x.at = "cancelled" /\ x.of = p
      BY <3>1, <3>2 DEF WorkType
    <3>4. QED
      BY <2>1, <3>3 DEF Holds, IsAt
  <2>2. CASE p.at \notin {"wait", "busy"}
    BY <1>1, <2>2 DEF MaintenanceInv, MaintenanceTypes, Worker
  <2>3. QED
    BY <2>1, <2>2
<1> HIDE DEF p
<1>4. /\ work' \in [Worker -> WorkType]
      /\ \A w \in Worker : work'[w] = IF w = "pass" THEN x ELSE work[w]
  BY <1>2, <1>3 DEF MaintenanceInv, MaintenanceTypes, Worker
<1>5. /\ chat' \in [Sessions -> Chats]
      /\ \A t \in Sessions : chat'[t] = IF t = s THEN "begun" ELSE chat[t]
  BY <1>2 DEF MaintenanceInv, MaintenanceTypes, Chats
<1>6. InForeground' = InForeground \cup {s} /\ s \notin InForeground
  BY <1>2, <1>5 DEF InForeground
<1>7. foreground' = Cardinality(InForeground')
  <2>1. Cardinality(InForeground \cup {s}) = Cardinality(InForeground) + 1
    BY <1>6, ForegroundIsFinite, FS_AddElement
  <2>2. QED
    BY <1>2, <1>6, <2>1 DEF MaintenanceInv
<1>8. MaintenanceTypes'
  BY <1>2, <1>4, <1>5, MaintenanceBounds DEF MaintenanceInv, MaintenanceTypes
<1>9. LocksFit'
  BY <1>2, <1>3, <1>4 DEF MaintenanceInv, LocksFit, p
<1>10. WorkFits'
  BY <1>2, <1>3, <1>4 DEF MaintenanceInv, WorkFits, Checkpoint, Worker
<1>11. CompletedIsCovered' /\ CheckpointsAreTrue'
  BY <1>2 DEF MaintenanceInv, CompletedIsCovered, CheckpointsAreTrue
<1>12. QED
  BY <1>7, <1>8, <1>9, <1>10, <1>11 DEF MaintenanceInv

LEMMA LockChange ==
    ASSUME MaintenanceTypes, NEW s \in Sessions, NEW g \in Stage, NEW y \in Worker \cup {"free"},
           locks' = [locks EXCEPT ![s][g] = y]
    PROVE  /\ locks' \in [Sessions -> [Stage -> Worker \cup {"free"}]]
           /\ \A t \in Sessions, h \in Stage :
                 locks'[t][h] = IF t = s /\ h = g THEN y ELSE locks[t][h]
BY DEF MaintenanceTypes

LEMMA WorkChange ==
    ASSUME MaintenanceTypes, NEW w \in Worker, NEW x \in WorkType, work' = [work EXCEPT ![w] = x]
    PROVE  /\ work' \in [Worker -> WorkType]
           /\ \A v \in Worker : work'[v] = IF v = w THEN x ELSE work[v]
BY DEF MaintenanceTypes

(* A worker without a lock rests or waits; a pass waits to summarize what   *)
(* is extracted.                                                            *)
LEMMA WaitsWithoutLock ==
    ASSUME MaintenanceInv, NEW w \in Worker, NEW x \in WorkType,
           work' = [work EXCEPT ![w] = x], x.at \in {"rest", "wait"},
           w = "pass" /\ x.at = "wait" /\ x.stage = "summary" => x.upto <= extracted[x.session],
           extracted' = extracted, \A s \in Sessions : jobs'[s].summary = jobs[s].summary,
           \A s \in Sessions, g \in Stage :
              locks'[s][g] = IF Holds(work[w], s, g) THEN "free" ELSE locks[s][g]
    PROVE  LocksFit' /\ WorkFits'
<1>1. \A v \in Worker : work'[v] = IF v = w THEN x ELSE work[v]
  BY WorkChange DEF MaintenanceInv
<1>2. \A s, g : ~Holds(x, s, g)
  BY DEF Holds, IsAt
<1>3. LocksFit'
  <2> SUFFICES ASSUME NEW v \in Worker, NEW s \in Sessions, NEW g \in Stage
               PROVE  Holds(work'[v], s, g) <=> locks'[s][g] = v
    BY DEF LocksFit
  <2>1. "free" \notin Worker
    BY DEF Worker
  <2>2. /\ Holds(work[v], s, g) <=> locks[s][g] = v
        /\ Holds(work[w], s, g) <=> locks[s][g] = w
    BY DEF MaintenanceInv, LocksFit
  <2>3. CASE v = w
    BY <1>1, <1>2, <2>1, <2>2, <2>3
  <2>4. CASE v # w
    BY <1>1, <2>1, <2>2, <2>4
  <2>5. QED
    BY <2>3, <2>4
<1>4. \A v \in Worker : work[v].at = "busy" => work[v].session \in Sessions
  BY WorkIs DEF MaintenanceInv, BusyType
<1>5. WorkFits'
  <2>1. ASSUME NEW v \in Worker, work'[v].at = "busy"
        PROVE  work'[v].done = IF work'[v].stage = "extract" THEN extracted'[work'[v].session]
                               ELSE jobs'[work'[v].session].summary
    <3>1. v # w /\ work'[v] = work[v]
      BY <1>1, <2>1
    <3>2. QED
      BY <1>4, <2>1, <3>1 DEF MaintenanceInv, WorkFits, Checkpoint
  <2>2. work'["pass"].at \in {"wait", "busy"} /\ work'["pass"].stage = "summary" =>
           work'["pass"].upto <= extracted'[work'["pass"].session]
    <3>1. CASE w = "pass"
      BY <1>1, <3>1
    <3>2. CASE w # "pass"
      BY <1>1, <3>2 DEF MaintenanceInv, WorkFits, Worker
    <3>3. QED
      BY <3>1, <3>2
  <2>3. QED
    BY <2>1, <2>2 DEF WorkFits, Checkpoint
<1>6. QED
  BY <1>3, <1>5

LEMMA ReleasesWhatItHolds ==
    ASSUME MaintenanceInv, NEW w \in Worker, work[w].at = "busy",
           Release(w, work[w].session, work[w].stage)
    PROVE  /\ locks' \in [Sessions -> [Stage -> Worker \cup {"free"}]]
           /\ \A s \in Sessions, g \in Stage :
                 locks'[s][g] = IF Holds(work[w], s, g) THEN "free" ELSE locks[s][g]
<1>1. work[w].session \in Sessions /\ work[w].stage \in Stage
  BY WorkIs DEF MaintenanceInv, BusyType
<1>2. locks' = [locks EXCEPT ![work[w].session][work[w].stage] = "free"]
  BY DEF Release
<1>3. /\ locks' \in [Sessions -> [Stage -> Worker \cup {"free"}]]
      /\ \A t \in Sessions, h \in Stage : locks'[t][h] =
            IF t = work[w].session /\ h = work[w].stage THEN "free" ELSE locks[t][h]
  BY <1>1, <1>2, LockChange DEF MaintenanceInv
<1>4. \A t, h : Holds(work[w], t, h) <=> t = work[w].session /\ h = work[w].stage
  BY DEF Holds, IsAt
<1>5. QED
  BY <1>3, <1>4

LEMMA RestsWithoutLock ==
    ASSUME MaintenanceInv, NEW w \in Worker, work[w].at \in {"rest", "wait"}
    PROVE  \A s, g : ~Holds(work[w], s, g)
BY DEF Holds, IsAt

LEMMA StartPassStep ==
    ASSUME MaintenanceInv, StartPass
    PROVE  MaintenanceInv'
<1>1. PICK s \in Sessions :
         /\ work["pass"] = Resting
         /\ IF s \in alive
            THEN /\ work' = [work EXCEPT !["pass"] =
                                WaitingJobs("extract", s, Min({messages[s], jobs[s].target}))]
                 /\ UNCHANGED <<jobs, order>>
            ELSE Complete(s, jobs[s].target) /\ UNCHANGED work
         /\ UNCHANGED <<manuals, messages, alive, chat, foreground, turns, extracted, locks,
                        cooling, heard, told, failures, restarts>>
  BY DEF StartPass, chatState, mishaps
<1>2. foreground' = Cardinality(InForeground')
  BY <1>1, ForegroundStays
<1>3. CASE s \in alive
  <2>1. PICK n : n = Min({messages[s], jobs[s].target})
    OBVIOUS
  <2>2. n \in Seqno
    <3>1. PICK a \in Seqno, b \in Seqno : a = messages[s] /\ b = jobs[s].target
      BY <1>1, RowIs DEF MaintenanceInv
    <3>2. a \in Int /\ b \in Int
      BY <3>1, MaintenanceBounds DEF Seqno
    <3>3. Min({a, b}) = a \/ Min({a, b}) = b
      BY <3>2, MaxOfTwo
    <3>4. QED
      BY <2>1, <3>1, <3>3
  <2>3. PICK x : x = WaitingJobs("extract", s, n)
    OBVIOUS
  <2>4. x \in WorkType /\ x.at = "wait" /\ x.stage = "extract"
    BY <1>1, <2>2, <2>3 DEF WaitingJobs, WorkType, WaitType, Stage
  <2>5. "pass" \in Worker /\ work["pass"].at = "rest"
    BY <1>1 DEF Worker, Resting
  <2>6. work' = [work EXCEPT !["pass"] = x] /\ UNCHANGED <<jobs, order>>
    BY <1>1, <1>3, <2>1, <2>3
  <2>7. LocksFit' /\ WorkFits'
    <3>1. \A t \in Sessions, g \in Stage :
             locks'[t][g] = IF Holds(work["pass"], t, g) THEN "free" ELSE locks[t][g]
      BY <1>1, <2>5, RestsWithoutLock
    <3>2. QED
      BY <1>1, <2>4, <2>5, <2>6, <3>1, WaitsWithoutLock
  <2>8. work' \in [Worker -> WorkType]
    BY <2>4, <2>5, <2>6, WorkChange DEF MaintenanceInv
  <2>9. MaintenanceTypes'
    BY <1>1, <2>6, <2>8 DEF MaintenanceInv, MaintenanceTypes
  <2>10. CompletedIsCovered' /\ CheckpointsAreTrue'
    BY <1>1, <2>6 DEF MaintenanceInv, CompletedIsCovered, CheckpointsAreTrue
  <2>11. QED
    BY <1>2, <2>7, <2>9, <2>10 DEF MaintenanceInv
<1>4. CASE s \notin alive
  <2>1. jobs[s].target \in Seqno
    BY <1>1, RowIs DEF MaintenanceInv
  <2>2. /\ jobs' \in [Sessions -> JobRow] /\ order' \in SetToSeqs(Sessions)
        /\ \A t \in Sessions : /\ jobs'[t].summary = jobs[t].summary
                               /\ t # s => jobs'[t].completed = jobs[t].completed
    BY <1>1, <1>4, <2>1, CompleteIs DEF MaintenanceInv
  <2>3. work' = work
    BY <1>1, <1>4
  <2>4. MaintenanceTypes'
    BY <1>1, <2>2, <2>3 DEF MaintenanceInv, MaintenanceTypes
  <2>5. QED
    BY <1>1, <1>2, <1>4, <2>2, <2>3, <2>4, RestIs
<1>5. QED
  BY <1>3, <1>4

LEMMA StartManualStep ==
    ASSUME MaintenanceInv, NEW s \in Sessions, NEW g \in Stage, StartManual(s, g)
    PROVE  MaintenanceInv'
<1>1. PICK x : x = WaitingJobs(g, s, messages[s])
  OBVIOUS
<1>2. x \in WorkType /\ x.at = "wait" /\ "manual" \in Worker /\ "manual" # "pass"
  BY <1>1, RowIs DEF MaintenanceInv, WaitingJobs, WorkType, WaitType, Worker
<1>3. /\ work["manual"] = Resting /\ work' = [work EXCEPT !["manual"] = x]
      /\ manuals + failures + restarts < MaxMishaps /\ manuals' = manuals + 1
      /\ UNCHANGED <<messages, alive, chat, foreground, turns, jobs, order, extracted, heard,
                     told, locks, cooling, failures, restarts>>
  BY <1>1 DEF StartManual, chatState, memoryStore, mishaps
<1>4. foreground' = Cardinality(InForeground')
  BY <1>3, ForegroundStays
<1>5. LocksFit' /\ WorkFits'
  <2>1. work["manual"].at = "rest"
    BY <1>3 DEF Resting
  <2>2. \A t \in Sessions, h \in Stage :
           locks'[t][h] = IF Holds(work["manual"], t, h) THEN "free" ELSE locks[t][h]
    BY <1>2, <1>3, <2>1, RestsWithoutLock
  <2>3. QED
    BY <1>2, <1>3, <2>2, WaitsWithoutLock
<1>6. work' \in [Worker -> WorkType]
  BY <1>2, <1>3, WorkChange DEF MaintenanceInv
<1>7. /\ manuals' \in Nat /\ failures' \in Nat /\ restarts' \in Nat
      /\ manuals' + failures' + restarts' <= MaxMishaps
  BY <1>3, MaintenanceBounds DEF MaintenanceInv, MaintenanceTypes
<1>8. MaintenanceTypes'
  BY <1>3, <1>6, <1>7 DEF MaintenanceInv, MaintenanceTypes
<1>9. CompletedIsCovered' /\ CheckpointsAreTrue'
  BY <1>3 DEF MaintenanceInv, CompletedIsCovered, CheckpointsAreTrue
<1>10. QED
  BY <1>4, <1>5, <1>8, <1>9 DEF MaintenanceInv

LEMMA TakeMemoryLockStep ==
    ASSUME MaintenanceInv, NEW w \in Worker, TakeMemoryLock(w)
    PROVE  MaintenanceInv'
<1>1. PICK g, s, u : g = work[w].stage /\ s = work[w].session /\ u = work[w].upto
  OBVIOUS
<1>2. /\ work[w].at = "wait" /\ work[w] \in WaitType
      /\ g \in Stage /\ s \in Sessions /\ u \in Seqno
  BY <1>1, WorkIs DEF TakeMemoryLock, MaintenanceInv, WaitType
<1>3. PICK d, x : d = Checkpoint(g, s) /\ x = Busy(g, s, u, d)
  OBVIOUS
<1>4. d \in Seqno
  BY <1>2, <1>3, RowIs DEF MaintenanceInv, Checkpoint
<1>5. /\ x \in WorkType /\ x.at = "busy" /\ x.stage = g /\ x.session = s /\ x.upto = u
      /\ x.done = d
  BY <1>2, <1>3, <1>4 DEF Busy, WorkType, BusyType
<1>6. /\ locks[s][g] = "free" /\ locks' = [locks EXCEPT ![s][g] = w]
      /\ work' = [work EXCEPT ![w] = x]
      /\ UNCHANGED <<manuals, messages, alive, chat, foreground, turns, jobs, order, extracted,
                     heard, told, cooling, failures, restarts>>
  BY <1>1, <1>3 DEF TakeMemoryLock, chatState, memoryStore, mishaps, MaintenanceInv,
                    MaintenanceTypes
<1>7. /\ locks' \in [Sessions -> [Stage -> Worker \cup {"free"}]]
      /\ \A t \in Sessions, h \in Stage :
            locks'[t][h] = IF t = s /\ h = g THEN w ELSE locks[t][h]
  BY <1>2, <1>6, LockChange DEF MaintenanceInv
<1>8. /\ work' \in [Worker -> WorkType]
      /\ \A v \in Worker : work'[v] = IF v = w THEN x ELSE work[v]
  BY <1>5, <1>6, WorkChange DEF MaintenanceInv
<1>9. \A t, h : Holds(x, t, h) <=> t = s /\ h = g
  BY <1>5 DEF Holds, IsAt
<1>10. \A t, h : ~Holds(work[w], t, h)
  BY <1>2, RestsWithoutLock
<1>11. LocksFit'
  <2> SUFFICES ASSUME NEW v \in Worker, NEW t \in Sessions, NEW h \in Stage
               PROVE  Holds(work'[v], t, h) <=> locks'[t][h] = v
    BY DEF LocksFit
  <2>1. "free" \notin Worker
    BY DEF Worker
  <2>2. /\ Holds(work[v], t, h) <=> locks[t][h] = v
        /\ Holds(work[w], t, h) <=> locks[t][h] = w
    BY DEF MaintenanceInv, LocksFit
  <2>3. CASE v = w
    BY <1>7, <1>8, <1>9, <1>10, <2>2, <2>3
  <2>4. CASE v # w
    BY <1>6, <1>7, <1>8, <2>1, <2>2, <2>4
  <2>5. QED
    BY <2>3, <2>4
<1>12. WorkFits'
  <2>1. \A t, h : Checkpoint(h, t)' = Checkpoint(h, t)
    BY <1>6 DEF Checkpoint
  <2>2. \A v \in Worker : work'[v].at = "busy" =>
           work'[v].done = Checkpoint(work'[v].stage, work'[v].session)
    BY <1>3, <1>5, <1>8 DEF MaintenanceInv, WorkFits
  <2>3. work'["pass"].at \in {"wait", "busy"} /\ work'["pass"].stage = "summary" =>
           work'["pass"].upto <= extracted'[work'["pass"].session]
    BY <1>1, <1>2, <1>5, <1>6, <1>8 DEF MaintenanceInv, WorkFits, Worker
  <2>4. QED
    BY <1>6, <2>1, <2>2, <2>3 DEF WorkFits, Checkpoint
<1>13. foreground' = Cardinality(InForeground')
  BY <1>6, ForegroundStays
<1>14. MaintenanceTypes'
  BY <1>6, <1>7, <1>8 DEF MaintenanceInv, MaintenanceTypes
<1>15. CompletedIsCovered' /\ CheckpointsAreTrue'
  BY <1>6 DEF MaintenanceInv, CompletedIsCovered, CheckpointsAreTrue
<1>16. QED
  BY <1>11, <1>12, <1>13, <1>14, <1>15 DEF MaintenanceInv

(* A worker that moves its checkpoint on keeps its lock, and nobody else    *)
(* relies on that checkpoint.                                               *)
LEMMA StoreBatchWork ==
    ASSUME MaintenanceInv, NEW w \in Worker, NEW g \in Stage, NEW s \in Sessions, NEW k \in Seqno,
           work[w].at = "busy", work[w].stage = g, work[w].session = s, locks' = locks,
           work' = [work EXCEPT ![w] = [@ EXCEPT !.done = k]],
           g = "extract" => /\ extracted' = [extracted EXCEPT ![s] = k] /\ extracted[s] <= k
                            /\ \A t \in Sessions : jobs'[t].summary = jobs[t].summary,
           g # "extract" => /\ extracted' = extracted
                            /\ \A t \in Sessions :
                                  jobs'[t].summary = IF t = s THEN k ELSE jobs[t].summary
    PROVE  LocksFit' /\ WorkFits' /\ work' \in [Worker -> WorkType]
<1>1. PICK x : x = [work[w] EXCEPT !.done = k]
  OBVIOUS
<1>2. work[w] \in BusyType
  BY WorkIs DEF MaintenanceInv
<1>3. /\ x \in BusyType /\ x.at = "busy" /\ x.stage = g /\ x.session = s
      /\ x.upto = work[w].upto /\ x.done = k
  BY <1>1, <1>2 DEF BusyType
<1>4. /\ work' \in [Worker -> WorkType]
      /\ \A v \in Worker : work'[v] = IF v = w THEN x ELSE work[v]
  <2>1. x \in WorkType /\ work' = [work EXCEPT ![w] = x]
    BY <1>1, <1>3 DEF WorkType
  <2>2. QED
    BY <2>1, WorkChange DEF MaintenanceInv
<1>5. \A t, h : Holds(x, t, h) <=> Holds(work[w], t, h)
  BY <1>3 DEF Holds, IsAt
<1>6. LocksFit'
  BY <1>4, <1>5 DEF MaintenanceInv, LocksFit
<1>7. ASSUME NEW v \in Worker, work'[v].at = "busy"
      PROVE  work'[v].done = IF work'[v].stage = "extract" THEN extracted'[work'[v].session]
                             ELSE jobs'[work'[v].session].summary
  <2>1. CASE v = w
    BY <1>3, <1>4, <2>1 DEF MaintenanceInv, MaintenanceTypes
  <2>2. CASE v # w
    <3>1. PICK t \in Sessions, h \in Stage : t = work[v].session /\ h = work[v].stage
      BY <1>4, <1>7, <2>2, WorkIs DEF MaintenanceInv, BusyType
    <3>2. work'[v] = work[v] /\ work[v].at = "busy"
      BY <1>4, <1>7, <2>2
    <3>3. Holds(work[v], t, h) /\ Holds(work[w], s, g)
      BY <3>1, <3>2 DEF Holds, IsAt
    <3>4. ~(t = s /\ h = g)
      BY <2>2, <3>3, OneAtATime
    <3>5. work[v].done = IF h = "extract" THEN extracted[t] ELSE jobs[t].summary
      BY <3>1, <3>2 DEF MaintenanceInv, WorkFits, Checkpoint
    <3>6. h = "extract" => extracted'[t] = extracted[t]
      BY <3>4 DEF MaintenanceInv, MaintenanceTypes
    <3>7. h # "extract" => jobs'[t].summary = jobs[t].summary
      BY <3>4 DEF Stage
    <3>8. QED
      BY <3>1, <3>2, <3>5, <3>6, <3>7
  <2>3. QED
    BY <2>1, <2>2
<1>8. \A t \in Sessions : /\ extracted[t] \in Int /\ extracted'[t] \in Int
                          /\ extracted[t] <= extracted'[t]
  <2> SUFFICES ASSUME NEW t \in Sessions
               PROVE  /\ extracted[t] \in Int /\ extracted'[t] \in Int
                      /\ extracted[t] <= extracted'[t]
    OBVIOUS
  <2>1. PICK e \in Seqno : e = extracted[t]
    BY RowIs DEF MaintenanceInv
  <2>2. e \in Int /\ k \in Int
    BY <2>1, MaintenanceBounds DEF Seqno
  <2>3. CASE g = "extract" /\ t = s
    <3>1. extracted'[t] = k /\ e <= k
      BY <2>1, <2>3 DEF MaintenanceInv, MaintenanceTypes
    <3>2. QED
      BY <2>1, <2>2, <3>1
  <2>4. CASE ~(g = "extract" /\ t = s)
    <3>1. extracted'[t] = e
      BY <2>1, <2>4 DEF MaintenanceInv, MaintenanceTypes
    <3>2. QED
      BY <2>1, <2>2, <3>1
  <2>5. QED
    BY <2>3, <2>4
<1>9. work'["pass"].at \in {"wait", "busy"} /\ work'["pass"].stage = "summary" =>
         work'["pass"].upto <= extracted'[work'["pass"].session]
  <2> SUFFICES ASSUME work'["pass"].at \in {"wait", "busy"}, work'["pass"].stage = "summary"
               PROVE  work'["pass"].upto <= extracted'[work'["pass"].session]
    OBVIOUS
  <2>1. /\ work["pass"].at = work'["pass"].at /\ work["pass"].stage = work'["pass"].stage
        /\ work["pass"].upto = work'["pass"].upto /\ work["pass"].session = work'["pass"].session
    BY <1>3, <1>4 DEF Worker
  <2>2. PICK t \in Sessions, u \in Seqno : t = work["pass"].session /\ u = work["pass"].upto
    BY <2>1, WorkIs DEF MaintenanceInv, WaitType, BusyType, Worker
  <2>3. u <= extracted[t]
    BY <2>1, <2>2 DEF MaintenanceInv, WorkFits
  <2>4. extracted[t] \in Int /\ extracted'[t] \in Int
    BY <1>8, <2>2
  <2>5. u \in Int
    BY <2>2, MaintenanceBounds DEF Seqno
  <2>6. u <= extracted'[t]
    BY <1>8, <2>3, <2>4, <2>5
  <2>7. QED
    BY <2>1, <2>2, <2>6
<1>10. WorkFits'
  BY <1>7, <1>9 DEF WorkFits, Checkpoint
<1>11. QED
  BY <1>4, <1>6, <1>10

LEMMA StoreExtractionIs ==
    ASSUME MaintenanceInv, NEW s \in Sessions, NEW d \in Seqno, NEW k \in Seqno,
           d = extracted[s], d < k, StoreExtraction(s, (d + 1)..k), UNCHANGED <<alive, restarts>>
    PROVE  /\ extracted' = [extracted EXCEPT ![s] = k]
           /\ heard' \in [Sessions -> [1..MaxMessages -> Nat]]
           /\ CompletedIsCovered' /\ CheckpointsAreTrue'
<1> DEFINE batch == (d + 1)..k
           c == Counted(heard[s], batch)
<1>0. d \in Nat /\ k \in Nat /\ d + 1 \in Int /\ d \in Int /\ k \in Int /\ d + 1 <= k /\ d <= k
  BY MaintenanceBounds DEF Seqno
<1>1. Max({d} \cup batch) = k
  BY <1>0, MaxOfInterval
<1>2. extracted' = [extracted EXCEPT ![s] = k]
  BY <1>1 DEF StoreExtraction
<1>3. /\ c \in [1..MaxMessages -> Nat]
      /\ \A m \in 1..MaxMessages : c[m] = IF m \in batch THEN heard[s][m] + 1 ELSE heard[s][m]
  <2>1. heard[s] \in [1..MaxMessages -> Nat]
    BY DEF MaintenanceInv, MaintenanceTypes
  <2>2. PICK f, b : f = heard[s] /\ b = batch
    OBVIOUS
  <2> HIDE DEF batch
  <2>3. f \in [1..MaxMessages -> Nat]
    BY <2>1, <2>2
  <2>4. /\ Counted(f, b) \in [1..MaxMessages -> Nat]
        /\ \A m \in 1..MaxMessages : Counted(f, b)[m] = IF m \in b THEN f[m] + 1 ELSE f[m]
    BY <2>3, CountedIs
  <2>5. c = Counted(f, b)
    BY <2>2
  <2>6. QED
    BY <2>2, <2>4, <2>5
<1>4. heard' = [heard EXCEPT ![s] = c] /\ jobs' = jobs /\ told' = told
  BY DEF StoreExtraction
<1> HIDE DEF c
<1>5. /\ heard' \in [Sessions -> [1..MaxMessages -> Nat]]
      /\ \A t \in Sessions : heard'[t] = IF t = s THEN c ELSE heard[t]
      /\ \A t \in Sessions : extracted'[t] = IF t = s THEN k ELSE extracted[t]
  BY <1>2, <1>3, <1>4 DEF MaintenanceInv, MaintenanceTypes
<1>6. CompletedIsCovered'
  <2> SUFFICES ASSUME NEW t \in alive
               PROVE  /\ jobs[t].completed <= extracted'[t]
                      /\ jobs[t].completed - jobs[t].summary < Threshold
    BY <1>4 DEF CompletedIsCovered
  <2>1. t \in Sessions
    BY DEF MaintenanceInv, MaintenanceTypes
  <2>2. PICK e \in Seqno, p \in Seqno : e = extracted[t] /\ p = jobs[t].completed
    BY <2>1, RowIs DEF MaintenanceInv
  <2>3. p <= e /\ p - jobs[t].summary < Threshold
    BY <2>2 DEF MaintenanceInv, CompletedIsCovered
  <2>4. e \in Nat /\ p \in Nat
    BY <2>2, MaintenanceBounds DEF Seqno
  <2>5. extracted'[t] = IF t = s THEN k ELSE e
    BY <1>5, <2>1, <2>2
  <2>6. p <= extracted'[t]
    BY <1>0, <2>2, <2>3, <2>4, <2>5
  <2>7. QED
    BY <2>2, <2>3, <2>6
<1>7. CheckpointsAreTrue'
  <2> SUFFICES ASSUME NEW t \in Sessions, NEW m \in 1..MaxMessages
               PROVE  /\ told[t][m] = IF m <= jobs[t].summary THEN 1 ELSE 0
                      /\ (m <= extracted'[t]) => heard'[t][m] > 0
                      /\ heard'[t][m] <= restarts + (IF m <= extracted'[t] THEN 1 ELSE 0)
    BY <1>4 DEF CheckpointsAreTrue
  <2>1. /\ told[t][m] = IF m <= jobs[t].summary THEN 1 ELSE 0
        /\ (m <= extracted[t]) => heard[t][m] > 0
        /\ heard[t][m] <= restarts + (IF m <= extracted[t] THEN 1 ELSE 0)
        /\ heard[t][m] \in Nat /\ restarts \in Nat
    BY DEF MaintenanceInv, MaintenanceTypes, CheckpointsAreTrue
  <2>2. CASE t # s
    BY <1>5, <2>1, <2>2
  <2>3. CASE t = s
    <3>1. heard'[t][m] = IF m \in batch THEN heard[t][m] + 1 ELSE heard[t][m]
      BY <1>3, <1>5, <2>3
    <3>2. extracted'[t] = k /\ extracted[t] = d
      BY <1>5, <2>3
    <3>3. m \in batch <=> m > d /\ m <= k
      BY <1>0
    <3> HIDE DEF batch
    <3>4. QED
      BY <1>0, <2>1, <3>1, <3>2, <3>3
  <2>4. QED
    BY <2>2, <2>3
<1>8. QED
  BY <1>2, <1>5, <1>6, <1>7

LEMMA StoreSummaryIs ==
    ASSUME MaintenanceInv, NEW s \in Sessions, NEW d \in Seqno, NEW k \in Seqno,
           d = jobs[s].summary, d < k, StoreSummary(s, (d + 1)..k), UNCHANGED <<alive, restarts>>
    PROVE  /\ jobs' \in [Sessions -> JobRow] /\ order' \in SetToSeqs(Sessions)
           /\ told' \in [Sessions -> [1..MaxMessages -> Nat]] /\ UNCHANGED <<heard, extracted>>
           /\ \A t \in Sessions : jobs'[t].summary = IF t = s THEN k ELSE jobs[t].summary
           /\ CompletedIsCovered' /\ CheckpointsAreTrue'
<1> DEFINE batch == (d + 1)..k
           c == Counted(told[s], batch)
           r == [jobs[s] EXCEPT !.summary = k]
<1>0. d \in Nat /\ k \in Nat /\ d + 1 \in Int /\ d \in Int /\ k \in Int /\ d + 1 <= k /\ d <= k
  BY MaintenanceBounds DEF Seqno
<1>1. Max(batch) = k
  BY <1>0, MaxOfInterval
<1>2. /\ jobs' = [jobs EXCEPT ![s].summary = k] /\ told' = [told EXCEPT ![s] = c] /\ Touched(s)
      /\ UNCHANGED <<heard, extracted>>
  BY <1>0, <1>1 DEF StoreSummary
<1>3. /\ c \in [1..MaxMessages -> Nat]
      /\ \A m \in 1..MaxMessages : c[m] = IF m \in batch THEN told[s][m] + 1 ELSE told[s][m]
  <2>1. told[s] \in [1..MaxMessages -> Nat]
    BY DEF MaintenanceInv, MaintenanceTypes
  <2>2. PICK f, b : f = told[s] /\ b = batch
    OBVIOUS
  <2> HIDE DEF batch
  <2>3. f \in [1..MaxMessages -> Nat]
    BY <2>1, <2>2
  <2>4. /\ Counted(f, b) \in [1..MaxMessages -> Nat]
        /\ \A m \in 1..MaxMessages : Counted(f, b)[m] = IF m \in b THEN f[m] + 1 ELSE f[m]
    BY <2>3, CountedIs
  <2>5. c = Counted(f, b)
    BY <2>2
  <2>6. QED
    BY <2>2, <2>4, <2>5
<1>4. r \in JobRow /\ r.summary = k /\ r.completed = jobs[s].completed
  BY RowIs DEF MaintenanceInv, JobRow
<1>5. jobs' = [jobs EXCEPT ![s] = r]
  BY <1>2 DEF MaintenanceInv, MaintenanceTypes
<1> HIDE DEF c, r
<1>6. /\ jobs' \in [Sessions -> JobRow] /\ order' \in SetToSeqs(Sessions)
      /\ \A t \in Sessions : jobs'[t] = IF t = s THEN r ELSE jobs[t]
  BY <1>2, <1>4, <1>5, RowChange DEF MaintenanceInv
<1>7. /\ told' \in [Sessions -> [1..MaxMessages -> Nat]]
      /\ \A t \in Sessions : told'[t] = IF t = s THEN c ELSE told[t]
  BY <1>2, <1>3 DEF MaintenanceInv, MaintenanceTypes
<1>8. CompletedIsCovered'
  <2> SUFFICES ASSUME NEW t \in alive
               PROVE  /\ jobs'[t].completed <= extracted[t]
                      /\ jobs'[t].completed - jobs'[t].summary < Threshold
    BY <1>2 DEF CompletedIsCovered
  <2>1. t \in Sessions
    BY DEF MaintenanceInv, MaintenanceTypes
  <2>2. PICK e \in Seqno, p \in Seqno : e = jobs[t].summary /\ p = jobs[t].completed
    BY <2>1, RowIs DEF MaintenanceInv
  <2>3. p <= extracted[t] /\ p - e < Threshold
    BY <2>2 DEF MaintenanceInv, CompletedIsCovered
  <2>4. e \in Nat /\ p \in Nat
    BY <2>2, MaintenanceBounds DEF Seqno
  <2>5. jobs'[t].summary = (IF t = s THEN k ELSE e) /\ jobs'[t].completed = p
    BY <1>4, <1>6, <2>1, <2>2
  <2>6. p - (IF t = s THEN k ELSE e) < Threshold
    BY <1>0, <2>2, <2>3, <2>4, MaintenanceBounds
  <2>7. QED
    BY <2>3, <2>5, <2>6
<1>9. CheckpointsAreTrue'
  <2> SUFFICES ASSUME NEW t \in Sessions, NEW m \in 1..MaxMessages
               PROVE  /\ told'[t][m] = IF m <= jobs'[t].summary THEN 1 ELSE 0
                      /\ (m <= extracted[t]) => heard[t][m] > 0
                      /\ heard[t][m] <= restarts + (IF m <= extracted[t] THEN 1 ELSE 0)
    BY <1>2 DEF CheckpointsAreTrue
  <2>1. /\ told[t][m] = IF m <= jobs[t].summary THEN 1 ELSE 0
        /\ (m <= extracted[t]) => heard[t][m] > 0
        /\ heard[t][m] <= restarts + (IF m <= extracted[t] THEN 1 ELSE 0)
    BY DEF MaintenanceInv, CheckpointsAreTrue
  <2>2. CASE t # s
    BY <1>6, <1>7, <2>1, <2>2
  <2>3. CASE t = s
    <3>1. told'[t][m] = IF m \in batch THEN told[t][m] + 1 ELSE told[t][m]
      BY <1>3, <1>7, <2>3
    <3>2. jobs'[t].summary = k /\ jobs[t].summary = d
      BY <1>4, <1>6, <2>3
    <3>3. m \in batch <=> m > d /\ m <= k
      BY <1>0
    <3> HIDE DEF batch
    <3>4. told'[t][m] = IF m <= jobs'[t].summary THEN 1 ELSE 0
      BY <1>0, <2>1, <3>1, <3>2, <3>3
    <3>5. QED
      BY <2>1, <3>4
  <2>4. QED
    BY <2>2, <2>3
<1>10. \A t \in Sessions : jobs'[t].summary = IF t = s THEN k ELSE jobs[t].summary
  BY <1>4, <1>6
<1>11. QED
  BY <1>2, <1>6, <1>7, <1>8, <1>9, <1>10

LEMMA StoreBatchStep ==
    ASSUME MaintenanceInv, NEW w \in Worker, StoreBatch(w)
    PROVE  MaintenanceInv'
<1>1. PICK g, s, b : g = work[w].stage /\ s = work[w].session /\ b = NextBatch(w)
  OBVIOUS
<1>2. /\ work[w].at = "busy" /\ b # {}
      /\ IF g = "extract" THEN StoreExtraction(s, b) ELSE StoreSummary(s, b)
      /\ work' = [work EXCEPT ![w].done = Max(b)]
      /\ UNCHANGED <<manuals, messages, alive, chat, foreground, turns, locks, cooling, failures,
                     restarts>>
  BY <1>1 DEF StoreBatch, chatState, mishaps
<1>3. g \in Stage /\ s \in Sessions
  BY <1>1, <1>2, WorkIs DEF MaintenanceInv, BusyType
<1>4. PICK d \in Seqno, k \in Seqno :
         /\ d = Checkpoint(g, s) /\ d < k /\ b = (d + 1)..k /\ Max(b) = k
  BY <1>1, <1>2, BatchIs
<1>5. work' = [work EXCEPT ![w] = [@ EXCEPT !.done = k]]
  BY <1>2, <1>4 DEF MaintenanceInv, MaintenanceTypes
<1>6. foreground' = Cardinality(InForeground')
  BY <1>2, ForegroundStays
<1>7. CASE g = "extract"
  <2>1. d = extracted[s] /\ StoreExtraction(s, (d + 1)..k)
    BY <1>2, <1>4, <1>7 DEF Checkpoint
  <2>2. /\ extracted' = [extracted EXCEPT ![s] = k]
        /\ heard' \in [Sessions -> [1..MaxMessages -> Nat]]
        /\ CompletedIsCovered' /\ CheckpointsAreTrue'
    BY <1>2, <1>3, <1>4, <2>1, StoreExtractionIs
  <2>3. UNCHANGED <<jobs, order, told>>
    BY <2>1 DEF StoreExtraction
  <2>4. extracted[s] <= k
    BY <1>4, <2>1, MaintenanceBounds DEF Seqno
  <2>5. LocksFit' /\ WorkFits' /\ work' \in [Worker -> WorkType]
    BY <1>1, <1>2, <1>3, <1>4, <1>5, <1>7, <2>2, <2>3, <2>4, StoreBatchWork
  <2>6. extracted' \in [Sessions -> Seqno]
    BY <1>3, <1>4, <2>2 DEF MaintenanceInv, MaintenanceTypes
  <2>7. MaintenanceTypes'
    BY <1>2, <2>2, <2>3, <2>5, <2>6 DEF MaintenanceInv, MaintenanceTypes
  <2>8. QED
    BY <1>6, <2>2, <2>5, <2>7 DEF MaintenanceInv
<1>8. CASE g # "extract"
  <2>1. d = jobs[s].summary /\ StoreSummary(s, (d + 1)..k)
    BY <1>2, <1>4, <1>8 DEF Checkpoint
  <2>2. /\ jobs' \in [Sessions -> JobRow] /\ order' \in SetToSeqs(Sessions)
        /\ told' \in [Sessions -> [1..MaxMessages -> Nat]] /\ UNCHANGED <<heard, extracted>>
        /\ \A t \in Sessions : jobs'[t].summary = IF t = s THEN k ELSE jobs[t].summary
        /\ CompletedIsCovered' /\ CheckpointsAreTrue'
    BY <1>2, <1>3, <1>4, <2>1, StoreSummaryIs
  <2>3. LocksFit' /\ WorkFits' /\ work' \in [Worker -> WorkType]
    <3>1. /\ work[w].at = "busy" /\ work[w].stage = g /\ work[w].session = s /\ locks' = locks
          /\ extracted' = extracted
      BY <1>1, <1>2, <2>2
    <3>2. \A t \in Sessions : jobs'[t].summary = IF t = s THEN k ELSE jobs[t].summary
      BY <2>2
    <3>3. QED
      BY <1>3, <1>4, <1>5, <1>8, <3>1, <3>2, StoreBatchWork
  <2>4. MaintenanceTypes'
    BY <1>2, <2>2, <2>3 DEF MaintenanceInv, MaintenanceTypes
  <2>5. QED
    BY <1>6, <2>2, <2>3, <2>4 DEF MaintenanceInv
<1>9. QED
  BY <1>7, <1>8

LEMMA FinishStageStep ==
    ASSUME MaintenanceInv, NEW w \in Worker, FinishStage(w)
    PROVE  MaintenanceInv'
<1>1. PICK g, s, u : g = work[w].stage /\ s = work[w].session /\ u = work[w].upto
  OBVIOUS
<1>2. PICK summarizes \in BOOLEAN :
         summarizes = (g = "extract" /\ u - jobs[s].summary >= Threshold)
  OBVIOUS
<1>3. PICK x : x = IF w = "pass" /\ summarizes THEN WaitingJobs("summary", s, u) ELSE Resting
  OBVIOUS
<1>4. /\ work[w].at = "busy" /\ NextBatch(w) = {} /\ Release(w, s, g)
      /\ work' = [work EXCEPT ![w] = x]
      /\ IF w = "pass" /\ ~summarizes THEN Complete(s, u) ELSE UNCHANGED <<jobs, order>>
      /\ UNCHANGED <<manuals, messages, alive, chat, foreground, turns, extracted, cooling,
                     heard, told, failures, restarts>>
  BY <1>1, <1>2, <1>3 DEF FinishStage, chatState, mishaps
<1>5. g \in Stage /\ s \in Sessions /\ u \in Seqno /\ u \in Nat
  BY <1>1, <1>4, WorkIs, MaintenanceBounds DEF MaintenanceInv, BusyType
<1>6. PICK d \in Seqno : d = Checkpoint(g, s) /\ u <= d
  BY <1>1, <1>4, BatchIs
<1>7. /\ x \in WorkType /\ x.at \in {"rest", "wait"}
      /\ w = "pass" /\ x.at = "wait" /\ x.stage = "summary" => x.upto <= extracted[x.session]
  <2>1. CASE w = "pass" /\ summarizes
    <3>1. x = WaitingJobs("summary", s, u) /\ u <= extracted[s]
      BY <1>2, <1>3, <1>6, <2>1 DEF Checkpoint
    <3>2. QED
      BY <1>5, <3>1 DEF WaitingJobs, WorkType, WaitType, Stage
  <2>2. CASE ~(w = "pass" /\ summarizes)
    BY <1>3, <2>2 DEF Resting, WorkType
  <2>3. QED
    BY <2>1, <2>2
<1>8. /\ locks' \in [Sessions -> [Stage -> Worker \cup {"free"}]]
      /\ \A t \in Sessions, h \in Stage :
            locks'[t][h] = IF Holds(work[w], t, h) THEN "free" ELSE locks[t][h]
  BY <1>1, <1>4, ReleasesWhatItHolds
<1>9. /\ jobs' \in [Sessions -> JobRow] /\ order' \in SetToSeqs(Sessions)
      /\ \A t \in Sessions : /\ jobs'[t].summary = jobs[t].summary
                             /\ t # s => jobs'[t].completed = jobs[t].completed
      /\ \/ jobs'[s].completed = jobs[s].completed
         \/ w = "pass" /\ ~summarizes /\ jobs'[s].completed = u
  <2>1. CASE w = "pass" /\ ~summarizes
    BY <1>4, <1>5, <2>1, CompleteIs DEF MaintenanceInv
  <2>2. CASE ~(w = "pass" /\ ~summarizes)
    BY <1>4, <2>2 DEF MaintenanceInv, MaintenanceTypes
  <2>3. QED
    BY <2>1, <2>2
<1>10. LocksFit' /\ WorkFits'
  BY <1>4, <1>7, <1>8, <1>9, WaitsWithoutLock
<1>11. work' \in [Worker -> WorkType]
  BY <1>4, <1>7, WorkChange DEF MaintenanceInv
<1>12. MaintenanceTypes'
  BY <1>4, <1>8, <1>9, <1>11 DEF MaintenanceInv, MaintenanceTypes
<1>13. CheckpointsAreTrue'
  BY <1>4, <1>9, CheckpointsStay
<1>14. CompletedIsCovered'
  <2>1. w = "pass" /\ ~summarizes => u <= extracted[s] /\ u - jobs[s].summary < Threshold
    <3> SUFFICES ASSUME w = "pass", ~summarizes
                 PROVE  u <= extracted[s] /\ u - jobs[s].summary < Threshold
      OBVIOUS
    <3>1. PICK e \in Seqno, m \in Seqno : e = extracted[s] /\ m = jobs[s].summary
      BY <1>5, RowIs DEF MaintenanceInv
    <3>2. e \in Nat /\ m \in Nat
      BY <3>1, MaintenanceBounds
    <3>3. CASE g = "extract"
      <4>1. u <= e /\ ~(u - m >= Threshold)
        BY <1>2, <1>6, <3>1, <3>3 DEF Checkpoint
      <4>2. QED
        BY <1>5, <3>1, <3>2, <4>1, MaintenanceBounds
    <3>4. CASE g # "extract"
      <4>1. u <= m
        BY <1>6, <3>1, <3>4 DEF Checkpoint
      <4>2. u <= e
        BY <1>1, <1>4, <1>5, <3>1, <3>4 DEF MaintenanceInv, WorkFits, Stage
      <4>3. QED
        BY <1>5, <3>1, <3>2, <4>1, <4>2, MaintenanceBounds
    <3>5. QED
      BY <3>3, <3>4
  <2>2. alive \subseteq Sessions
    BY DEF MaintenanceInv, MaintenanceTypes
  <2>3. ASSUME NEW t \in alive
        PROVE  /\ jobs'[t].completed <= extracted[t]
               /\ jobs'[t].completed - jobs[t].summary < Threshold
    <3>1. /\ jobs[t].completed <= extracted[t]
          /\ jobs[t].completed - jobs[t].summary < Threshold
      BY DEF MaintenanceInv, CompletedIsCovered
    <3>2. CASE jobs'[t].completed = jobs[t].completed
      BY <3>1, <3>2
    <3>3. CASE jobs'[t].completed # jobs[t].completed
      BY <1>9, <2>1, <2>2, <3>3
    <3>4. QED
      BY <3>2, <3>3
  <2>4. QED
    BY <1>4, <1>9, <2>2, <2>3 DEF CompletedIsCovered
<1>15. foreground' = Cardinality(InForeground')
  BY <1>4, ForegroundStays
<1>16. QED
  BY <1>10, <1>12, <1>13, <1>14, <1>15 DEF MaintenanceInv

LEMMA FailBatchStep ==
    ASSUME MaintenanceInv, NEW w \in Worker, FailBatch(w)
    PROVE  MaintenanceInv'
<1>1. /\ work[w].at = "busy" /\ Release(w, work[w].session, work[w].stage)
      /\ work' = [work EXCEPT ![w] = Resting]
      /\ IF w = "pass" THEN Defer(work[w].session) ELSE UNCHANGED <<jobs, order>>
      /\ manuals + failures + restarts < MaxMishaps /\ failures' = failures + 1
      /\ UNCHANGED <<manuals, messages, alive, chat, foreground, turns, extracted, cooling,
                     heard, told, restarts>>
  BY DEF FailBatch, chatState
<1>2. work[w].session \in Sessions
  BY <1>1, WorkIs DEF MaintenanceInv, BusyType
<1>3. Resting \in WorkType /\ Resting.at = "rest"
  BY DEF Resting, WorkType
<1>4. /\ locks' \in [Sessions -> [Stage -> Worker \cup {"free"}]]
      /\ \A t \in Sessions, h \in Stage :
            locks'[t][h] = IF Holds(work[w], t, h) THEN "free" ELSE locks[t][h]
  BY <1>1, ReleasesWhatItHolds
<1>5. /\ jobs' \in [Sessions -> JobRow] /\ order' \in SetToSeqs(Sessions)
      /\ \A t \in Sessions : /\ jobs'[t].summary = jobs[t].summary
                             /\ jobs'[t].completed = jobs[t].completed
  <2>1. CASE w = "pass"
    BY <1>1, <1>2, <2>1, DeferIs DEF MaintenanceInv
  <2>2. CASE w # "pass"
    BY <1>1, <2>2 DEF MaintenanceInv, MaintenanceTypes
  <2>3. QED
    BY <2>1, <2>2
<1>6. LocksFit' /\ WorkFits'
  BY <1>1, <1>3, <1>4, <1>5, WaitsWithoutLock
<1>7. work' \in [Worker -> WorkType]
  BY <1>1, <1>3, WorkChange DEF MaintenanceInv
<1>8. /\ manuals' \in Nat /\ failures' \in Nat /\ restarts' \in Nat
      /\ manuals' + failures' + restarts' <= MaxMishaps
  BY <1>1, MaintenanceBounds DEF MaintenanceInv, MaintenanceTypes
<1>9. MaintenanceTypes'
  BY <1>1, <1>4, <1>5, <1>7, <1>8 DEF MaintenanceInv, MaintenanceTypes
<1>10. CheckpointsAreTrue'
  BY <1>1, <1>5, CheckpointsStay
<1>11. CompletedIsCovered'
  BY <1>1, <1>5, CoverStays DEF MaintenanceInv, MaintenanceTypes
<1>12. foreground' = Cardinality(InForeground')
  BY <1>1, ForegroundStays
<1>13. QED
  BY <1>6, <1>9, <1>10, <1>11, <1>12 DEF MaintenanceInv

LEMMA DropPassStep ==
    ASSUME MaintenanceInv, DropPass
    PROVE  MaintenanceInv'
<1>1. PICK was : was = work["pass"].of
  OBVIOUS
<1>2. /\ work["pass"].at = "cancelled" /\ work' = [work EXCEPT !["pass"] = Resting]
      /\ IF was.at = "busy" THEN Release("pass", was.session, was.stage) ELSE UNCHANGED locks
      /\ UNCHANGED <<manuals, messages, alive, chat, foreground, turns, jobs, order, extracted,
                     cooling, heard, told, failures, restarts>>
  BY <1>1 DEF DropPass, chatState, memoryStore, mishaps
<1>3. "pass" \in Worker /\ Resting \in WorkType /\ Resting.at = "rest"
  BY DEF Resting, WorkType, Worker
<1>4. was \in WaitType \cup BusyType
  BY <1>1, <1>2, <1>3, WorkIs DEF MaintenanceInv
<1>5. \A t, h : Holds(work["pass"], t, h) <=> IsAt(was, t, h)
  BY <1>1, <1>2 DEF Holds, IsAt
<1>6. /\ locks' \in [Sessions -> [Stage -> Worker \cup {"free"}]]
      /\ \A t \in Sessions, h \in Stage :
            locks'[t][h] = IF IsAt(was, t, h) THEN "free" ELSE locks[t][h]
  <2>1. CASE was.at = "busy"
    <3>1. was.session \in Sessions /\ was.stage \in Stage
      BY <1>4 DEF WaitType, BusyType
    <3>2. locks' = [locks EXCEPT ![was.session][was.stage] = "free"]
      BY <1>2, <2>1 DEF Release
    <3>3. /\ locks' \in [Sessions -> [Stage -> Worker \cup {"free"}]]
          /\ \A t \in Sessions, h \in Stage : locks'[t][h] =
                IF t = was.session /\ h = was.stage THEN "free" ELSE locks[t][h]
      BY <3>1, <3>2, LockChange DEF MaintenanceInv
    <3>4. QED
      BY <2>1, <3>3 DEF IsAt
  <2>2. CASE was.at # "busy"
    BY <1>2, <2>2 DEF IsAt, MaintenanceInv, MaintenanceTypes
  <2>3. QED
    BY <2>1, <2>2
<1>7. LocksFit' /\ WorkFits'
  <2>1. \A t \in Sessions, h \in Stage :
           locks'[t][h] = IF Holds(work["pass"], t, h) THEN "free" ELSE locks[t][h]
    BY <1>5, <1>6
  <2>2. QED
    BY <1>2, <1>3, <2>1, WaitsWithoutLock
<1>8. work' \in [Worker -> WorkType]
  BY <1>2, <1>3, WorkChange DEF MaintenanceInv
<1>9. MaintenanceTypes'
  BY <1>2, <1>6, <1>8 DEF MaintenanceInv, MaintenanceTypes
<1>10. CompletedIsCovered' /\ CheckpointsAreTrue'
  BY <1>2 DEF MaintenanceInv, CompletedIsCovered, CheckpointsAreTrue
<1>11. foreground' = Cardinality(InForeground')
  BY <1>2, ForegroundStays
<1>12. QED
  BY <1>7, <1>9, <1>10, <1>11 DEF MaintenanceInv

(* A restart may cut one batch of an extraction short.                      *)
LEMMA RestartMaintenanceStep ==
    ASSUME MaintenanceInv, RestartMaintenance
    PROVE  MaintenanceInv'
<1>1. /\ manuals + failures + restarts < MaxMishaps /\ restarts' = restarts + 1
      /\ work' = [w \in Worker |-> Resting]
      /\ locks' = [s \in Sessions |-> [g \in Stage |-> "free"]]
      /\ chat' = [s \in Sessions |-> "none"] /\ foreground' = 0 /\ cooling' = FALSE
      /\ UNCHANGED <<manuals, messages, alive, turns, jobs, order, extracted, told, failures>>
  BY DEF RestartMaintenance
<1>2. Resting \in WorkType /\ Resting.at = "rest"
  BY DEF Resting, WorkType
<1>3. \A w \in Worker : work'[w] = Resting
  BY <1>1
<1>4. work' \in [Worker -> WorkType]
  BY <1>1, <1>2
<1>5. /\ heard' \in [Sessions -> [1..MaxMessages -> Nat]]
      /\ \A s \in Sessions, m \in 1..MaxMessages :
            /\ heard[s][m] <= heard'[s][m] /\ heard'[s][m] <= heard[s][m] + 1
            /\ heard'[s][m] # heard[s][m] => m > extracted[s]
  <2>1. CASE heard' = heard
    <3>1. \A s \in Sessions, m \in 1..MaxMessages : heard[s][m] \in Nat
      BY DEF MaintenanceInv, MaintenanceTypes
    <3>2. heard' \in [Sessions -> [1..MaxMessages -> Nat]]
      BY <2>1 DEF MaintenanceInv, MaintenanceTypes
    <3>3. QED
      BY <2>1, <3>1, <3>2
  <2>2. CASE heard' # heard
    <3>1. PICK w \in Worker :
             /\ work[w].at = "busy" /\ work[w].stage = "extract"
             /\ heard' = [heard EXCEPT ![work[w].session] = Counted(@, NextBatch(w))]
      BY <2>2 DEF RestartMaintenance
    <3>2. PICK s \in Sessions : s = work[w].session
      BY <3>1, WorkIs DEF MaintenanceInv, BusyType
    <3>3. PICK b : b = NextBatch(w)
      OBVIOUS
    <3>4. PICK c : c = Counted(heard[s], b)
      OBVIOUS
    <3>5. heard[s] \in [1..MaxMessages -> Nat]
      BY <3>2, <3>3 DEF MaintenanceInv, MaintenanceTypes
    <3>6. /\ c \in [1..MaxMessages -> Nat]
          /\ \A m \in 1..MaxMessages : c[m] = IF m \in b THEN heard[s][m] + 1 ELSE heard[s][m]
      BY <3>4, <3>5, CountedIs
    <3>7. heard' = [heard EXCEPT ![s] = c]
      BY <3>1, <3>2, <3>3, <3>4 DEF MaintenanceInv, MaintenanceTypes
    <3>8. /\ heard' \in [Sessions -> [1..MaxMessages -> Nat]]
          /\ \A t \in Sessions : heard'[t] = IF t = s THEN c ELSE heard[t]
      BY <3>2, <3>3, <3>6, <3>7 DEF MaintenanceInv, MaintenanceTypes
    <3>9. \A m \in b : m > extracted[s]
      <4>1. PICK d \in Seqno, k \in Seqno : d = extracted[s] /\ (b # {} => b = (d + 1)..k)
        BY <3>1, <3>2, <3>3, BatchIs DEF Checkpoint
      <4>2. d \in Nat /\ k \in Nat
        BY <4>1, MaintenanceBounds
      <4>3. QED
        BY <4>1, <4>2
    <3>10. \A t \in Sessions, m \in 1..MaxMessages :
            /\ heard[t][m] <= heard'[t][m] /\ heard'[t][m] <= heard[t][m] + 1
            /\ heard'[t][m] # heard[t][m] => m > extracted[t]
      <4> SUFFICES ASSUME NEW t \in Sessions, NEW m \in 1..MaxMessages
                   PROVE  /\ heard[t][m] <= heard'[t][m] /\ heard'[t][m] <= heard[t][m] + 1
                          /\ heard'[t][m] # heard[t][m] => m > extracted[t]
        OBVIOUS
      <4>1. heard[t][m] \in Nat
        <5>1. heard \in [Sessions -> [1..MaxMessages -> Nat]]
          BY DEF MaintenanceInv, MaintenanceTypes
        <5>2. QED
          BY <5>1
      <4>2. \/ heard'[t][m] = heard[t][m]
            \/ heard'[t][m] = heard[t][m] + 1 /\ t = s /\ m \in b
        BY <3>6, <3>8
      <4>3. QED
        BY <3>9, <4>1, <4>2
    <3>11. QED
      BY <3>8, <3>10
  <2>3. QED
    BY <2>1, <2>2
<1>6. LocksFit'
  BY <1>1, <1>2, <1>3 DEF LocksFit, Holds, IsAt, Worker
<1>7. WorkFits'
  BY <1>1, <1>2, <1>3 DEF WorkFits, Worker
<1>8. foreground' = Cardinality(InForeground')
  <2>1. InForeground' = {}
    BY <1>1 DEF InForeground
  <2>2. QED
    BY <1>1, <2>1, FS_EmptySet
<1>9. CompletedIsCovered'
  BY <1>1 DEF MaintenanceInv, CompletedIsCovered
<1>10. CheckpointsAreTrue'
  <2> SUFFICES ASSUME NEW t \in Sessions, NEW m \in 1..MaxMessages
               PROVE  /\ told[t][m] = IF m <= jobs[t].summary THEN 1 ELSE 0
                      /\ (m <= extracted[t]) => heard'[t][m] > 0
                      /\ heard'[t][m] <= restarts + 1 + (IF m <= extracted[t] THEN 1 ELSE 0)
    BY <1>1 DEF CheckpointsAreTrue
  <2>1. /\ told[t][m] = IF m <= jobs[t].summary THEN 1 ELSE 0
        /\ (m <= extracted[t]) => heard[t][m] > 0
        /\ heard[t][m] <= restarts + (IF m <= extracted[t] THEN 1 ELSE 0)
        /\ heard[t][m] \in Nat /\ restarts \in Nat
    BY DEF MaintenanceInv, MaintenanceTypes, CheckpointsAreTrue
  <2>2. heard'[t][m] \in Nat /\ heard[t][m] <= heard'[t][m] /\ heard'[t][m] <= heard[t][m] + 1
    BY <1>5
  <2>3. QED
    BY <2>1, <2>2
<1>11. /\ manuals' \in Nat /\ failures' \in Nat /\ restarts' \in Nat
       /\ manuals' + failures' + restarts' <= MaxMishaps
  BY <1>1, MaintenanceBounds DEF MaintenanceInv, MaintenanceTypes
<1>12. MaintenanceTypes'
  BY <1>1, <1>4, <1>5, <1>11 DEF MaintenanceInv, MaintenanceTypes, Chats
<1>13. QED
  BY <1>6, <1>7, <1>8, <1>9, <1>10, <1>12 DEF MaintenanceInv

LEMMA MaintenanceStarts ==
    ASSUME MaintenanceInit
    PROVE  MaintenanceInv
<1>1. order \in SetToSeqs(Sessions)
  <2>1. PICK n \in Nat : n = Cardinality(Sessions)
    BY MaintenanceBounds, FS_CardinalityType
  <2>2. ExistsBijection(1..n, Sessions)
    BY <2>1, MaintenanceBounds, FS_CardinalityType
  <2>3. PICK f : f \in Bijection(1..n, Sessions)
    BY <2>2 DEF ExistsBijection
  <2>4. f \in [1..n -> Sessions] /\ \A i, j \in 1..n : i # j => f[i] # f[j]
    BY <2>3 DEF Bijection, Injection, IsInjective
  <2>5. f \in [1..n -> Sessions] /\ IsInjective(f)
    BY <2>3 DEF Bijection, Injection
  <2>6. PICK q : q = SetToSeq(Sessions)
    OBVIOUS
  <2>7. q \in [1..n -> Sessions] /\ IsInjective(q)
    BY <2>1, <2>5, <2>6, Zenon DEF SetToSeq
  <2>8. q \in SetToSeqs(Sessions)
    BY <2>1, <2>7 DEF SetToSeqs, IsInjective
  <2>9. QED
    BY <2>6, <2>8 DEF MaintenanceInit
<1>2. 0 \in Seqno /\ Resting \in WorkType /\ Resting.at = "rest"
  BY MaintenanceBounds DEF Seqno, Resting, WorkType
<1>3. MaintenanceTypes
  <2>1. /\ jobs \in [Sessions -> JobRow] /\ messages \in [Sessions -> Seqno]
        /\ extracted \in [Sessions -> Seqno] /\ chat \in [Sessions -> Chats]
    BY <1>2 DEF MaintenanceInit, JobRow, Chats
  <2>2. /\ work \in [Worker -> WorkType] /\ alive \in SUBSET Sessions
        /\ locks \in [Sessions -> [Stage -> Worker \cup {"free"}]]
    BY <1>2 DEF MaintenanceInit
  <2>3. /\ heard \in [Sessions -> [1..MaxMessages -> Nat]]
        /\ told \in [Sessions -> [1..MaxMessages -> Nat]]
    BY DEF MaintenanceInit
  <2>4. /\ manuals = 0 /\ failures = 0 /\ restarts = 0 /\ foreground = 0 /\ turns = 0
        /\ cooling = FALSE
    BY DEF MaintenanceInit
  <2>5. /\ manuals \in Nat /\ failures \in Nat /\ restarts \in Nat /\ foreground \in Nat
        /\ manuals + failures + restarts <= MaxMishaps /\ turns \in 0..MaxTurns
    BY <2>4, MaintenanceBounds
  <2>6. cooling \in BOOLEAN
    BY <2>4
  <2>7. QED
    BY <1>1, <2>1, <2>2, <2>3, <2>5, <2>6 DEF MaintenanceTypes
<1>4. LocksFit
  BY <1>2 DEF MaintenanceInit, LocksFit, Holds, IsAt, Worker
<1>5. WorkFits
  BY <1>2 DEF MaintenanceInit, WorkFits, Worker
<1>6. foreground = Cardinality(InForeground)
  <2>1. InForeground = {}
    BY DEF MaintenanceInit, InForeground
  <2>2. QED
    BY <2>1, FS_EmptySet DEF MaintenanceInit
<1>7. CompletedIsCovered
  BY MaintenanceBounds DEF MaintenanceInit, CompletedIsCovered
<1>8. CheckpointsAreTrue
  BY DEF MaintenanceInit, CheckpointsAreTrue
<1>9. QED
  BY <1>3, <1>4, <1>5, <1>6, <1>7, <1>8 DEF MaintenanceInv

LEMMA MaintenanceSteps ==
    ASSUME MaintenanceInv, [MaintenanceNext]_maintenanceVars
    PROVE  MaintenanceInv'
<1>1. ASSUME UNCHANGED maintenanceVars PROVE MaintenanceInv'
  <2>1. UNCHANGED <<messages, alive, jobs, order, extracted, manuals, work, locks, chat,
                    foreground, turns, cooling, heard, told, failures, restarts>>
    BY <1>1 DEF maintenanceVars
  <2>2. MaintenanceTypes'
    BY <2>1 DEF MaintenanceInv, MaintenanceTypes
  <2>3. foreground' = Cardinality(InForeground')
    BY <2>1, ForegroundStays
  <2>4. QED
    BY <2>1, <2>2, <2>3, RestIs
<1>2. ASSUME NEW s \in Sessions,
             \/ BecomesDue(s) \/ BeginChat(s) \/ StoreMessage(s) \/ EndChat(s)
             \/ TurnDrained(s) \/ DeleteSession(s)
             \/ \E g \in Stage : StartManual(s, g)
      PROVE  MaintenanceInv'
  BY <1>2, BecomesDueStep, BeginChatStep, StoreMessageStep, EndChatStep, TurnDrainedStep,
     CooledOrDeleted, StartManualStep
<1>3. ASSUME Cooled \/ StartPass \/ DropPass \/ RestartMaintenance PROVE MaintenanceInv'
  BY <1>3, CooledOrDeleted, StartPassStep, DropPassStep, RestartMaintenanceStep
<1>4. ASSUME NEW w \in Worker, WorkStep(w) \/ FailBatch(w) PROVE MaintenanceInv'
  BY <1>4, TakeMemoryLockStep, StoreBatchStep, FinishStageStep, FailBatchStep DEF WorkStep
<1>5. QED
  BY <1>1, <1>2, <1>3, <1>4 DEF MaintenanceNext

LEMMA MaintenanceTypesAreOK ==
    ASSUME MaintenanceInv
    PROVE  MaintenanceTypeOK
<1>1. MaintenanceTypes /\ CheckpointsAreTrue /\ foreground = Cardinality(InForeground)
  BY DEF MaintenanceInv
<1>2. work \in [Worker -> Works]
  <2>1. \A x \in WaitType : x = WaitingJobs(x.stage, x.session, x.upto)
    BY DEF WaitType, WaitingJobs
  <2>2. \A x \in BusyType : x = Busy(x.stage, x.session, x.upto, x.done)
    BY DEF BusyType, Busy
  <2>3. \A x \in [at : {"cancelled"}, of : WaitType \cup BusyType] : x = Cancelled(x.of)
    BY DEF Cancelled
  <2> DEFINE waits == {WaitingJobs(g, s, n) : g \in Stage, s \in Sessions, n \in 0..MaxMessages}
             busy == {Busy(g, s, n, d) : g \in Stage, s \in Sessions, n \in 0..MaxMessages,
                                         d \in 0..MaxMessages}
  <2>4. \A x \in WaitType : x \in waits
    BY <2>1 DEF WaitType, Seqno
  <2>5. \A x \in BusyType : x \in busy
    BY <2>2 DEF BusyType, Seqno
  <2>6. Works = {Resting} \cup waits \cup busy \cup {Cancelled(w) : w \in waits \cup busy}
    BY DEF Works
  <2> HIDE DEF waits, busy
  <2>7. \A x \in [at : {"cancelled"}, of : WaitType \cup BusyType] :
           x.of \in waits \cup busy
    BY <2>4, <2>5
  <2>8. \A x \in WorkType : x \in Works
    BY <2>3, <2>4, <2>5, <2>6, <2>7 DEF WorkType
  <2>9. QED
    BY <1>1, <2>8 DEF MaintenanceTypes
<1>3. foreground \in 0..Cardinality(Sessions)
  BY <1>1, ForegroundIsFinite
<1>4. heard \in [Sessions -> [1..MaxMessages -> 0..(1 + MaxMishaps)]]
  <2>1. ASSUME NEW s \in Sessions, NEW m \in 1..MaxMessages
        PROVE  heard[s][m] \in 0..(1 + MaxMishaps)
    <3>1. heard[s][m] <= restarts + (IF m <= extracted[s] THEN 1 ELSE 0)
      BY <1>1 DEF CheckpointsAreTrue
    <3>2. heard[s][m] \in Nat /\ restarts \in Nat /\ restarts <= MaxMishaps
      BY <1>1, MaintenanceBounds DEF MaintenanceTypes
    <3>3. QED
      BY <3>1, <3>2, MaintenanceBounds
  <2>2. heard \in [Sessions -> [1..MaxMessages -> Nat]]
    BY <1>1 DEF MaintenanceTypes
  <2>3. \A s \in Sessions : heard[s] \in [1..MaxMessages -> 0..(1 + MaxMishaps)]
    BY <2>1, <2>2
  <2>4. QED
    BY <2>2, <2>3
<1>5. told \in [Sessions -> [1..MaxMessages -> 0..MaxMessages]]
  <2>1. ASSUME NEW s \in Sessions, NEW m \in 1..MaxMessages
        PROVE  told[s][m] \in 0..MaxMessages
    <3>1. told[s][m] = IF m <= jobs[s].summary THEN 1 ELSE 0
      BY <1>1 DEF CheckpointsAreTrue
    <3>2. QED
      BY <3>1, MaintenanceBounds
  <2>2. told \in [Sessions -> [1..MaxMessages -> Nat]]
    BY <1>1 DEF MaintenanceTypes
  <2>3. \A s \in Sessions : told[s] \in [1..MaxMessages -> 0..MaxMessages]
    BY <2>1, <2>2
  <2>4. QED
    BY <2>2, <2>3
<1>6. manuals \in 0..MaxMishaps /\ failures \in 0..MaxMishaps /\ restarts \in 0..MaxMishaps
  BY <1>1, MaintenanceBounds DEF MaintenanceTypes
<1>7. QED
  BY <1>1, <1>2, <1>3, <1>4, <1>5, <1>6 DEF MaintenanceTypes, MaintenanceTypeOK, JobRow, Seqno

(* The inductive invariant of the upkeep: a lock is held by who works under *)
(* it, who is as far as the checkpoint it read; so a batch begins right     *)
(* after the checkpoint (MemoryMaintenance, MemoryService).                 *)
THEOREM MaintenanceInductive == MaintenanceSpec => []MaintenanceInv
<1>1. QED
  BY MaintenanceStarts, MaintenanceSteps, PTL DEF MaintenanceSpec

(* In the foreground of a chat no pass is at work.                          *)
PassIsAside == foreground > 0 => work["pass"].at \in {"rest", "cancelled"}

GivesWay ==
    \/ /\ work'["pass"] = work["pass"]
       /\ \A s \in Sessions : jobs'[s].completed = jobs[s].completed
    \/ work'["pass"].at \in {"rest", "cancelled"} /\ UNCHANGED <<jobs, extracted, told>>

(* A worker's step leaves the other's work alone, and only the pass's       *)
(* completes a job.                                                         *)
LEMMA ManualLeaves ==
    ASSUME MaintenanceInv, WorkStep("manual") \/ FailBatch("manual")
    PROVE  /\ work'["pass"] = work["pass"] /\ foreground' = foreground
           /\ \A s \in Sessions : jobs'[s].completed = jobs[s].completed
<1>1. "manual" \in Worker /\ "pass" \in Worker /\ "manual" # "pass"
  BY DEF Worker
<1>2. work \in [Worker -> WorkType] /\ jobs \in [Sessions -> JobRow]
  BY DEF MaintenanceInv, MaintenanceTypes
<1>3. CASE TakeMemoryLock("manual")
  BY <1>1, <1>2, <1>3 DEF TakeMemoryLock, chatState, memoryStore
<1>4. CASE StoreBatch("manual")
  <2>1. work'["pass"] = work["pass"] /\ foreground' = foreground
    BY <1>1, <1>2, <1>4 DEF StoreBatch, chatState
  <2>2. \A s \in Sessions : jobs'[s].completed = jobs[s].completed
    <3>1. PICK k, t : \/ jobs' = jobs
                      \/ jobs' = [jobs EXCEPT ![t].summary = k]
      BY <1>4 DEF StoreBatch, StoreExtraction, StoreSummary
    <3>2. QED
      BY <1>2, <3>1 DEF JobRow
  <2>3. QED
    BY <2>1, <2>2
<1>5. CASE FinishStage("manual")
  BY <1>1, <1>2, <1>5 DEF FinishStage, chatState
<1>6. CASE FailBatch("manual")
  BY <1>1, <1>2, <1>6 DEF FailBatch, chatState
<1>7. QED
  BY <1>3, <1>4, <1>5, <1>6 DEF WorkStep

LEMMA PassIsAsideSteps ==
    ASSUME MaintenanceInv, PassIsAside, [MaintenanceNext]_maintenanceVars
    PROVE  PassIsAside' /\ (foreground > 0 => GivesWay)
<1>0. /\ "pass" \in Worker /\ work \in [Worker -> WorkType] /\ foreground \in Nat
      /\ jobs \in [Sessions -> JobRow] /\ Resting.at = "rest"
  BY DEF MaintenanceInv, MaintenanceTypes, Worker, Resting
<1>1. CASE UNCHANGED maintenanceVars
  BY <1>1 DEF maintenanceVars, PassIsAside, GivesWay
<1>2. ASSUME NEW s \in Sessions, BecomesDue(s) PROVE PassIsAside' /\ GivesWay
  BY <1>0, <1>2 DEF BecomesDue, chatState, PassIsAside, GivesWay, JobRow
<1>3. ASSUME NEW s \in Sessions, BeginChat(s)
      PROVE  PassIsAside' /\ (foreground > 0 => GivesWay)
  <2>1. work'["pass"] = IF work["pass"].at \in {"wait", "busy"} THEN Cancelled(work["pass"])
                        ELSE work["pass"]
    BY <1>0, <1>3 DEF BeginChat, Interrupt
  <2>2. work["pass"].at \in {"rest", "wait", "busy", "cancelled"}
    BY <1>0, WorkIs DEF MaintenanceInv
  <2>3. PassIsAside'
    BY <2>1, <2>2 DEF PassIsAside, Cancelled
  <2>4. jobs' = jobs
    BY <1>3 DEF BeginChat, memoryStore
  <2>5. QED
    BY <2>1, <2>3, <2>4 DEF PassIsAside, GivesWay
<1>4. ASSUME NEW s \in Sessions, StoreMessage(s) PROVE PassIsAside' /\ GivesWay
  <2>1. work' = work /\ foreground' = foreground /\ Queue(s, messages[s] + 1)
    BY <1>4 DEF StoreMessage
  <2>2. \A t \in Sessions : jobs'[t].completed = jobs[t].completed
    BY <1>0, <2>1 DEF Queue, JobRow
  <2>3. QED
    BY <2>1, <2>2 DEF PassIsAside, GivesWay
<1>5. ASSUME NEW s \in Sessions, EndChat(s) PROVE PassIsAside' /\ GivesWay
  <2>1. work' = work /\ jobs' = jobs /\ foreground' = Max({0, foreground - 1})
    BY <1>5 DEF EndChat, memoryStore
  <2>2. foreground' > 0 => foreground > 0
    <3>1. 0 \in Int /\ foreground - 1 \in Int
      BY <1>0
    <3>2. Max({0, foreground - 1}) = IF 0 >= foreground - 1 THEN 0 ELSE foreground - 1
      BY <3>1, MaxOfTwo
    <3>3. QED
      BY <1>0, <2>1, <3>2
  <2>3. QED
    BY <2>1, <2>2 DEF PassIsAside, GivesWay
<1>6. ASSUME NEW s \in Sessions, \/ TurnDrained(s) \/ DeleteSession(s) \/ Cooled
                                 \/ \E g \in Stage : StartManual(s, g)
      PROVE  PassIsAside' /\ GivesWay
  <2>1. work'["pass"] = work["pass"] /\ jobs' = jobs /\ foreground' = foreground
    BY <1>0, <1>6 DEF TurnDrained, DeleteSession, Cooled, StartManual, memoryStore, chatState
  <2>2. QED
    BY <2>1 DEF PassIsAside, GivesWay
<1>7. ASSUME Cooled PROVE PassIsAside' /\ GivesWay
  BY <1>7 DEF Cooled, memoryStore, chatState, PassIsAside, GivesWay
<1>8. ASSUME StartPass PROVE PassIsAside' /\ foreground = 0
  BY <1>8 DEF StartPass, chatState, PassIsAside
<1>9. ASSUME DropPass PROVE PassIsAside' /\ GivesWay
  BY <1>0, <1>9 DEF DropPass, memoryStore, PassIsAside, GivesWay
<1>10. ASSUME RestartMaintenance PROVE PassIsAside' /\ GivesWay
  BY <1>0, <1>10 DEF RestartMaintenance, PassIsAside, GivesWay
<1>11. ASSUME NEW w \in Worker, WorkStep(w) \/ FailBatch(w)
       PROVE  PassIsAside' /\ (foreground > 0 => GivesWay)
  <2>1. CASE w = "manual"
    BY <1>11, <2>1, ManualLeaves DEF PassIsAside, GivesWay
  <2>2. CASE w = "pass"
    <3>1. work["pass"].at \in {"wait", "busy"} /\ foreground' = foreground
      BY <1>11, <2>2 DEF WorkStep, TakeMemoryLock, StoreBatch, FinishStage, FailBatch, chatState
    <3>2. ~(foreground > 0)
      BY <3>1 DEF PassIsAside
    <3>3. QED
      BY <3>1, <3>2 DEF PassIsAside
  <2>3. QED
    BY <2>1, <2>2 DEF Worker
<1>12. QED
  BY <1>0, <1>1, <1>2, <1>3, <1>4, <1>5, <1>6, <1>7, <1>8, <1>9, <1>10, <1>11
  DEF MaintenanceNext

(* The upkeep gives way: while a chat is in the foreground the pass starts, *)
(* stores and completes nothing (interrupt, run_once).                      *)
THEOREM PassYields == MaintenanceSpec => YieldsToChat
<1>1. MaintenanceInit => PassIsAside
  BY DEF MaintenanceInit, PassIsAside
<1>2. MaintenanceInv /\ PassIsAside /\ [MaintenanceNext]_maintenanceVars => PassIsAside'
  BY PassIsAsideSteps
<1>3. MaintenanceInv /\ PassIsAside /\ [MaintenanceNext]_maintenanceVars =>
         [foreground > 0 => GivesWay]_maintenanceVars
  BY PassIsAsideSteps
<1>4. YieldsToChat <=> [][foreground > 0 => GivesWay]_maintenanceVars
  BY PTL DEF YieldsToChat, GivesWay
<1>5. QED
  BY <1>1, <1>2, <1>3, <1>4, MaintenanceInductive, PTL DEF MaintenanceSpec

-----------------------------------------------------------------------------
(* The three beside each other (MCBackground).                              *)

BackgroundInv == ProactiveInv /\ QueueInv /\ MaintenanceInv

LEMMA BackgroundStarts ==
    ASSUME BackgroundInit
    PROVE  BackgroundInv
<1>1. ProactiveInv
  <2>1. CASE part = "proactive"
    <3>1. ProactiveInit
      BY <2>1 DEF BackgroundInit
    <3>2. QED
      BY <3>1, ProactiveStarts DEF ProactiveInit
  <2>2. CASE part # "proactive"
    <3>1. Off /\ owner \in BOOLEAN
      BY <2>2 DEF BackgroundInit
    <3>2. config \in Config
      <4>1. config = CHOOSE c \in Config : TRUE
        BY <3>1 DEF Off
      <4>2. \E c \in Config : TRUE
        BY ProactiveAssumption
      <4>3. QED
        BY <4>1, <4>2, Zenon
    <3>3. QED
      BY <3>1, <3>2, ProactiveStarts DEF Off
  <2>3. QED
    BY <2>1, <2>2
<1>2. QueueInv
  BY QueueStarts DEF BackgroundInit
<1>3. MaintenanceInv
  BY MaintenanceStarts DEF BackgroundInit
<1>4. QED
  BY <1>1, <1>2, <1>3 DEF BackgroundInv

(* A step of one part is a stuttering step of the others.                   *)
LEMMA BackgroundParts ==
    ASSUME [BackgroundNext]_backgroundVars
    PROVE  /\ [ProactiveNext]_proactiveVars
           /\ [QueueNext]_queueVars
           /\ [MaintenanceNext]_maintenanceVars
BY DEF BackgroundNext, backgroundVars

LEMMA BackgroundSteps ==
    ASSUME BackgroundInv, [BackgroundNext]_backgroundVars
    PROVE  BackgroundInv'
BY BackgroundParts, ProactiveSteps, QueueSteps, MaintenanceSteps DEF BackgroundInv

(* The three invariants hold side by side, whichever part runs.             *)
THEOREM BackgroundInductive == BackgroundSpec => []BackgroundInv
<1>1. QED
  BY BackgroundStarts, BackgroundSteps, PTL DEF BackgroundSpec

(* Every variable of the three has its type.                                *)
THEOREM BackgroundTypeCorrect == BackgroundSpec => []BackgroundTypeOK
<1>1. BackgroundInv => BackgroundTypeOK
  BY ProactiveTypesAreOK, QueueTypesAreOK, MaintenanceTypesAreOK
  DEF BackgroundInv, BackgroundTypeOK
<1>2. QED
  BY <1>1, BackgroundInductive, PTL

(* The channel handles an owner's messages in the order they came, and each *)
(* once for every time the deduplicator has lost it, whatever is batched,   *)
(* decided beside the queue or cut off by a crash (handle_event).           *)
THEOREM HandlingStaysInOrder == BackgroundSpec => []HandledAsSent
<1>1. BackgroundInv => HandledAsSent
  BY OncePerMemory DEF BackgroundInv, HandledAsSent, QueueInv
<1>2. QED
  BY <1>1, BackgroundInductive, PTL

(* A completed job stands for messages that are all extracted, and each is  *)
(* merged into the summary once, however passes, requests by hand, chats,   *)
(* failures and restarts fall (run_once, set_session_summary).              *)
THEOREM MemoryStaysComplete == BackgroundSpec => []MemoryIsComplete
<1>1. BackgroundInv => MemoryIsComplete
  BY DEF BackgroundInv, MemoryIsComplete, MaintenanceInv
<1>2. QED
  BY <1>1, BackgroundInductive, PTL

(* No piece of a proactive message reaches the owner twice from one         *)
(* process, and an end that is reported as safe to repeat delivered nothing *)
(* (_send_with_retries, _post).                                             *)
THEOREM SendsStaySingle == BackgroundSpec => []NothingIsSentTwice
<1>1. BackgroundInv => NothingIsSentTwice
  BY ArrivalsAreSingle DEF BackgroundInv, NothingIsSentTwice
<1>2. QED
  BY <1>1, BackgroundInductive, PTL

(* A send begins only while everything that was checked before the          *)
(* composition still holds, and only what arrived as a whole is recorded as *)
(* sent (check_delivery, mark_sent).                                        *)
THEOREM SendsStayPlanned == BackgroundSpec => SentAsPlanned
<1>1. ASSUME BackgroundInv, [BackgroundNext]_backgroundVars
      PROVE  [job[poster].state = "idle" /\ job'[poster].state # "idle" =>
                /\ config.enabled /\ paused' = Unset
                /\ ~InQuiet(now, config)
                /\ activity = tick.activity /\ SuppressedUntil(config) <= now
                /\ now <= candidate + config.grace]_proactiveVars
  BY <1>1, BackgroundParts, BeginsAreChecked DEF BackgroundInv
<1>2. ASSUME BackgroundInv, [BackgroundNext]_backgroundVars
      PROVE  [lastSent' # lastSent => AllArrived(ThisMessage)]_proactiveVars
  BY <1>2, BackgroundParts, SentIsWhole DEF BackgroundInv
<1>3. QED
  BY <1>1, <1>2, BackgroundInductive, PTL
  DEF BackgroundSpec, SentAsPlanned, SendsAreWelcome, SentHasArrived
=============================================================================
