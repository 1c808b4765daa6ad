----------------------------- MODULE OneBotQueue -----------------------------
(***************************************************************************)
(* The OneBot channel (channels/onebot/adapter.py, session_map.py): what   *)
(* happens to the messages of one owner between their arrival and the turn *)
(* that answers them.  (Lock, batch, worker and rate limit are kept per    *)
(* user, so owners do not interact.)                                       *)
(*                                                                         *)
(* Messages that arrive within a window are collected in a batch; a        *)
(* command is a barrier that closes the batch; each batch and each command *)
(* gets a worker that waits for the previous one.  Approvals pass by.      *)
(***************************************************************************)
EXTENDS Integers, Sequences, FiniteSets

CONSTANTS
    Event,        \* the messages the owner sends
    Kind,         \* [Event -> "chat", "command" or "approval"]
    Batching,     \* whether qq_message_window_seconds is not 0
    MaxArrivals,  \* bound: events accepted
    MaxForgets,   \* bound: entries of the deduplicator that expire
    MaxOutages,   \* bound
    NoArrival

ASSUME QueueAssumption ==
    /\ Kind \in [Event -> {"chat", "command", "approval"}]
    /\ Batching \in BOOLEAN
    /\ MaxArrivals \in Nat /\ MaxForgets \in Nat /\ MaxOutages \in Nat
    /\ NoArrival \notin 1..MaxArrivals

VARIABLES
    seen,       \* the deduplicator: events not accepted again
    forgotten,  \* [Event -> how often the deduplicator lost the event]
    accepted,   \* history: the events accepted, in order; an arrival is an index
    worker,     \* [arrival that started it -> worker task]
    pending,    \* _pending: the worker whose batch is still open, or None
    current,    \* _workers: the last worker, or None
    lock,       \* the worker that holds the owner's lock, or None
    deciding,   \* arrivals of approvals being decided
    handled,    \* history: arrivals handed to _process_owner_message, in order
    session,    \* the session the channel is mapped to (0: none yet)
    up,         \* whether the process runs
    forgets,    \* how often the deduplicator dropped an entry
    outages     \* how often the process died

queueVars == <<seen, forgotten, accepted, worker, pending, current, lock, deciding, handled,
          session, up, outages, forgets>>

dedupe == <<seen, forgotten>>
queue == <<worker, pending, current, lock>>
history == <<handled, session>>

Arrival == 1..MaxArrivals
NoWorker == [pc |-> "none"]

WorkerPc == {"window", "chained", "handling", "replying", "done"}

QueueTypeOK ==
    /\ seen \subseteq Event
    /\ forgotten \in [Event -> Nat]
    /\ accepted \in Seq(Event) /\ Len(accepted) <= MaxArrivals
    /\ \A w \in Arrival :
          \/ worker[w] = NoWorker
          \/ /\ worker[w].pc \in WorkerPc
             /\ \A i \in DOMAIN worker[w].batch : worker[w].batch[i] \in Arrival
             /\ worker[w].previous \in Arrival \cup {NoArrival}
             /\ worker[w].next \in 1..(Len(worker[w].batch) + 1)
             /\ worker[w].request \in BOOLEAN /\ worker[w].waits \in BOOLEAN
    /\ {pending, current, lock} \subseteq Arrival \cup {NoArrival}
    /\ deciding \subseteq Arrival
    /\ \A i \in DOMAIN handled : handled[i] \in Arrival
    /\ session \in Nat
    /\ up \in BOOLEAN /\ forgets \in 0..MaxForgets
    /\ outages \in 0..MaxOutages

QueueInit ==
    /\ seen = {} /\ forgotten = [e \in Event |-> 0]
    /\ accepted = <<>>
    /\ worker = [w \in Arrival |-> NoWorker]
    /\ pending = NoArrival /\ current = NoArrival /\ lock = NoArrival
    /\ deciding = {}
    /\ handled = <<>>
    /\ session = 0
    /\ up = TRUE /\ outages = 0 /\ forgets = 0
-----------------------------------------------------------------------------
KindOf(a) == Kind[accepted[a]]

(* handle_event accepts an event unless it is a duplicate; the arrival is  *)
(* the next index.  A duplicate changes nothing.                           *)
Accept(e) ==
    /\ up
    /\ Len(accepted) < MaxArrivals
    /\ e \notin seen
    /\ seen' = seen \cup {e}
    /\ accepted' = Append(accepted, e)
    /\ UNCHANGED <<forgotten, up, outages, forgets>>

This == Len(accepted) + 1

(* get_or_create, which every handled message starts with; a reset maps    *)
(* the channel to a new session.                                           *)
Mapped == IF session = 0 THEN 1 ELSE session

Handle(a, resets) ==
    /\ handled' = Append(handled, a)
    /\ session' = IF resets THEN Mapped + 1 ELSE Mapped

(* Fault: an approval gets a worker like a command. *)
FaultAcceptApproval(e) ==
    /\ Kind[e] = "approval"
    /\ Accept(e)
    /\ pending' = NoArrival
    /\ worker' = [worker EXCEPT ![This] =
          [pc |-> "chained", batch |-> <<This>>, previous |-> current, next |-> 1,
           request |-> FALSE, waits |-> FALSE]]
    /\ current' = This
    /\ UNCHANGED <<lock, deciding, history>>

(* An approval is decided at once, beside the turn that may wait for it. *)
AcceptApproval(e) ==
    /\ Kind[e] = "approval"
    /\ Accept(e)
    /\ deciding' = deciding \cup {This}
    /\ Handle(This, FALSE)
    /\ UNCHANGED queue

NewWorker(pc) ==
    [pc |-> pc, batch |-> <<This>>, previous |-> current, next |-> 1,
     request |-> FALSE, waits |-> FALSE]

(* A command, or any message without a window: it closes the open batch. *)
AcceptSeparate(e) ==
    /\ Kind[e] = "command" \/ (Kind[e] = "chat" /\ ~Batching)
    /\ Accept(e)
    /\ pending' = NoArrival
    /\ worker' = [worker EXCEPT ![This] = NewWorker("chained")]
    /\ current' = This
    /\ UNCHANGED <<lock, deciding, history>>

(* A message joins the open batch. *)
AcceptIntoBatch(e) ==
    /\ Kind[e] = "chat" /\ Batching /\ pending # NoArrival
    /\ Accept(e)
    /\ worker' = [worker EXCEPT ![pending].batch = Append(@, This)]
    /\ UNCHANGED <<pending, current, lock, deciding, history>>

(* A message opens a batch. *)
AcceptNewBatch(e) ==
    /\ Kind[e] = "chat" /\ Batching /\ pending = NoArrival
    /\ Accept(e)
    /\ pending' = This
    /\ worker' = [worker EXCEPT ![This] = NewWorker("window")]
    /\ current' = This
    /\ UNCHANGED <<lock, deciding, history>>

(* An entry of the deduplicator expires or is pushed out. *)
Forget(e) ==
    /\ up /\ e \in seen /\ forgets < MaxForgets
    /\ forgets' = forgets + 1
    /\ seen' = seen \ {e}
    /\ forgotten' = [forgotten EXCEPT ![e] = @ + 1]
    /\ UNCHANGED <<accepted, queue, deciding, history, up, outages>>
-----------------------------------------------------------------------------
Others == <<dedupe, accepted, up, outages, forgets>>

(* The window is over; no more messages join. *)
WindowEnds(w) ==
    /\ up /\ worker[w].pc = "window"
    /\ worker' = [worker EXCEPT ![w].pc = "chained"]
    /\ pending' = IF pending = w THEN NoArrival ELSE pending
    /\ UNCHANGED <<current, lock, deciding, history, Others>>

(* Fault: a worker only waits for the lock. *)
FaultPreviousIsDone(w) == TRUE

PreviousIsDone(w) ==
    worker[w].previous # NoArrival => worker[worker[w].previous].pc = "done"

(* The previous worker has ended, however it ended, and the lock is free.  *)
(* (The rate limiter may then delay the worker; it only takes time.)       *)
TakeLock(w) ==
    /\ up /\ worker[w].pc = "chained"
    /\ PreviousIsDone(w)
    /\ lock = NoArrival
    /\ lock' = w
    /\ worker' = [worker EXCEPT ![w].pc = "handling"]
    /\ UNCHANGED <<pending, current, deciding, history, Others>>

(* _process_owner_message of the next event.  A command of the channel may *)
(* be refused (no such character) or reset the session; a file or a broken *)
(* image is settled on its own; everything else, a slash text the channel  *)
(* does not know included, becomes a request for the model.                *)
HandleNext(w) ==
    /\ up /\ worker[w].pc = "handling"
    /\ worker[w].next <= Len(worker[w].batch)
    /\ LET a == worker[w].batch[worker[w].next]
       IN  \E asks, resets \in BOOLEAN :
              /\ resets => KindOf(a) = "command" /\ ~asks
              /\ Handle(a, resets)
              /\ worker' = [worker EXCEPT ![w].next = @ + 1,
                                          ![w].request = @ \/ asks]
    /\ UNCHANGED <<pending, current, lock, deciding, Others>>

(* All events are handled and their requests are combined into one turn,   *)
(* which may wait for an approval.                                         *)
StartReply(w) ==
    /\ up /\ worker[w].pc = "handling"
    /\ worker[w].next > Len(worker[w].batch) /\ worker[w].request
    /\ \E waits \in BOOLEAN :
          worker' = [worker EXCEPT ![w].pc = "replying", ![w].waits = waits]
    /\ UNCHANGED <<pending, current, lock, deciding, history, Others>>

(* The worker ends: its finally block and the end of its lock. *)
Finish(w) ==
    /\ worker' = [worker EXCEPT ![w].pc = "done", ![w].waits = FALSE]
    /\ lock' = NoArrival
    /\ pending' = IF pending = w THEN NoArrival ELSE pending
    /\ current' = IF current = w THEN NoArrival ELSE current
    /\ UNCHANGED <<deciding, history, Others>>

NothingToReply(w) ==
    /\ up /\ worker[w].pc = "handling"
    /\ worker[w].next > Len(worker[w].batch) /\ ~worker[w].request
    /\ Finish(w)

(* _reply ends; whether it could be delivered makes no difference. *)
ReplyEnds(w) ==
    /\ up /\ worker[w].pc = "replying" /\ ~worker[w].waits
    /\ Finish(w)

(* An exception ends the worker, and what is left of its batch with it. *)
WorkerFails(w) ==
    /\ up /\ worker[w].pc \in {"handling", "replying"}
    /\ worker[w].next > 1
    /\ Finish(w)

(* A decision is done and a turn that waited for it goes on. *)
Decided(a) ==
    /\ up /\ a \in deciding
    /\ deciding' = deciding \ {a}
    /\ worker' = [w \in Arrival |-> IF worker[w].pc = "replying"
                                      THEN [worker[w] EXCEPT !.waits = FALSE] ELSE worker[w]]
    /\ UNCHANGED <<pending, current, lock, history, Others>>
-----------------------------------------------------------------------------
(* The process dies: only the mapping of the channel is stored. *)
CrashChannel ==
    /\ up /\ outages < MaxOutages
    /\ outages' = outages + 1
    /\ up' = FALSE
    /\ seen' = {}
    /\ forgotten' = [e \in Event |-> IF e \in seen THEN forgotten[e] + 1 ELSE forgotten[e]]
    /\ worker' = [w \in Arrival |-> NoWorker]
    /\ pending' = NoArrival /\ current' = NoArrival /\ lock' = NoArrival
    /\ deciding' = {}
    /\ UNCHANGED <<accepted, history, forgets>>

RestartChannel ==
    /\ ~up
    /\ up' = TRUE
    /\ UNCHANGED <<dedupe, accepted, queue, deciding, history, outages, forgets>>

AcceptEvent == \E e \in Event : AcceptApproval(e) \/ AcceptSeparate(e)
                                \/ AcceptIntoBatch(e) \/ AcceptNewBatch(e)

WorkerStep(w) == \/ WindowEnds(w) \/ TakeLock(w) \/ HandleNext(w)
                 \/ StartReply(w) \/ NothingToReply(w) \/ ReplyEnds(w)

QueueNext ==
    \/ AcceptEvent
    \/ \E e \in Event : Forget(e)
    \/ \E w \in Arrival : WorkerStep(w) \/ WorkerFails(w)
    \/ \E a \in Arrival : Decided(a)
    \/ CrashChannel \/ RestartChannel

QueueSpec == QueueInit /\ [][QueueNext]_queueVars

(* Timers fire, a turn ends unless it waits for the owner, and so does a   *)
(* decision; asyncio runs every task that is ready.  Nothing makes the     *)
(* owner decide.                                                           *)
QueueFairness ==
    \A w \in Arrival : WF_queueVars(WorkerStep(w)) /\ WF_queueVars(Decided(w))

FairQueueSpec == QueueSpec /\ QueueFairness
-----------------------------------------------------------------------------
Waiting == {a \in DOMAIN accepted : KindOf(a) # "approval"}

(* Messages and commands are handled in the order they arrived in, so that *)
(* a message before a reset is answered in the old session and one after   *)
(* it in the new one, however the batches and their timers overlap.        *)
HandledInOrder ==
    \A i, k \in DOMAIN handled :
        i < k /\ {handled[i], handled[k]} \subseteq Waiting => handled[i] < handled[k]

(* A message delivered again is handled again only if the deduplicator had *)
(* lost it meanwhile (EventDeduplicator, in memory only).                  *)
HandledOncePerMemory ==
    \A e \in Event :
        Cardinality({i \in DOMAIN handled : accepted[handled[i]] = e}) <= 1 + forgotten[e]

IsHandled(a) == \E i \in DOMAIN handled : handled[i] = a
Failed(a) == \E w \in Arrival :
    /\ worker[w].pc = "done"
    /\ \E i \in DOMAIN worker[w].batch : worker[w].batch[i] = a
Stuck == \E w \in Arrival : worker[w].pc = "replying" /\ worker[w].waits

(* Every message that was accepted is handled, unless the worker that took *)
(* it failed, a turn waits for the owner or the process died.              *)
NothingIsLost ==
    []<>(\A a \in DOMAIN accepted : IsHandled(a) \/ Failed(a) \/ Stuck \/ outages > 0)

(* An approval is decided whatever the turns do: it never queues behind a  *)
(* turn that may be waiting for it.                                        *)
ApprovalsPassBy ==
    []<>(\A a \in DOMAIN accepted :
            KindOf(a) = "approval" => (IsHandled(a) /\ a \notin deciding))
=============================================================================
