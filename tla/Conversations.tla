---------------------------- MODULE Conversations ----------------------------
(***************************************************************************)
(* ConversationCoordinator (agent/conversations.py): a chat request is     *)
(* recorded by its identity, generated by a task of its own while the      *)
(* session's lock is held, streamed to the client that sent it, and ended  *)
(* once: by its generator, by a cancel, by the client leaving, by the      *)
(* shutdown of the service or by a crash.                                  *)
(*                                                                         *)
(* Everything here runs on the event loop: one action is what a coroutine  *)
(* does from one await to the next.  The lock of a session is made by the  *)
(* first request that looks for it and forgotten with its last user, so    *)
(* several locks of one session may exist in turn; a lock is named after   *)
(* the request that made it.                                               *)
(***************************************************************************)
EXTENDS Naturals, FiniteSets

CONSTANTS
    Request,        \* request identities
    Session,
    SessionOf,      \* [Request -> Session]
    Canceller,      \* callers of the cancel endpoint
    Stopper,        \* the shutdown of the service
    MaxServerCrashes,     \* bound: crashes of the process
    NoRequest

ASSUME SessionAssumption == SessionOf \in [Request -> Session]
ASSUME NoRequestAssumption == NoRequest \notin Request
ASSUME CrashAssumption == MaxServerCrashes \in Nat
ASSUME AskerAssumption == Canceller \cap Stopper = {}

VARIABLES
    row,            \* table conversation_runs: status, set with the terminal event
    producer,       \* the task of a request: produce()
    queue,          \* the terminal event in the request's queue
    client,         \* the stream that submitted the request: run()
    seen,           \* the terminal event that stream has yielded
    asking,         \* who waits in cancel(): the endpoint's callers, the shutdown
    tasks, cancelRequested,     \* self.tasks, self._cancel_requested
    users, locks,   \* self._session_users, self.locks
    generations,    \* history: times a request was generated
    up, serverCrashes

memory == <<producer, queue, client, seen, asking, tasks, cancelRequested, users, locks>>
process == <<up, serverCrashes>>
conversationVars == <<row, memory, generations, process>>

Final == {"succeeded", "waiting_approval", "failed", "aborted"}
Open == {"running", "cancelling"}
RunStatus == {"none", "awaiting_review"} \cup Open \cup Final

NoProducer == [pc |-> "none", lock |-> NoRequest, cancelled |-> FALSE, approval |-> FALSE]
ProducerPc == {"none", "created", "locking", "generating", "closing", "done"}
ProducerType == [pc : ProducerPc, lock : Request \cup {NoRequest},
                 cancelled : BOOLEAN, approval : BOOLEAN]
Ended == [NoProducer EXCEPT !.pc = "done"]
ClientPc == {"none", "reading", "leaving", "starting", "draining", "gone"}
Asker == Canceller \cup Stopper

ConversationTypeOK ==
    /\ row \in [Request -> RunStatus]
    /\ producer \in [Request -> ProducerType]
    /\ queue \in [Request -> Final \cup {"none"}]
    /\ client \in [Request -> ClientPc]
    /\ seen \in [Request -> Final \cup {"none"}]
    /\ asking \in [Asker -> [Request -> {"none", "starting", "draining"}]]
    /\ tasks \subseteq Request
    /\ cancelRequested \subseteq Request
    /\ users \in [Session -> Nat]
    /\ locks \in [Session -> Request \cup {NoRequest}]
    /\ generations \in [Request -> Nat]
    /\ up \in BOOLEAN
    /\ serverCrashes \in 0..MaxServerCrashes

Forgotten ==
    /\ producer = [r \in Request |-> NoProducer]
    /\ queue = [r \in Request |-> "none"]
    /\ client = [r \in Request |-> "none"]
    /\ seen = [r \in Request |-> "none"]
    /\ asking = [a \in Asker |-> [r \in Request |-> "none"]]
    /\ tasks = {}
    /\ cancelRequested = {}
    /\ users = [s \in Session |-> 0]
    /\ locks = [s \in Session |-> NoRequest]

ConversationInit ==
    /\ row = [r \in Request |-> "none"]
    /\ Forgotten
    /\ generations = [r \in Request |-> 0]
    /\ up = TRUE
    /\ serverCrashes = 0

-----------------------------------------------------------------------------
(* The state of a task. *)

Done(r) == producer[r].pc \in {"none", "done"}

HasStarted(r) == producer[r].pc # "created"

(* In the session's critical section: the generator runs or is closed. *)
Inside(r) == producer[r].pc \in {"generating", "closing"}

Held(l) == \E r \in Request : Inside(r) /\ producer[r].lock = l

(* setdefault: the session's lock, or a new one. *)
LockFor(r) == IF locks[SessionOf[r]] = NoRequest THEN r ELSE locks[SessionOf[r]]

Waited(l) == \E r \in Request : producer[r].pc = "locking" /\ producer[r].lock = l

(* _save: the first terminal event of an open run is stored, no other. *)
Saved(r, e) == [row EXCEPT ![r] = IF @ \in Open THEN e ELSE @]

(* task.cancel() *)
Cancelled(r) == [producer EXCEPT ![r].cancelled = TRUE]

-----------------------------------------------------------------------------
(* A request arrives: run() up to its first await. *)

(* A known identity only gets the stored event or status back, which       *)
(* changes nothing; a new one is recorded and gets a task.                 *)
Submit(r) ==
    /\ up /\ row[r] = "none"
    /\ row' = [row EXCEPT ![r] = "running"]
    /\ producer' = [producer EXCEPT ![r] = [NoProducer EXCEPT !.pc = "created"]]
    /\ client' = [client EXCEPT ![r] = "reading"]
    /\ tasks' = tasks \cup {r}
    /\ users' = [users EXCEPT ![SessionOf[r]] = @ + 1]
    /\ UNCHANGED <<queue, seen, asking, cancelRequested, locks, generations, process>>

-----------------------------------------------------------------------------
(* The task of a request: produce(). *)

(* Fault: the lock of the session is forgotten with every user. *)
FaultRelease(r) ==
    LET s == SessionOf[r]
    IN  /\ users' = [users EXCEPT ![s] = @ - 1]
        /\ locks' = [locks EXCEPT ![s] = NoRequest]
        /\ cancelRequested' = cancelRequested \ {r}

(* The finally block: the last user of a session forgets its lock. *)
ReleaseSession(r) ==
    LET s == SessionOf[r]
    IN  /\ users' = [users EXCEPT ![s] = @ - 1]
        /\ locks' = [locks EXCEPT ![s] = IF users[s] = 1 THEN NoRequest ELSE @]
        /\ cancelRequested' = cancelRequested \ {r}

(* The task ends with e, its last event; the stream is closed after it. *)
EndWith(r, e) ==
    /\ row' = Saved(r, e)
    /\ queue' = [queue EXCEPT ![r] = e]
    /\ producer' = [producer EXCEPT ![r] = Ended]
    /\ ReleaseSession(r)
    /\ UNCHANGED <<client, seen, asking, tasks, generations, process>>

(* A cancel was asked for before the task had started. *)
StartStopped(r) ==
    /\ up /\ producer[r].pc = "created" /\ ~producer[r].cancelled
    /\ r \in cancelRequested
    /\ EndWith(r, "aborted")

EnterSession(r, l) ==
    /\ producer' = [producer EXCEPT ![r].pc = "generating", ![r].lock = l]
    /\ generations' = [generations EXCEPT ![r] = @ + 1]

Start(r) ==
    LET l == LockFor(r)
    IN  /\ up /\ producer[r].pc = "created" /\ ~producer[r].cancelled
        /\ r \notin cancelRequested
        /\ locks' = [locks EXCEPT ![SessionOf[r]] = l]
        /\ \/ ~Held(l) /\ ~Waited(l) /\ EnterSession(r, l)
           \/ /\ Held(l) \/ Waited(l)
              /\ producer' = [producer EXCEPT ![r].pc = "locking", ![r].lock = l]
              /\ UNCHANGED generations
        /\ UNCHANGED <<row, queue, client, seen, asking, tasks, cancelRequested,
                       users, process>>

TakeSession(r) ==
    /\ up /\ producer[r].pc = "locking" /\ ~producer[r].cancelled
    /\ ~Held(producer[r].lock)
    /\ EnterSession(r, producer[r].lock)
    /\ UNCHANGED <<row, queue, client, seen, asking, tasks, cancelRequested,
                   users, locks, process>>

(* The generator asks for an approval; its reply will only wait for it. *)
AskApproval(r) ==
    /\ up /\ producer[r].pc = "generating" /\ ~producer[r].cancelled
    /\ ~producer[r].approval
    /\ producer' = [producer EXCEPT ![r].approval = TRUE]
    /\ UNCHANGED <<row, queue, client, seen, asking, tasks, cancelRequested,
                   users, locks, generations, process>>

(* The generator is done, or reports an error: the event is stored, then   *)
(* streamed, and the generator is closed.                                  *)
Terminate(r) ==
    /\ up /\ producer[r].pc = "generating" /\ ~producer[r].cancelled
    /\ \E e \in {IF producer[r].approval THEN "waiting_approval" ELSE "succeeded",
                 "failed"} :
          /\ row' = Saved(r, e)
          /\ queue' = [queue EXCEPT ![r] = e]
    /\ producer' = [producer EXCEPT ![r].pc = "closing"]
    /\ UNCHANGED <<client, seen, asking, tasks, cancelRequested, users, locks,
                   generations, process>>

(* The generator is closed: it ends, raises, or its cleanup is cancelled. *)
Close(r) ==
    /\ up /\ producer[r].pc = "closing"
    /\ producer' = [producer EXCEPT ![r] = Ended]
    /\ ReleaseSession(r)
    /\ UNCHANGED <<row, queue, client, seen, asking, tasks, generations, process>>

(* The generator raises, also while it is being cancelled, or ends without *)
(* a terminal event.                                                       *)
Fail(r) ==
    /\ up /\ producer[r].pc = "generating"
    /\ EndWith(r, "failed")

(* The task is cancelled: while it waits for the lock, or in the generator. *)
EndAborted(r) ==
    /\ up /\ producer[r].pc \in {"locking", "generating"} /\ producer[r].cancelled
    /\ EndWith(r, "aborted")

-----------------------------------------------------------------------------
(* cancel(): as far as it runs at once, for a task that is not done.  Its  *)
(* caller goes on in the state `then`: "starting" until the task has       *)
(* started, "draining" until it is done.                                   *)

(* Fault: the task is cancelled whether it has started or not. *)
FaultRequestCancel(r, then) ==
    /\ row[r] \in Open
    /\ row' = [row EXCEPT ![r] = "cancelling"]
    /\ cancelRequested' = cancelRequested \cup {r}
    /\ then = "draining" /\ producer' = Cancelled(r)

RequestCancel(r, then) ==
    /\ row[r] \in Open
    /\ row' = [row EXCEPT ![r] = "cancelling"]
    /\ cancelRequested' = cancelRequested \cup {r}
    /\ \/ ~HasStarted(r) /\ then = "starting" /\ UNCHANGED producer
       \/ HasStarted(r) /\ then = "draining" /\ producer' = Cancelled(r)

(* A task that is past its terminal event is cancelled to end its cleanup. *)
ForceCancel(r, then) ==
    /\ row[r] \notin Open
    /\ then = "draining" /\ producer' = Cancelled(r)
    /\ UNCHANGED <<row, cancelRequested>>

(* Fault: a run past its terminal event is cancelled like an open one. *)
FaultAsk(c, r) ==
    /\ up /\ c \in Canceller /\ asking[c][r] = "none" /\ r \in tasks /\ ~Done(r)
    /\ \E then \in {"starting", "draining"} :
          /\ RequestCancel(r, then) \/ ForceCancel(r, then)
          /\ asking' = [asking EXCEPT ![c][r] = then]
    /\ UNCHANGED <<queue, client, seen, tasks, users, locks, generations, process>>

(* The cancel endpoint; one that finds the run ended answers at once. *)
Ask(c, r) ==
    /\ up /\ c \in Canceller /\ asking[c][r] = "none" /\ r \in tasks /\ ~Done(r)
    /\ \E then \in {"starting", "draining"} :
          /\ RequestCancel(r, then)
          /\ asking' = [asking EXCEPT ![c][r] = then]
    /\ UNCHANGED <<queue, client, seen, tasks, users, locks, generations, process>>

(* close(), for one of the tasks it finds. *)
Shutdown(a, r) ==
    /\ up /\ a \in Stopper /\ asking[a][r] = "none" /\ r \in tasks /\ ~Done(r)
    /\ \E then \in {"starting", "draining"} :
          /\ RequestCancel(r, then) \/ ForceCancel(r, then)
          /\ asking' = [asking EXCEPT ![a][r] = then]
    /\ UNCHANGED <<queue, client, seen, tasks, users, locks, generations, process>>

(* The task has started: it is cancelled unless it is done. *)
AskStarted(a, r) ==
    /\ up /\ asking[a][r] = "starting" /\ HasStarted(r)
    /\ asking' = [asking EXCEPT ![a][r] = "draining"]
    /\ producer' = IF Done(r) THEN producer ELSE Cancelled(r)
    /\ UNCHANGED <<row, queue, client, seen, tasks, cancelRequested, users, locks,
                   generations, process>>

(* The endpoint answers that the request was cancelled. *)
AnswerCancel(a, r) ==
    /\ up /\ asking[a][r] = "draining" /\ Done(r)
    /\ asking' = [asking EXCEPT ![a][r] = "none"]
    /\ UNCHANGED <<row, producer, queue, client, seen, tasks, cancelRequested,
                   users, locks, generations, process>>

(* A caller that is itself cancelled before the task has started gives up; *)
(* later on cancellations do not interrupt it.                             *)
GiveUp(a, r) ==
    /\ up /\ asking[a][r] = "starting"
    /\ asking' = [asking EXCEPT ![a][r] = "none"]
    /\ UNCHANGED <<row, producer, queue, client, seen, tasks, cancelRequested,
                   users, locks, generations, process>>

-----------------------------------------------------------------------------
(* The client's stream: run() from its first await. *)

Receive(r) ==
    /\ up /\ client[r] = "reading" /\ queue[r] # seen[r]
    /\ seen' = [seen EXCEPT ![r] = queue[r]]
    /\ UNCHANGED <<row, producer, queue, client, asking, tasks, cancelRequested,
                   users, locks, generations, process>>

(* The stream is read to its end, or the client goes away. *)
Leave(r) ==
    /\ up /\ client[r] = "reading"
    /\ client' = [client EXCEPT ![r] = "leaving"]
    /\ UNCHANGED <<row, producer, queue, seen, asking, tasks, cancelRequested,
                   users, locks, generations, process>>

ReadToEnd(r) ==
    /\ producer[r].pc = "done" /\ seen[r] = queue[r]
    /\ Leave(r)

(* The finally block of run(). *)
LeaveOpen(r) ==
    /\ up /\ client[r] = "leaving" /\ ~Done(r)
    /\ \E then \in {"starting", "draining"} :
          /\ RequestCancel(r, then) \/ ForceCancel(r, then)
          /\ client' = [client EXCEPT ![r] = then]
    /\ UNCHANGED <<queue, seen, asking, tasks, users, locks, generations, process>>

LeaveStarted(r) ==
    /\ up /\ client[r] = "starting" /\ HasStarted(r)
    /\ client' = [client EXCEPT ![r] = "draining"]
    /\ producer' = IF Done(r) THEN producer ELSE Cancelled(r)
    /\ UNCHANGED <<row, queue, seen, asking, tasks, cancelRequested, users, locks,
                   generations, process>>

Gone(r) ==
    /\ up /\ client[r] \in {"leaving", "draining"} /\ Done(r)
    /\ client' = [client EXCEPT ![r] = "gone"]
    /\ tasks' = tasks \ {r}
    /\ UNCHANGED <<row, producer, queue, seen, asking, cancelRequested, users,
                   locks, generations, process>>

(* A stream cancelled again while it waits for the task to start leaves    *)
(* the task registered.                                                    *)
GoneAtOnce(r) ==
    /\ up /\ client[r] = "starting"
    /\ client' = [client EXCEPT ![r] = "gone"]
    /\ UNCHANGED <<row, producer, queue, seen, asking, tasks, cancelRequested,
                   users, locks, generations, process>>

-----------------------------------------------------------------------------

CrashServer ==
    /\ up /\ serverCrashes < MaxServerCrashes
    /\ up' = FALSE
    /\ serverCrashes' = serverCrashes + 1
    /\ producer' = [r \in Request |-> NoProducer]
    /\ queue' = [r \in Request |-> "none"]
    /\ client' = [r \in Request |-> "none"]
    /\ seen' = [r \in Request |-> "none"]
    /\ asking' = [a \in Asker |-> [r \in Request |-> "none"]]
    /\ tasks' = {} /\ cancelRequested' = {}
    /\ users' = [s \in Session |-> 0]
    /\ locks' = [s \in Session |-> NoRequest]
    /\ UNCHANGED <<row, generations>>

(* Fault: start-up only looks for requests that were running. *)
FaultRecover ==
    /\ ~up
    /\ up' = TRUE
    /\ row' = [r \in Request |-> IF row[r] = "running" THEN "awaiting_review" ELSE row[r]]
    /\ UNCHANGED <<memory, generations, serverCrashes>>

RecoverRuns ==
    /\ ~up
    /\ up' = TRUE
    /\ row' = [r \in Request |-> IF row[r] \in Open THEN "awaiting_review" ELSE row[r]]
    /\ UNCHANGED <<memory, generations, serverCrashes>>

ProducerStep(r) ==
    \/ StartStopped(r) \/ Start(r) \/ TakeSession(r)
    \/ AskApproval(r) \/ Terminate(r) \/ Close(r) \/ Fail(r) \/ EndAborted(r)

ClientStep(r) ==
    \/ Receive(r) \/ ReadToEnd(r) \/ LeaveOpen(r) \/ LeaveStarted(r) \/ Gone(r)

AskerStep(a, r) == AskStarted(a, r) \/ AnswerCancel(a, r)

ConversationNext ==
    \/ \E r \in Request :
          \/ Submit(r) \/ ProducerStep(r) \/ ClientStep(r)
          \/ Leave(r) \/ GoneAtOnce(r)
          \/ \E c \in Canceller : Ask(c, r)
          \/ \E a \in Stopper : Shutdown(a, r)
          \/ \E a \in Asker : AskerStep(a, r) \/ GiveUp(a, r)
    \/ CrashServer
    \/ RecoverRuns

ConversationSpec == ConversationInit /\ [][ConversationNext]_conversationVars

(* Generators end, asyncio.Lock serves its waiters in their order, and     *)
(* what can go on on the loop does; a stopped service is started again.    *)
Fairness ==
    /\ \A r \in Request : SF_conversationVars(ProducerStep(r)) /\ WF_conversationVars(ClientStep(r))
    /\ \A a \in Asker, r \in Request : WF_conversationVars(AskerStep(a, r))
    /\ WF_conversationVars(RecoverRuns)

FairConversationSpec == ConversationSpec /\ Fairness

-----------------------------------------------------------------------------
(* Properties. *)

(* Requests of a session are generated one at a time, although its lock is *)
(* made and forgotten again while requests come, wait and are cancelled.   *)
Serialized ==
    \A r, q \in Request :
        Inside(r) /\ Inside(q) /\ SessionOf[r] = SessionOf[q] => r = q

(* A request is generated at most once, whatever is resubmitted under its  *)
(* identity, also after it was cut off by a crash.                         *)
GeneratedOnce == \A r \in Request : generations[r] <= 1

(* What the stream reported as the end of a request is what is stored for  *)
(* a replay, whoever cancels it at the same time.                          *)
StreamedIsStored == \A r \in Request : seen[r] # "none" => row[r] = seen[r]

(* A coordinator that has nothing to do remembers nothing: each count,     *)
(* lock and cancellation belongs to a task that is not done, and only      *)
(* finished tasks stay registered without a stream.                        *)
NothingLeaks ==
    /\ \A s \in Session :
          /\ users[s] = Cardinality({r \in Request : ~Done(r) /\ SessionOf[r] = s})
          /\ locks[s] # NoRequest => users[s] # 0
    /\ \A r \in cancelRequested : ~Done(r)
    /\ \A r \in Request : ~Done(r) => r \in tasks

(* A running service has no run left from an earlier life: every open run  *)
(* has its task, and a stopped one is reported for review.                 *)
OpenRunsAreServed ==
    up => \A r \in Request : row[r] \in Open => ~Done(r)

(* The stored end of a request stays. *)
StoredEndsStay ==
    [][\A r \in Request : row[r] \in Final \cup {"awaiting_review"} => row'[r] = row[r]]_row

(* When the endpoint answers that it has cancelled a request, the request  *)
(* has stopped, and is not recorded as a success.                          *)
CancelledIsStopped ==
    [][\A c \in Canceller, r \in Request : AnswerCancel(c, r) =>
          Done(r) /\ row[r] \in {"aborted", "failed"}]_conversationVars

(* A task is never cancelled before its first step: asyncio would drop it  *)
(* without running produce, its finally block included, and the stream     *)
(* would wait for its last event forever.                                  *)
CancelledHasStarted == \A r \in Request : producer[r].cancelled => HasStarted(r)

(* Every stream ends, with its client or before. *)
StreamsEnd == \A r \in Request : client[r] # "none" ~> client[r] \in {"none", "gone"}

(* Every request ends, or is left for review by a crash. *)
RequestsEnd == \A r \in Request : row[r] \in Open ~> row[r] \notin Open

(* Every caller of cancel() is answered. *)
CancelsEnd ==
    \A a \in Asker, r \in Request : asking[a][r] # "none" ~> asking[a][r] = "none"

(* Whatever began comes to an end: streams, requests and cancels.          *)
ConversationsEnd == StreamsEnd /\ RequestsEnd /\ CancelsEnd
=============================================================================
