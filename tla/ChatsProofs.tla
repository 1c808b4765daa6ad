----------------------------- MODULE ChatsProofs -----------------------------
(* Theorems about what serves the owner's chats, for any requests, sessions *)
(* and callers, any facts and episodes, any number of crashes: first about  *)
(* Conversations, then about MemoryFacts, then about both with Delegation,  *)
(* side by side (MCChats).                                                  *)
EXTENDS MCChats, DelegationProofs, FiniteSetTheorems, SequenceTheorems

-----------------------------------------------------------------------------
(* Conversations.                                                           *)

(* The requests of a session that it counts as its users.                   *)
UsersOf(s) == {r \in Request : ~Done(r) /\ SessionOf[r] = s}

(* How the stored status, the task and the stream of a request belong       *)
(* together: a task ends what it has left open, its event is what is        *)
(* stored, and the stream shows that event or none.                         *)
RowFollowsTask(r) ==
    /\ producer[r].pc \in {"created", "locking", "generating"} =>
          row[r] \in Open /\ queue[r] = "none"
    /\ producer[r].pc \in {"closing", "done"} => queue[r] # "none"
    /\ queue[r] # "none" => row[r] = queue[r]
    /\ seen[r] # "none" => seen[r] = queue[r]
    /\ row[r] = "none" => producer[r].pc = "none"
    /\ producer[r].pc = "none" => queue[r] = "none"
    /\ up /\ producer[r].pc = "none" => row[r] \notin Open

(* A task that has not entered its session has generated nothing.           *)
GeneratesOnce(r) ==
    /\ generations[r] <= 1
    /\ row[r] = "none" \/ producer[r].pc \in {"created", "locking"} => generations[r] = 0

(* A task that waits for a lock or is inside holds the session's own, which *)
(* is why nobody can make a second one while it is there; and two tasks     *)
(* inside do not share a lock.                                              *)
LocksAreShared ==
    /\ \A r \in Request : producer[r].pc \in {"locking", "generating", "closing"} =>
          producer[r].lock = locks[SessionOf[r]] /\ producer[r].lock # NoRequest
    /\ \A r, q \in Request :
          Inside(r) /\ Inside(q) /\ producer[r].lock = producer[q].lock => r = q

(* What a caller of the endpoint waits for: a task that cannot enter its    *)
(* session any more, one that is being cancelled, or one that was.          *)
CancelsHold ==
    \A c \in Canceller, r \in Request :
        LET stopped == Done(r) /\ row[r] \in {"aborted", "failed"} IN
        /\ asking[c][r] = "starting" =>
              stopped \/ (producer[r].pc = "created" /\ r \in cancelRequested)
        /\ asking[c][r] = "draining" =>
              stopped \/ (producer[r].pc \in {"locking", "generating"} /\ producer[r].cancelled)

(* While the service is down nothing of its memory is left.                 *)
DownIsForgotten == ~up => \A r \in Request : producer[r].pc = "none"

(* The coordinator counts the users of a session, and remembers a lock, a   *)
(* cancellation and a task only as long as there is one.                    *)
BooksWithoutCounts ==
    /\ \A s \in Session : locks[s] # NoRequest => users[s] # 0
    /\ \A r \in cancelRequested : ~Done(r)
    /\ \A r \in Request : ~Done(r) => r \in tasks
    /\ IsFiniteSet(tasks)

Counted == \A s \in Session : users[s] = Cardinality(UsersOf(s))

TaskInv ==
    /\ ConversationTypeOK
    /\ \A r \in Request : RowFollowsTask(r) /\ GeneratesOnce(r)
    /\ LocksAreShared
    /\ CancelledHasStarted
    /\ CancelsHold
    /\ DownIsForgotten
    /\ BooksWithoutCounts

ConversationInv == TaskInv /\ Counted

(* What a step does not touch it need not count again.                      *)
LEMMA CountsStay ==
    ASSUME Counted, UNCHANGED users, \A r \in Request : Done(r)' = Done(r)
    PROVE  Counted'
<1>1. \A s \in Session : UsersOf(s)' = UsersOf(s)
  BY DEF UsersOf
<1>2. QED
  BY <1>1 DEF Counted

(* The last user of a session is the one that is counted.                   *)
LEMMA LastUser ==
    ASSUME BooksWithoutCounts, Counted, NEW r \in Request, ~Done(r)
    PROVE  LET s == SessionOf[r] IN
           /\ users[s] \in Nat \ {0}
           /\ users[s] = 1 => UsersOf(s) = {r}
           /\ Cardinality(UsersOf(s) \ {r}) = users[s] - 1
<1> DEFINE s == SessionOf[r]
<1>1. IsFiniteSet(UsersOf(s)) /\ r \in UsersOf(s)
  <2>1. UsersOf(s) \subseteq tasks
    BY DEF UsersOf, BooksWithoutCounts
  <2>2. QED
    BY <2>1, FS_Subset DEF UsersOf, BooksWithoutCounts
<1>2. users[s] = Cardinality(UsersOf(s))
  BY SessionAssumption DEF Counted
<1> HIDE DEF s
<1>3. /\ Cardinality(UsersOf(s)) \in Nat
      /\ Cardinality(UsersOf(s) \ {r}) = Cardinality(UsersOf(s)) - 1
      /\ Cardinality(UsersOf(s)) # 0
  BY <1>1, FS_RemoveElement, FS_CardinalityType, FS_EmptySet
<1>4. ASSUME users[s] = 1
      PROVE  UsersOf(s) = {r}
  <2>1. \E q : UsersOf(s) = {q}
    BY <1>1, <1>2, <1>4, FS_Singleton
  <2>2. QED
    BY <1>1, <2>1
<1>5. QED
  BY <1>2, <1>3, <1>4 DEF s

LEMMA OnlyUser ==
    ASSUME BooksWithoutCounts, Counted, NEW r \in Request, ~Done(r)
    PROVE  /\ users[SessionOf[r]] \in Nat \ {0}
           /\ users[SessionOf[r]] = 1 =>
                \A q \in Request : SessionOf[q] = SessionOf[r] /\ ~Done(q) => q = r
BY LastUser DEF UsersOf

LEMMA ReleaseCounts ==
    ASSUME BooksWithoutCounts, Counted, users \in [Session -> Nat],
           NEW r \in Request, ~Done(r), ReleaseSession(r),
           producer' = [producer EXCEPT ![r] = Ended],
           producer \in [Request -> ProducerType]
    PROVE  Counted'
<1> DEFINE s == SessionOf[r]
<1>0. Done(r)' /\ \A q \in Request \ {r} : Done(q)' = Done(q)
  BY DEF Done, Ended, NoProducer
<1>1. UsersOf(s)' = UsersOf(s) \ {r}
  BY <1>0 DEF UsersOf
<1>2. \A z \in Session \ {s} : UsersOf(z)' = UsersOf(z)
  BY <1>0 DEF UsersOf
<1>3. users' = [users EXCEPT ![s] = @ - 1]
  BY DEF ReleaseSession
<1>4. Cardinality(UsersOf(s) \ {r}) = users[s] - 1
  BY LastUser
<1>5. s \in Session
  BY SessionAssumption
<1> HIDE DEF s
<1>6. ASSUME NEW z \in Session
      PROVE  users'[z] = Cardinality(UsersOf(z)')
  BY <1>1, <1>2, <1>3, <1>4, <1>5 DEF Counted
<1>7. QED
  BY <1>6 DEF Counted

USE SessionAssumption, NoRequestAssumption, CrashAssumption, AskerAssumption
USE DEF TaskInv, ConversationTypeOK, RowFollowsTask, GeneratesOnce, LocksAreShared,
        CancelledHasStarted, CancelsHold, DownIsForgotten, BooksWithoutCounts
USE DEF Final, Open, RunStatus, NoProducer, ProducerPc, ProducerType, Ended, ClientPc,
        Asker, Done, HasStarted, Inside

(* What a task may become has the type of a task.                           *)
LEMMA RecordChanges ==
    ASSUME NEW p \in ProducerType
    PROVE  /\ \A x \in ProducerPc : [p EXCEPT !.pc = x] \in ProducerType
           /\ \A l \in Request \cup {NoRequest} : [p EXCEPT !.lock = l] \in ProducerType
           /\ [p EXCEPT !.approval = TRUE] \in ProducerType
           /\ [p EXCEPT !.cancelled = TRUE] \in ProducerType
           /\ NoProducer \in ProducerType
OBVIOUS

LEMMA TaskChanges ==
    ASSUME NEW f \in [Request -> ProducerType], NEW r \in Request
    PROVE  LET Tasks == [Request -> ProducerType] IN
           /\ \A x \in ProducerPc : [f EXCEPT ![r].pc = x] \in Tasks
           /\ \A l \in Request \cup {NoRequest} : [f EXCEPT ![r].lock = l] \in Tasks
           /\ [f EXCEPT ![r].approval = TRUE] \in Tasks
           /\ [f EXCEPT ![r].cancelled = TRUE] \in Tasks
           /\ [f EXCEPT ![r] = Ended] \in Tasks
           /\ [f EXCEPT ![r] = [NoProducer EXCEPT !.pc = "created"]] \in Tasks
<1> HIDE DEF ProducerType, NoProducer
<1>1. /\ \A p \in ProducerType : [f EXCEPT ![r] = p] \in [Request -> ProducerType]
      /\ f[r] \in ProducerType
  OBVIOUS
<1>2. QED
  BY <1>1, RecordChanges

LEMMA EndWithStep ==
    ASSUME TaskInv, Counted, NEW r \in Request, NEW e \in Final, EndWith(r, e),
           producer[r].pc \in {"created", "locking", "generating"},
           (producer[r].cancelled \/ r \in cancelRequested) => e \in {"failed", "aborted"}
    PROVE  TaskInv' /\ Counted'
<1>1. /\ BooksWithoutCounts /\ users \in [Session -> Nat] /\ ~Done(r)
      /\ producer \in [Request -> ProducerType] /\ ReleaseSession(r)
      /\ producer' = [producer EXCEPT ![r] = Ended]
  BY DEF EndWith
<1> HIDE DEF BooksWithoutCounts, Done, ProducerType, Ended
<1>2. Counted'
  BY <1>1, ReleaseCounts
<1>3. /\ users[SessionOf[r]] \in Nat \ {0}
      /\ users[SessionOf[r]] = 1 =>
            \A q \in Request : SessionOf[q] = SessionOf[r] /\ ~Done(q) => q = r
  BY <1>1, OnlyUser
<1> USE DEF BooksWithoutCounts, Done, ProducerType, Ended
<1> USE DEF EndWith, ReleaseSession, Saved, process
<1>4. ConversationTypeOK'
  <2>1. producer' \in [Request -> ProducerType]
    BY TaskChanges
  <2>2. users' \in [Session -> Nat]
    <3>1. /\ users' = [users EXCEPT ![SessionOf[r]] = @ - 1]
          /\ users \in [Session -> Nat] /\ SessionOf[r] \in Session
      OBVIOUS
    <3> HIDE DEF TaskInv, EndWith
    <3>2. QED
      BY <1>3, <3>1
  <2>3. QED
    BY <2>1, <2>2
<1>5. ASSUME NEW q \in Request
      PROVE  (RowFollowsTask(q) /\ GeneratesOnce(q))'
  OBVIOUS
<1>6. LocksAreShared'
  BY <1>3
<1>7. CancelledHasStarted' /\ DownIsForgotten'
  OBVIOUS
<1>8. CancelsHold'
  OBVIOUS
<1>9. BooksWithoutCounts'
  BY <1>3
<1>10. QED
  BY <1>2, <1>4, <1>5, <1>6, <1>7, <1>8, <1>9

LEMMA StartStep ==
    ASSUME TaskInv, Counted, NEW r \in Request, Start(r)
    PROVE  TaskInv'
<1>0. users[SessionOf[r]] # 0
  <2>1. BooksWithoutCounts /\ ~Done(r)
    BY DEF Start
  <2> HIDE DEF BooksWithoutCounts, Done, TaskInv
  <2>2. QED
    BY <2>1, OnlyUser
<1> USE DEF Start, LockFor, Held, Waited, EnterSession, process
<1>1. LockFor(r) \in Request
  OBVIOUS
<1>2. \E x \in {"generating", "locking"} :
         producer' = [producer EXCEPT ![r].pc = x, ![r].lock = LockFor(r)]
  OBVIOUS
<1>3. producer' \in [Request -> ProducerType]
  <2> HIDE DEF ProducerType, LockFor, Start
  <2>1. PICK x \in {"generating", "locking"} :
           producer' = [producer EXCEPT ![r].pc = x, ![r].lock = LockFor(r)]
    BY <1>2
  <2>2. [producer EXCEPT ![r].pc = x] \in [Request -> ProducerType]
    BY TaskChanges
  <2>3. QED
    BY <1>1, <2>1, <2>2, TaskChanges
<1>4. ConversationTypeOK'
  BY <1>1, <1>3
<1>5. ASSUME NEW q \in Request
      PROVE  (RowFollowsTask(q) /\ GeneratesOnce(q))'
  BY <1>3
<1>6. LocksAreShared'
  <2> DEFINE l == LockFor(r)
  <2>1. \A q \in Request : producer[q].pc \in {"locking", "generating", "closing"} /\ SessionOf[q] = SessionOf[r]
            => producer[q].lock = LockFor(r)
    OBVIOUS
  <2>2. locks' = [locks EXCEPT ![SessionOf[r]] = LockFor(r)] /\ ~HasStarted(r)
    OBVIOUS
  <2>3. PICK x \in {"generating", "locking"} :
            /\ producer' = [producer EXCEPT ![r].pc = x, ![r].lock = LockFor(r)]
            /\ x = "generating" => ~Held(LockFor(r))
    OBVIOUS
  <2>4. LocksAreShared /\ locks \in [Session -> Request \cup {NoRequest}] /\ producer \in [Request -> ProducerType]
    OBVIOUS
  <2> HIDE DEF LockFor, TaskInv, Start
  <2>5. QED
    BY <1>1, <2>1, <2>2, <2>3, <2>4
<1>7. CancelledHasStarted' /\ DownIsForgotten'
  BY <1>2
<1>8. CancelsHold'
  <2>1. /\ CancelsHold /\ CancelledHasStarted /\ UNCHANGED <<asking, row, cancelRequested>> 
        /\ r \notin cancelRequested /\ producer[r].pc = "created" /\ asking \in [Asker -> [Request -> {"none", "starting", "draining"}]]
        /\ row[r] \in Open
    OBVIOUS
  <2>2. \A q \in Request : q # r => producer'[q] = producer[q]
    OBVIOUS
  <2>3. \A c \in Canceller : asking[c][r] = "none"
    BY <2>1
  <2> HIDE DEF LockFor, TaskInv, Start
  <2>5. QED
    BY <2>1, <2>2, <2>3
<1>9. BooksWithoutCounts'
  BY <1>0, <1>2
<1>10. QED
  BY <1>4, <1>5, <1>6, <1>7, <1>8, <1>9

LEMMA TakeSessionStep ==
    ASSUME TaskInv, NEW r \in Request, TakeSession(r)
    PROVE  TaskInv'
<1> USE DEF TakeSession, Held, EnterSession, process
<1>1. /\ producer' = [producer EXCEPT ![r].pc = "generating", ![r].lock = producer[r].lock]
      /\ producer[r].lock \in Request \cup {NoRequest}
  OBVIOUS
<1>2. producer' \in [Request -> ProducerType]
  <2>0. producer \in [Request -> ProducerType]
    OBVIOUS
  <2> HIDE DEF ProducerType, TakeSession, TaskInv
  <2>1. [producer EXCEPT ![r].pc = "generating"] \in [Request -> ProducerType]
    BY <2>0, TaskChanges
  <2>2. QED
    BY <1>1, <2>1, TaskChanges
<1>3. QED
  BY <1>2

LEMMA AskApprovalStep ==
    ASSUME TaskInv, NEW r \in Request, AskApproval(r)
    PROVE  TaskInv'
<1> USE DEF AskApproval, process
<1>1. producer' \in [Request -> ProducerType]
  BY TaskChanges
<1>2. QED
  BY <1>1

LEMMA TerminateStep ==
    ASSUME TaskInv, NEW r \in Request, Terminate(r)
    PROVE  TaskInv'
<1> USE DEF Terminate, Saved, process
<1>1. producer' \in [Request -> ProducerType]
  BY TaskChanges
<1>2. QED
  BY <1>1

LEMMA AskingChanges ==
    ASSUME asking \in [Asker -> [Request -> {"none", "starting", "draining"}]],
           NEW a \in Asker, NEW r \in Request, NEW x \in {"none", "starting", "draining"}
    PROVE  [asking EXCEPT ![a][r] = x] \in [Asker -> [Request -> {"none", "starting", "draining"}]]
OBVIOUS

LEMMA AnswerCancelStep ==
    ASSUME TaskInv, NEW a \in Asker, NEW r \in Request, AnswerCancel(a, r) \/ GiveUp(a, r)
    PROVE  TaskInv'
<1> USE DEF AnswerCancel, GiveUp, process
<1>1. asking' \in [Asker -> [Request -> {"none", "starting", "draining"}]]
  <2>1. /\ asking \in [Asker -> [Request -> {"none", "starting", "draining"}]]
        /\ asking' = [asking EXCEPT ![a][r] = "none"]
    OBVIOUS
  <2> HIDE DEF TaskInv, AnswerCancel, GiveUp, Asker
  <2>2. QED
    BY <2>1, AskingChanges
<1>2. ConversationTypeOK'
  BY <1>1
<1>3. CancelsHold'
  OBVIOUS
<1>4. QED
  BY <1>2, <1>3

LEMMA ReceiveStep ==
    ASSUME TaskInv, NEW r \in Request, Receive(r)
    PROVE  TaskInv'
BY DEF Receive, process

LEMMA LeaveStep ==
    ASSUME TaskInv, NEW r \in Request, Leave(r)
    PROVE  TaskInv'
BY DEF Leave, process

LEMMA GoneAtOnceStep ==
    ASSUME TaskInv, NEW r \in Request, GoneAtOnce(r)
    PROVE  TaskInv'
BY DEF GoneAtOnce, process

(* What a cancel leaves as it is, whoever asks for it: it marks a task that *)
(* has started, and a run that is open.                                     *)
LEMMA CancelLeaves ==
    ASSUME TaskInv, NEW r \in Request,
           producer' = producer \/ (HasStarted(r) /\ producer' = Cancelled(r)),
           row' = row \/ (row[r] \in Open /\ row' = [row EXCEPT ![r] = "cancelling"]),
           cancelRequested' = cancelRequested
              \/ (~Done(r) /\ cancelRequested' = cancelRequested \cup {r}),
           UNCHANGED <<queue, seen, tasks, users, locks, generations, process>>,
           client' \in [Request -> ClientPc],
           asking' \in [Asker -> [Request -> {"none", "starting", "draining"}]],
           CancelsHold'
    PROVE  TaskInv'
<1> USE DEF process
<1>1. producer' \in [Request -> ProducerType]
  <2>1. producer \in [Request -> ProducerType]
    OBVIOUS
  <2> HIDE DEF TaskInv, ProducerType, CancelsHold, process
  <2>2. Cancelled(r) \in [Request -> ProducerType]
    BY <2>1, TaskChanges DEF Cancelled
  <2>3. QED
    BY <2>1, <2>2
<1>2. \A q \in Request :
          /\ producer'[q].pc = producer[q].pc
          /\ producer'[q].lock = producer[q].lock
          /\ q # r => producer'[q] = producer[q]
          /\ row'[q] = row[q] \/ (row[q] \in Open /\ row'[q] = "cancelling")
  BY DEF Cancelled
<1>3. ConversationTypeOK'
  BY <1>1
<1>4. ASSUME NEW q \in Request
      PROVE  (RowFollowsTask(q) /\ GeneratesOnce(q))'
  <2>1. RowFollowsTask(q) /\ GeneratesOnce(q) /\ queue[q] \in Final \cup {"none"}
    OBVIOUS
  <2> HIDE DEF TaskInv, CancelsHold
  <2>2. QED
    BY <1>2, <2>1
<1>5. LocksAreShared' /\ DownIsForgotten'
  BY <1>2
<1>6. BooksWithoutCounts'
  BY <1>2
<1>7. CancelledHasStarted'
  BY <1>2
<1>8. QED
  BY <1>3, <1>4, <1>5, <1>6, <1>7

LEMMA SubmitStep ==
    ASSUME TaskInv, NEW r \in Request, Submit(r)
    PROVE  TaskInv'
<1> USE DEF Submit, process
<1>1. producer' \in [Request -> ProducerType]
  BY TaskChanges
<1>2. IsFiniteSet(tasks)'
  BY FS_AddElement
<1>3. QED
  BY <1>1, <1>2

LEMMA GoneStep ==
    ASSUME TaskInv, NEW r \in Request, Gone(r)
    PROVE  TaskInv'
<1> USE DEF Gone, process
<1>1. IsFiniteSet(tasks)'
  BY FS_RemoveElement
<1>2. QED
  BY <1>1

LEMMA AskStep ==
    ASSUME TaskInv, NEW c \in Canceller, NEW r \in Request, Ask(c, r)
    PROVE  TaskInv'
<1>1. PICK then \in {"starting", "draining"} :
          RequestCancel(r, then) /\ asking' = [asking EXCEPT ![c][r] = then]
  BY DEF Ask
<1>2. asking' \in [Asker -> [Request -> {"none", "starting", "draining"}]]
  BY <1>1
<1>3. CancelsHold'
  BY <1>1, <1>2 DEF Ask, RequestCancel, Cancelled
<1>4. QED
  BY <1>1, <1>2, <1>3, CancelLeaves DEF Ask, RequestCancel

LEMMA ShutdownStep ==
    ASSUME TaskInv, NEW a \in Stopper, NEW r \in Request, Shutdown(a, r)
    PROVE  TaskInv'
<1>1. PICK then \in {"starting", "draining"} :
          /\ RequestCancel(r, then) \/ ForceCancel(r, then)
          /\ asking' = [asking EXCEPT ![a][r] = then]
  BY DEF Shutdown
<1>2. asking' \in [Asker -> [Request -> {"none", "starting", "draining"}]]
  BY <1>1
<1>3. CancelsHold'
  BY <1>1, <1>2 DEF Shutdown, RequestCancel, ForceCancel, Cancelled
<1>4. QED
  BY <1>1, <1>2, <1>3, CancelLeaves DEF Shutdown, RequestCancel, ForceCancel

LEMMA AskStartedStep ==
    ASSUME TaskInv, NEW a \in Asker, NEW r \in Request, AskStarted(a, r)
    PROVE  TaskInv'
<1>2. asking' \in [Asker -> [Request -> {"none", "starting", "draining"}]]
  BY DEF AskStarted
<1>3. CancelsHold'
  BY <1>2 DEF AskStarted, Cancelled
<1>4. QED
  BY <1>2, <1>3, CancelLeaves DEF AskStarted

LEMMA LeaveOpenStep ==
    ASSUME TaskInv, NEW r \in Request, LeaveOpen(r)
    PROVE  TaskInv'
<1>1. PICK then \in {"starting", "draining"} :
          /\ RequestCancel(r, then) \/ ForceCancel(r, then)
          /\ client' = [client EXCEPT ![r] = then]
  BY DEF LeaveOpen
<1>3. CancelsHold'
  BY <1>1 DEF LeaveOpen, RequestCancel, ForceCancel, Cancelled
<1>4. QED
  BY <1>1, <1>3, CancelLeaves DEF LeaveOpen, RequestCancel, ForceCancel

LEMMA LeaveStartedStep ==
    ASSUME TaskInv, NEW r \in Request, LeaveStarted(r)
    PROVE  TaskInv'
<1>3. CancelsHold'
  BY DEF LeaveStarted, Cancelled
<1>4. QED
  BY <1>3, CancelLeaves DEF LeaveStarted

LEMMA CloseStep ==
    ASSUME TaskInv, Counted, NEW r \in Request, Close(r)
    PROVE  TaskInv' /\ Counted'
<1>1. /\ BooksWithoutCounts /\ users \in [Session -> Nat] /\ ~Done(r)
      /\ producer \in [Request -> ProducerType] /\ ReleaseSession(r)
      /\ producer' = [producer EXCEPT ![r] = Ended]
  BY DEF Close
<1> HIDE DEF BooksWithoutCounts, Done, ProducerType, Ended
<1>2. Counted'
  BY <1>1, ReleaseCounts
<1>3. /\ users[SessionOf[r]] \in Nat \ {0}
      /\ users[SessionOf[r]] = 1 =>
            \A q \in Request : SessionOf[q] = SessionOf[r] /\ ~Done(q) => q = r
  BY <1>1, OnlyUser
<1> USE DEF BooksWithoutCounts, Done, ProducerType, Ended
<1> USE DEF Close, ReleaseSession, process
<1>4. ConversationTypeOK'
  <2>1. producer' \in [Request -> ProducerType]
    BY TaskChanges
  <2>2. users' \in [Session -> Nat]
    <3>1. /\ users' = [users EXCEPT ![SessionOf[r]] = @ - 1]
          /\ users \in [Session -> Nat] /\ SessionOf[r] \in Session
      OBVIOUS
    <3> HIDE DEF TaskInv, Close
    <3>2. QED
      BY <1>3, <3>1
  <2>3. QED
    BY <2>1, <2>2
<1>5. ASSUME NEW q \in Request
      PROVE  (RowFollowsTask(q) /\ GeneratesOnce(q))'
  OBVIOUS
<1>6. LocksAreShared'
  BY <1>3
<1>7. CancelledHasStarted' /\ DownIsForgotten'
  OBVIOUS
<1>8. CancelsHold'
  OBVIOUS
<1>9. BooksWithoutCounts'
  BY <1>3
<1>10. QED
  BY <1>2, <1>4, <1>5, <1>6, <1>7, <1>8, <1>9

LEMMA CrashServerStep ==
    ASSUME TaskInv, CrashServer
    PROVE  TaskInv' /\ Counted'
<1>1. ConversationTypeOK'
  <2>1. producer' \in [Request -> ProducerType]
    BY RecordChanges DEF CrashServer
  <2>2. /\ asking' \in [Asker -> [Request -> {"none", "starting", "draining"}]]
        /\ users' \in [Session -> Nat] /\ locks' \in [Session -> Request \cup {NoRequest}]
        /\ serverCrashes' \in 0..MaxServerCrashes
    BY DEF CrashServer
  <2> HIDE DEF ProducerType
  <2>3. QED
    BY <2>1, <2>2 DEF CrashServer
<1>2. ASSUME NEW q \in Request
      PROVE  (RowFollowsTask(q) /\ GeneratesOnce(q))'
  BY DEF CrashServer
<1>3. LocksAreShared' /\ CancelledHasStarted' /\ DownIsForgotten' /\ CancelsHold'
  BY DEF CrashServer
<1>4. BooksWithoutCounts'
  BY FS_EmptySet DEF CrashServer
<1>5. Counted'
  <2>1. \A s \in Session : UsersOf(s)' = {}
    BY DEF CrashServer, UsersOf
  <2>2. QED
    BY <2>1, FS_EmptySet DEF CrashServer, Counted
<1>6. QED
  BY <1>1, <1>2, <1>3, <1>4, <1>5

LEMMA RecoverRunsStep ==
    ASSUME TaskInv, RecoverRuns
    PROVE  TaskInv'
BY DEF RecoverRuns, memory

(* Only a request that comes and a task that ends change the counts.        *)
LEMMA SubmitCounts ==
    ASSUME TaskInv, Counted, NEW r \in Request, Submit(r)
    PROVE  Counted'
<1> DEFINE s == SessionOf[r]
<1>1. /\ users' = [users EXCEPT ![s] = @ + 1] /\ s \in Session
      /\ users \in [Session -> Nat]
      /\ Done(r) /\ ~Done(r)' /\ \A q \in Request \ {r} : Done(q)' = Done(q)
      /\ UsersOf(s) \subseteq tasks /\ IsFiniteSet(tasks)
  BY DEF Submit, UsersOf
<1> HIDE DEF TaskInv, Done
<1>2. UsersOf(s)' = UsersOf(s) \cup {r} /\ r \notin UsersOf(s)
  BY <1>1 DEF UsersOf
<1>3. \A z \in Session \ {s} : UsersOf(z)' = UsersOf(z)
  BY <1>1 DEF UsersOf
<1>4. IsFiniteSet(UsersOf(s))
  BY <1>1, FS_Subset
<1> HIDE DEF s
<1>5. Cardinality(UsersOf(s)') = Cardinality(UsersOf(s)) + 1
  BY <1>2, <1>4, FS_AddElement
<1>6. ASSUME NEW z \in Session
      PROVE  users'[z] = Cardinality(UsersOf(z)')
  BY <1>1, <1>3, <1>5 DEF Counted
<1>7. QED
  BY <1>6 DEF Counted

LEMMA TaskCounts ==
    ASSUME TaskInv, Counted, NEW r \in Request,
           Start(r) \/ TakeSession(r) \/ AskApproval(r) \/ Terminate(r)
    PROVE  Counted'
<1>1. UNCHANGED users /\ ~Done(r)
  BY DEF Start, TakeSession, AskApproval, Terminate, EnterSession
<1>2. \A q \in Request : Done(q)' = Done(q)
  BY DEF Start, TakeSession, AskApproval, Terminate, EnterSession
<1> HIDE DEF TaskInv, Done
<1>3. QED
  BY <1>1, <1>2, CountsStay

LEMMA ClientCounts ==
    ASSUME TaskInv, Counted, NEW r \in Request,
           ClientStep(r) \/ Leave(r) \/ GoneAtOnce(r)
    PROVE  Counted'
<1>1. /\ UNCHANGED users
      /\ producer' = producer \/ producer' = Cancelled(r)
  BY DEF ClientStep, Receive, ReadToEnd, LeaveOpen, RequestCancel, ForceCancel, LeaveStarted,
         Gone, Leave, GoneAtOnce
<1>2. \A q \in Request : Done(q)' = Done(q)
  BY <1>1 DEF Cancelled
<1> HIDE DEF TaskInv, Done
<1>3. QED
  BY <1>1, <1>2, CountsStay

LEMMA AskerCounts ==
    ASSUME TaskInv, Counted, NEW r \in Request, NEW a,
           Ask(a, r) \/ Shutdown(a, r) \/ AskerStep(a, r) \/ GiveUp(a, r)
    PROVE  Counted'
<1>1. /\ UNCHANGED users
      /\ producer' = producer \/ producer' = Cancelled(r)
  BY DEF Ask, Shutdown, RequestCancel, ForceCancel, AskerStep, AskStarted, AnswerCancel, GiveUp
<1>2. \A q \in Request : Done(q)' = Done(q)
  BY <1>1 DEF Cancelled
<1> HIDE DEF TaskInv, Done
<1>3. QED
  BY <1>1, <1>2, CountsStay

LEMMA StoredCounts ==
    ASSUME TaskInv, Counted, RecoverRuns \/ UNCHANGED conversationVars
    PROVE  Counted'
<1>1. UNCHANGED users /\ \A q \in Request : Done(q)' = Done(q)
  BY DEF RecoverRuns, conversationVars, memory
<1> HIDE DEF TaskInv, Done
<1>2. QED
  BY <1>1, CountsStay

HIDE DEF TaskInv, ConversationTypeOK, RowFollowsTask, GeneratesOnce, LocksAreShared,
         CancelledHasStarted, CancelsHold, DownIsForgotten, BooksWithoutCounts
HIDE DEF Final, Open, RunStatus, NoProducer, ProducerPc, ProducerType, Ended, ClientPc,
         Asker, Done, HasStarted, Inside

LEMMA ProducerSteps ==
    ASSUME TaskInv, Counted, NEW r \in Request, ProducerStep(r)
    PROVE  TaskInv' /\ Counted'
<1>1. CASE StartStopped(r)
  BY <1>1, EndWithStep DEF StartStopped, Final
<1>2. CASE Start(r) \/ TakeSession(r) \/ AskApproval(r) \/ Terminate(r)
  BY <1>2, TaskCounts, StartStep, TakeSessionStep, AskApprovalStep, TerminateStep
<1>3. CASE Close(r)
  BY <1>3, CloseStep
<1>4. CASE Fail(r)
  BY <1>4, EndWithStep DEF Fail, Final
<1>5. CASE EndAborted(r)
  BY <1>5, EndWithStep DEF EndAborted, Final
<1>6. QED
  BY <1>1, <1>2, <1>3, <1>4, <1>5 DEF ProducerStep

LEMMA ConversationStutter == TaskInv /\ Counted /\ UNCHANGED conversationVars => TaskInv' /\ Counted'
<1> SUFFICES ASSUME TaskInv, Counted, UNCHANGED conversationVars
             PROVE  TaskInv' /\ Counted'
  OBVIOUS
<1>1. TaskInv'
  BY DEF conversationVars, memory, process, TaskInv, ConversationTypeOK, RowFollowsTask,
         GeneratesOnce, LocksAreShared, CancelledHasStarted, CancelsHold, DownIsForgotten,
         BooksWithoutCounts, Done, HasStarted, Inside
<1>2. QED
  BY <1>1, StoredCounts

LEMMA ConversationSteps == TaskInv /\ Counted /\ ConversationNext => TaskInv' /\ Counted'
<1> SUFFICES ASSUME TaskInv, Counted, ConversationNext
             PROVE  TaskInv' /\ Counted'
  OBVIOUS
<1>1. ASSUME NEW r \in Request, ProducerStep(r)
      PROVE  TaskInv' /\ Counted'
  BY <1>1, ProducerSteps
<1>2. ASSUME NEW r \in Request, Submit(r)
      PROVE  TaskInv' /\ Counted'
  BY <1>2, SubmitStep, SubmitCounts
<1>3. ASSUME NEW r \in Request, ClientStep(r) \/ Leave(r) \/ GoneAtOnce(r)
      PROVE  TaskInv' /\ Counted'
  <2>1. TaskInv'
    BY <1>3, ReceiveStep, LeaveStep, LeaveOpenStep, LeaveStartedStep, GoneStep, GoneAtOnceStep
       DEF ClientStep, ReadToEnd
  <2>2. QED
    BY <1>3, <2>1, ClientCounts
<1>4. ASSUME NEW r \in Request, NEW c \in Canceller, Ask(c, r)
      PROVE  TaskInv' /\ Counted'
  BY <1>4, AskStep, AskerCounts
<1>5. ASSUME NEW r \in Request, NEW a \in Stopper, Shutdown(a, r)
      PROVE  TaskInv' /\ Counted'
  BY <1>5, ShutdownStep, AskerCounts
<1>6. ASSUME NEW r \in Request, NEW a \in Asker, AskerStep(a, r) \/ GiveUp(a, r)
      PROVE  TaskInv' /\ Counted'
  <2>1. Counted'
    BY <1>6, AskerCounts
  <2>2. QED
    BY <1>6, <2>1, AskStartedStep, AnswerCancelStep DEF AskerStep
<1>7. CASE CrashServer
  BY <1>7, CrashServerStep
<1>8. CASE RecoverRuns
  BY <1>8, RecoverRunsStep, StoredCounts
<1>9. QED
  BY <1>1, <1>2, <1>3, <1>4, <1>5, <1>6, <1>7, <1>8 DEF ConversationNext

LEMMA ConversationStarts == ConversationInit => TaskInv /\ Counted
<1> SUFFICES ASSUME ConversationInit
             PROVE  TaskInv /\ Counted
  OBVIOUS
<1> USE CrashAssumption
<1> USE DEF ConversationInit, Forgotten, Done, NoProducer
<1>1. ConversationTypeOK
  BY DEF ConversationTypeOK, RunStatus, ProducerType, ProducerPc, ClientPc, Asker
<1>2. ASSUME NEW r \in Request
      PROVE  RowFollowsTask(r) /\ GeneratesOnce(r)
  BY DEF RowFollowsTask, GeneratesOnce, Open
<1>3. LocksAreShared /\ CancelledHasStarted /\ CancelsHold /\ DownIsForgotten
  BY DEF Asker, LocksAreShared, Inside, CancelledHasStarted, CancelsHold, DownIsForgotten
<1>4. BooksWithoutCounts
  BY FS_EmptySet DEF BooksWithoutCounts
<1>5. Counted
  <2>1. \A s \in Session : UsersOf(s) = {}
    BY DEF UsersOf
  <2>2. QED
    BY <2>1, FS_EmptySet DEF Counted
<1>6. QED
  BY <1>1, <1>2, <1>3, <1>4, <1>5 DEF TaskInv

(* The inductive invariant of the coordinator holds of every reachable      *)
(* state, for any requests, sessions, cancellers and crashes.               *)
THEOREM ConversationsInductive == ConversationSpec => []ConversationInv
<1>1. ConversationInit => ConversationInv
  BY ConversationStarts DEF ConversationInv
<1>2. ConversationInv /\ [ConversationNext]_conversationVars => ConversationInv'
  BY ConversationSteps, ConversationStutter DEF ConversationInv
<1>3. QED
  BY <1>1, <1>2, PTL DEF ConversationSpec

LEMMA ConversationInvMeans ==
    ConversationInv => /\ ConversationTypeOK
                       /\ Serialized /\ GeneratedOnce /\ StreamedIsStored
                       /\ NothingLeaks /\ OpenRunsAreServed /\ CancelledHasStarted
<1> SUFFICES ASSUME ConversationInv
             PROVE  /\ ConversationTypeOK
                    /\ Serialized /\ GeneratedOnce /\ StreamedIsStored
                    /\ NothingLeaks /\ OpenRunsAreServed /\ CancelledHasStarted
  OBVIOUS
<1>1. TaskInv /\ Counted
  BY DEF ConversationInv
<1>2. Serialized
  BY <1>1 DEF TaskInv, LocksAreShared, Serialized, Inside
<1>3. GeneratedOnce /\ StreamedIsStored
  BY <1>1 DEF TaskInv, GeneratesOnce, RowFollowsTask, GeneratedOnce, StreamedIsStored
<1>4. NothingLeaks
  BY <1>1 DEF TaskInv, BooksWithoutCounts, Counted, UsersOf, NothingLeaks
<1>5. OpenRunsAreServed
  BY <1>1 DEF TaskInv, ConversationTypeOK, ProducerType, ProducerPc, RowFollowsTask,
     OpenRunsAreServed, Done, Open, Final
<1>6. QED
  BY <1>1, <1>2, <1>3, <1>4, <1>5 DEF TaskInv

-----------------------------------------------------------------------------
(* What a step of the coordinator may not do.                               *)

EndsAreStored ==
    \A r \in Request : row[r] \in Final \cup {"awaiting_review"} => row'[r] = row[r]

LEMMA NextStoresEnds == ConversationTypeOK /\ ConversationNext => EndsAreStored
<1> SUFFICES ASSUME ConversationTypeOK, ConversationNext
             PROVE  EndsAreStored
  OBVIOUS
<1> USE DEF ConversationTypeOK, EndsAreStored, Final, Open
<1>1. ASSUME NEW r \in Request, ProducerStep(r)
      PROVE  EndsAreStored
  BY <1>1 DEF ProducerStep, StartStopped, Start, TakeSession, AskApproval, Terminate, Close,
              Fail, EndAborted, EndWith, Saved
<1>2. ASSUME NEW r \in Request, Submit(r) \/ ClientStep(r) \/ Leave(r) \/ GoneAtOnce(r)
      PROVE  EndsAreStored
  BY <1>2 DEF Submit, ClientStep, Receive, ReadToEnd, LeaveOpen, RequestCancel, ForceCancel,
              LeaveStarted, Gone, Leave, GoneAtOnce
<1>3. ASSUME NEW r \in Request, NEW a, Ask(a, r) \/ Shutdown(a, r) \/ AskerStep(a, r) \/ GiveUp(a, r)
      PROVE  EndsAreStored
  BY <1>3 DEF Ask, Shutdown, RequestCancel, ForceCancel, AskerStep, AskStarted, AnswerCancel,
              GiveUp
<1>4. CASE CrashServer \/ RecoverRuns
  BY <1>4 DEF CrashServer, RecoverRuns
<1>5. QED
  BY <1>1, <1>2, <1>3, <1>4 DEF ConversationNext

(* The stored end of a request is never rewritten.                          *)
THEOREM EndsAreStoredOnce == ConversationSpec => StoredEndsStay
<1>1. ConversationInv /\ [ConversationNext]_conversationVars => [EndsAreStored]_row
  BY NextStoresEnds, ConversationInvMeans DEF conversationVars
<1>2. QED
  BY ConversationsInductive, <1>1, PTL DEF ConversationSpec, StoredEndsStay, EndsAreStored

CancelsAreTrue ==
    \A c \in Canceller, r \in Request :
        AnswerCancel(c, r) => Done(r) /\ row[r] \in {"aborted", "failed"}

LEMMA CancelsAreAnsweredTruly == ConversationInv => CancelsAreTrue
BY DEF ConversationInv, TaskInv, CancelsHold, CancelsAreTrue, AnswerCancel, Done

(* A cancel that was answered has stopped its request.                      *)
THEOREM CancelsStop == ConversationSpec => CancelledIsStopped
<1>1. ConversationInv /\ [ConversationNext]_conversationVars => [CancelsAreTrue]_conversationVars
  BY CancelsAreAnsweredTruly
<1>2. QED
  BY ConversationsInductive, <1>1, PTL DEF ConversationSpec, CancelledIsStopped, CancelsAreTrue

-----------------------------------------------------------------------------
(* MemoryFacts.                                                             *)

FactType == [scope : Scope, value : Value, status : FactStatus, conflict : Conflict,
             edited : BOOLEAN]
EpisodeType == [content : Content, deleted : BOOLEAN]
ReaderType ==
    {NoReader} \cup
    [at : {"facts", "episodes", "embedding", "answered"}, docs : SUBSET Ids,
     missing : SUBSET Texts, hidden : SUBSET Ids]

(* The tables are sequences that are only appended to and edited in place.  *)
Tables ==
    /\ facts \in Seq(FactType) /\ Len(facts) <= MaxFacts
    /\ episodes \in Seq(EpisodeType) /\ Len(episodes) <= MaxEpisodes
    /\ vectors \subseteq Texts
    /\ reader \in [Reader -> ReaderType]

(* Only stored items are withdrawn, none of them is active or live, and a   *)
(* withdrawn episode stays so.                                              *)
Stored == {FactId(i) : i \in DOMAIN facts} \cup {EpisodeId(j) : j \in DOMAIN episodes}

WithdrawnIsGone(ids) ==
    /\ ids \subseteq Stored
    /\ \A j \in DOMAIN episodes : EpisodeId(j) \in ids => episodes[j].deleted

NoneActive == \A i \in DOMAIN facts : facts[i].status = "active" => FactId(i) \notin withdrawn

(* What a retrieval has listed is not what was withdrawn before it.         *)
ReadersAreHonest ==
    \A r \in Reader : reader[r] # NoReader =>
        /\ reader[r].docs \cap reader[r].hidden = {}
        /\ WithdrawnIsGone(reader[r].hidden)
        /\ reader[r].docs \subseteq Stored

FactsInv ==
    /\ Tables
    /\ WithdrawnIsGone(withdrawn)
    /\ NoneActive
    /\ ReadersAreHonest
    /\ ConflictsAreMarked

(* Editing a table in place leaves its length and its types.                *)
LEMMA InPlace ==
    ASSUME NEW T, NEW s \in Seq(T), NEW f, f \in [DOMAIN s -> T]
    PROVE  f \in Seq(T) /\ Len(f) = Len(s) /\ DOMAIN f = DOMAIN s
<1>1. DOMAIN s = 1..Len(s) /\ Len(s) \in Nat
  OBVIOUS
<1>2. f \in [1..Len(s) -> T]
  BY <1>1
<1>3. QED
  BY <1>1, <1>2

LEMMA Appended ==
    ASSUME NEW T, NEW s \in Seq(T), NEW e \in T
    PROVE  /\ Append(s, e) \in Seq(T)
           /\ Len(Append(s, e)) = Len(s) + 1
           /\ DOMAIN Append(s, e) = DOMAIN s \cup {Len(s) + 1}
           /\ Len(s) + 1 \notin DOMAIN s
           /\ Append(s, e)[Len(s) + 1] = e
           /\ \A i \in DOMAIN s : Append(s, e)[i] = s[i]
BY AppendProperties

LEMMA SupersedeTyped ==
    ASSUME NEW fs \in Seq(FactType), NEW losers
    PROVE  /\ Supersede(fs, losers) \in Seq(FactType)
           /\ Len(Supersede(fs, losers)) = Len(fs)
           /\ DOMAIN Supersede(fs, losers) = DOMAIN fs
<1>1. \A x \in FactType : [x EXCEPT !.status = "superseded", !.conflict = "resolved"] \in FactType
  BY DEF FactType, FactStatus, Conflict
<1>2. \A i \in DOMAIN fs : fs[i] \in FactType
  OBVIOUS
<1> HIDE DEF FactType
<1>3. Supersede(fs, losers) \in [DOMAIN fs -> FactType]
  BY <1>1, <1>2 DEF Supersede
<1>4. QED
  BY <1>3, InPlace

LEMMA SupersedeMeans ==
    ASSUME NEW fs \in Seq(FactType), NEW losers, NEW i \in DOMAIN fs
    PROVE  /\ Supersede(fs, losers)[i].scope = fs[i].scope
           /\ Supersede(fs, losers)[i].value = fs[i].value
           /\ Supersede(fs, losers)[i].edited = fs[i].edited
           /\ i \in losers => Supersede(fs, losers)[i].status = "superseded"
           /\ i \notin losers => Supersede(fs, losers)[i] = fs[i]
BY DEF Supersede, FactType

LEMMA ItemsDiffer == 
    \A i, j : /\ FactId(i) # EpisodeId(j)
              /\ FactId(i) = FactId(j) => i = j
              /\ EpisodeId(i) = EpisodeId(j) => i = j
BY DEF FactId, EpisodeId

LEMMA GoneStays ==
    ASSUME NEW ids, WithdrawnIsGone(ids), DOMAIN facts \subseteq DOMAIN facts',
           DOMAIN episodes \subseteq DOMAIN episodes',
           \A j \in DOMAIN episodes : episodes[j].deleted => episodes'[j].deleted
    PROVE  WithdrawnIsGone(ids)' /\ Stored \subseteq Stored'
<1>0. Stored \subseteq Stored'
  BY DEF Stored
<1>1. ASSUME NEW j \in DOMAIN episodes', EpisodeId(j) \in ids
      PROVE  episodes'[j].deleted
  <2>1. j \in DOMAIN episodes
    BY <1>1, ItemsDiffer DEF WithdrawnIsGone, Stored
  <2>2. QED
    BY <1>1, <2>1 DEF WithdrawnIsGone
<1>2. QED
  BY <1>0, <1>1 DEF WithdrawnIsGone

(* A change of the facts, by which some of them are withdrawn.              *)
LEMMA FactsChange ==
    ASSUME FactsInv, facts' \in Seq(FactType), Len(facts') <= MaxFacts,
           DOMAIN facts \subseteq DOMAIN facts',
           UNCHANGED <<episodes, reader>>, vectors' \subseteq vectors,
           NEW gone \in SUBSET DOMAIN facts,
           withdrawn' = withdrawn \cup {FactId(i) : i \in gone},
           NoneActive', ConflictsAreMarked'
    PROVE  FactsInv'
<1>1. Tables'
  BY DEF FactsInv, Tables
<1>2. /\ \A ids : WithdrawnIsGone(ids) => WithdrawnIsGone(ids)'
      /\ Stored \subseteq Stored'
  <2>1. WithdrawnIsGone({})
    BY DEF WithdrawnIsGone
  <2>2. QED
    BY <2>1, GoneStays
<1>3. WithdrawnIsGone(withdrawn)'
  <2>1. WithdrawnIsGone(withdrawn \cup {FactId(i) : i \in gone})
    BY ItemsDiffer DEF FactsInv, WithdrawnIsGone, Stored
  <2>2. QED
    BY <2>1, GoneStays
<1>4. ReadersAreHonest'
  <2> SUFFICES ASSUME NEW r \in Reader, reader'[r] # NoReader
               PROVE  (/\ reader[r].docs \cap reader[r].hidden = {}
                       /\ WithdrawnIsGone(reader[r].hidden)
                       /\ reader[r].docs \subseteq Stored)'
    BY DEF ReadersAreHonest
  <2>1. QED
    BY <1>2 DEF FactsInv, ReadersAreHonest
<1>5. QED
  BY <1>1, <1>3, <1>4 DEF FactsInv

LEMMA NothingWithdrawn ==
    ASSUME FactsInv, facts' \in Seq(FactType), Len(facts') <= MaxFacts,
           DOMAIN facts \subseteq DOMAIN facts',
           UNCHANGED <<episodes, reader, withdrawn>>, vectors' \subseteq vectors,
           NoneActive', ConflictsAreMarked'
    PROVE  FactsInv'
<1>1. withdrawn' = withdrawn \cup {FactId(i) : i \in {}}
  OBVIOUS
<1>2. QED
  BY <1>1, FactsChange

LEMMA NewFact ==
    ASSUME NEW k \in Scope, NEW v \in Value, NEW c \in {"none", "conflicted", "resolved"}
    PROVE  /\ Fact(k, v, c, FALSE) \in FactType /\ Fact(k, v, c, TRUE) \in FactType
           /\ Fact(k, v, c, FALSE).scope = k /\ Fact(k, v, c, FALSE).conflict = c
           /\ Fact(k, v, c, FALSE).status = "active" /\ Fact(k, v, c, FALSE).value = v
           /\ Fact(k, v, c, TRUE).edited
BY DEF Fact, FactType, FactStatus, Conflict

(* What every step about the facts starts from.                             *)
LEMMA FactsAre ==
    ASSUME FactsInv
    PROVE  /\ facts \in Seq(FactType) /\ Len(facts) \in Nat /\ Len(facts) <= MaxFacts
           /\ \A i \in DOMAIN facts : facts[i] \in FactType
           /\ Len(facts) + 1 \notin DOMAIN facts
           /\ FactId(Len(facts) + 1) \notin withdrawn
           /\ NoneActive /\ ConflictsAreMarked
<1>1. Len(facts) + 1 \notin DOMAIN facts
  BY Appended DEF FactsInv, Tables
<1>2. FactId(Len(facts) + 1) \notin withdrawn
  BY <1>1, ItemsDiffer DEF FactsInv, WithdrawnIsGone, Stored
<1>3. QED
  BY <1>1, <1>2 DEF FactsInv, Tables

LEMMA FirstFactStep ==
    ASSUME FactsInv, NEW k \in Scope, NEW v \in Value, FirstFact(k, v)
    PROVE  FactsInv'
<1> DEFINE n == Len(facts) + 1
           new == Fact(k, v, "none", FALSE)
<1>1. new \in FactType /\ new.scope = k
  <2>1. new \in FactType
    BY NewFact
  <2>2. new.scope = k
    BY DEF Fact
  <2>3. QED
    BY <2>1, <2>2
<1>2. /\ facts' = Append(facts, new) /\ Len(facts) < MaxFacts
      /\ UNCHANGED <<episodes, vectors, reader, withdrawn>>
  BY DEF FirstFact
<1>3. facts \in Seq(FactType) /\ Len(facts) \in Nat /\ MaxFacts \in Nat
  BY FactsAre, FactsAssumption
<1> HIDE DEF new
<1>4. /\ facts' \in Seq(FactType) /\ Len(facts') <= MaxFacts
      /\ DOMAIN facts' = DOMAIN facts \cup {n} /\ n \notin DOMAIN facts
      /\ facts'[n] = new
      /\ \A i \in DOMAIN facts : facts'[i] = facts[i]
  BY <1>1, <1>2, <1>3, Appended
<1>5. FactId(n) \notin withdrawn
  BY FactsAre
<1> HIDE DEF n
<1>6. NoneActive'
  BY <1>2, <1>4, <1>5, FactsAre DEF NoneActive
<1>7. ConflictsAreMarked'
  <2>1. \A i \in DOMAIN facts : facts[i].scope = k => facts[i].status # "active"
    BY DEF FirstFact, ActiveFacts
  <2>2. QED
    BY <1>1, <1>4, <2>1, FactsAre DEF ConflictsAreMarked, ActiveFacts
<1>8. QED
  BY <1>2, <1>4, <1>6, <1>7, NothingWithdrawn

LEMMA ContradictFactStep ==
    ASSUME FactsInv, NEW k \in Scope, NEW v \in Value, ContradictFact(k, v)
    PROVE  FactsInv'
<1> DEFINE n == Len(facts) + 1
           new == Fact(k, v, "conflicted", FALSE)
           marked == [i \in DOMAIN facts |->
                         IF i \in ActiveFacts(k) THEN [facts[i] EXCEPT !.conflict = "conflicted"]
                         ELSE facts[i]]
<1>1. marked \in Seq(FactType) /\ Len(marked) = Len(facts) /\ DOMAIN marked = DOMAIN facts
  <2>1. \A x \in FactType : [x EXCEPT !.conflict = "conflicted"] \in FactType
    BY DEF FactType, Conflict
  <2>2. marked \in [DOMAIN facts -> FactType]
    BY <2>1, FactsAre
  <2>3. QED
    BY <2>2, FactsAre, InPlace
<1>2. \A i \in DOMAIN facts :
          /\ marked[i].scope = facts[i].scope /\ marked[i].status = facts[i].status
          /\ marked[i].value = facts[i].value /\ marked[i].edited = facts[i].edited
          /\ i \in ActiveFacts(k) => marked[i].conflict = "conflicted"
          /\ i \notin ActiveFacts(k) => marked[i].conflict = facts[i].conflict
  BY FactsAre DEF FactType
<1>3. /\ facts' = Append(marked, new) /\ Len(facts) < MaxFacts
      /\ UNCHANGED <<episodes, vectors, reader, withdrawn>>
  BY DEF ContradictFact
<1>4. new \in FactType /\ new.scope = k /\ new.conflict = "conflicted"
  BY NewFact
<1>5. Len(facts) \in Nat /\ MaxFacts \in Nat
  BY FactsAre, FactsAssumption
<1> HIDE DEF marked, new
<1>6. /\ facts' \in Seq(FactType) /\ Len(facts') <= MaxFacts
      /\ DOMAIN facts' = DOMAIN facts \cup {n} /\ n \notin DOMAIN facts
      /\ facts'[n] = new
      /\ \A i \in DOMAIN facts : facts'[i] = marked[i]
  BY <1>1, <1>3, <1>4, <1>5, Appended
<1>7. FactId(n) \notin withdrawn
  BY FactsAre
<1> HIDE DEF n
<1>8. NoneActive'
  BY <1>2, <1>3, <1>6, <1>7, FactsAre DEF NoneActive
<1>9. ConflictsAreMarked'
  <2> SUFFICES ASSUME NEW i \in DOMAIN facts', NEW j \in DOMAIN facts',
                      facts'[i].status = "active", facts'[j].status = "active",
                      facts'[i].scope = facts'[j].scope, facts'[i].value # facts'[j].value,
                      ~facts'[i].edited, ~facts'[j].edited
               PROVE  facts'[i].conflict = "conflicted" /\ facts'[j].conflict = "conflicted"
    BY DEF ConflictsAreMarked, ActiveFacts
  <2>1. CASE facts'[i].scope = k
    <3>1. \A l \in DOMAIN facts :
             facts'[l].scope = k /\ facts'[l].status = "active" => facts'[l].conflict = "conflicted"
      BY <1>2, <1>6 DEF ActiveFacts
    <3>2. QED
      BY <1>4, <1>6, <2>1, <3>1
  <2>2. CASE facts'[i].scope # k
    <3>1. i \in DOMAIN facts /\ j \in DOMAIN facts
      BY <1>4, <1>6, <2>2
    <3>2. i \notin ActiveFacts(k) /\ j \notin ActiveFacts(k)
      BY <1>2, <1>6, <2>2, <3>1 DEF ActiveFacts
    <3>3. /\ facts[i].conflict = "conflicted" /\ facts[j].conflict = "conflicted"
      BY <1>2, <1>6, <3>1, FactsAre DEF ConflictsAreMarked, ActiveFacts
    <3>4. QED
      BY <1>2, <1>6, <3>1, <3>2, <3>3
  <2>3. QED
    BY <2>1, <2>2
<1>10. QED
  BY <1>3, <1>6, <1>8, <1>9, NothingWithdrawn

LEMMA ConfirmFactStep ==
    ASSUME FactsInv, NEW k \in Scope, NEW v \in Value, ConfirmFact(k, v)
    PROVE  FactsInv'
<1>1. PICK winner \in ActiveFacts(k) :
          /\ facts' = [Supersede(facts, ActiveFacts(k) \ {winner}) EXCEPT ![winner].conflict = "none"]
          /\ Withdraw({FactId(i) : i \in ActiveFacts(k) \ {winner}})
  BY DEF ConfirmFact
<1> DEFINE losers == ActiveFacts(k) \ {winner}
           fs == Supersede(facts, losers)
<1>2. /\ fs \in Seq(FactType) /\ Len(fs) = Len(facts) /\ DOMAIN fs = DOMAIN facts
      /\ winner \in DOMAIN facts /\ losers \subseteq DOMAIN facts /\ winner \notin losers
  BY FactsAre, SupersedeTyped DEF ActiveFacts
<1>3. \A i \in DOMAIN facts :
         /\ fs[i].scope = facts[i].scope
         /\ i \in losers => fs[i].status = "superseded"
         /\ i \notin losers => fs[i] = facts[i]
         /\ fs[i].value = facts[i].value /\ fs[i].edited = facts[i].edited
  BY FactsAre, SupersedeMeans
<1>4. facts' = [fs EXCEPT ![winner].conflict = "none"]
  BY <1>1
<1>a. withdrawn' = withdrawn \cup {FactId(i) : i \in losers}
  BY <1>1 DEF Withdraw
<1> HIDE DEF fs
<1>5. /\ facts' \in Seq(FactType) /\ Len(facts') = Len(facts) /\ DOMAIN facts' = DOMAIN facts
      /\ \A i \in DOMAIN facts : i # winner => facts'[i] = fs[i]
      /\ facts'[winner].scope = fs[winner].scope /\ facts'[winner].status = fs[winner].status
  <2>1. [fs[winner] EXCEPT !.conflict = "none"] \in FactType
    <3>1. fs[winner] \in FactType
      BY <1>2
    <3> HIDE DEF losers
    <3>2. \A x \in FactType : [x EXCEPT !.conflict = "none"] \in FactType
      BY DEF FactType, Conflict
    <3>3. QED
      BY <3>1, <3>2
  <2>2. facts' \in [DOMAIN fs -> FactType]
    BY <1>2, <1>4, <2>1
  <2>3. /\ facts'[winner].scope = fs[winner].scope /\ facts'[winner].status = fs[winner].status
    BY <1>2, <1>4 DEF FactType
  <2>4. QED
    BY <1>2, <1>4, <2>2, <2>3, InPlace
<1>6. NoneActive'
  <2> SUFFICES ASSUME NEW i \in DOMAIN facts, facts'[i].status = "active"
               PROVE  FactId(i) \notin withdrawn'
    BY <1>5 DEF NoneActive
  <2>1. fs[i].status = "active" /\ i \notin losers
    BY <1>2, <1>3, <1>5
  <2>2. FactId(i) \notin withdrawn
    BY <1>3, <2>1, FactsAre DEF NoneActive
  <2>3. QED
    BY <1>a, <2>1, <2>2, ItemsDiffer
<1>7. ConflictsAreMarked'
  <2> SUFFICES ASSUME NEW i \in DOMAIN facts, NEW j \in DOMAIN facts,
                      facts'[i].status = "active", facts'[j].status = "active",
                      facts'[i].scope = facts'[j].scope, facts'[i].value # facts'[j].value,
                      ~facts'[i].edited, ~facts'[j].edited
               PROVE  facts'[i].conflict = "conflicted" /\ facts'[j].conflict = "conflicted"
    BY <1>5 DEF ConflictsAreMarked, ActiveFacts
  <2>1. i \notin losers /\ j \notin losers
    BY <1>2, <1>3, <1>5
  <2>2. facts[i].status = "active" /\ facts[j].status = "active" /\ facts[i].scope = facts[j].scope
    BY <1>2, <1>3, <1>5, <2>1
  <2>3. i # winner /\ j # winner
    BY <1>2, <2>1, <2>2 DEF ActiveFacts
  <2>4. facts'[i] = facts[i] /\ facts'[j] = facts[j]
    BY <1>3, <1>5, <2>1, <2>3
  <2>5. QED
    BY <2>2, <2>4, FactsAre DEF ConflictsAreMarked, ActiveFacts
<1>8. UNCHANGED <<episodes, reader, vectors>>
  BY DEF ConfirmFact
<1>9. QED
  BY <1>2, <1>5, <1>6, <1>7, <1>8, <1>a, FactsAre, FactsChange

(* What is left of the facts when some are superseded.                      *)
LEMMA Superseded ==
    ASSUME FactsInv, NEW losers
    PROVE  LET fs == Supersede(facts, losers) IN
           /\ fs \in Seq(FactType) /\ Len(fs) = Len(facts) /\ DOMAIN fs = DOMAIN facts
           /\ \A i \in DOMAIN facts :
                 /\ fs[i].scope = facts[i].scope
                 /\ fs[i].value = facts[i].value /\ fs[i].edited = facts[i].edited
                 /\ i \in losers => fs[i].status = "superseded"
                 /\ i \notin losers => fs[i] = facts[i]
BY FactsAre, SupersedeTyped, SupersedeMeans

(* Facts that are active as before are marked as before.                    *)
LEMMA FewerAreActive ==
    ASSUME FactsInv, DOMAIN facts' = DOMAIN facts,
           \A i \in DOMAIN facts : facts'[i].status = "active" => facts'[i] = facts[i],
           withdrawn \subseteq withdrawn',
           \A i \in DOMAIN facts : FactId(i) \in withdrawn' =>
               FactId(i) \in withdrawn \/ facts'[i].status # "active"
    PROVE  NoneActive' /\ ConflictsAreMarked'
<1>1. NoneActive'
  BY FactsAre DEF NoneActive
<1>2. ConflictsAreMarked'
  BY FactsAre DEF ConflictsAreMarked, ActiveFacts
<1>3. QED
  BY <1>1, <1>2

LEMMA UpdateFactStep ==
    ASSUME FactsInv, NEW i \in DOMAIN facts, NEW v \in Value, UpdateFact(i, v)
    PROVE  FactsInv'
<1> DEFINE n == Len(facts) + 1
           fs == Supersede(facts, {i})
           new == Fact(facts[i].scope, v, "resolved", TRUE)
<1>1. /\ facts' = Append(fs, new) /\ Len(facts) < MaxFacts
      /\ vectors' \subseteq vectors
      /\ withdrawn' = withdrawn \cup {FactId(j) : j \in {i}}
      /\ UNCHANGED <<episodes, reader>>
  BY DEF UpdateFact, Withdraw
<1>2. new \in FactType /\ new.edited
  <2>1. facts[i].scope \in Scope
    BY FactsAre DEF FactType
  <2>2. QED
    BY <2>1, NewFact
<1>3. Len(facts) \in Nat /\ MaxFacts \in Nat
  BY FactsAre, FactsAssumption
<1>4. /\ fs \in Seq(FactType) /\ Len(fs) = Len(facts) /\ DOMAIN fs = DOMAIN facts
      /\ fs[i].status = "superseded"
      /\ \A j \in DOMAIN facts : j # i => fs[j] = facts[j]
  BY Superseded
<1> HIDE DEF fs, new
<1>5. /\ facts' \in Seq(FactType) /\ Len(facts') <= MaxFacts
      /\ DOMAIN facts' = DOMAIN facts \cup {n} /\ n \notin DOMAIN facts
      /\ facts'[n] = new
      /\ \A j \in DOMAIN facts : facts'[j] = fs[j]
  BY <1>1, <1>2, <1>3, <1>4, Appended
<1>6. FactId(n) \notin withdrawn
  BY FactsAre
<1> HIDE DEF n
<1>7. NoneActive'
  BY <1>1, <1>4, <1>5, <1>6, ItemsDiffer, FactsAre DEF NoneActive
<1>8. ConflictsAreMarked'
  <2> SUFFICES ASSUME NEW j \in DOMAIN facts', NEW l \in DOMAIN facts',
                      facts'[j].status = "active", facts'[l].status = "active",
                      facts'[j].scope = facts'[l].scope, facts'[j].value # facts'[l].value,
                      ~facts'[j].edited, ~facts'[l].edited
               PROVE  facts'[j].conflict = "conflicted" /\ facts'[l].conflict = "conflicted"
    BY DEF ConflictsAreMarked, ActiveFacts
  <2>1. j \in DOMAIN facts /\ l \in DOMAIN facts /\ facts'[j] = fs[j] /\ facts'[l] = fs[l]
    BY <1>2, <1>5
  <2>2. j # i /\ l # i
    BY <1>4, <2>1
  <2>3. facts'[j] = facts[j] /\ facts'[l] = facts[l]
    BY <1>4, <2>1, <2>2
  <2>4. QED
    BY <2>1, <2>3, FactsAre DEF ConflictsAreMarked, ActiveFacts
<1>9. {i} \in SUBSET DOMAIN facts
  OBVIOUS
<1>10. QED
  BY <1>1, <1>5, <1>7, <1>8, <1>9, FactsChange

LEMMA DeleteFactStep ==
    ASSUME FactsInv, NEW i \in DOMAIN facts, DeleteFact(i)
    PROVE  FactsInv'
<1>1. /\ facts' = [facts EXCEPT ![i].status = "deleted", ![i].conflict = "resolved"]
      /\ vectors' \subseteq vectors
      /\ withdrawn' = withdrawn \cup {FactId(j) : j \in {i}}
      /\ UNCHANGED <<episodes, reader>>
  BY DEF DeleteFact, Withdraw
<1>2. /\ facts' \in Seq(FactType) /\ Len(facts') = Len(facts) /\ DOMAIN facts' = DOMAIN facts
      /\ facts'[i].status = "deleted"
      /\ \A j \in DOMAIN facts : j # i => facts'[j] = facts[j]
  <2> DEFINE x == [facts[i] EXCEPT !.status = "deleted", !.conflict = "resolved"]
  <2>1. x \in FactType /\ x.status = "deleted"
    BY FactsAre DEF FactType, FactStatus, Conflict
  <2>2. facts' = [facts EXCEPT ![i] = x]
    BY <1>1
  <2> HIDE DEF x
  <2>3. facts' \in [DOMAIN facts -> FactType]
    BY <2>1, <2>2, FactsAre
  <2>4. QED
    BY <2>1, <2>2, <2>3, FactsAre, InPlace
<1>3. NoneActive' /\ ConflictsAreMarked'
  <2>1. \A j \in DOMAIN facts : facts'[j].status = "active" => facts'[j] = facts[j]
    BY <1>2
  <2>2. \A j \in DOMAIN facts : FactId(j) \in withdrawn' =>
            FactId(j) \in withdrawn \/ facts'[j].status # "active"
    BY <1>1, <1>2, ItemsDiffer
  <2>3. QED
    BY <1>1, <1>2, <2>1, <2>2, FewerAreActive
<1>4. Len(facts') <= MaxFacts
  BY <1>2, FactsAre
<1>5. {i} \in SUBSET DOMAIN facts
  OBVIOUS
<1>6. QED
  BY <1>1, <1>2, <1>3, <1>4, <1>5, FactsChange

LEMMA DiscardFactStep ==
    ASSUME FactsInv, NEW i \in DOMAIN facts, DiscardFact(i)
    PROVE  FactsInv'
<1>1. /\ facts' = Supersede(facts, {i})
      /\ withdrawn' = withdrawn \cup {FactId(j) : j \in {i}}
      /\ UNCHANGED <<episodes, reader, vectors>>
  BY DEF DiscardFact, Withdraw
<1>2. /\ facts' \in Seq(FactType) /\ Len(facts') = Len(facts) /\ DOMAIN facts' = DOMAIN facts
      /\ facts'[i].status = "superseded"
      /\ \A j \in DOMAIN facts : j # i => facts'[j] = facts[j]
  BY <1>1, Superseded
<1>3. NoneActive' /\ ConflictsAreMarked'
  <2>1. \A j \in DOMAIN facts : facts'[j].status = "active" => facts'[j] = facts[j]
    BY <1>2
  <2>2. \A j \in DOMAIN facts : FactId(j) \in withdrawn' =>
            FactId(j) \in withdrawn \/ facts'[j].status # "active"
    BY <1>1, <1>2, ItemsDiffer
  <2>3. QED
    BY <1>1, <1>2, <2>1, <2>2, FewerAreActive
<1>4. Len(facts') <= MaxFacts
  BY <1>2, FactsAre
<1>5. {i} \in SUBSET DOMAIN facts
  OBVIOUS
<1>6. QED
  BY <1>1, <1>2, <1>3, <1>4, <1>5, FactsChange

LEMMA KeepFactStep ==
    ASSUME FactsInv, NEW i \in DOMAIN facts, KeepFact(i)
    PROVE  FactsInv'
<1> DEFINE losers == ActiveFacts(facts[i].scope) \ {i}
           fs == Supersede(facts, losers)
           x == [fs[i] EXCEPT !.status = "active", !.conflict = "resolved"]
<1>1. /\ facts' = [fs EXCEPT ![i] = x]
      /\ withdrawn' = (withdrawn \cup {FactId(j) : j \in losers}) \ {FactId(i)}
      /\ reader' = [r \in Reader |->
                        IF reader[r] = NoReader THEN NoReader
                        ELSE [reader[r] EXCEPT !.hidden = @ \ {FactId(i)}]]
      /\ UNCHANGED <<episodes, vectors>>
  BY DEF KeepFact, Readmit
<1>2. /\ fs \in Seq(FactType) /\ Len(fs) = Len(facts) /\ DOMAIN fs = DOMAIN facts
      /\ \A j \in DOMAIN facts :
                 /\ fs[j].scope = facts[j].scope
                 /\ j \in losers => fs[j].status = "superseded"
                 /\ j \notin losers => fs[j] = facts[j]
  BY Superseded
<1>3. x \in FactType /\ x.scope = facts[i].scope
  <2>1. fs[i] \in FactType
    BY <1>2
  <2>2. \A y \in FactType : /\ [y EXCEPT !.status = "active", !.conflict = "resolved"] \in FactType
                             /\ [y EXCEPT !.status = "active", !.conflict = "resolved"].scope = y.scope
    BY DEF FactType, FactStatus, Conflict
  <2> HIDE DEF fs
  <2>3. QED
    BY <1>2, <2>1, <2>2
<1> HIDE DEF fs, x
<1>4. /\ facts' \in Seq(FactType) /\ Len(facts') = Len(facts) /\ DOMAIN facts' = DOMAIN facts
      /\ facts'[i] = x
      /\ \A j \in DOMAIN facts : j # i => facts'[j] = fs[j]
  <2>1. facts' \in [DOMAIN fs -> FactType]
    BY <1>1, <1>2, <1>3
  <2>2. QED
    BY <1>1, <1>2, <2>1, InPlace
<1>5. Tables'
  <2>1. \A y \in ReaderType : y # NoReader => [y EXCEPT !.hidden = @ \ {FactId(i)}] \in ReaderType
    BY DEF ReaderType
  <2>2. reader \in [Reader -> ReaderType] /\ NoReader \in ReaderType
    BY DEF FactsInv, Tables, ReaderType
  <2>3. reader' \in [Reader -> ReaderType]
    BY <1>1, <2>1, <2>2
  <2>4. QED
    BY <1>1, <1>4, <2>3 DEF FactsInv, Tables
<1>6. \A ids : WithdrawnIsGone(ids) => WithdrawnIsGone(ids \ {FactId(i)})'
  BY <1>1, <1>4 DEF WithdrawnIsGone, Stored
<1>7. WithdrawnIsGone(withdrawn)'
  <2>1. losers \subseteq DOMAIN facts
    BY DEF ActiveFacts
  <2> HIDE DEF losers
  <2>2. WithdrawnIsGone(withdrawn \cup {FactId(j) : j \in losers})
    BY <2>1, ItemsDiffer DEF FactsInv, WithdrawnIsGone, Stored
  <2>3. QED
    BY <1>1, <1>6, <2>2
<1>8. NoneActive'
  <2> SUFFICES ASSUME NEW j \in DOMAIN facts, facts'[j].status = "active", j # i
               PROVE  FactId(j) \notin withdrawn'
    BY <1>1, <1>4 DEF NoneActive
  <2>1. j \notin losers /\ facts'[j] = facts[j]
    BY <1>2, <1>4
  <2>2. FactId(j) \notin withdrawn
    BY <2>1, FactsAre DEF NoneActive
  <2> HIDE DEF losers
  <2>3. FactId(j) \notin {FactId(l) : l \in losers}
    BY <2>1 DEF FactId
  <2>4. QED
    BY <1>1, <2>2, <2>3
<1>9. ReadersAreHonest'
  <2> SUFFICES ASSUME NEW r \in Reader, reader'[r] # NoReader
               PROVE  (/\ reader[r].docs \cap reader[r].hidden = {}
                       /\ WithdrawnIsGone(reader[r].hidden)
                       /\ reader[r].docs \subseteq Stored)'
    BY DEF ReadersAreHonest
  <2>1. reader[r] # NoReader /\ reader[r] \in ReaderType
    BY <1>1 DEF FactsInv, Tables
  <2>2. reader'[r] = [reader[r] EXCEPT !.hidden = @ \ {FactId(i)}]
    BY <1>1, <2>1
  <2>3. reader'[r].docs = reader[r].docs /\ reader'[r].hidden = reader[r].hidden \ {FactId(i)}
    BY <2>1, <2>2 DEF ReaderType
  <2>4. reader[r].docs \cap reader[r].hidden = {} /\ WithdrawnIsGone(reader[r].hidden)
    BY <2>1 DEF FactsInv, ReadersAreHonest
  <2>5. reader[r].docs \subseteq Stored /\ Stored' = Stored
    BY <1>1, <1>4, <2>1 DEF FactsInv, ReadersAreHonest, Stored
  <2>6. QED
    BY <1>1, <1>4, <2>3, <2>4, <2>5 DEF WithdrawnIsGone
<1>10. ConflictsAreMarked'
  <2> SUFFICES ASSUME NEW j \in DOMAIN facts, NEW l \in DOMAIN facts,
                      facts'[j].status = "active", facts'[l].status = "active",
                      facts'[j].scope = facts'[l].scope, facts'[j].value # facts'[l].value,
                      ~facts'[j].edited, ~facts'[l].edited
               PROVE  facts'[j].conflict = "conflicted" /\ facts'[l].conflict = "conflicted"
    BY <1>4 DEF ConflictsAreMarked, ActiveFacts
  <2>1. \A m \in {j, l} : m # i => facts'[m] = facts[m] /\ m \notin losers
    BY <1>2, <1>4
  <2>2. CASE j # i /\ l # i
    BY <2>1, <2>2, FactsAre DEF ConflictsAreMarked, ActiveFacts
  <2>3. CASE j = i \/ l = i
    <3>1. j # l
      OBVIOUS
    <3>2. PICK m \in {j, l} : m # i /\ facts'[m].scope = facts[i].scope
      BY <1>3, <1>4, <2>3, <3>1
    <3>3. m \in losers
      BY <2>1, <3>2 DEF ActiveFacts
    <3>4. QED
      BY <2>1, <3>2, <3>3
  <2>4. QED
    BY <2>2, <2>3
<1>11. QED
  BY <1>5, <1>7, <1>8, <1>9, <1>10 DEF FactsInv

LEMMA AddEpisodeStep ==
    ASSUME FactsInv, NEW c \in Content, AddEpisode(c)
    PROVE  FactsInv'
<1> DEFINE n == Len(episodes) + 1
           new == [content |-> c, deleted |-> FALSE]
<1>1. /\ episodes' = Append(episodes, new) /\ Len(episodes) < MaxEpisodes
      /\ UNCHANGED <<facts, vectors, reader, withdrawn>>
  BY DEF AddEpisode
<1>2. new \in EpisodeType
  BY DEF EpisodeType
<1>3. episodes \in Seq(EpisodeType) /\ Len(episodes) \in Nat /\ MaxEpisodes \in Nat
  BY FactsAssumption DEF FactsInv, Tables
<1> HIDE DEF new
<1>4. /\ episodes' \in Seq(EpisodeType) /\ Len(episodes') <= MaxEpisodes
      /\ DOMAIN episodes' = DOMAIN episodes \cup {n} /\ n \notin DOMAIN episodes
      /\ \A j \in DOMAIN episodes : episodes'[j] = episodes[j]
  BY <1>1, <1>2, <1>3, Appended
<1> HIDE DEF n
<1>5. Tables'
  BY <1>1, <1>4 DEF FactsInv, Tables
<1>6. /\ \A ids : WithdrawnIsGone(ids) => WithdrawnIsGone(ids)'
      /\ Stored \subseteq Stored'
  <2>1. WithdrawnIsGone({})
    BY DEF WithdrawnIsGone
  <2>2. QED
    BY <1>1, <1>4, <2>1, GoneStays
<1>7. WithdrawnIsGone(withdrawn)' /\ ReadersAreHonest'
  BY <1>1, <1>6 DEF FactsInv, ReadersAreHonest
<1>8. NoneActive' /\ ConflictsAreMarked'
  BY <1>1 DEF FactsInv, NoneActive, ConflictsAreMarked, ActiveFacts
<1>9. QED
  BY <1>5, <1>7, <1>8 DEF FactsInv

LEMMA DeleteEpisodeStep ==
    ASSUME FactsInv, NEW j \in DOMAIN episodes, DeleteEpisode(j)
    PROVE  FactsInv'
<1> DEFINE x == [episodes[j] EXCEPT !.deleted = TRUE]
<1>1. /\ episodes' = [episodes EXCEPT ![j] = x]
      /\ vectors' \subseteq vectors
      /\ withdrawn' = withdrawn \cup {EpisodeId(j)}
      /\ UNCHANGED <<facts, reader>>
  BY DEF DeleteEpisode, Withdraw
<1>2. episodes \in Seq(EpisodeType) /\ episodes[j] \in EpisodeType
  BY DEF FactsInv, Tables
<1>3. x \in EpisodeType /\ x.deleted
  BY <1>2 DEF EpisodeType
<1> HIDE DEF x
<1>4. /\ episodes' \in Seq(EpisodeType) /\ Len(episodes') = Len(episodes)
      /\ DOMAIN episodes' = DOMAIN episodes
      /\ episodes'[j].deleted
      /\ \A l \in DOMAIN episodes : l # j => episodes'[l] = episodes[l]
  <2>1. episodes' \in [DOMAIN episodes -> EpisodeType]
    BY <1>1, <1>2, <1>3
  <2>2. QED
    BY <1>1, <1>2, <1>3, <2>1, InPlace
<1>5. Tables'
  BY <1>1, <1>4 DEF FactsInv, Tables
<1>6. /\ \A ids : WithdrawnIsGone(ids) => WithdrawnIsGone(ids)'
      /\ Stored \subseteq Stored'
  <2>1. WithdrawnIsGone({})
    BY DEF WithdrawnIsGone
  <2>2. QED
    BY <1>1, <1>4, <2>1, GoneStays
<1>7. WithdrawnIsGone(withdrawn)' /\ ReadersAreHonest'
  <2>1. WithdrawnIsGone(withdrawn)'
    BY <1>1, <1>4, ItemsDiffer DEF FactsInv, WithdrawnIsGone, Stored
  <2>2. QED
    BY <1>1, <1>6, <2>1 DEF FactsInv, ReadersAreHonest
<1>8. NoneActive' /\ ConflictsAreMarked'
  BY <1>1, ItemsDiffer DEF FactsInv, NoneActive, ConflictsAreMarked, ActiveFacts
<1>9. QED
  BY <1>5, <1>7, <1>8 DEF FactsInv

(* A step of one retrieval, to which the tables stay as they are.           *)
LEMMA ReaderMoves ==
    ASSUME FactsInv, NEW r \in Reader, NEW x \in ReaderType,
           reader' = [reader EXCEPT ![r] = x], vectors' \subseteq Texts,
           UNCHANGED <<facts, episodes, withdrawn>>,
           x # NoReader => /\ x.docs \cap x.hidden = {} /\ WithdrawnIsGone(x.hidden)
                           /\ x.docs \subseteq Stored
    PROVE  FactsInv'
<1>1. Tables'
  BY DEF FactsInv, Tables
<1>2. WithdrawnIsGone(withdrawn)' /\ NoneActive' /\ ConflictsAreMarked'
  BY DEF FactsInv, WithdrawnIsGone, Stored, NoneActive, ConflictsAreMarked, ActiveFacts
<1>3. ReadersAreHonest'
  <2> SUFFICES ASSUME NEW q \in Reader, reader'[q] # NoReader
               PROVE  (/\ reader[q].docs \cap reader[q].hidden = {}
                       /\ WithdrawnIsGone(reader[q].hidden)
                       /\ reader[q].docs \subseteq Stored)'
    BY DEF ReadersAreHonest
  <2>1. reader'[q] = IF q = r THEN x ELSE reader[q]
    BY DEF FactsInv, Tables
  <2>2. /\ reader'[q].docs \cap reader'[q].hidden = {} /\ WithdrawnIsGone(reader'[q].hidden)
        /\ reader'[q].docs \subseteq Stored
    BY <2>1 DEF FactsInv, ReadersAreHonest
  <2>3. QED
    BY <2>2 DEF WithdrawnIsGone, Stored
<1>4. QED
  BY <1>1, <1>2, <1>3 DEF FactsInv

(* A retrieval that has begun has a record of what it listed.               *)
LEMMA BusyReader ==
    ASSUME FactsInv, NEW r \in Reader, reader[r].at # "idle"
    PROVE  /\ reader[r] # NoReader
           /\ reader[r] \in [at : {"facts", "episodes", "embedding", "answered"},
                             docs : SUBSET Ids, missing : SUBSET Texts, hidden : SUBSET Ids]
           /\ reader[r].docs \cap reader[r].hidden = {}
           /\ WithdrawnIsGone(reader[r].hidden)
           /\ reader[r].docs \subseteq Stored
<1>1. reader[r] \in ReaderType /\ reader[r] # NoReader
  BY DEF FactsInv, Tables, NoReader
<1>2. QED
  BY <1>1 DEF FactsInv, ReadersAreHonest, ReaderType

LEMMA StoredHasTypes ==
    ASSUME FactsInv
    PROVE  Stored \subseteq Ids /\ \A id \in Stored : TextOfId(id) \in Texts
<1>1. /\ facts \in Seq(FactType) /\ Len(facts) <= MaxFacts
      /\ episodes \in Seq(EpisodeType) /\ Len(episodes) <= MaxEpisodes
      /\ MaxFacts \in Nat /\ MaxEpisodes \in Nat
  BY FactsAssumption DEF FactsInv, Tables
<1>2. ASSUME NEW i \in DOMAIN facts
      PROVE  FactId(i) \in Ids /\ TextOfId(FactId(i)) \in Texts
  <2>1. facts[i] \in FactType /\ i \in 1..MaxFacts
    BY <1>1
  <2>2. FactId(i)[1] = "fact" /\ FactId(i)[2] = i
    BY DEF FactId
  <2>3. TextOfFact(i) \in Texts
    BY <2>1 DEF TextOfFact, Texts, FactType
  <2>4. FactId(i) \in Ids
    BY <2>1 DEF FactId, Ids
  <2>5. QED
    BY <2>2, <2>3, <2>4 DEF TextOfId
<1>3. ASSUME NEW j \in DOMAIN episodes
      PROVE  EpisodeId(j) \in Ids /\ TextOfId(EpisodeId(j)) \in Texts
  <2>1. episodes[j] \in EpisodeType /\ j \in 1..MaxEpisodes
    BY <1>1
  <2>2. EpisodeId(j)[1] # "fact" /\ EpisodeId(j)[2] = j
    BY DEF EpisodeId
  <2>3. episodes[j].content \in Texts
    BY <2>1 DEF Texts, EpisodeType
  <2>4. EpisodeId(j) \in Ids
    BY <2>1 DEF EpisodeId, Ids
  <2>5. QED
    BY <2>2, <2>3, <2>4 DEF TextOfId
<1>4. QED
  BY <1>2, <1>3 DEF Stored

LEMMA RetrievalStep ==
    ASSUME FactsInv, NEW r \in Reader,
           \/ ListFacts(r) \/ ListEpisodes(r) \/ ReadCache(r)
           \/ CacheVector(r) \/ Answer(r) \/ TakeAnswer(r)
    PROVE  FactsInv'
<1>0. vectors \subseteq Texts
  BY DEF FactsInv, Tables
<1>1. CASE ListFacts(r)
  <2> DEFINE x == [at |-> "facts", docs |-> {FactId(i) : i \in ShownFacts},
                   missing |-> {}, hidden |-> withdrawn]
  <2>1. x.docs \subseteq Stored /\ withdrawn \subseteq Stored
    BY DEF Stored, ShownFacts, FactsInv, WithdrawnIsGone
  <2>2. x \in ReaderType
    BY <2>1, StoredHasTypes DEF ReaderType
  <2>3. x.docs \cap x.hidden = {} /\ WithdrawnIsGone(x.hidden)
    BY DEF FactsInv, NoneActive, ShownFacts
  <2>4. reader' = [reader EXCEPT ![r] = x] /\ UNCHANGED <<facts, episodes, vectors, withdrawn>>
    BY <1>1 DEF ListFacts
  <2> HIDE DEF x
  <2>5. QED
    BY <1>0, <2>1, <2>2, <2>3, <2>4, ReaderMoves
<1>2. CASE ListEpisodes(r)
  <2> DEFINE live == {EpisodeId(j) : j \in LiveEpisodes}
             x == [reader[r] EXCEPT !.at = "episodes", !.docs = @ \cup live]
  <2>1. live \subseteq Stored
    BY DEF Stored, LiveEpisodes
  <2>2. \A ids : WithdrawnIsGone(ids) => live \cap ids = {}
    BY ItemsDiffer DEF WithdrawnIsGone, LiveEpisodes
  <2>3. reader' = [reader EXCEPT ![r] = x] /\ UNCHANGED <<facts, episodes, vectors, withdrawn>>
    BY <1>2 DEF ListEpisodes
  <2>4. reader[r].at # "idle"
    BY <1>2 DEF ListEpisodes
  <2> HIDE DEF live
  <2>5. x \in ReaderType /\ x.docs = reader[r].docs \cup live /\ x.hidden = reader[r].hidden
    BY <2>1, <2>4, BusyReader, StoredHasTypes DEF ReaderType
  <2>6. /\ WithdrawnIsGone(reader[r].hidden) /\ reader[r].docs \cap reader[r].hidden = {}
        /\ reader[r].docs \subseteq Stored
    BY <2>4, BusyReader
  <2> HIDE DEF x
  <2>7. WithdrawnIsGone(x.hidden) /\ x.docs \cap x.hidden = {} /\ x.docs \subseteq Stored
    BY <2>1, <2>2, <2>5, <2>6
  <2>8. QED
    BY <1>0, <2>3, <2>5, <2>7, ReaderMoves
<1>3. CASE ReadCache(r)
  <2> DEFINE gaps == {TextOfId(id) : id \in reader[r].docs} \ vectors
             x == [reader[r] EXCEPT !.at = "embedding", !.missing = gaps]
  <2>1. reader' = [reader EXCEPT ![r] = x] /\ UNCHANGED <<facts, episodes, vectors, withdrawn>>
    BY <1>3 DEF ReadCache
  <2>2. reader[r].at # "idle"
    BY <1>3 DEF ReadCache
  <2>3. gaps \subseteq Texts
    BY <2>2, BusyReader, StoredHasTypes
  <2> HIDE DEF gaps
  <2>4. x \in ReaderType /\ x.docs = reader[r].docs /\ x.hidden = reader[r].hidden
    BY <2>2, <2>3, BusyReader DEF ReaderType
  <2> HIDE DEF x
  <2>5. QED
    BY <1>0, <2>1, <2>2, <2>4, BusyReader, ReaderMoves
<1>4. CASE CacheVector(r)
  <2>1. PICK text \in reader[r].missing :
            /\ vectors' = vectors \cup {text}
            /\ reader' = [reader EXCEPT ![r].missing = @ \ {text}]
    BY <1>4 DEF CacheVector
  <2> DEFINE x == [reader[r] EXCEPT !.missing = @ \ {text}]
  <2>2. reader[r].at # "idle" /\ UNCHANGED <<facts, episodes, withdrawn>>
    BY <1>4 DEF CacheVector
  <2>3. vectors' \subseteq Texts
    BY <1>0, <2>1, <2>2, BusyReader
  <2>4. x \in ReaderType /\ x.docs = reader[r].docs /\ x.hidden = reader[r].hidden
    BY <2>2, BusyReader DEF ReaderType
  <2>5. reader' = [reader EXCEPT ![r] = x]
    BY <2>1
  <2> HIDE DEF x
  <2>6. QED
    BY <2>2, <2>3, <2>4, <2>5, BusyReader, ReaderMoves
<1>5. CASE Answer(r)
  <2>1. PICK hits \in SUBSET reader[r].docs :
            reader' = [reader EXCEPT ![r].at = "answered", ![r].docs = hits, ![r].missing = {}]
    BY <1>5 DEF Answer
  <2> DEFINE x == [reader[r] EXCEPT !.at = "answered", !.docs = hits, !.missing = {}]
  <2>2. reader[r].at # "idle" /\ UNCHANGED <<facts, episodes, vectors, withdrawn>>
    BY <1>5 DEF Answer
  <2>3. x \in ReaderType /\ x.docs = hits /\ x.hidden = reader[r].hidden
    BY <2>2, BusyReader DEF ReaderType
  <2>4. reader' = [reader EXCEPT ![r] = x]
    BY <2>1
  <2>5. /\ WithdrawnIsGone(reader[r].hidden) /\ reader[r].docs \cap reader[r].hidden = {}
        /\ reader[r].docs \subseteq Stored
    BY <2>2, BusyReader
  <2> HIDE DEF x
  <2>6. WithdrawnIsGone(x.hidden) /\ x.docs \cap x.hidden = {} /\ x.docs \subseteq Stored
    BY <2>1, <2>3, <2>5
  <2>7. QED
    BY <1>0, <2>2, <2>3, <2>4, <2>6, ReaderMoves
<1>6. CASE TakeAnswer(r)
  BY <1>0, <1>6, ReaderMoves DEF TakeAnswer, ReaderType
<1>7. QED
  BY <1>1, <1>2, <1>3, <1>4, <1>5, <1>6

LEMMA FactsStart == FactsInit => FactsInv
<1> SUFFICES ASSUME FactsInit
             PROVE  FactsInv
  OBVIOUS
<1>1. Tables
  BY FactsAssumption DEF FactsInit, Tables, ReaderType
<1>2. WithdrawnIsGone(withdrawn) /\ NoneActive /\ ReadersAreHonest
  BY DEF FactsInit, WithdrawnIsGone, NoneActive, ReadersAreHonest
<1>3. ConflictsAreMarked
  BY DEF FactsInit, ConflictsAreMarked
<1>4. QED
  BY <1>1, <1>2, <1>3 DEF FactsInv

LEMMA FactsSteps == FactsInv /\ [FactsNext]_factsVars => FactsInv'
<1> SUFFICES ASSUME FactsInv, [FactsNext]_factsVars
             PROVE  FactsInv'
  OBVIOUS
<1>1. ASSUME NEW k \in Scope, NEW v \in Value, UpsertFact(k, v)
      PROVE  FactsInv'
  BY <1>1, FirstFactStep, ConfirmFactStep, ContradictFactStep DEF UpsertFact
<1>2. ASSUME NEW i \in DOMAIN facts, NEW v \in Value, UpdateFact(i, v)
      PROVE  FactsInv'
  BY <1>2, UpdateFactStep
<1>3. ASSUME NEW i \in DOMAIN facts, DeleteFact(i) \/ KeepFact(i) \/ DiscardFact(i)
      PROVE  FactsInv'
  BY <1>3, DeleteFactStep, KeepFactStep, DiscardFactStep
<1>4. ASSUME NEW c \in Content, AddEpisode(c) \/ ExtractEpisode(c)
      PROVE  FactsInv'
  BY <1>4, AddEpisodeStep DEF ExtractEpisode
<1>5. ASSUME NEW j \in DOMAIN episodes, DeleteEpisode(j)
      PROVE  FactsInv'
  BY <1>5, DeleteEpisodeStep
<1>6. CASE UNCHANGED factsVars
  BY <1>6 DEF factsVars, FactsInv, Tables, WithdrawnIsGone, Stored, NoneActive, ReadersAreHonest,
              ConflictsAreMarked, ActiveFacts
<1>7. QED
  BY <1>1, <1>2, <1>3, <1>4, <1>5, <1>6, RetrievalStep DEF FactsNext

(* The inductive invariant of the memory's tables and retrievals.           *)
THEOREM FactsInductive == FactsSpec => []FactsInv
BY FactsStart, FactsSteps, PTL DEF FactsSpec

(* What it says of the properties.                                         *)
LEMMA FactsInvMeans == FactsInv => FactsTypeOK /\ WithdrawnIsHidden /\ ConflictsAreMarked
<1> SUFFICES ASSUME FactsInv
             PROVE  FactsTypeOK /\ WithdrawnIsHidden /\ ConflictsAreMarked
  OBVIOUS
<1>1. FactsTypeOK
  <2>1. Stored \subseteq Ids
    BY StoredHasTypes
  <2>2. withdrawn \subseteq Ids
    BY <2>1 DEF FactsInv, WithdrawnIsGone
  <2>3. ASSUME NEW r \in Reader
        PROVE  \/ reader[r] = NoReader
               \/ /\ reader[r].at \in {"facts", "episodes", "embedding", "answered"}
                  /\ reader[r].docs \subseteq Ids
                  /\ reader[r].missing \subseteq Texts
                  /\ reader[r].hidden \subseteq Ids
    BY DEF FactsInv, Tables, ReaderType
  <2>4. /\ Len(facts) <= MaxFacts /\ \A i \in DOMAIN facts : facts[i] \in FactType
        /\ Len(episodes) <= MaxEpisodes /\ \A j \in DOMAIN episodes : episodes[j] \in EpisodeType
        /\ vectors \subseteq Texts
    BY DEF FactsInv, Tables
  <2>5. QED
    BY <2>2, <2>3, <2>4 DEF FactsTypeOK, FactType, EpisodeType
<1>2. WithdrawnIsHidden
  BY BusyReader DEF WithdrawnIsHidden
<1>3. QED
  BY <1>1, <1>2 DEF FactsInv
-----------------------------------------------------------------------------
(* The three side by side: each takes its own steps or none (MCChats).      *)

LEMMA PartsAreRuns == ChatsSpec => ConversationSpec /\ Spec /\ FactsSpec
<1>1. ChatsInit => ConversationInit /\ Init /\ FactsInit
  BY DEF ChatsInit
<1>2. [ChatsNext]_chatsVars => /\ [ConversationNext]_conversationVars
                               /\ [Next]_vars
                               /\ [FactsNext]_factsVars
  BY DEF ChatsNext, chatsVars
<1>3. QED
  BY <1>1, <1>2, PTL DEF ChatsSpec, ConversationSpec, Spec, FactsSpec

(* Every variable of the three has its type.                                *)
THEOREM ChatsTypeCorrect == ChatsSpec => []ChatsTypeOK
<1>1. ConversationInv /\ TypeOK /\ FactsInv => ChatsTypeOK
  BY ConversationInvMeans, FactsInvMeans DEF ChatsTypeOK
<1>2. QED
  BY PartsAreRuns, ConversationsInductive, TypeCorrect, FactsInductive, <1>1, PTL

(* A request is answered by itself and once, whatever is submitted again,   *)
(* cancelled or cut off by a crash (ConversationCoordinator.run).           *)
THEOREM RepliesAreSingle == ChatsSpec => []OneReplyEach
<1>1. ConversationInv => OneReplyEach
  BY ConversationInvMeans DEF OneReplyEach
<1>2. QED
  BY PartsAreRuns, ConversationsInductive, <1>1, PTL

(* What the coordinator remembers is what it is doing: counts, locks and    *)
(* cancellations go with the task, and an open run has one.                 *)
THEOREM BooksStayTrue == ChatsSpec => []BooksAreKept
<1>1. ConversationInv => BooksAreKept
  BY ConversationInvMeans DEF BooksAreKept
<1>2. QED
  BY PartsAreRuns, ConversationsInductive, <1>1, PTL

(* No retrieval shows what was taken back before it began, nor a side of an *)
(* open conflict (MemoryStore, MemoryRetriever.retrieve).                   *)
THEOREM MemoryStaysHonest == ChatsSpec => []MemoryIsHonest
<1>1. FactsInv => MemoryIsHonest
  BY FactsInvMeans DEF MemoryIsHonest
<1>2. QED
  BY PartsAreRuns, FactsInductive, <1>1, PTL

(* The end of a request is final, and so is the end of a delegated task.    *)
THEOREM EndsStayFinal == ChatsSpec => EndsAreFinal
<1>1. ConversationInv => StreamedIsStored
  BY ConversationInvMeans
<1>2. ChatsSpec => []StreamedIsStored
  BY PartsAreRuns, ConversationsInductive, <1>1, PTL
<1>3. QED
  BY PartsAreRuns, CancelsStop, EndsAreStoredOnce, EndsAreKept, <1>2, PTL DEF EndsAreFinal

==============================================================================
