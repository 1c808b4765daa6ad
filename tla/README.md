# A TLA+ model of WhiteNight

WhiteNight is a personal assistant: a FastAPI service that talks to a language
model, lets it call tools on the owner's machine after the owner has consented,
answers in a web client and over QQ (OneBot), delegates tasks to external
agents, keeps memories and writes to its owner on its own initiative. It is one
Python process: an asyncio event loop, executor threads for blocking work, and
one SQLite (or SQLCipher) database that survives it.

This directory holds TLA+ modules that model its protocols, TLC configurations
that check them on small instances, and proofs checked by TLAPS. Paths below
are relative to `src/src/whitenight/` unless they begin with `docs/` or `apps/`.

    tlc -workers 2 -config Server.cfg MCServer.tla                # one run
    tlapm RestoreJournalProofs.tla                                # one proof

## 1. The system

| Component | State it keeps | Operations | Interacts through |
|---|---|---|---|
| Approvals, session grants, policy (`policy/`) | tables `approvals`, `session_grants`, `audit_events` | request, resolve_once, approve, consume_approved, reject, invalidate, grant and revoke; `PolicyEngine.evaluate` | transactions, called from executor threads and from coroutines |
| Tool executor and continuations (`tools/executor.py`, `tools/pending.py`) | table `pending_tool_calls` | execute; create, claim, update, recover | the approval tables; the tools' effects |
| Chat service (`agent/service.py`) | none of its own: coroutines between awaits | stream_reply, decide_approvals, handle_approval_command, reject_approval | event loop, executor, stores |
| Conversation coordinator (`agent/conversations.py`) | table `conversation_runs`; tasks, queues, locks and counters in memory | run, produce, cancel, close, recover | tasks, a queue per request, an asyncio lock per session |
| Tool batches and rounds (`agent/batches.py`, `tool_loop.py`, `files.py`) | calls of one round, files found and sent | run a batch, drain it under cancellation, ask again, send what was found | executor threads, model provider |
| Delegation (`delegates/`) | table of delegated tasks and their events; provider connections | submit, run with attempts, abort, retry | external agents (Codex, Hermes), their event streams |
| Proactive scheduler (`scheduler/`) | candidates, schedule state | schedule, claim, generate, check, send, mark | sender thread, chat activity |
| OneBot channel (`channels/`) | batches, timers, chain of workers, seen message ids, in memory | receive, batch, answer, deduplicate, split and send | chat service, sender |
| Stored files (`storage/receipts.py`, `api/resources.py`) | files and receipts of received attachments | upload or download, record, bind to a message, verify | file system, SQLite's writer lock, messages |
| File tools (`tools/files.py`) | none of their own: fingerprints in an approval's parameters | find, create, write, move, delete, send | file system, approvals, other programs |
| Sessions and messages (`storage/sessions.py`) | sessions, messages | add, record with an attachment, delete with everything owned | most components |
| Backup, restore, maintenance lock (`storage/backup.py`, `maintenance.py`, `migrate.py`) | live files, staged/old/failed generations, restore journal, flock | backup, restore_apply, recover, migrate | other processes, crashes |
| Memory (`memory/`) | jobs, checkpoints, summaries; facts, episodes, cached vectors | enqueue, extract, summarize, interrupt; add, contradict, edit, resolve, delete, retrieve | chats interrupt the upkeep; retrievals run beside edits |
| Personality (`personality/`) | characters, Persona, profiles, lorebooks with revisions; timers of lore; traces | edit, restore, archive; activate lore, assemble and trim a prompt | the chat service |
| Routing (`routing/`) | none: rules | plan where a message goes | chat service, policy |
| Model providers (`models/`) | what of an answer has been read | stream a chat | remote servers that may stop anywhere |
| Model configuration (`application/configuration.py`) | Keychain, YAML file, settings and provider in memory | update | owner, crashes, running turns |
| Documents, stickers, web, screen, credentials | none with a protocol | calls to libraries, services and the operating system | environment |
| HTTP API, runtime, configuration (`api/`, `application/`) | the order of start-up and shutdown | routes, lifespan | everything |
| Web client (`apps/web/`) | request identity, retry | send, cancel, replay | HTTP |

What is hard about it:

* **Many small transactions.** An approval is requested, presented, claimed,
  approved, consumed, executed, audited and recorded in a transaction each.
  Another thread, another decision or a crash may come between any two.
* **Two kinds of concurrency.** Coroutines are atomic between awaits, executor
  threads are not, and neither a thread nor a started effect can be cancelled.
* **Cancellation.** A cancelled task may not have started, may be past its last
  event, or may be waiting for a lock; `cancel()` may be cancelled itself.
* **Crashes.** Start-up must tell an interrupted call that ran from one that
  did not, an interrupted chat from an open one, and half of a restore from a
  whole one, from what the disk holds alone.
* **Resources made and forgotten on demand**: the lock of a session, the key of
  an active operation, the batch of a chat window.
* **Uncertain delivery**: a message or a delegated task that timed out may have
  arrived.

What makes each component correct, in short: a tool acts only under an approval
of the owner that is spent, once, for that operation (approvals, executor, chat
service); what is reported is what happened and stays reported (continuations,
conversations, delegation, scheduler); one turn of a session at a time, and
every stream ends (coordinator); a batch stops at its first failure and leaves
nothing running (batches, decisions); a message is handled in its order and
once, or sent on the assistant's own initiative only while it is welcome and at
most once (OneBot, scheduler); a received file belongs to one message of its
session, and deleting the session orphans no upload that would have succeeded
(stored files); a file tool touches what
was approved (file tools); managed files change all at once or not at all
(restore); no queued work of the memory is lost or taken for done, and nothing
taken back is shown (memory); a prompt keeps its pinned parts and its trace
names what was used (personality); half an answer is no answer (providers); a
key stays with its endpoint (configuration). `PROJECT.json` lists the hazards at
their lines with the properties that cover them.

## 2. The modules

| Module | Models | Depends on |
|---|---|---|
| `ConsentLedger` | abstract: an approval is asked, granted, spent, and then acted on once | |
| `ApprovalFlow` | `policy/approvals.py`, `tools/pending.py`, `tools/executor.py` and the decisions of `agent/service.py` | implements `ConsentLedger` |
| `Conversations` | `agent/conversations.py` with the cancel endpoint | |
| `Delegation` | `TaskStore` and `DelegateManager` of `delegates/manager.py`, with any executor that keeps the protocol of `delegates/base.py` | |
| `CodexDelegation` | the same manager with the adapter of `delegates/codex.py` | implements `Delegation` |
| `TurnLoop` | the rounds of a turn: `_generate_reply` and `continue_reply`, `agent/batches.py`, the file goal of `agent/files.py` | |
| `AtomicStore` | abstract: managed files are replaced at once, while nobody has them open | |
| `RestoreJournal` | `restore_apply` and the recovery of `storage/backup.py`, `storage/maintenance.py`, the start-up of `application/runtime.py` | implements `AtomicStore` |
| `OneBotSender` | `send_private_message`, `split_text` and `_post` of `channels/onebot/sender.py` | |
| `Proactive` | `scheduler/service.py`, `store.py` and its shutdown | sends with `OneBotSender` |
| `OneBotQueue` | the event side of `channels/onebot/adapter.py`, `session_map.py` | |
| `MemoryMaintenance` | `memory/maintenance.py`, the extraction and summary of `memory/service.py`, the jobs of `memory/store.py` | |
| `MemoryFacts` | facts, episodes and vectors of `memory/store.py`, `memory/retrieval.py` | |
| `SessionFiles` | `storage/receipts.py`, the upload route, the messages and deletions of `storage/sessions.py` | |
| `FileTools` | the tools of `tools/files.py` that change or send | |
| `FileFind` | `FileFindTool` | |
| `Dispatch` | a message from its arrival to a model, a delegate or a refusal: `agent/service.py`, `routing/`, `PolicyEngine.evaluate_delegate` | |
| `ModelStream` | `stream_chat` of `models/openai.py` and `models/ollama.py` | |
| `Worldbook` | `personality/worldbook.py` and its saved timers | |
| `PromptAssembly` | the order and trimming of `personality/compiler.py` | |
| `Personality` | `personality/store.py` and the traces of generations | |
| `ModelConfig` | `application/configuration.py` | |
| `ApprovalFlowProofs`, `DelegationProofs`, `CodexDelegationProofs`, `RestoreJournalProofs` | proofs about the module they are named after | it, TLAPS |
| `ChatsProofs`, `ExecutionProofs`, `BackgroundProofs`, `ServerProofs` | proofs about the modules that `MCChats`, `MCExecution`, `MCBackground`, `MCServer` put side by side, and about those | them, TLAPS |
| `MCApprovalFlow`, `MCConversations`, `MCDelegation`, `MCCodexDelegation`, `MCDispatch` | small instances of one module | |
| `MCChats`, `MCExecution`, `MCBackground`, `MCServer` | small instances of several modules side by side (section 3) | |

Operators named `Fault...` are slips the code could have made in the definition
that follows them. No specification uses them; they are there so that each
property can be seen to fail when the code is wrong (`mutants` in
`PROJECT.json`).

### ApprovalFlow

The variables are the columns of the three tables, by approval number
(`status`, `scope`, `used`, `active`, `expired`, `presented`, `opOf`, `ctxOf`;
`row`; `grant`; `receipt`), the history `ran` of tool executions, the
coroutines `call[k]` (a model turn that executes one tool) and `decision[d]`
(a decision being handled), and `loop`, the coroutine that holds the event
loop. One action is one transaction or one execution of a tool. Actions that
run on the loop demand or keep it; actions of executor threads (`Request...`,
`PrepareRefused`, `Consume`, `RunTool`, `WriteReceipt`) do not, so they fall
between any two transactions of a coroutine. `Crash` forgets the coroutines and
keeps the tables; `Recover` is `PendingToolStore.recover`.

`opOf` abstracts the tool, its parameters and their digest; `ctxOf` the session,
its channel and recipient; `active` the unique `active_key`; `expired` the
comparison with `expires_at`; the numbering of approvals is `created_at`.
Choices of the environment are which tool is called where, which codes are
decided and how, how the tool ends, and when time passes.

### Conversations

One action is what a coroutine does from one await to the next.
`producer[r]` is the task that runs `produce()` for a request, with the lock it
took or waits for and whether it has been cancelled; `client[r]` is the stream
that submitted the request (`run`); `asking[a][r]` a caller inside `cancel()`.
`tasks`, `cancelRequested`, `users` and `locks` are the attributes of the same
names. A lock is named after the request that made it, so that two locks of one
session would be told apart. `Submit` is `run` up to its first await, `Start`,
`TakeSession`, `Terminate`, `Close`, `Fail` and `EndAborted` the ways through `produce`,
`RequestCancel` and `ForceCancel` what `cancel` and `close` do at once,
`Leave...` and `Gone...` the `finally` of the stream. A repeated identity only
reads the table and changes nothing.

### RestoreJournal

A managed file (the database, its `-wal` and `-shm`, the resource directories)
has four places: `live`, and `staged`, `old` and `failed` in the generation's
own directory. `Aside` and `Install` are the two renames per file of
`restore_apply`, `Discard` and `PutBack` those of `_rollback`, `Prepare`,
`Commit` and `RolledBack` the writes of the journal. `Lock`, `Share` and
`Release` are the exclusive, shared and dropped `flock`; `GoOn` is what follows
a recovery (a restore, a start-up that migrates and then downgrades to a shared
lock, or nothing). `End` ends a process at any point; since every rename and
every journal write is fsynced before the next one, it stands for a loss of
power, too, and for every error that leaves the function. A failed rename
inside the `try` starts the rollback (`MoveFails`, and the second disjunct of
`Aside` and `Install` for one that took effect first).

Contents are values of a small set: two files have the same content when they
are of the same generation. A generation is staged with one content for all
its files; sidecars belong to the content of their database.

### Delegation and CodexDelegation

`Delegation` has two halves. The manager's half is the code: `status` is the
table `agent_tasks`, `pc[t]` where the generator `run()` of a task waits,
`attempts` and `got` its locals, `ask[a]` a caller inside `abort()` (a client of
the endpoint, or the run itself after its chat was cancelled). `Updated` is
`TaskStore.update`, the one place that decides which status may follow which.
`Delegate`, `RunQueued`, `Retry` and `Resubmit` submit a task; `Hear...` are the
branches of the loop over `provider.submit()` and of its `except` clauses;
`Abort...` the ways through `abort()`. Everything runs on the event loop, so an
action is what happens from one await to the next.

The executor's half (`Begin`, `Stop`, `Seal`, `NewSubmission` and the conditions
in `Heard` and `Aborts`) is what the manager relies on: an execution begins at
most once per submission and only in one, an error "not started" is honest, and
an abort is answered `TRUE` only when nothing runs, after which nothing of that
submission begins.

`CodexDelegation` EXTENDS the same manager and puts the adapter in the
executor's place: `client` is `_clients`, `start` the shared task in `_starts`,
`at` and `why` where the generator `submit()` waits and what its `finally` ends
with; `exec` is now the process. `Spawn` and `Shake` are the two awaits of
`CodexMcpClient.start`, `Closed` the end of `close()`, which stops the process,
`Exit` a process that ends by itself. `AbortTask` looks the client up, waits for
a start that is under way and closes. The property `MeetsContract` (`Spec` of
`Delegation`, with the identity as refinement mapping) says that the adapter
keeps the protocol.

### TurnLoop

`slot[i]` is how far the call at place `i` of the current `batch` is; `StartCall`
hands it to a thread (`asyncio.to_thread`), `ThreadEnds` is the thread's own step
and happens also when nobody waits for it any more. Reads run up to `Concurrency`
at a time, anything else in order (`Blocks`). `BatchEnds` is everything between
the answers of a batch and the next request to the model, with the ends of the
turn that a failed send, a choice for the owner, an approval or a delivered set
of files make; `SendsEnd` and `MoveEnds` are the two places where the server acts
without the model. A turn that begins "locating" is one whose text names the last
attachment and a move, whatever else it asks for: `LocateEnds` looks for the
destination, and `MoveEnds` answers with what became of the move. `CancelTurn` and `Abort` are a cancellation and its arrival:
`MayEndAborted` tells which awaits shield their thread.

### Proactive and OneBotSender

`tick` is the coroutine of the tick under way, with what it read when it began;
`job[poster]` is the request that its thread makes. `CheckPoint` is
`check_delivery`, called after the composition and before each attempt;
`MayDeliver` compares with the row as it is then. A send posts one piece of a
split text after the other; `PostUncertain` is a request that may have arrived,
`Failure` the rule for `retry_safe`. Time is a small clock whose day wraps, so
that quiet hours can cross midnight. `StopProactive`, `CancelTick` and `Exit` are
the lifespan's shutdown, which stops waiting after ten seconds while the thread
goes on; `CrashProactive` leaves the row.

### OneBotQueue

An arrival is the place of an event in `accepted`. `worker[w]` is the task started
by arrival `w`, with its batch, the worker before it in the chain (`previous`)
and how far it has handled its batch; `pending` the worker whose window is open,
`lock` the owner's lock. `AcceptApproval`, `AcceptSeparate`, `AcceptIntoBatch` and
`AcceptNewBatch` are the branches of `handle_event`. A command may reset the
session map; what is in flight then has its session already.

### MemoryMaintenance and MemoryFacts

`work` holds the pass and a request by hand, each waiting for a lock of the
session's extraction or summary, or with a batch that the model has before it.
`jobs` is the table `memory_jobs`, `order` its `updated_at`. `StoreBatch` is what
happens between the model's answer and the next await, `FailBatch` every way in
which nothing of a batch is kept, `Interrupt` the event and the cancellation that
a chat causes, `DropPass` the cancelled pass. `RestartMaintenance` may fall
between a batch's facts and its checkpoint, which are two transactions.

In `MemoryFacts` each step of a retrieval is a transaction in its thread, and the
owner's edits fall between any two. `withdrawn` is the history the property
needs: what the owner has taken back, and when.

### SessionFiles, FileTools, FileFind

`SessionFiles` names the writer lock of SQLite (`writer`), since `receive_bytes`
holds it from the ownership check to the receipt: that is what keeps a deletion
out. A file is on disk before all of it is written (`CreateFile`, `WriteFile`), and
whatever fails from then on, the write, the snapshot, the receipt or its commit,
leaves it there (`FailUpload`, `RecordAttachment`). Receipts of receptions that
failed, which name no file, are left out. In `FileTools` a file's state is one number for what inode, size, mtime
and digest tell apart; `Prepare`, `Check` and the effect are three steps, and
`ChangeOutside` may come between them. `FileFind` walks a tree of arbitrary shape
in any order and may run out of time or permissions at any entry.

### Dispatch, ModelStream

A text is the set of the patterns it matches; the regular expressions themselves
are not modelled, so every combination that is named in `MessageTexts` is tried.
The variable `uses` is the provider a turn holds. A text is read as a command only
when it comes `ComesAlone`, without an image and without an attachment. `ModelStream` sends lines in
pieces; `said` is what the server ended its answer with, if it did.

### Worldbook, PromptAssembly, Personality

`scan` is the state of one call of `activate`; `PlaceEntry` is the loop that puts
candidates into the prompt under a book's budget and starts their timers, in
`effects`. Keys are reduced to where in the history an entry is first found
(`Finds`). `PromptAssembly` counts a message's tokens as one or two; a generation
(`ruled`) has a constraint of the server at its end, a preview has none. In
`Personality` each edit brings a new text, so that a revision number with two
meanings would show; `generating` is a generation between its awaits.

### ModelConfig

`update` is the coroutine between the writes of the Keychain, the file and the
process; `wanted` the pairs of endpoint and key the owner ever asked for. The route
that lists a server's models (`api/app.py:455`) changes no configuration and is
outside it.

## 3. What TLC checks

Every passing run is exhaustive within its bounds.

Modules that do not share state are checked side by side. Their MC module
EXTENDS them, its variable `part` says which one runs in a behaviour, and the
other parts stay in one initial state; the state space is the sum of the parts',
not their product. (`MCBackground` and `MCExecution` do the same with fairness: a
part that does not run is set up so that none of its actions is enabled, so the
fairness of its module asks nothing of it.) A property of such a run conjoins one
about each part it names, and holds of a part that stands still.

| Run | Question | Bounds | Properties |
|---|---|---|---|
| `approval` | Does the workflow keep the consent ledger, do rivals exclude each other and are reports true and final? | 2 approvals; 2 moves of one source and a write, 2 turns, 2 decisions, 1 crash | `TypeOK`, `RanOnlyWithConsent`, `PredecessorsSucceeded`, `OneOperationEach`, `ImplementsLedger`, `ReportsHold` |
| `approval_ends` | Does a session grant stay in its context, and does everything claimed and decided end? | 2 approvals of one operation in 2 contexts, 1 turn, 1 decision, 1 crash, fair | `GrantedRunsHaveAGrant`, `ApprovalsEnd` |
| `chats` | Is a session served one request at a time, is one end kept and nothing left behind; is no delegated task repeated unsafely; is the memory shown as it stands? | 3 requests of a session, 1 canceller, 1 crash; 2 tasks, 2 abort callers, 1 retry of an attempt, 1 crash; 2 facts of a key, 1 episode, 1 retrieval | `ChatsTypeOK`, `OneReplyEach`, `BooksAreKept`, `RepeatsAreSafe`, `MemoryIsHonest`, `EndsAreFinal` |
| `conversation_ends` | Does every stream, request and cancel end? | 2 requests of one session, the shutdown (it runs `cancel()` as the endpoint does, and also for a run past its terminal event), 1 crash, fair | `ConversationsEnd` |
| `execution` | Does Codex keep the executor's contract, has a stop stopped; do a turn's effects keep their order, and does everything end? | 2 tasks, 1 abort caller besides the runs themselves, 1 retry, 1 crash; 3 rounds of at most 2 of 7 calls, 2 files; fair | `ExecutionTypeOK`, `AbortedIsStopped`, `RunsAreTracked`, `EffectsAreOrderly`, `DeliveryIsTrue`, `MeetsContract`, `WorkIsFinished` |
| `background` | Are proactive messages welcome and sent once, the owner's messages handled in order and once, and the memory's work done between chats? | a clock of 3 ticks, 2 candidates, 2 processes, 2 attempts, a text of two pieces, quiet hours across midnight; 4 arrivals of a message, a command and an approval, 1 forgotten event, 1 outage; 2 sessions, one with 2 messages, 2 turns, 1 mishap; fair | `BackgroundTypeOK`, `HandledAsSent`, `MemoryIsComplete`, `NothingIsSentTwice`, `SentAsPlanned`, `DueIsSettled`, `EventsAreAnswered`, `YieldsAndEnds` |
| `server` | Is a restore atomic, and do the parts that decide, assemble, revise, configure and touch files keep their promises? | below | `ServerTypeOK`, `RestoreIsWhole`, `MessagesStayWhereTheyBelong`, `AnswersAreWhole`, `PromptIsInShape`, `TracesTellWhatWasUsed`, `KeysStayWithTheirEndpoint`, `FilesHaveOwners`, `FileToolsAreHonest`, `ImplementsStore` |
| `approval_stranded` | Is an approved code always in somebody's hands? (No.) | 1 approval | `ApprovedIsInHand` |
| `approval_blind_rerun` | Does an operation under review wait for the review? (No.) | 2 approvals, a session grant, 1 crash | `NoBlindRerun` |
| `delegation_pause` | Does an abort in the pause between attempts hold? (No.) | 2 tasks, 1 caller, 1 retry | `AbortedIsStopped` |
| `delegation_unverified` | Is a cancelled chat's verified stop recorded? (No.) | 2 tasks, 1 caller | `StopIsRecorded` |
| `codex_refused` | Does an explicit request to Codex reach it? (No.) | 2 messages | `CodexRequestsReachCodex` |

The parts of `server`: `RestoreJournal` with 4 files, 3 kinds of archive, 2
contents, 2 processes and no bound on steps; `Dispatch` with a message of 13 kinds
of text, alone or with an image or attachments, and 2 changes between 2 models; `ModelStream` with 2 calls in 2 pieces and
2 pieces of text; `PromptAssembly` with 3 messages, 2 blocks of depth up to 3 and
limits up to 9; `Worldbook` with a book of 3 entries that rest, wait, stick,
compete in a group and are found by recursion, over a session of 4 messages;
`Personality` with 2 characters, a lorebook, 3 edits and 2 generations;
`ModelConfig` with 2 endpoints, 2 keys and 3 accounts; `SessionFiles` with 2
sessions, 2 uploads and 2 messages; `FileTools` with 2 calls on 2 files in 3
states; `FileFind` with 2 entries in 2 folders and 2 names.

What the named conjuncts are: `OneOperationEach` is `OneInPlay` and
`KeysAreUnique`; `ReportsHold` is `ReportsAreTrue` at any time and `ReportsStay`;
`ApprovalsEnd`, `ConversationsEnd`, `WorkIsFinished` and `YieldsAndEnds` conjoin
what `ApprovalFlow`, `Conversations`, `CodexDelegation` with `TurnLoop`, and
`MemoryMaintenance` promise to bring to an end; the others are at the end of the
MC modules, each with a comment.

Why the bounds are enough. The interesting cases of the approvals need two
rivals (a reuse, a conflict, a batch of two); one crash falls between any two
transactions, and a second one would start from tables that the first one can
already leave. In `Conversations` a lock is forgotten and made again only with
three requests: one that holds it, one that waits, one that comes after. In
`Delegation` tasks meet only where one retries another, which takes two; two
callers and the run itself are three aborts of one task, one more than a rivalry
needs. A turn needs two calls of a batch for one to block the other, a round to
search, one to send and one to answer. In `RestoreJournal` four files are a
database, a sidecar, and resource directories that an older archive covers and
does not cover; its theorems hold for every number. A proactive message needs a
text in pieces so that a failure can be partial, two attempts for a repeat and a
second candidate for what is drawn after it; a day of three ticks has
one of quiet, across midnight, and two others. Four arrivals are a batch of two, one that
comes during its reply and an approval or a repeated delivery. The memory's pass
needs a message that arrives while another is extracted and a chat of another
session that interrupts it; the one mishap is a request by hand, a failure or a restart.
The other parts are about steps of two or three actors, which they have.

`CHECK_DEADLOCK FALSE` is set for all runs: the numbers of approvals, requests,
tasks, messages, edits and crashes are bounded, a service that has used them up
may stand still, and a part that ended does.

Symmetry is used in `approval` (turns and decisions) and `chats` (requests under
a session map that sends all to one session, and tasks), which check no liveness,
and only for values the specifications do not tell apart.

### Fairness

`ApprovalFlow`: weak fairness of the restart (a supervisor starts the service
again), strong fairness of every turn and every decision that has begun. The
loop is a shared resource that a coroutine has to find free; asyncio runs ready
callbacks in the order they became ready, so a coroutine that is ready again and
again is run, which is strong fairness. Executor threads end because tools have
time limits. Nothing is assumed of new calls, decisions, expiries or crashes.

`Conversations`: strong fairness of the task of a request, because
`asyncio.Lock` hands itself to its waiters in order, and because a generator's
provider calls have time limits; weak fairness of the stream's and the
cancellers' own steps; weak fairness of the restart. A client need not ever
leave, and no cancel need ever be asked for.

`CodexDelegation`: weak fairness of each task's run, of its start (its handshake
has 60 seconds, its tool call 1800), of `close()`, which kills a process that
does not terminate, and of the answers to an abort (`abort()` waits 15 seconds).
No process need end by itself, no call need succeed, no abort need be asked for.
A task whose service ended has no run and nothing closes it later, so
`StopsAreAnswered` speaks of the life of one process.

`TurnLoop`: the model answers or fails (its client has a time limit) and threads
end (tools have time limits). Nothing is assumed of the owner, who may cancel.

`Proactive`: weak fairness of the ticks (`run_forever` wakes every 30 seconds,
a composition and a send have time limits). The clock need not advance: a
candidate that is due must be settled without that. `OneBotQueue`: windows end,
a turn ends unless it waits for the owner, a decision ends; nothing makes the
owner decide or another event arrive. `MemoryMaintenance`: a job becomes due, a
turn that began is drained, the runner looks for work every second at the latest,
a cancellation is delivered, the model answers or fails; strong fairness of
taking a lock, which asyncio hands out in order.

`RestoreJournal` and the other parts of `server` promise nothing about progress.

### Findings

* `approval_stranded` (`policy/approvals.py`, `agent/service.py`): a code may be
  approved while its continuation is not stored, in the time between the
  request and the end of the turn, or for good when the turn was cut off. The
  approval is then committed as approved by a call that has no tool to consume
  it with. It does not expire, it is never consumed, and it keeps the key of
  its operation, so later requests for the same operation are refused. The
  comment at that place says that such an action cannot make another
  operation's code unusable.
* `approval_blind_rerun` (`tools/executor.py`): under a session grant the
  executor does not ask for an approval and so never looks for an interrupted
  execution of the same operation that awaits review; the contract for file
  operations says that re-execution is blocked.
* `delegation_pause` (`delegates/manager.py`): the run looks at its task's status
  after an event or an error, but not after the pause before the next attempt.
  An abort answered `TRUE` in the pause is recorded as `aborted`, and the
  attempt is submitted all the same.
* `delegation_unverified` (`delegates/codex.py`, `delegates/manager.py`): a
  cancelled `submit()` closes its process and forgets the client before the
  manager asks the adapter to abort, which then answers that it knows no such
  task. The stop was verified, and is recorded as `cancel_failed`.
* `codex_refused` (`routing/rules.py`, `policy/engine.py`): the router plans every
  `/codex` request of a chat with a high risk, and the policy lets only an adapter
  that offers a policy per action run what is above read-only. No adapter does, so
  every such request is refused, although the contract for providers says that
  Codex supports read-only sandbox tasks after an explicit `/codex` request.

`delegation_pause` needs an executor that reports an error "not started". No
adapter in the repository does so yet, which is why the same property holds in
`execution`; the manager's pause, its count and the test `FlakyCodex` in
`tests/test_delegate_manager.py` are there for one that does. With such an
executor `RunningIsRun` fails for a like reason: the pause is awaited inside an
`except` clause, so a chat that is cancelled there leaves `run()` past every
handler, and its task stays `running` with nobody to end it.

### Observed while modelling, without a run of their own

Behaviour that the modules reproduce, and that a reader of the code may not
expect. The properties are stated so that they hold with it.

* A proactive message whose process dies between the delivery and `mark_sent`
  (`scheduler/service.py:241`) is sent again by the next one, within the grace
  time; `docs/ADR/0005-lifecycle-policy-and-storage-maintenance.md:20` says that
  recovery never silently repeats possible side effects. `DeliveredOnce` speaks of
  one process.
* The server's own sends and the direct move of a turn (`agent/service.py:553`,
  `:368`) are not shielded: a cancelled turn ends while their thread goes on. A
  batch of the model's waits. `docs/reports/project-review-2026-09-04.md:31` says
  that cancellation waits for synchronous work. The server's own sends also send
  files again that the turn had sent before (`agent/service.py:526`).
* A message that asks to send files and to move "this file" is a turn with files to
  deliver (`agent/service.py:283`), but the direct move (`:333` to `:407`) ends it
  first: the turn is done, nothing was uploaded, and the answer speaks of the move
  alone. `DeliveryIsTrue` says so in its second half; its first half is about the
  turns that go on to the model.
* The words of an approval, sent together with an image or an attachment, are not
  read as one (`agent/service.py:216`): they go on to the router and the model, and
  the approval stays undecided.
* An attachment whose write, snapshot, receipt or commit fails stays on disk without
  a receipt (`storage/receipts.py:124` to `:145`, `:165`, `:170`), and so does a file
  from the channel whose message cannot be recorded; nothing removes them. The
  comment at `storage/receipts.py:105` speaks of otherwise successful uploads only,
  and so does `FilesHaveOwners`.
* `update_fact` (`memory/store.py:154`) says that the new value is the only active
  one; it supersedes the edited fact alone, and another value of the same scope
  stays active beside it. A retrieval that read the texts before a deletion stores
  a vector for the deleted text after it (compare
  `tests/test_memory_pipeline.py:237`); it is never shown.
* An exception of `pending_maintenance` ends the runner of the memory's upkeep
  for good; the model assumes that a read of the table succeeds.
* A sticky time of three messages or more is renewed by the very turns it lasts
  for, so it does not end; a delay counts from the first activation. Timers are
  saved before it is known whether the prompt fits.
* Trimming may remove the owner's newest message, and the contexts of attachments
  are added after it (`agent/service.py:492`).
* Ollama's adapter takes the end of a connection for the end of an answer, and
  arguments that are no JSON object for none. `AnswersAreWhole` is about the
  adapter for OpenAI-compatible services, for which the contract states it.
* A refused change of the provider leaves its new key in the Keychain.
* `split_text` puts out the full pieces of a long paragraph before the shorter
  text collected ahead of it. The text in `tests/test_onebot.py` has no line
  breaks, where this cannot show.
* The classifier by a model is never asked: the rules always decide. A text that
  asks for Codex and for Hermes goes to Hermes.

## 4. What TLAPS proves

For all values of the constants, from the assumptions named in the modules,
which TLC evaluates in every run. They say that

* bounds are numbers, and those that make no sense as zero are not zero;
* names that the code keeps apart by their type are apart: turns and decisions
  (`ActorsAssumption`), tasks and callers (`NamesAssumption`), clients and the
  shutdown (`AskerAssumption`), a missing value and every value (`NoneAssumption`,
  `NamesAreDistinct`, ...);
* data are of the shape the code reads: an archive covers the database and its
  sidecars (`BundleAssumption`), lore is finitely many entries, each of a book,
  timed by counts that are not negative (`personality/types.py:126`) and with a
  cost, under budgets that are not negative (`types.py:148`), a folder holds
  finitely many entries, a text is lines of characters, at least one
  (`SenderAssumption`), there is at least one of each thing that a default needs.

The library's theorems of induction take the claim as an operator, which the
provers cannot instantiate. Two lemmas do instead: a nonempty set of numbers has a
least one (`LeastOf`, from the well-foundedness of `<`), so a set of numbers that
has 0 and the successor of each of its members has them all (`ByInduction`). The
claim is a set then. On them rest the lemmas about sums (`SumExists` to
`SumOfPart`: a sum may begin with any of its rows, and a part of it is not more) and
about folds over a list (`FoldExists`, `FoldStays`), which the definitions of the
community modules are unfolded to.

**`ApprovalFlowProofs`**

* `TypeCorrect`: `Spec => []TypeOK`.
* `RunsNeedConsent`: `Spec => []RanOnlyWithConsent`. The property is not
  inductive: that a tool which is about to run has not run needs to know that
  its approval was spent by this very decision. `SpendInv` adds what each status
  says about `used`, that what is undecided has not been spent, and that at most
  one decision is executing under an approval. The last part is inductive
  because to start executing an approval must still be unspent, and whoever
  executes has spent it.
* `Inductive`: `Spec => []IInv`, with the conjuncts `SpendInv`; `LoopInv` (a
  coroutine that is not between two awaits does not hold the loop); `ClaimInv`
  (a claimed call is claimed by one decision, and its row says running);
  `WaitInv` (the approval of a waiting continuation still waits, or somebody who
  will close the continuation has it selected); `StageInv` (`StageOf`: how far a
  decision's execution has come says which of approval, receipt and row are
  written); `ReportsAreTrue`; `KeyInv` (who may hold the key of an operation);
  `OneInPlay`; `BatchInv`; `GrantInv`.
* `EachOperationOnce`: `Spec => []OneOperationEach`. The main lemma,
  `NewIsAlone`, says that `request` gets past its checks only when nothing that
  conflicts waits, runs or awaits a review; `KeysAreUnique` follows from `KeyInv`
  and `OneInPlay`.
* `BatchesStopAtAFailure`: `Spec => []PredecessorsSucceeded`, from `BatchInv`:
  what comes before the call at hand in a decision's list has ended well.
* `ReportsCanBeTrusted`: `Spec => ReportsHold`. That a report is true needs
  `StageInv` (who writes an end has just executed, or knows that nothing was);
  that it stays needs only that no action leaves a final status (`RowFinal`).
* `GrantsWereGiven`: `Spec => GrantedRunsHaveAGrant`.
* `LedgerIsImplemented`: `Spec => ImplementsLedger`. Entries move on as the ledger
  allows (`EntriesMoveOn`) and only the tools' own step acts.

**`RestoreJournalProofs`**

* `TypeCorrect`: `Spec => []TypeOK`.
* `Inductive`: `Spec => []IInv`. The invariant says who may be at work
  (`LockInv`: one exclusive holder or any number of sharers), that files move
  only under a prepared journal and are opened only under none (`JournalInv`),
  what is where before (`StagedInv`), during (`ForwardInv`: files before the one
  at hand are exchanged, those behind are not) and in the undoing of a restore
  (`BackwardInv`), and, independent of any process so that it survives a crash,
  where the two generations of each file can be (`PlacesInv`). A rollback starts
  from `PlacesInv` alone; that is why it can be interrupted and begun again any
  number of times.
* `WholeGenerations`: `Spec => []OpensWholeGeneration`, and `WayIsClear`:
  `Spec => []NothingInTheWay` (`_move` refuses to overwrite, so a taken destination
  would make every later start-up fail). `RestoresAreWhole` states both, as the
  property `RestoreIsWhole` of the run `server`.
* `RestoreIsAtomic`: `Spec => Store!Spec`. Under the refinement mapping
  `Effective` (the files as a rollback would make them while the journal says
  prepared, the live ones otherwise) every step is a stutter except the commit,
  which replaces all covered files at once, and the service's own.

The two main lemmas of the last proof are `ComesAlone` (while somebody holds the
lock exclusively everybody else is idle) and `Assemble` (so a step of the
holder only has its own part of the file invariants to keep); then there is one
lemma per action.

**`DelegationProofs`** (from `NamesAssumption`: tasks and callers are told
apart; `BoundsAssumption`)

* `TypeCorrect`: `Spec => []TypeOK`; `attempts` never passes `MaxRetries + 1`.
* `RepeatedSafely`: `Spec => []RepeatsAreSafe`. That a task has begun at most
  once is not inductive: one needs that nothing has begun while nothing of the
  current submission runs, and that a run pauses only then (`Fresh`). The
  pause is where a second submission comes from, so `HearNotStarted` is the
  step that matters.
* `EndsAreKept`: `Spec => EndsStay`, from the cases of `Updated`.

**`CodexDelegationProofs`**

* `CodexMeetsContract`: `CodexSpec => MeetsContract`. Every step of the adapter
  is a step of an executor or a stutter (`CodexIsNext`); it needs `Placed`: a
  start that may still make a process has a generator waiting for it, and a call
  is made only once there is a process.
* `CodexTypeCorrect`: `CodexSpec => []CodexTypeOK`.
* `AbortIsVerified`: `CodexSpec => []AbortedIsStopped`. The strengthening adds
  that an aborted task has no start that could still make a process; each step
  is shown to move status, start and process of a task harmlessly
  (`StepIsHarmless`).

`RepeatedSafely` and `EndsAreKept` hold of the Codex adapter, too, by
`CodexMeetsContract`.

**`ChatsProofs`**

* `ConversationsInductive`: `ConversationSpec => []ConversationInv`. The task, the
  stream and the stored status of a request belong together (`RowFollowsTask`);
  what has not entered its session has generated nothing (`GeneratesOnce`). That
  two tasks of a session do not run at once is not inductive: a task could be
  inside with a lock that was forgotten and made again. `LocksAreShared` says that
  whoever waits or is inside has the lock that the coordinator knows, and
  `Counted` why it cannot have been forgotten: the coordinator's count of a
  session's users is the number of its requests that are not done.
* `RepliesAreSingle`, `BooksStayTrue`: `[]OneReplyEach` and `[]BooksAreKept` of
  `MCChats`, from it. `EndsAreStoredOnce` and `CancelsStop`, action properties of
  `Conversations`: an end once stored stays, and a cancel is answered as
  done only for a request that has stopped and is not recorded as a success.
* `FactsInductive`: `FactsSpec => []FactsInv`, and `MemoryStaysHonest`:
  `ChatsSpec => []MemoryIsHonest`. A retrieval is in the middle of its reading while
  facts are edited; `ReadersAreHonest` says that what it has in hand was not taken
  back before it began.
* `ChatsTypeCorrect`, and `EndsStayFinal` for both halves of `EndsAreFinal` (the
  delegated tasks' is `EndsAreKept`).

**`ExecutionProofs`**

* `CodexIsTracked`: `CodexSpec => []RunsAreTracked`. A generator that waits for
  Codex is known as a client, so an abort finds it (`Tracked`, per task).
* `TurnsInductive`: `ExecutionSpec => [](TurnInv /\ BeforeModel)`. `PhaseFits` says what the phase of
  a turn tells of its batch, `BatchWritesAreAwaited` that no write of a batch goes
  on without being waited for, `SendsAreUploads` that what the turn takes for sent
  was uploaded, and `BeforeModel` that a turn the model was not asked in, like the
  direct move, has found and sent nothing.
* `EffectsStayOrderly`, `DeliveryStaysTrue`, `RunsStayTracked`,
  `ExecutionTypeCorrect`: the invariants of the run `execution`. `AbortedIsStopped`
  and `MeetsContract` are in `CodexDelegationProofs`.

**`BackgroundProofs`**

* `QueueInductive`: `QueueSpec => []QueueInv`. The workers of a chat window form a
  chain in which each waits for the one before it (`ChainOf`, `EndOfChain`), a
  batch is an interval of what arrived (`BatchOf`), and what has been handled
  arrived before what is left (`HandledIsBefore`). `HandlingStaysInOrder` states
  `HandledAsSent`; that an event is handled as often as the deduplicator has lost
  it, plus once, is a count over `LetInOnce`.
* `PiecesAreSent`: whatever the text, `split_text` makes a list of pieces of at
  least one and at most `reply_max_chars` characters, by `FoldStays` along its loop.
* `ProactiveInductive`: `ProactiveSpec => []ProactiveInv`. The thread that sends
  outlives its tick (`JobFits`), so what has arrived must be told from the
  thread's position (`JobIsTrue`) and from nothing else; a candidate that may
  still be sent has not arrived in part (`TickFits`). From it `SendsStaySingle`:
  `BackgroundSpec => []NothingIsSentTwice`, and `SendsStayPlanned`:
  `BackgroundSpec => SentAsPlanned`, for any number of pieces, attempts, processes
  and candidates and for every schedule.
* `MaintenanceInductive`: `MaintenanceSpec => []MaintenanceInv`: who works on a
  stage holds its lock, also while its cancellation is under way (`LocksFit`), is as
  far as the checkpoint (`WorkFits`), and a completed job is covered.
  `MemoryStaysComplete` follows. `PassYields` is the safety half of `YieldsAndEnds`:
  while a chat is in the foreground the pass starts, stores and completes nothing.
* `BackgroundInductive` and `BackgroundTypeCorrect` put the three side by side.

**`ServerProofs`**: one inductive invariant for each part of the run `server`.

* `RoutesStay`: `[]MessagesStayWhereTheyBelong` of `Dispatch`. `OnItsWay` says what
  the branches a message has passed have excluded: one that comes alone and is past
  the commands is no approval.
* `AnswersStayWhole`: `[]AnswersAreWhole` of `ModelStream`, for any number of calls
  and of pieces. `StreamKept`: of each call the adapter holds a prefix of what the
  server has to say, and of an end only one that was given.
* `PromptsKeepTheirShape`: `PromptSpec => []PromptKeepsItsShape`, in three
  invariants. `PromptInv`: the pinned parts come first and the history is the newest
  part of the session in its order. `DepthInv`: until all blocks are in, the last
  messages are the newest of the history, as many as the deepest block that is left
  goes back (`TailIsHistory`), so it is put in where its depth says; after that no
  step moves a message of the history to the other side of a block (`BlockIsKept`).
  The order of insertion, the deepest first, is what makes the first part hold.
  `TrimInv`: what was given up is the oldest, and the newest of it would not have
  fitted, since a request without a message costs so much less (`CountWithout`).
* `LoreStaysBounded`: `WorldSpec => []LoreIsBounded`. `WorldInv` gives the groups and
  the timers. `BudgetInv` gives the budgets: what is placed is not placed again, and
  what obeys the budget costs no more than all that is placed of the book, which is
  what the code adds up. `PromptsStayInShape` states both as `PromptIsInShape`.
* `TracesStayTrue`: `[]TracesTellWhatWasUsed`. Revisions are only added
  (`Extends`), and the row in use is the last of them.
* `KeysStayPut`: `[]KeysStayWithTheirEndpoint`. Wherever an update breaks off, the
  pair it has in hand, the file's and the process's are ones the owner asked for.
* `FilesStayOwned`: `[]FilesHaveOwners`. `LockedFor`: an upload past its ownership
  check holds SQLite's writer lock, which is what a deletion of the session would
  need, so the session is there until the receipt is. The theorem is about uploads
  that are kept or refused; it promises no owner to a file whose reception failed.
* `ContentStaysApproved`: `[]OnlyApprovedContent`; a checked call saw the state
  its approval names (`Seen`), and acts on it only if it is still there.
  `SilenceStaysComplete`: `[]SilentMeansComplete`, a search that reports nothing
  left out has looked at every entry (`LookedAt`). `ToolsStayHonest` states both as
  `FileToolsAreHonest`.
* `ServerTypeCorrect`, and `ServerKeepsItsPromises`, which states them all of
  `ServerSpec`, with `RestoreIsWhole`.

### Only model-checked

* Liveness (`ApprovalsEnd`, `ConversationsEnd`, `WorkIsFinished`, `DueIsSettled`,
  `EventsAreAnswered`, and the half of `YieldsAndEnds` that says that work ends):
  the prover cannot treat `ENABLED`.
* The properties of the five runs that expect a violation; they do not hold.

## 5. What is not modelled, and why

* Approvals of delegated actions (`delegate.*`), which hold no active key; the
  branch of a decision whose stored context or digest no longer matches (codes
  are selected by the same columns); errors of the database after a tool's
  effect (the process is assumed to end).
* Deletion of a session while a request of it runs; the race of
  `asyncio.timeout` with `Task.cancelling()`. A stream that is cancelled a second
  time while it waits for its task to start leaves the finished task registered
  (`GoneAtOnce`); `NothingLeaks` says so.
* Of a restore: the archive format and its encryption, the migrations
  themselves (one step), symbolic links, a journal that is damaged (the code
  refuses to go on, like `End`). Converting the `flock` from exclusive to shared
  is one step: the kernel may let another process in between, but nothing has
  opened the files then. Directories of earlier generations are kept by the
  code and, being named by random numbers, left out.
* Of the delegation: its threads, its artifacts, and the text of events and
  summaries. Hermes (`delegates/hermes.py`, `hermes_ws.py`): the policy refuses
  every task for it, since its adapters declare neither capability that
  `evaluate_delegate` asks for, so no operation of the running program reaches
  them. Would a policy let them, the contract half of `Delegation` says what they
  would have to keep.
* Of a turn: status replies, stickers, the wording of prompts, and the budgeting
  of the history (`agent/context.py`), whose effect is that of a shorter history.
* Of the channel: parsing of events, quotes, stickers, images in a message; the
  rate limiter, which only takes time.
* Of the memory: scores, decay, embeddings and what a model extracts, which decide
  a choice each; `touch_episode`.
* Of the file tools: resolution of paths and links and the permissions of
  folders; reading, parsing and listing, which change nothing. Of the stored
  files: images kept for the web client (`storage/attachments.py`).
* Of the personality: import and export formats, keys and regular expressions of
  lore, probability (a choice), the exact counting of tokens.
* Changes of a provider or sender in the scheduler and in the memory's upkeep
  (`set_provider`, `set_sender`): a single assignment read once per use.
* Parsing of documents, screen, web, stickers, logs, health and the web client:
  data, libraries and callers without a protocol of their own.

## 6. Plan

All components with a protocol of their own are modelled, and the invariants and
action properties of the passing runs are proved. What is left:

1. An abstract specification of the coordinator (a session that serves one request
   at a time) and its refinement by `Conversations`.
2. An abstract specification of a proactive message (sent at most once, or
   dropped), and its refinement by `Proactive` with the sender.
