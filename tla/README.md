# A TLA+ verification of langgraph-personal-assistant

The repository is a personal assistant on LangGraph: a supervisor that routes a Telegram
user's request to *runtime specialists* defined in JSON files, and a scheduler that starts the
same graph from cron jobs. This directory holds TLA+ modules translated from its source, the
TLC configurations that check them, and proofs for TLAPS. `PROJECT.json` maps every definition
to the lines it models.

Paths below are relative to `src/packages/supervisor-framework/src/` (**F**),
`src/apps/personal-assistant/src/` (**A**) and `src/packages/llm-gemini/src/` (**G**).

    tlc -workers 2 -config ProcessLock.cfg MCProcessLock     # one run
    tlapm ProcessLockProofs.tla                              # one module's proofs

## 1. Inventory

### Two processes and the state they share

The **bot** (`A index.ts`, `app.ts`) polls Telegram and owns every write to `data/`: agents
(`runtime-agents.json`), jobs (`cron-jobs.json`), prompts, skills. The **scheduler**
(`A scheduler/`) reads the same directory, watches it, and runs the jobs. Both compile the same
graph. They share `state.db`: the bot's conversation checkpoints and the `cron_runs` ledger.
`data/.scheduler-lock` is to keep the scheduler single.

    Telegram --> TelegramAdapter --(per-thread FIFO)--> graph.invoke --> reply
                                                          |
    data/*.json --watchers--> recompile / reconcile       +-- checkpoints in state.db
                                   |
    clock --> node-cron timers, 30 s poll --> CronRunner --> graph.invoke --> Telegram report
                                                |
                                                +-- cron_runs in state.db

### Components

| Component | State | Operations | What is hard | Correct when |
|---|---|---|---|---|
| Supervisor graph (F `core/create-assistant.ts`, `core/supervisor/`) | checkpointed channels: route, plan queue, last handoff, retry count, multi-specialist flag | route, continue a queue, retry, block a repeat, summarize, finish | channels outlive turns and crashes; six routing branches whose order matters | retries bounded, plans followed, finished turns answered and clean, every turn ends |
| Runtime specialists (F `core/execution/`, `core/agents/`) | private message history, step count, status | prepare, llm, tools, finalize | the channel's reducer rewrites history between nodes; off-by-one at `maxSteps` | step budget kept, handoff tells what happened |
| Cron service, runner, ledger (F `framework/cron/`, A `persistence/durability-store.ts`) | timers, markers, runs in flight, `cron_runs` rows | timer, poll, catch-up, claim, complete, report, add and remove a job | frozen clocks, awaits between check and mark, crashes, edits during a run | no overlap, no refire, no slot lost, no row or task left behind |
| Process lock (F `core/persistence/process-lock.ts`) | the lock file | acquire, judge stale, unlink, release | file system races, pids used again, half-written files | no crash or stale file costs a holder its lock or refuses every start |
| Cron definitions (F `framework/cron/reconcile-runtime-cron.ts`, `cron-job-watcher.ts`, `cron-job-repository.ts`) | `cron-jobs.json`, the active set | reconcile by difference | overlapping asynchronous reconciles; one bad job rejects the file | the active set converges to the file |
| File repositories (F `core/persistence/json-store.ts`, `core/agents/repository.ts`) | JSON files, prompt files, a write queue | read-modify-write, atomic replacement | a crash between prompt and JSON; two processes | readers see a whole version; a failed write does not stop the queue |
| Runtime recompilation (F `framework/create-supervisor-runtime.ts`) | the current graph, the recompile chain, fingerprints | soft recompile | adapters closed before the new graph exists; stale captures | turns keep their graph; the last edit is compiled in the end |
| Gemini context cache (G `gemini-context-cache.ts`) and its recovery (F `core/supervisor/supervisor-node.ts`) | entries, pending creations | getOrCreate, invalidate, retry after a miss | invalidation while a creation is pending | no caller is handed an invalidated cache for ever |
| Self-healing SQL session (A `integrations/mcp/`) | the session, the reconnection in progress | call, reconnect once, retry once | a late error of the old session | a working session is not closed under its users |
| Telegram adapter (A `telegram/`) | handled update ids, per-thread queues, photo buffers | receive, deduplicate, debounce, dispatch | redelivery beyond the cap; photos overtaken by text | one turn per update, in order |
| Message history (F `core/message-trimming.ts`, `core/message-compaction.ts`, `core/execution/sub-agent-messages.ts`) | the two message channels of a thread | reduce each update: compact used tool results, trim to a budget; select a specialist's part | calls and results must stay together at any boundary; reducers run between the nodes that read | no result without its call, no more dropped than needed, what is asked is kept |
| Skills, prompts, connectors, capabilities, logging, health, configuration | files or nothing | load, render, look up | nothing that lasts | see section 6 |

`PROJECT.json` lists the 23 components with what is modelled of each, and the hazards, each at
the line where it bites.

## 2. Modules

### SupervisorGraph: one thread of the assistant

State: the nine channels of F `core/state.ts` that carry control, the node the next superstep
runs, the superstep counter, the repository's enabled agents and the compiled (`wired`) ones,
and three history variables that only properties read (`attempts`, `twice`, `plannedMany`). One behaviour is the life of one thread:
a Telegram chat with several turns, or one cron run. A step is a superstep, because LangGraph
checkpoints between supersteps and nowhere else; a crash (`Abort`) therefore leaves the
channels of the last completed one, and the next turn begins with them.

| Actions | Code |
|---|---|
| `UserMessage`, `CronMessage` | the adapter's and the cron runner's `graph.invoke` |
| `CronRoute`, `SummarizeEmpty`, `Dequeue`, `DequeueUnwired`, `DirectFinish`, `ConfigurationFinish` | the branches of `supervisor-node.ts` before the model is asked, in their order |
| `SupervisorReply`, `AutoRetry`, `SkipRepeat`, `BlockRepeat`, `Delegate`, `RoutingFailure` | `resolveRoutingDecision` and the failure path, the model's answer being any plan of `Plans` |
| `Prepare`, `ModelAnswers`, `ModelThrows`, `SkipUnavailable`, `ToolsAnswer`, `Finalize` | a specialist's nodes, with the reducer of `agentMessages` (`Reduce`) applied to every update |
| `EmptyReply`, `FailureReply`, `PostHandoffFinish` | `reply-nodes.ts` |
| `RecursionLimitReached`, `Abort` | LangGraph's limit (40 for Telegram, 25 for cron), a crash or a throwing node |
| `SetEnabled`, `Recompile` | an edit by the configuration agent, the new graph between turns |

Abstracted: the message history is the kind of the latest human text and the author of the last
AI message; a specialist's history is its last message and what is readable of its last tool
batch; prompts, tasks and summaries are text and left out.

### JobRuns and CronScheduler: jobs, polls and the ledger

`JobRuns` is the abstract specification, what the scheduler promises of its jobs: a job is a
sequence of runs that do not overlap, each for a due slot of its schedule beyond those that runs
had begun for when its process started; a run is closed by the process that began it (`Completes`),
and one that a crash (`Stops`), a lost ledger or a refused write (`Abandons`) cuts off blocks its
job for good. A write that was to begin a run may be refused too (`Refuses`).
`CronScheduler` is how the code does it and implements it by
`INSTANCE JobRuns WITH clock <- now, running <- ..., blocked <- ...`: the runs are the callbacks in
the graph, a blocked job is one whose row says `running` while nobody runs it.

State: the wall clock (counted in polls), each process's active jobs, timers, markers
(`caughtUpSlot`) and reconcile loop, the runner calls in flight, the latest row of `cron_runs`
per job, and whether each process's captured connection is open. A schedule is its set of
slots. Steps are what happens between two awaits: `Timer` (fires in time, overlaps, throws, or
is missed by node-cron), `Poll` (starts, passes over a job, claims a late slot, finds the job
busy, ends), `Settles` (the graph ends and the row closes; the connection was closed; the
report ends, the slot is marked, the task re-armed), `AddJob`, `RemoveJob`, `Start`, `Crash`,
`Recompile`, `Tick`. A write of the ledger throws on a closed connection, and on an open one when
`state.db` is busy or cannot be written (`LedgerThrows`): then a timer's claim is dropped
(`TimerThrows`), a poll's is dropped and its slot marked all the same (`PollThrows`), and a
completion leaves the row open (`CompletionThrows`). Reading it is taken to succeed while it is
open. Each crash, recompile and such write is one of `MaxFaults`. node-cron is external: its timer may fire at any later time or count the
slot as missed, and a destroyed task is taken to stay stopped.

### ProcessLock: the scheduler's singleton lock

State: where each process is in `acquireProcessLock` or `release`, its host and pid, what it has
read, the file (present, its metadata, who still has it open), and the pid an unrelated program
uses. Every call to the file system is a step, so that the file exists empty between `Open` and
`Write`, and what `Read` saw may be gone when `Unlink` runs. `Exit` is `process.exit(1)` or a
crash at any point and leaves the file. A process starts whenever it likes (`Boot`), while others
acquire too; `rivals` records for each who was acquiring at the same time. A *host* is a hostname with its namespace of pids.

### AgentRegistry and AgentFiles: the specialists' files

`AgentRegistry` is the abstract specification, what F `core/agents/repository.ts` promises its
callers: calls take effect one at a time and at once (`Commit`), are refused by what they find at
that moment (`Refuse`), have no effect when they fail or the process dies (`Fail`, `Crash`), and
are answered (`Answers`). `AgentFiles` is how the code does it: the JSON file, the prompt files,
the write lock of `json-store.ts` as a queue of calls, and what each call has read. `Ask` queues a
call, `Load` reads the file once the call is at the head (`HasLock`) and refuses or goes on,
`WritePrompt` and `WriteJson` are two renames, `Fails` is a file system call that throws anywhere,
`BotCrashes` the end of the process with its queue. `AgentFiles` implements `AgentRegistry` by
`INSTANCE AgentRegistry WITH registry <- file, outcome <- ...`: the JSON file *is* the registry,
and a call's stage its outcome.

### RuntimeRecompile: a graph compiled from those files

Extends `AgentFiles` with the process that compiles its graph from what the bot writes
(F `framework/create-supervisor-runtime.ts`): the current graph with its fingerprint, the watcher
and its timer, the recompiles that wait in the chain, where the running one stands and what it has
read, whether the adapters have their sessions, and whether the ledger the scheduler took can
still be used. `Boot` reads, validates and compiles, or ends the process; `Watch` starts the
watcher afterwards; `Fire` queues a recompile; `ReadAgents`, `Compare` and `Build` are a recompile
cut at its awaits, with the adapters closed between the comparison and the new bootstrap. The
bot's steps (`BotStep`) come in anywhere. A prompt's text is the call that wrote it.

### CronDefinitions: the jobs file and the schedule

State: the file, the targets each process allows at the moment, the scheduler's phase, its
schedule (`active`), the watcher's timer, and the reconciles in flight with what each has read.
`CreateJob` and `DeleteJob` are the bot's calls with the validation of the whole file, `Start`,
`BootReads` and `BootAdds` the scheduler's start (which may throw half-way and stay there),
`Fire`, `ReadJobs` and `Apply` a reconcile, `BotRecompiles` and `Recompiles` what changes the
allowed targets and closes the ledger. Nothing orders reconciles in flight, so `Apply` takes any
of them. The loops of `reconcileRuntimeCron` are one step, but where one throws it leaves any part
of its jobs handled (`Reconciled`).

### ContextCache: prompts kept at the model's service

State: what `gemini-context-cache.ts` keeps (entries, pending creations, generations, names), the
creations in flight, which caches near their expiry or are gone at the service, and where each
turn's model call stands. `Resolve` and `Recover` run `getOrCreate` (`GetOrCreate`: a fresh entry,
a creation to join, or a new one); `CreateFails`, `Created` and `Finally` are a creation;
`Answered`, `Missing`, `CallFails`, `Uncached`, `Blank`, `RecoveryMissing` are the retry loops of
F `core/supervisor/supervisor-node.ts` and F `core/execution/runtime-node.ts`; `Ages` and `Dropped`
are time and the service. An answer of the service comes after the microtasks that are ready
(`Arrives`).

### TelegramAdapter: the way in and out

State: the remembered update ids, the accepted deliveries with where each is, the photo buffers,
the turns with the promise each waits for. `Deliver` is an update, delivered as often as Telegram
likes; `Downloaded`, `DownloadFails` and `Flush` bring photos to a turn; `Start`, `Replied`,
`Sent`, `Fails` and `Reported` are a turn's task; `Crash` loses the memory. `Chunks` is
`splitMessage`, a reply being the lengths of its lines and a message a sequence of stretches of
lines. A turn's graph is a step here and a whole behaviour in `SupervisorGraph`.

### SqlSession: the finance tools' database session

State: the sessions in the order they began to connect, the current one, the reset under way,
where each call is with its attempt and the sessions it was tried on, and `close()`. `SetUp` and
`SetUpFails` are A `integrations/supabase.ts`; `Establish`, `Connects`,
`ConnectFails`, `Answers`, `QueryFails`, `Throw`, `Retry` are `executeSql` with `establishSession`;
`ResetAwakes`, `ResetClosed`, `ResetConnects`, `ResetFails` are `resetAndConnect` cut at its
awaits; `Close`, `Closed`, `CloseFails` close it. Read and write sessions are two instances of the
same class.

### MessageHistory: the two message channels

State: the supervisor's messages, the specialist's, and who is at work. `UserAsks`,
`SupervisorReplies` and `Finalize` write the one, `ModelAnswers` and `ToolsAnswer` the other, each
through `Reduce`: `Compact` (F `core/message-compaction.ts`), then `Trim`
(F `core/message-trimming.ts`). `Prepare` overwrites the specialist's with `Scoped`
(F `core/execution/sub-agent-messages.ts`) and the supervisor's brief; `TurnAborts` leaves both as
they are. A message is what it costs, who it is by, the ids of the calls it makes and of the one it
answers, whether it has text, and whether a marker has taken its place; what it says is left out,
and so are images, which `scopeSubAgentMessages` moves to the latest human message. A position in
a history stands for the slice that begins there.

### How the modules hang together

`RuntimeRecompile` extends `AgentFiles`, `AgentFiles` instantiates `AgentRegistry`, and
`CronScheduler` instantiates `JobRuns`. The others share no variable; where one needs another it has that one's effect as a step:

| In | is | of |
|---|---|---|
| SupervisorGraph | `SetEnabled`, `Recompile` | the edits of AgentFiles and the recompile of RuntimeRecompile |
| CronScheduler | a run that `Settles`; `AddJob`, `RemoveJob`; `Recompile` | a turn of SupervisorGraph; the reconcile of CronDefinitions; the closed ledger of RuntimeRecompile |
| CronDefinitions | `BotRecompiles`, `Recompiles` | RuntimeRecompile |
| RuntimeRecompile | `SessionsSetUp` | the connections of SqlSession |
| TelegramAdapter | `Replied` | a turn of SupervisorGraph |
| MessageHistory | its turn's stages | the nodes of SupervisorGraph, whose channels hold only the last messages' kinds |

CronScheduler does not assume the lock: its `Procs` may be many.

In each module an operator `Name_Variant` stands before `Name`: it is `Name` with a plausible
bug that the mutation run of some property must detect.

## 3. Runs

| Run | Instance | Shows |
|---|---|---|
| `supervisor_graph` | 4 agents (one unavailable, two that salvage), 9 plans of one to three steps (two of them name a specialist twice), 2 turns, 1 crash, 1 edit, 2 retries, `maxSteps` 3, recursion limit 16; about 614,000 states | routing, retries, queues, endings |
| `cron_scheduler` | 1 process, an hourly job (slots 1, 2, 9) and a daily one (0, 9), tolerance 3, clock to 3, 2 faults (crashes, recompiles, refused writes), 1 edit; about 640,000 states | the scheduler implements the jobs' runs; no overlap, no refire, no slot lost |
| `process_lock` | 3 processes on 2 hosts with 2 pids each, 4 starts at any time; about 4,934,000 states | who may take a lock, who may be refused |
| `runtime_recompile` | 2 calls on 2 agents with 1 wiring, which needs the sessions, 2 queued recompiles; about 636,000 states | the files implement the registry; the graph follows the files |
| `cron_definitions` | 2 jobs, 1 target, 4 schedules (two that node-cron takes, one it refuses, one blank), 3 edits, 2 reconciles in flight, 2 starts; about 410,000 states | the schedule follows the file |
| `context_cache` | 1 supervisor and 2 specialist turns on one prompt, 5 creations, 1 cache near its expiry, 2 lost; about 572,000 states | invalidation and recovery |
| `telegram` | a text, an album of 2 photos, a single photo, a stranger; room for 2 ids, 4 accepted updates, messages of 3 characters, replies of one and of four messages, 1 crash; about 1,053,000 states | deduplication, photos, order, splitting |
| `sql_session` | 2 calls, 2 reconnect attempts, backoff 0 or 1 (cap 2), one close; about 431,000 states | resets under parallel calls |
| `message_history` | 2 specialists, 2 questions with 2 delegations each, 2 calls in a delegation, messages of a sixth and half of the budget, 1 human turn; about 500,000 states | what compaction, trimming and scoping keep |
| `tool_error_handoff` | one turn | a test's statement that the graph violates |
| `slot_twice` | one job, no crash | a statement of README.md that the scheduler violates |
| `ledger_closed` | the instance of `runtime_recompile` without grantable capabilities | a statement of ARCHITECTURE.md that the recompile violates |

**Why the bounds are enough.** *Graph:* two turns are what a channel needs to be written in one
and misread in the next, one crash is what makes the first turn end badly. Three plan steps
let the queue be continued, and dropped, with something left; the plans that name a specialist
twice do so in a row and with another in between. Two retries (the code's value)
are one more than the least that tells a bound from its off-by-one. 16 supersteps hold a
specialist with its retries, or a plan of three; a turn cut short by the limit is also the case the
limit is for. *Cron:* the hourly job has a slot inside the run of another, the daily one's slot
leaves the tolerance before the clock stops, each has a slot past the end for its timer to be armed
for. Several processes are left to the theorems, which hold for any number. Two faults are a crash or a refused write in each of
two runs, or either after a recompile. *Lock:* four starts are three rivals and a successor; two
pids on two hosts make a pid come back, in a scheduler of the same host, of the other and in a
stranger. *Recompile:* two calls
give every order of read, prompt and JSON write of two edits, on one agent and on two; two links of
the chain are one that runs or waits behind another. With one wiring an agent still comes, goes, is
disabled, and is available or not. *Jobs:* two reconciles in flight are what it takes to apply them
out of order, two starts what it takes to meet what an earlier one left; three edits are one for
each reconcile and one after. *Cache:* a creation in flight, one that replaces it after a miss, and
a turn that joins either need three turns; if five creations were not enough, `EveryTurnEnds` would fail.
*Telegram:* with room for two ids a third update makes the first forgotten, and a fourth lets it
come again; one reply has an empty line, short lines and one longer than a message. *SQL:* the late
error of one call against the session another has connected needs two calls and two attempts.
*Histories:* a message of half the budget with two results of any size puts the boundary before,
inside and behind a batch, a batch alone may exceed the budget, and a second question follows what
the first one left; ids of calls begin anew with each delegation, since no history has two's.

`CHECK_DEADLOCK FALSE` stands where the system may come to rest: a conversation may simply end, all
calls and edits may have been made. In `cron_scheduler`, `process_lock` and the runs of their
modules deadlock is checked.

**Fairness.** `SupervisorGraph!FairSpec` has weak fairness on a turn's next step: LangGraph runs
supersteps as long as the model's and the tools' promises settle, which is assumed, and its loop
enforces the limit. `CronScheduler!FairSpec` has weak fairness on the clock, on each process's poll
(`setInterval`) and on settling. No timer is fair: a frozen host delays it for ever, which is what
the poll is there for. The other modules have weak fairness on what the event loop runs once it is
ready and on answers that are awaited: `RuntimeRecompile` on the process's steps and on each begun
call, `CronDefinitions` on the scheduler's steps, `ContextCache` on each creation and each turn,
`TelegramAdapter` on the adapter's steps, `SqlSession` on each begun call and on the reset. Nobody
*has* to edit a file, call a tool, send a message, recompile or close, and nothing has to crash.
Apart from the MCP client, whose requests time out, the repository sets no timeout on the calls it
awaits, so that they settle is an assumption about the clients of the model, the tools and
Telegram: a call that never settles stops its turn, or the loop that awaits it, for ever.

### Properties

SupervisorGraph:
- `RetriesAreBounded`: in a chat turn where the user did not ask for a repeat, no specialist runs
  more than `MaxErrorRetries + 1` times in a row, whatever the model answers and whatever an
  aborted turn left. A step taken from a plan's queue begins a new count.
- `NoUnearnedRepeat`: a specialist that handed off starts again only as an automatic retry, on
  the user's word, or because the plan under way names it more than once (`routing-schema.ts:117`
  accepts that).
- `QueueFollowsPlan`: the rest of a plan is run in order or dropped whole.
- `FinishedTurnReplies`, `FinishedTurnIsClean`: a finished turn has a reply and leaves no handoff,
  queue or flag to the next one.
- `OnlyWiredAgentsRun`: an agent disabled or not compiled in never runs, by any of the five ways
  to start one.
- `StepBudget`: at most `maxSteps` tool batches per delegation.
- `TurnEnds`: every turn ends.

CronScheduler:
- `ImplementsJobRuns`: whichever timer or poll of whichever process fires, a run begins only for a
  due slot of the job's schedule that is new to its process, while no other run of the job goes on
  and none was left open; only the process that began a run ends it; a row outlives its run only
  through a crash, a lost ledger or a refused write, and each such write costs one run.
  (That no process runs a slot a run began for before it started, `RestartDoesNotRefire`, is part of
  it and no property of the run: it is a theorem of its own.)
- `RunsDoNotOverlap`: one invocation of a job in the graph at a time.
- `NoTaskLeftStopped`: a task stopped for a catch-up is armed again, whatever throws.
- `DueSlotsAreServed`: a due slot is served within the tolerance though no timer may fire, unless
  the job is removed, its row was orphaned by a crash or a refused write, the process lost its
  ledger, or the ledger refused the poll's own claim of that slot. A claim refused to a timer is
  made good by the poll.

ProcessLock:
- `TakenOnlyInARace`: a starter removes the lock file of a process of its host that is writing or
  keeping it only if the two were acquiring at the same time; no crash, half-written or stale file
  or pid used again costs a holder its lock.
- `RefusedForTheLiving`: a process is refused only for another that runs or was acquiring at the
  same time, or for a program with the dead holder's pid.

AgentFiles and RuntimeRecompile:
- `ImplementsRegistry`: though a call reads, writes a prompt and writes the JSON file in separate
  steps, no update is lost, none acts on what another has changed, and every call is answered.
- `TornOnlyByCut`: definition and prompt go together except while a call is between its two
  writes or was cut off there.
- `GraphIsCurrent`: when nothing is under way the graph has the specialists the files ask for,
  whatever was written while a recompile was reading, closing or building.
- `Settles`: a recompile that throws does not hold up those queued behind it.

CronDefinitions:
- `ScheduleFollowsFile`: when nothing is under way the schedule is the file's, unless the last
  reconcile threw, was overtaken, or the file changed before the watcher started.
- `Settles`: no reconcile, applied or rejected, keeps the scheduler from coming to rest.

ContextCache:
- `StoredIsCurrent`: a creation asked for before its print was invalidated is never stored after.
- `MissedIsNotHandedBack`: a turn told that a cache is missing never calls the model with that
  cache again, though others miss, invalidate and create for the same print meanwhile.
- `DroppedByItsMiss`: an entry taken for valid is dropped only by a turn told that it is missing.
- `EveryTurnEnds`: no turn waits for ever for a creation that was invalidated or replaced.

TelegramAdapter:
- `OncePerMark`: an update is acted upon again only after its id was forgotten.
- `KeptOnce`: what came in is in exactly one turn or one buffer.
- `OneAtATime`: the turns of a chat run one at a time, in the order they were queued.
- `SentInFull`: a turn has sent a beginning of its reply in messages Telegram takes, and all of it
  when it becomes answered.
- `ComesToRest`: a turn that fails, or whose report fails, does not hold up the next.

SqlSession:
- `CurrentIsOpen`: the session handed out is open, unless somebody is closing it or its close failed.
- `RetriesOnAnother`: a retry never goes to a session the same query has failed on.
- `NoneLeftOpen`: while connects succeed and nobody has called close, no session but the current one
  is left open.
- `Settles`: nobody waits for a reset that is over, and no two calls reset the session under each
  other for ever.

MessageHistory:
- `BatchesStayWhole`: a tool result is always behind the call it answers with nothing but results
  of the same message between, an answered message has all its results, and none of them is a
  marker while the specialist may still read it.
- `OnlyOldTurnsGo`: an update drops whole turns from the beginning of a history, never one that
  would have fitted, and nothing that follows the latest human message.

`TypeOK` (for `AgentFiles`, `FileTypeOK`) is checked with them in the graph, the cron service, the
lock and the recompile. In ContextCache and SqlSession it is a theorem, and in CronDefinitions,
TelegramAdapter and MessageHistory types are part of the invariants their proofs go by.

### Findings

1. `tool_error_handoff`: a specialist whose last tools failed hands off `ok`, because the handoff
   looks for the error in messages the channel's reducer has already compacted
   (F `core/execution/runtime-agent-handoff.ts:98`). The test that says otherwise feeds messages that never
   pass the reducer.
2. `slot_twice`: between the closing of its row and the end of its report a slot is neither marked
   nor claimed, and a poll runs it again (F `framework/cron/runtime-cron-service.ts:48`).
3. `ledger_closed`: a recompile closes the store whose ledger the scheduler's runner and cron service
   took at the start, and no cron job runs in that process until it restarts
   (F `framework/create-supervisor-runtime.ts:118`).

Further statements of the documents or tests are written down as properties and do not hold. They
have no configuration of their own: put the name in the place of the properties in the component's
configuration, with the change given, to see a counterexample.

| Property | What the code does instead |
|---|---|
| `EmptyHandoffsAreSummarized` (SupervisorGraph; ARCHITECTURE.md:230) | the cron trigger is examined before the empty handoff (`supervisor-node.ts:88`) and starts the specialist again, until the recursion limit |
| `ManySpecialistsAreSynthesized` (SupervisorGraph; `supervisor-node.test.ts:523`) | an automatic retry drops the flag (`helpers.ts:333`), and the turn ends on one specialist's text |
| `NoRestartBackfill` (CronScheduler; README.md:118, ARCHITECTURE.md:157) | the first poll after a restart runs the last slot missed while the process was down (`runtime-cron-service.ts:76`) |
| `RepeatsAreBlocked` (SupervisorGraph; `supervisor-node.test.ts:653`) | a plan may name a specialist twice (`routing-schema.ts:117`), and its queue is continued without the test for a repeat (`helpers.ts:100`), which only the model's answers meet (`helpers.ts:176`) |
| `OneHolder` (ProcessLock; README.md:180, ARCHITECTURE.md:337) | a lock file is read as stale while its creator has not yet written it (`process-lock.ts:66`), and two processes of one host that start together both take the lock; a third that starts later is refused for the file that is left, or takes the lock once that file's holder has released it |
| `RequestStays` (MessageHistory; `message-trimming.ts:161`, `routing-schema.ts:71`) | the supervisor's brief is a human message behind the user's (`delegation-brief.ts:39`), so that it is the one trimming retains as the latest, and a tool-heavy delegation loses what the user asked |
| `DuplicateIsRefused` (ProcessLock; README.md:180) | a lock of another hostname is always taken over (`process-lock.ts:98`), and containers have different hostnames |
| `CreatedOnce` (ContextCache; `gemini-context-cache.test.ts:445`) | the `finally` of an invalidated creation removes a later creation's entry (`gemini-context-cache.ts:340`), and a third is started beside it |
| `PromptIsRead` (RuntimeRecompile; `src/README.md:154`, ARCHITECTURE.md:460) | the prompt is captured when the graph is compiled and is not in the fingerprint (`derive-agents.ts:24`) |
| `FinanceDegrades` (RuntimeRecompile; ARCHITECTURE.md:477) | the validation includes disabled agents (`validate-persisted-agents.ts:20`), and one that was granted a finance capability ends the start without sessions |

Some observations that no document speaks about:

- `shouldCatchUp`'s comparison with the next run never decides anything (theorem
  `GapTestIsRedundant`), although ARCHITECTURE.md:157 describes the poll as capped by it.
- A bootstrap of the jobs that throws leaves a scheduler that neither ends nor watches
  (`"half"` in CronDefinitions; A `scheduler/index.ts:59`), with the jobs added so far.
- A job whose target is no longer allowed rejects the whole file, for the tool that would delete it
  too. Once a recompile has closed the ledger, each reconcile adds at most one job and then throws
  (`runtime-cron-service.ts:145`).
- What is written between a start's read and the start of the watcher is noticed with the next edit
  only (`missed` in both modules).
- The recovery call after a blank answer has no handler of a cache miss (`runtime-node.ts:319`).
- The late error of a query on an old session closes the newer one under its users; they retry, at
  the cost of an attempt. A query whose answer is lost is sent again, a write included. A connect
  that fails inside a reset is not tried again. Calls in flight at a close connect a session
  nobody closes; the twin of a session that cannot be connected at the start stays open.
- The check that the latest human message survives the trimming (`message-trimming.ts:194`) never
  decides anything (theorem `RetentionCheckIsRedundant`).
- Captions of photos sent in quick succession overwrite each other (`media-group-buffer.ts:71`);
  updates of strangers fill the window of ids; a download that fails rejects outside the turn's
  error report (`telegram-adapter.ts:250`).

## 4. Proofs

All theorems are checked by TLAPS to the last leaf, for all values of the constants that meet the
named assumptions, which only give the constants their types (and keep names apart that the code
keeps apart).

| Module | Theorems | Extra hypotheses |
|---|---|---|
| `SupervisorGraphProofs` | `TypeCorrect`, `FinishedTurnsReply`, `FinishedTurnsAreClean`, `OnlyWiredAgents`, `StepBudgetHolds`, `CronInvHolds`, `RetriesBounded`, `RepeatsAreEarned`, `QueueIsFollowed` | none; any plans |
| `CronSchedulerProofs` | `TypeCorrect`, `GapTestIsRedundant`, `RunsNeverOverlap`, `RestartsDoNotRefire`, `SchedulerImplementsJobRuns` | none; any number of processes |
| | `NoTaskStaysStopped` | `EndlessSchedules`: every schedule has a next slot |
| `ProcessLockProofs` | `TypeCorrect`, `StarterTakesOnlyInARace`, `RefusalsAreJustified` | none; any processes, hosts and pids, starting at any time |
| `RuntimeRecompileProofs` | of AgentFiles alone: `FileInvHolds`, `FilesTypeCorrect`, `PromptsAreTornOnlyByCut`, `FilesImplementAtomic` | none; any number of calls and agents |
| | `RuntimeTypeCorrect`, `RuntimeKeepsFiles`, `TornOnlyByCutHolds`, `RuntimeImplementsAtomic`, `GraphStaysCurrent` | none; any number of recompiles in the chain too |
| `CronDefinitionsProofs` | `SchedulesFollowFiles` | none; any number of jobs, calls, starts and reconciles in flight |
| `ContextCacheProofs` | `CacheInvHolds`, `CacheTypeCorrect`, `StoredEntriesAreCurrent`, `MissedCachesStayAway`, `EntriesAreDroppedByTheirMiss` | none; any number of turns, prints and creations |
| `ConversationProofs` | of MessageHistory: `BatchesAreWhole`, `OldTurnsGoFirst`, `RetentionCheckIsRedundant` | none; any agents, budget, costs of messages, number of calls and human turns |
| | of TelegramAdapter: `TurnsRunOneAtATime`, `ActedOncePerMark`, `KeptInOnePlace`, `RepliesAreSentInFull` | none; any number of updates, deliveries, turns, crashes and ids kept, any replies that begin with a character, any length of a message |
| `SqlSessionProofs` | `CommonHolds`, `SqlTypeCorrect`, `RetriesGoElsewhere`, `CurrentSessionIsOpen`, `NoneStaysOpen` | none; any number of calls and attempts |

**Arguments.** *Graph:* a finished turn is clean because the reply nodes, which keep the queue, are
only reached with an empty one, and an outcome is written exactly when the graph stops (`TurnInv`).
`RunInv` bounds the step count where the llm node follows a tool batch: `StepBudget` speaks of the
tools node alone and is not inductive without it. `CronInv` says that a cron trigger that is still
the last message finds no complete handoff and no queue, so the bypass drops and repeats nothing.
`RetryInv` pays for each further attempt of a specialist with a unit of the channel `retryCount`; a
step from the queue begins with both at their start. That an agent starts from the queue right
after it handed off is what `QueueInv` speaks of: the queue repeats an agent, or holds the one that
runs or has handed off, only if the plan named it twice (`twice`). The code does not refuse such
plans, so the theorems do not either.

*Cron:* overlap follows from `OverlapInv`: a callback in the graph means that its job's row is
running, and the index admits a claim only when it is not. `FloorInv` orders times: no floor (the
highest slot begun before a process started) is above the slots begun since, nor those above the
time of the ledger's latest row (`Ordered`); only a running process owns a ledger or callbacks
(`Owned`); armed timers and running slots are beyond the floor (`Ahead`), and the markers of
scheduled jobs at it or beyond (`Seeded`), so a slot the poll finds unmarked is beyond it too.

*Runs:* `SchedulerImplementsJobRuns` maps every step. `ClaimBegins`: a claim, by a timer or by the
poll, is the abstract `Begins`; that no run goes on and none was left open is what the ledger's
row says (`OverlapInv`), that the slot is new to the process is `Ahead` and `Seeded` of `FloorInv`,
and that it belongs to the schedule is `OnSchedule`. `SettleEnds`: the end of a run in the graph is
`Completes` if its write succeeds and `Abandons` if it throws; a claim that throws is `Refuses` if
the ledger is open, and a stutter if not; the end of a report is a stutter. `CrashStops`: a crash blocks the jobs of the process's own runs and no other. Whether a
task is armed, a marker set or a job scheduled is not seen from outside (`Unseen`).

*Lock:* two that acquire at the same time are each other's rivals (`Mutual`). Of two processes of a
host that are not, the later one started when the earlier was done, so whatever it has read of
the earlier one's file names a living process of another pid (`DistinctPids`, `Kept`), which it
does not judge stale. A refusal by the loop's end needs a file that came back after the first
removal: somebody created it meanwhile, who runs, or ended and was a rival (`Retrying`); one by
judgement needs metadata that were read (`Informed`). What a race may do is said in section 3;
`RunsNeverOverlap`, which assumes nothing about the lock, says why jobs still do not run twice at
once.

*Files:* `LockInv` says that a call between its read and its last write is at the head of the
queue, so there is at most one, that what it has read is still the file, and that the file admits
it. Hence `WriteJson`, which writes what was read before with one change, is the registry's
`Commit`: without the clause on what was read the step would not map. `PromptInv` says that the two
writes of a call belong together: the prompt of an agent differs from its definition only by a
call that has written the one and not the other. `FilesImplementAtomic` maps every step: `Ask` to
`Called`, a refused `Load` to `Refuse`, `WriteJson` to `Commit`, `Fails` to `Fail`, `BotCrashes` to
`Crash`, the rest to stutters. That calls are answered, the rest of `ImplementsRegistry`, is
model-checked. No step of RuntimeRecompile but the bot's changes these variables, so all of this
carries over (`RuntimeKeepsFiles`).

*Recompile:* `GraphIsCurrent` speaks of the rest only. `Dirty` is the trace that a change of the
JSON file leaves: the timer, a link of the chain, or the window before the watcher. Without it
each stage of a recompile is about what the files say now (`CurrentInv`): what it has read is still
the file (`ReadInv`), what it is about to build is what the file asks for (`BuildInv`), and when it
is over the fingerprint is that (`IdleInv`). A reading takes the trace away and establishes the
first clause; each stage hands it to the next; a JSON write while any of them is under way brings
the trace back. Prompts leave no trace: an agent whose prompt is written or missing in between is
`Disturbed`, and stays so until its JSON entry is written too. `WiringInv` says that the graph has
what its fingerprint says.

*Jobs:* `ScheduleFollowsFile` has the same shape with reconciles that may be applied in any order.
`FollowInv`: without a trace the last of the reconciles in flight has read what the file says now,
or one that was read after it has passed it, and the schedule is then known to be stale; with
nothing in flight the schedule is the file's or one of the named exceptions has happened.
`ProcessInv` says what the stages of a start leave in flight.

*Telegram:* the turns are a chain in which each waits for the one before it; the first that is not
over is the only one that may run (`ChainInv`). `MarkInv` counts: an update has been accepted once for each time its id was
forgotten, and once more if it is remembered; the step to prove is that a full window forgets
exactly one id and never the one just added, for which it must have room for one (the code's
constant is 1000). `KeptInv` says that the buffers and the members of the turns divide the held deliveries among
them (`Together`, `Apart`) without repeating one (`Unrepeated`), from which the count of
`KeptOnce` follows. A reply is sent in full because `splitMessage` cuts it (`ChunksCut`): the messages
fit, come in order and say its characters, all of them. Its loop keeps this for the lines so far
(`LoopCuts`), line by line: one that is too long is flushed before and cut into stretches
(`HardCut`), one that fits goes behind the last message (`Grown`) or begins the next (`Joined`).
`SendInv` adds that a turn that sends has a message left.

*Induction:* the library's induction theorems cannot be instantiated, so `LoopCuts` rests on a lemma
of its own, `Induction`: a set of naturals that has 0 and the successor of each of its members is
Nat. If n were missing, adding one would map its members below n into those above 0, which are
one fewer, against the pigeonhole principle. The same lemma shows that the loop, a recursive
function, is well defined (`SplitIs`). `MaxFact` rests on it too: a finite set of naturals has a
greatest member.

*History:* wherever an update cuts, the rest begins with a human message that is not after the
latest one (`TrimFacts`). `HistoryInv` therefore says where the batches of a delegation are: the specialist's history has a human message, all its
calls and results are behind the latest one while it is at work (`AfterHumans`), a message that
calls has all its results unless it is the last, and then nothing else follows. So no cut falls into
a batch (`SuffixIsWhole`), and the answer of the model and the results of the tools extend a
history that was whole (`AnswerIsWhole`, `ResultsAreWhole`). Results are compacted only once the
specialist has answered in text, which is when its loop is over (`CompactFacts`). That a dropped turn
would not have fitted is the minimum in `Window`: costs only grow with the length (`FewerCostLess`),
and a marker takes the place of a result before the trimming counts.

*Cache:* an invalidation raises the generation of a print and empties its entry in one step, so what
is stored has the generation of now. `DroppedByItsMiss` needs `EntryInv`: the name of an entry is the
only one that is still mapped to its print, so a miss of another name finds no print to invalidate.
`EntryInv` in turn needs that a print has one entry and a waiting turn one creation (`Singles`), and
that who joins a creation joins one of its own print (`JoinInv`). `MissedIsNotHandedBack` follows from
`BackInv`: a cache that was missed is of a creation that is over, since the service's answer comes
after what the event loop has ready, so no creation that is joined later returns it; an entry is
mapped to its print (`Named`), so the invalidation after a miss removes it; and until the first
recovery a turn has missed nothing but the cache of its last call (`Told`).

*SQL:* `Common` says what a call knows of the sessions (`CallOK`): it queries one that was connected,
connects one that nobody else connects (`Apart`), and those it was tried on are different and none
of them can be handed to it again. The last holds because a session becomes current only when it
has just been connected, which is before any call was tried on it. `CurrentIsOpen` is inductive on
top of `Common`. `NoneLeftOpen` is not: `CalmInv` adds that, while no connect has failed and
nobody closes, there is no current session exactly while the reset connects the next, so that no
call connects one of its own, and that a reset that closes the current session leaves none open.

**Only model-checked:** liveness (`TurnEnds`, `DueSlotsAreServed`, `EveryTurnEnds`, `ComesToRest`,
the `Settles` of three modules, the registry's `Answers`), since fairness and ENABLED are out of
the provers' reach; and the violations. Every other property of a run is stated by a theorem. No module uses a RECURSIVE operator.

## 5. Plan

The order is by what an error would cost. Done: the modules of section 2 and the proofs of
section 4. Nothing of the plan is left; what is not modelled is in section 6.

## 6. Not modelled

- *Skills* (`core/skills/`): parsing and rendering; a skill's file is written at once and read when
  it is asked for.
- *Configuration, prompts, logging, health* and the *minimal supervisor*: input and output, and a
  demonstration.
- Wording of prompts and replies, captions, the formatting of messages, files that are sent, and the
  confirmation tokens of the configuration agent.
- The external services (Gemini, Telegram, Supabase, Wise, Obsidian) appear only as answers that
  may be anything the code distinguishes. node-cron, LangGraph and the MCP client are modelled from
  how the code uses them, and marked external in the map.
