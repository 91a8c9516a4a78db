-------------------------- MODULE SupervisorGraph --------------------------
(***************************************************************************)
(* The compiled assistant graph of packages/supervisor-framework: the      *)
(* supervisor node, the specialists' prepare / llm / tools / finalize      *)
(* loop, the three reply nodes, and the checkpointed channels they share   *)
(* (core/state.ts).  One behaviour is the life of one thread: a Telegram   *)
(* chat, whose turns are serialised by the adapter and which survives a    *)
(* crash because its channels are checkpointed after every superstep, or   *)
(* one cron run, which is a thread of a single turn.                       *)
(*                                                                         *)
(* Abstracted data.  The message history is reduced to what the control    *)
(* reads from it: the kind of the latest human text, and who wrote the     *)
(* latest AI message since (lastReply).  A specialist's private history    *)
(* (agentMessages) is reduced to its last message and its tool results.    *)
(* Tasks, summaries and routingFailureContext are prompt text: left out.   *)
(***************************************************************************)
EXTENDS Integers, Sequences

CONSTANTS
    Agents,           \* ids of the runtime agents in the repository
    SystemAgent,      \* SYSTEM_AGENT_ID, the configuration agent
    Salvaging,        \* agents whose hooks set resultMapping (configuration, Obsidian)
    MaxSteps,         \* per agent; 0 for the bundle of an unavailable agent
    MaxErrorRetries,  \* DEFAULT_MAX_ERROR_RETRIES
    RecursionLimit,   \* LangGraph's bound on the supersteps of one invocation
    Plans,            \* the execution plans the routing model may answer with
    MaxTurns,         \* bound: user messages on the thread
    MaxAborts,        \* bound: crashes and throwing nodes
    MaxEdits          \* bound: edits of the agents' enabled flag

ASSUME AgentsAssumption ==
    /\ SystemAgent \in Agents
    /\ Salvaging \subseteq Agents
    /\ Agents \cap {"none", "FINISH", "empty_reply", "failure_reply",
                    "post_handoff_finish", "supervisor"} = {}
ASSUME BoundsAssumption ==
    /\ MaxSteps \in [Agents -> Nat]
    /\ MaxErrorRetries \in Nat
    /\ RecursionLimit \in Nat
    /\ MaxTurns \in Nat /\ MaxAborts \in Nat /\ MaxEdits \in Nat
ASSUME PlansAssumption == Plans \subseteq Seq(Agents) \ {<<>>}

VARIABLES
    node,                \* the node the next superstep runs, or "idle"
    next,                \* channel: the supervisor's route
    executionQueue,      \* channel: the plan's steps after the running one
    lastHandoff,         \* channel: what the last specialist returned
    retryCount,          \* channel: automatic retries of the handoff's agent
    multiSpecialistTurn, \* channel: context[MULTI_SPECIALIST_TURN_CONTEXT_KEY]
    stepCount,           \* channel: model turns of the running specialist
    handoffStatus,       \* channel: "error" when the specialist's model threw
    agentMessages,       \* channel: the running specialist's private history
    intent,              \* the latest substantive human text: "request", or
                         \* "again" for a retry request or an affirmative
    cronRoute,           \* agent named by the cron trigger that opened the thread
    lastReply,           \* author of the latest AI message since the human one
    thread,              \* "new", "chat" or "cron"
    steps,               \* supersteps of the current invocation
    outcome,             \* how the last turn ended
    turns, aborts, edits,\* the bounded counters
    enabled,             \* the repository's enabled agents
    wired,               \* the agents compiled into the graph
    attempts,            \* history: runs in a row, in this turn, that one agent was
                         \* given for the same step of a plan
    twice,               \* history: the agents the plan under way names repeatedly
    plannedMany          \* history: a plan of several steps began in this turn

planVars      == <<executionQueue, lastHandoff, retryCount, multiSpecialistTurn>>
workspaceVars == <<stepCount, handoffStatus, agentMessages>>
turnVars      == <<intent, cronRoute, thread, turns, aborts>>
repoVars      == <<enabled, wired, edits>>
historyVars   == <<attempts, twice, plannedMany>>
vars == <<node, next, planVars, workspaceVars, turnVars, lastReply, steps, outcome,
          repoVars, historyVars>>

ReplyNodes      == {"empty_reply", "failure_reply", "post_handoff_finish"}
SpecialistNodes == {"prepare", "llm", "tools", "finalize"}
Statuses        == {"ok", "empty", "max_steps", "error"}
NoHandoff       == [agent |-> "none", status |-> "none"]

\* An Overwrite([]) workspace, or one that holds only the scoped conversation:
\* last is the kind of the last message, tool the result of the last tool batch
\* that is still readable, salvage whether buildSummary finds a usable result,
\* failed whether the last tool batch really failed (read by properties only).
Workspaces ==
    [last : {"human", "calls", "tools", "text", "fallback", "blank"},
     tool : {"none", "ok", "error"}, salvage : BOOLEAN, failed : BOOLEAN]
NoMessages == [last |-> "human", tool |-> "none", salvage |-> FALSE, failed |-> FALSE]

\* An operator Name_Variant stands just before Name: it is Name with a plausible
\* bug, which the mutation run of a property must detect.

(***************************************************************************)
(* The turn: what starts, ends and advances an invocation.                 *)
(***************************************************************************)
EndTurn(how) == node' = "idle" /\ steps' = 0 /\ outcome' = how
Advance(to)  == node' = to /\ steps' = steps + 1 /\ UNCHANGED outcome

\* A superstep may run: LangGraph stops once RecursionLimit of them have.
Runs_AtLimit(n) == node = n /\ steps <= RecursionLimit
Runs(n)         == node = n /\ steps < RecursionLimit

Init ==
    /\ node = "idle" /\ next = "FINISH" /\ outcome = "none" /\ steps = 0
    /\ executionQueue = <<>> /\ lastHandoff = NoHandoff
    /\ retryCount = 0 /\ multiSpecialistTurn = FALSE
    /\ stepCount = 0 /\ handoffStatus = "none" /\ agentMessages = NoMessages
    /\ intent = "request" /\ cronRoute = "none" /\ lastReply = "none"
    /\ thread = "new" /\ turns = 0 /\ aborts = 0 /\ edits = 0
    /\ enabled = Agents /\ wired = Agents
    /\ attempts = 0 /\ twice = {} /\ plannedMany = FALSE

\* The channels are not input of an invocation: they keep the values of the
\* last checkpoint, whatever became of the turn that wrote it.
BeginTurn ==
    /\ node = "idle"
    /\ turns < MaxTurns
    /\ turns' = turns + 1
    /\ node' = "supervisor" /\ steps' = 0 /\ outcome' = "running"
    /\ lastReply' = "none"
    /\ attempts' = 0 /\ plannedMany' = FALSE
    /\ UNCHANGED <<next, planVars, workspaceVars, aborts, repoVars, twice>>

\* A captionless photo's boilerplate is not substantive: the text before it counts.
UserMessage(text) ==
    /\ thread \in {"new", "chat"}
    /\ BeginTurn
    /\ thread' = "chat"
    /\ intent' = IF text = "captionless" THEN intent ELSE text
    /\ UNCHANGED cronRoute

CronMessage(route) ==
    /\ thread = "new"
    /\ BeginTurn
    /\ thread' = "cron"
    /\ cronRoute' = route
    /\ UNCHANGED intent

(***************************************************************************)
(* The supervisor node.                                                    *)
(***************************************************************************)
\* isRuntimeAgentHandoffComplete
HandoffComplete == lastHandoff # NoHandoff /\ lastHandoff.status # "empty"

CanAutoRetry_OffByOne == lastHandoff.status = "error" /\ retryCount <= MaxErrorRetries
CanAutoRetry          == lastHandoff.status = "error" /\ retryCount < MaxErrorRetries

\* enqueueAndStart; continuing is continuingMultiSpecialistTurn.
EnqueueAndStart(plan, continuing) ==
    /\ next' = Head(plan)
    /\ executionQueue' = Tail(plan)
    /\ lastHandoff' = NoHandoff
    /\ multiSpecialistTurn' = (continuing \/ Len(plan) > 1)
    /\ plannedMany' = (plannedMany \/ Len(plan) > 1)
    /\ Advance("prepare")
    /\ UNCHANGED <<workspaceVars, turnVars, lastReply, repoVars>>

\* What the history variables record of a start.  A plan is not checked for an
\* agent it names twice, and what is taken from it counts as a step of its own;
\* the agent of the last handoff that the model names anew gets another attempt.
Repeated(plan) ==
    {a \in Agents : \E i, j \in DOMAIN plan : i # j /\ plan[i] = a /\ plan[j] = a}
Attempt(agent) ==
    attempts' = IF attempts > 0 /\ lastHandoff.agent = agent THEN attempts + 1 ELSE 1
Adopt(plan) == Attempt(Head(plan)) /\ twice' = Repeated(plan)

ToReplyNode(n) ==
    /\ next' = n
    /\ Advance(n)
    /\ UNCHANGED <<workspaceVars, turnVars, lastReply, repoVars, historyVars>>

ClearDelegation == lastHandoff' = NoHandoff /\ multiSpecialistTurn' = FALSE

FinishWith(reply) ==
    /\ next' = "FINISH"
    /\ ClearDelegation
    /\ executionQueue' = <<>>
    /\ retryCount' = 0
    /\ lastReply' = reply
    /\ EndTurn("finished")
    /\ UNCHANGED <<workspaceVars, turnVars, repoVars, historyVars>>

\* The last message of the thread is still the cron trigger, and it names a
\* wired agent rather than superviseCronRoute.
CronTriggered_AnyRoute == thread = "cron" /\ lastReply = "none" /\ cronRoute \in Agents
CronTriggered == thread = "cron" /\ lastReply = "none" /\ cronRoute \in wired

CronRoute ==
    /\ Runs("supervisor") /\ CronTriggered
    /\ EnqueueAndStart(<<cronRoute>>, FALSE)
    /\ retryCount' = 0
    /\ Adopt(<<cronRoute>>)

\* needsEmptySubAgentSummary
SummarizeEmpty_KeepsQueue ==
    /\ Runs("supervisor") /\ ~CronTriggered
    /\ lastHandoff.status = "empty"
    /\ ToReplyNode("empty_reply")
    /\ UNCHANGED planVars

SummarizeEmpty ==
    /\ Runs("supervisor") /\ ~CronTriggered
    /\ lastHandoff.status = "empty"
    /\ executionQueue' = <<>>
    /\ ToReplyNode("empty_reply")
    /\ UNCHANGED <<lastHandoff, retryCount, multiSpecialistTurn>>

\* detectCompletionState: the queue is continued without consulting the model or
\* the repository.
Dequeues == ~CronTriggered /\ HandoffComplete /\ executionQueue # <<>>

Dequeue ==
    /\ Runs("supervisor") /\ Dequeues
    /\ Head(executionQueue) \in wired
    /\ EnqueueAndStart(executionQueue, TRUE)
    /\ retryCount' = 0
    /\ attempts' = 1 /\ UNCHANGED twice

\* LangGraph finds no edge for the route: the superstep fails and writes nothing.
DequeueUnwired ==
    /\ Runs("supervisor") /\ Dequeues
    /\ Head(executionQueue) \notin wired
    /\ EndTurn("aborted")
    /\ UNCHANGED <<next, planVars, workspaceVars, turnVars, lastReply, repoVars, historyVars>>

SpecialistJustFinished_Assumed == TRUE
SpecialistJustFinished == lastReply # "none"

Settled_IgnoresQueue ==
    /\ ~CronTriggered /\ HandoffComplete
    /\ ~CanAutoRetry /\ SpecialistJustFinished
Settled ==
    /\ ~CronTriggered /\ HandoffComplete /\ executionQueue = <<>>
    /\ ~CanAutoRetry /\ SpecialistJustFinished
ConfigurationSettled == Settled /\ lastHandoff.agent = SystemAgent
SpecialistSettled ==
    /\ Settled
    /\ lastHandoff.agent # SystemAgent
    /\ lastHandoff.status = "ok"
    /\ ~multiSpecialistTurn

ConfigurationFinish ==
    /\ Runs("supervisor") /\ ConfigurationSettled
    /\ ToReplyNode("post_handoff_finish")
    /\ UNCHANGED planVars

DirectFinish ==
    /\ Runs("supervisor") /\ SpecialistSettled
    /\ FinishWith(lastReply)

\* Nothing decided yet: the routing model is asked.
ConsultsModel ==
    /\ Runs("supervisor")
    /\ ~CronTriggered
    /\ lastHandoff.status # "empty"
    /\ ~Dequeues
    /\ ~ConfigurationSettled
    /\ ~SpecialistSettled

\* buildSupervisorRoutingSchema: only enabled agents that are wired can be named.
RoutablePlans == {p \in Plans : \A i \in DOMAIN p : p[i] \in enabled \cap wired}

\* FINISH with a reply.
SupervisorReply ==
    /\ ConsultsModel
    /\ FinishWith("supervisor")

\* The model threw, answered outside the schema, or said FINISH without a reply.
RoutingFailure ==
    /\ ConsultsModel
    /\ lastHandoff' = NoHandoff
    /\ executionQueue' = <<>>
    /\ ToReplyNode("failure_reply")
    /\ UNCHANGED <<retryCount, multiSpecialistTurn>>

\* isAutoRetryableErrorRoute
RetriesError(plan) == CanAutoRetry /\ Head(plan) = lastHandoff.agent

AutoRetry(plan) ==
    /\ ConsultsModel /\ RetriesError(plan)
    /\ EnqueueAndStart(plan, FALSE)
    /\ retryCount' = retryCount + 1
    /\ Adopt(plan)

\* isBlockedRepeatRoute: the head is dropped and the rest of the plan runs.
RepeatsHandoff_OnlyOk(plan) ==
    /\ lastHandoff.status = "ok"
    /\ intent # "again"
    /\ Head(plan) = lastHandoff.agent

RepeatsHandoff(plan) ==
    /\ HandoffComplete
    /\ intent # "again"
    /\ Head(plan) = lastHandoff.agent

SkipRepeat(plan) ==
    /\ ConsultsModel /\ ~RetriesError(plan) /\ RepeatsHandoff(plan)
    /\ Tail(plan) # <<>>
    /\ EnqueueAndStart(Tail(plan), TRUE)
    /\ retryCount' = 0
    /\ attempts' = 1 /\ twice' = Repeated(plan)

BlockRepeat(plan) ==
    /\ ConsultsModel /\ ~RetriesError(plan) /\ RepeatsHandoff(plan)
    /\ Tail(plan) = <<>>
    /\ executionQueue' = <<>>
    /\ retryCount' = 0
    /\ ToReplyNode("post_handoff_finish")
    /\ UNCHANGED <<lastHandoff, multiSpecialistTurn>>

Delegate(plan) ==
    /\ ConsultsModel /\ ~RetriesError(plan) /\ ~RepeatsHandoff(plan)
    /\ EnqueueAndStart(plan, multiSpecialistTurn)
    /\ retryCount' = 0
    /\ Adopt(plan)

Supervise ==
    \/ CronRoute
    \/ SummarizeEmpty
    \/ Dequeue
    \/ DequeueUnwired
    \/ ConfigurationFinish
    \/ DirectFinish
    \/ SupervisorReply
    \/ RoutingFailure
    \/ \E plan \in RoutablePlans :
          AutoRetry(plan) \/ SkipRepeat(plan) \/ BlockRepeat(plan) \/ Delegate(plan)

(***************************************************************************)
(* The running specialist, next.                                           *)
(***************************************************************************)
SpecialistStep(to) ==
    /\ Advance(to)
    /\ UNCHANGED <<next, executionQueue, retryCount, multiSpecialistTurn, turnVars,
                   repoVars, historyVars>>

Prepare ==
    /\ Runs("prepare")
    /\ agentMessages' = NoMessages
    /\ stepCount' = 0
    /\ handoffStatus' = "none"
    /\ SpecialistStep("llm")
    /\ UNCHANGED <<lastHandoff, lastReply>>

Unavailable == MaxSteps[next] = 0

\* A model turn counts from 1 and continues the count after a tool batch.
NextStepCount == IF agentMessages.last = "tools" THEN stepCount + 1 ELSE 1

\* What processResponse makes of a blank answer: the summary of a usable tool
\* result, Obsidian's completion fallback on a first turn, or still blank.
BlankBecomes ==
    IF agentMessages.salvage THEN "text"
    ELSE IF agentMessages.last # "tools" /\ next \in Salvaging \ {SystemAgent}
         THEN "fallback" ELSE "blank"

\* The reducer of agentMessages: compactConsumedToolResults replaces every tool
\* result by a "[consumed: ...]" marker as soon as a text answer follows them.
Reduce(last) ==
    LET consumed == last \in {"text", "fallback"}
    IN  [last    |-> last,
         tool    |-> IF consumed THEN "none" ELSE agentMessages.tool,
         salvage |-> ~consumed /\ agentMessages.salvage,
         failed  |-> agentMessages.failed]

ModelAnswers(last) ==
    /\ Runs("llm") /\ ~Unavailable
    /\ agentMessages' = Reduce(IF last = "blank" THEN BlankBecomes ELSE last)
    /\ stepCount' = NextStepCount
    /\ SpecialistStep(IF last = "calls" THEN "tools" ELSE "finalize")
    /\ UNCHANGED <<handoffStatus, lastHandoff, lastReply>>

\* The catch clause: an error text, and stepCount keeps its value.
ModelThrows ==
    /\ Runs("llm") /\ ~Unavailable
    /\ agentMessages' = Reduce("text")
    /\ handoffStatus' = "error"
    /\ SpecialistStep("finalize")
    /\ UNCHANGED <<stepCount, lastHandoff, lastReply>>

\* The llm node of createUnavailableGraphBundle.
SkipUnavailable ==
    /\ Runs("llm") /\ Unavailable
    /\ stepCount' = 0
    /\ SpecialistStep("finalize")
    /\ UNCHANGED <<agentMessages, handoffStatus, lastHandoff, lastReply>>

\* ToolNode answers the whole batch; a failing tool answers "Error: ...".  The
\* configuration agent can salvage any result, Obsidian some successful ones.
Usable(result) ==
    IF next = SystemAgent /\ next \in Salvaging THEN {TRUE}
    ELSE IF next \in Salvaging /\ result = "ok" THEN BOOLEAN ELSE {FALSE}

\* routeAfterRuntimeAgentTools
AfterTools_OffByOne == IF stepCount > MaxSteps[next] THEN "finalize" ELSE "llm"
AfterTools          == IF stepCount >= MaxSteps[next] THEN "finalize" ELSE "llm"

ToolsAnswer(result) ==
    /\ Runs("tools")
    /\ \E usable \in Usable(result) :
          agentMessages' = [last    |-> "tools",
                            tool    |-> result,
                            salvage |-> agentMessages.salvage \/ usable,
                            failed  |-> result = "error"]
    /\ SpecialistStep(AfterTools)
    /\ UNCHANGED <<stepCount, handoffStatus, lastHandoff, lastReply>>

\* mapSubAgentResult yields text, unless the specialist has nothing to show.
HasText ==
    \/ agentMessages.last = "text"
    \/ agentMessages.salvage
    \/ stepCount >= MaxSteps[next]

\* buildRuntimeAgentHandoff, resolveRuntimeAgentHandoffStatus
HandoffStatus ==
    IF handoffStatus # "none" THEN handoffStatus
    ELSE IF stepCount >= MaxSteps[next] THEN "max_steps"
    ELSE IF ~HasText THEN "empty"
    ELSE IF agentMessages.tool = "error" THEN "error" ELSE "ok"

\* An empty handoff adds no message to the thread.
Finalize ==
    /\ Runs("finalize")
    /\ lastHandoff' = [agent |-> next, status |-> HandoffStatus]
    /\ lastReply' = IF HandoffStatus = "empty" THEN lastReply ELSE "specialist"
    /\ agentMessages' = NoMessages
    /\ stepCount' = 0
    /\ handoffStatus' = "none"
    /\ SpecialistStep("supervisor")

Specialist ==
    \/ Prepare
    \/ \E last \in {"calls", "text", "blank"} : ModelAnswers(last)
    \/ ModelThrows
    \/ SkipUnavailable
    \/ \E result \in {"ok", "error"} : ToolsAnswer(result)
    \/ Finalize

(***************************************************************************)
(* The reply nodes: they end the turn and keep the queue and retryCount.   *)
(***************************************************************************)
ReplyAndEnd(reply) ==
    /\ next' = "FINISH"
    /\ ClearDelegation
    /\ lastReply' = reply
    /\ EndTurn("finished")
    /\ UNCHANGED <<executionQueue, retryCount, workspaceVars, turnVars, repoVars, historyVars>>

EmptyReply   == Runs("empty_reply") /\ ReplyAndEnd("supervisor")
FailureReply == Runs("failure_reply") /\ ReplyAndEnd("supervisor")

\* A reply since the last human message stands; without one the model writes it.
PostHandoffFinish ==
    /\ Runs("post_handoff_finish")
    /\ ReplyAndEnd(IF lastReply # "none" THEN lastReply ELSE "supervisor")

Reply == EmptyReply \/ FailureReply \/ PostHandoffFinish

(***************************************************************************)
(* What goes wrong outside the nodes, and the repository.                  *)
(***************************************************************************)
\* The process dies, or a node throws (the reply nodes' model call, loadAgents):
\* the channels stay as the last completed superstep left them.
Abort ==
    /\ node # "idle"
    /\ aborts < MaxAborts
    /\ aborts' = aborts + 1
    /\ EndTurn("aborted")
    /\ UNCHANGED <<next, planVars, workspaceVars, intent, cronRoute, thread, turns,
                   lastReply, repoVars, historyVars>>

\* GraphRecursionError
RecursionLimitReached_OffByOne ==
    /\ node # "idle"
    /\ steps > RecursionLimit
    /\ EndTurn("aborted")
    /\ UNCHANGED <<next, planVars, workspaceVars, turnVars, lastReply, repoVars, historyVars>>

RecursionLimitReached ==
    /\ node # "idle"
    /\ steps >= RecursionLimit
    /\ EndTurn("aborted")
    /\ UNCHANGED <<next, planVars, workspaceVars, turnVars, lastReply, repoVars, historyVars>>

\* update_runtime_agent by the configuration agent, or an edit of the file.  The
\* virtual configuration agent is always enabled.
SetEnabled(a) ==
    /\ a # SystemAgent
    /\ edits < MaxEdits
    /\ edits' = edits + 1
    /\ enabled' = IF a \in enabled THEN enabled \ {a} ELSE enabled \cup {a}
    /\ UNCHANGED <<node, next, planVars, workspaceVars, turnVars, lastReply, steps,
                   outcome, wired, historyVars>>

\* A turn keeps the graph it began with, so a recompile counts between turns.
Recompile ==
    /\ node = "idle"
    /\ wired # enabled
    /\ wired' = enabled
    /\ UNCHANGED <<node, next, planVars, workspaceVars, turnVars, lastReply, steps,
                   outcome, enabled, edits, historyVars>>

TurnStep == Supervise \/ Specialist \/ Reply \/ RecursionLimitReached

Next ==
    \/ \E text \in {"request", "again", "captionless"} : UserMessage(text)
    \/ \E route \in Agents \cup {"supervisor"} : CronMessage(route)
    \/ TurnStep
    \/ Abort
    \/ \E a \in Agents : SetEnabled(a)
    \/ Recompile

Spec == Init /\ [][Next]_vars

\* LangGraph runs the next superstep as long as the model and tool calls settle.
FairSpec == Spec /\ WF_vars(TurnStep)

(***************************************************************************)
(* Properties.                                                             *)
(***************************************************************************)
\* Every channel holds a value its reader can interpret.
TypeOK ==
    /\ node \in {"idle", "supervisor"} \cup SpecialistNodes \cup ReplyNodes
    /\ next \in Agents \cup ReplyNodes \cup {"FINISH"}
    /\ node \in SpecialistNodes => next \in Agents
    /\ executionQueue \in Seq(Agents)
    /\ lastHandoff \in [agent : Agents, status : Statuses] \cup {NoHandoff}
    /\ retryCount \in Nat
    /\ multiSpecialistTurn \in BOOLEAN
    /\ stepCount \in Nat
    /\ handoffStatus \in {"none", "error"}
    /\ agentMessages \in Workspaces
    /\ intent \in {"request", "again"}
    /\ cronRoute \in Agents \cup {"none", "supervisor"}
    /\ lastReply \in {"none", "specialist", "supervisor"}
    /\ thread \in {"new", "chat", "cron"}
    /\ steps \in 0..RecursionLimit
    /\ outcome \in {"none", "running", "finished", "aborted"}
    /\ turns \in 0..MaxTurns /\ aborts \in 0..MaxAborts /\ edits \in 0..MaxEdits
    /\ enabled \subseteq Agents /\ wired \subseteq Agents
    /\ attempts \in Nat /\ twice \subseteq Agents
    /\ plannedMany \in BOOLEAN

\* The automatic retries of a failing specialist are bounded within a turn,
\* whatever an aborted turn left in the channels: unless the user asked for a
\* repeat, no step of a chat turn is given to its specialist more than
\* MaxErrorRetries + 1 times in a row, however often the model names it anew
\* (helpers.ts isAutoRetryableErrorRoute, isBlockedRepeatRoute).  Only a plan that
\* names the specialist twice begins to count again, with the second step.
RetriesAreBounded ==
    thread = "chat" /\ intent = "request" => attempts <= MaxErrorRetries + 1

\* A turn that finishes leaves an AI message after the user's, which is what the
\* adapter sends: no path to END forgets the reply.
FinishedTurnReplies == outcome = "finished" => lastReply # "none"

\* A finished turn leaves nothing behind that the next one could mistake for its
\* own: no handoff, no queued step, no multi-specialist flag.
FinishedTurnIsClean ==
    outcome = "finished" =>
        /\ lastHandoff = NoHandoff
        /\ executionQueue = <<>>
        /\ ~multiSpecialistTurn

\* Only agents compiled into the graph run, whichever of the five ways of
\* starting one is taken and however the repository changed since.
OnlyWiredAgentsRun == node \in SpecialistNodes => next \in wired

\* A specialist executes at most MaxSteps tool batches per delegation.
StepBudget == node = "tools" => stepCount <= MaxSteps[next]

\* A specialist that just handed off is not started again on the model's word,
\* unless it failed with retries left, the user asked for it, or the plan under way
\* names it more than once: neither a queue an aborted turn left behind nor a plan
\* that drops its blocked head brings back another one.
StartsAgain == node = "supervisor" /\ node' = "prepare" /\ next' = lastHandoff.agent
NoUnearnedRepeat ==
    [][StartsAgain /\ HandoffComplete
          => CanAutoRetry \/ intent = "again" \/ next' \in twice']_vars

\* The remaining steps of a plan run in the planned order and none is skipped: as
\* long as specialists hand off a result, the queue only ever loses its head to
\* the specialist that starts, and no reply ends the turn before the queue is empty;
\* an empty handoff drops it as a whole.
QueueFollowsPlan ==
    [][node = "supervisor" /\ node' # "supervisor" /\ outcome' # "aborted"
          /\ lastHandoff # NoHandoff /\ executionQueue # <<>>
       => \/ next' = Head(executionQueue) /\ executionQueue' = Tail(executionQueue)
          \/ lastHandoff.status = "empty" /\ next' = "empty_reply" /\ executionQueue' = <<>>
      ]_vars

\* Every turn ends, with a reply or with an error the adapter reports.
TurnEnds == node # "idle" ~> node = "idle"

\* runtime-agent-handoff.test.ts: "marks tool-surfaced Error results as error":
\* a specialist whose last tools failed hands off "error".
ToolErrorsAreHandedOff ==
    [][Finalize /\ agentMessages.failed /\ stepCount < MaxSteps[next]
          /\ lastHandoff'.status # "empty"
       => lastHandoff'.status = "error"]_vars

\* ARCHITECTURE.md: an empty handoff makes the supervisor synthesize a reply.
EmptyHandoffsAreSummarized ==
    [][node = "supervisor" /\ lastHandoff.status = "empty" /\ node' # "idle"
          /\ node' # node
       => next' = "empty_reply"]_vars

\* supervisor-node.test.ts: "re-invokes the LLM after a multi-specialist turn so
\* the supervisor can synthesize".
ManySpecialistsAreSynthesized == [][DirectFinish => ~plannedMany]_vars

\* supervisor-node.test.ts:653: "blocks an immediate non-affirmative repeat route to
\* the same agent after handoff", whatever the plan.
RepeatsAreBlocked ==
    [][StartsAgain /\ HandoffComplete => CanAutoRetry \/ intent = "again"]_vars
=============================================================================
