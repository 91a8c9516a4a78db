---------------------------- MODULE RuntimeRecompile ----------------------------
(***************************************************************************)
(* A process that runs a graph compiled from the files of AgentFiles and   *)
(* recompiles it when the definitions change (create-supervisor-runtime.ts *)
(* and runtime-agent-watcher.ts).  It is the scheduler's process; the bot  *)
(* does the same with its own graph.                                       *)
(*                                                                         *)
(* The process reads the files, builds its graph, and only then starts to  *)
(* watch.  A change of the JSON file starts a timer; the timer queues a    *)
(* recompile behind the ones in flight.  A recompile reads the             *)
(* definitions, drops those without a prompt, compares what is left with   *)
(* the graph it has, and, if they differ, closes the old adapters, opens   *)
(* new ones and builds a new graph from what it has read.  It waits for    *)
(* files and sessions in between, while the bot goes on writing.  Adapters *)
(* are the sessions with the expense database, which may not come up, and  *)
(* the store of the cron runs, from which the scheduler took its ledger    *)
(* when it started.                                                        *)
(***************************************************************************)
EXTENDS AgentFiles

CONSTANTS
    Finance,    \* the wirings whose tools need the sessions
    Readers,    \* those that have them by the capability that can be granted
    MaxChain    \* recompiles queued (bound)

ASSUME FinanceAssumption == Readers \subseteq Finance /\ Finance \subseteq Wirings
ASSUME ChainAssumption == MaxChain \in Nat

VARIABLES
    watching,   \* the watcher has been started
    missed,     \* the file has changed before that, and has not been read since
    timer,      \* the watcher's timer is running
    chain,      \* recompiles that await their turn
    step,       \* where the running recompile stands
    read,       \* the definitions it has read, then those of them that have a prompt
    print,      \* the fingerprint: print[a] is the wiring of agent a, as a set
    graph,      \* graph[a]: the wiring and the prompt of a's nodes, as a set
    sessions,   \* the adapters of the graph have the sessions
    basis,      \* whether there were sessions when the graph was last compared
    ledgerOpen, \* the store whose ledger the scheduler has is open
    failed      \* the last recompile that was to change the graph threw

graphVars == <<print, graph, sessions, basis, ledgerOpen>>
runtime == <<watching, missed, timer, chain, step, read, failed>>
vars == <<fileVars, graphVars, runtime>>

\* isAvailable of the capability providers.
Available(w, got) == w \in Finance => got

\* The filter of enabled agents, after applyIntegrationAvailability.
Enabled(d, got) == d.enabled /\ Available(d.wiring, got)
Wired(l, got) == [a \in Agents |-> {d.wiring : d \in {e \in l[a] : Enabled(e, got)}}]

\* applyPromptFileAvailability
WithPrompt(l) == [a \in Agents |-> IF prompts[a] = {} THEN {} ELSE l[a]]

Prepared(got) == Wired(WithPrompt(file), got)

NoAgents == [a \in Agents |-> {}]

\* createGraphBundle takes the prompt with it.
Bundle(a, w) == [wiring : w, text : prompts[a]]
Nodes(w) == [a \in Agents |-> Bundle(a, w[a])]

Init ==
    /\ FileInit
    /\ sessions = FALSE /\ basis = FALSE
    /\ print = NoAgents /\ graph = NoAgents
    /\ watching = FALSE /\ missed = FALSE
    /\ timer = FALSE /\ chain = 0 /\ step = "boot" /\ read = NoAgents
    /\ ledgerOpen = FALSE /\ failed = FALSE

\* watch: the rename of the JSON file is the event that counts; prompts are elsewhere.
Edits ==
    \/ /\ \E c \in Calls : WriteJson(c)
       /\ IF watching THEN timer' = TRUE /\ UNCHANGED missed ELSE missed' = TRUE /\ UNCHANGED timer
    \/ /\ BotCrashes \/ \E c \in Calls : Ask(c) \/ Load(c) \/ WritePrompt(c) \/ Fails(c)
       /\ UNCHANGED <<missed, timer>>

BotStep == Edits /\ UNCHANGED <<graphVars, watching, chain, step, read, failed>>

\* setupSupabaseSessions does without the sessions when they do not come up.
SessionsSetUp == {TRUE, FALSE}

\* validateGrantableIds; the capability reserved for an agent is not among them.
Granted(w, got) == w \in Readers => Available(w, got)

\* validatePersistedAgentCapabilities: the agents of l, those that are not enabled too.
Validated(l, got) == \A a \in Agents : \A d \in l[a] : Granted(d.wiring, got)

\* resolveAgentTools, for the agents that get nodes.
Resolved(w, got) == \A a \in Agents : \A x \in w[a] : Available(x, got)

\* bootstrapSupervisorSystem when the process starts: the agents are prepared for the
\* sessions there are.  What it throws ends the process.
Boot ==
    /\ step = "boot"
    /\ missed' = FALSE
    /\ \E got \in SessionsSetUp :
          LET w == Prepared(got) IN
          IF Validated(WithPrompt(file), got) /\ Resolved(w, got)
          THEN /\ step' = "idle" /\ ledgerOpen' = TRUE
               /\ print' = w /\ graph' = Nodes(w) /\ sessions' = got /\ basis' = got
          ELSE step' = "down" /\ UNCHANGED graphVars
    /\ UNCHANGED <<fileVars, watching, timer, chain, read, failed>>

\* watchRuntimeAgentDefinitions
Watch ==
    /\ ~watching /\ step \notin {"boot", "down"} /\ watching' = TRUE
    /\ UNCHANGED <<fileVars, graphVars, missed, timer, chain, step, read, failed>>

\* The timer's callback, and recompile: one more link of the chain.
Linked_WhenIdle == IF step = "idle" THEN chain + 1 ELSE chain
Linked == chain + 1

Fire ==
    /\ timer /\ chain < MaxChain
    /\ timer' = FALSE /\ chain' = Linked
    /\ UNCHANGED <<fileVars, graphVars, watching, missed, step, read, failed>>

\* The next link starts whatever became of the one before.
MayStart_Unasked == step = "idle"
MayStart_IfResolved == chain > 0 /\ step = "idle" /\ ~failed
MayStart == chain > 0 /\ step = "idle"

\* doRecompile: loadAgents has read the file.
ReadAgents ==
    /\ MayStart
    /\ chain' = chain - 1 /\ step' = "prepare" /\ read' = file /\ missed' = FALSE
    /\ UNCHANGED <<fileVars, graphVars, watching, timer, failed>>

\* closePersonalAdapters; closed sessions connect again when they are used.
CloseAdapters == ledgerOpen' = FALSE

\* prepareRuntimeAgents; the comparison; onBeforeRecompile.
Compare ==
    /\ step = "prepare"
    /\ basis' = sessions
    /\ IF Wired(WithPrompt(read), sessions) = print
       THEN step' = "idle" /\ read' = NoAgents /\ failed' = FALSE /\ UNCHANGED ledgerOpen
       ELSE step' = "build" /\ read' = WithPrompt(read) /\ CloseAdapters /\ UNCHANGED failed
    /\ UNCHANGED <<fileVars, print, graph, sessions, watching, missed, timer, chain>>

\* loadPromptByKey throws.
PromptGone(next) == \E a \in Agents : next[a] # {} /\ prompts[a] = {}

PrintAfter(next, built) == IF built THEN next ELSE print

\* bootstrapSupervisorSystem, from setupAdapters on, where the store may not open.
Build ==
    /\ step = "build" /\ step' = "idle" /\ read' = NoAgents
    /\ LET next == Wired(read, basis) IN
       \E got \in SessionsSetUp, built \in BOOLEAN :
          /\ built => ~PromptGone(next) /\ Validated(read, got) /\ Resolved(next, got)
          /\ print' = PrintAfter(next, built)
          /\ IF built THEN graph' = Nodes(next) /\ sessions' = got ELSE UNCHANGED <<graph, sessions>>
          /\ failed' = ~built
    /\ UNCHANGED <<fileVars, basis, ledgerOpen, watching, missed, timer, chain>>

RuntimeStep == Boot \/ Watch \/ Fire \/ ReadAgents \/ Compare \/ Build

Next == BotStep \/ RuntimeStep

Spec == Init /\ [][Next]_vars /\ WF_vars(RuntimeStep) /\ \A c \in Calls : WF_fileVars(CallStep(c))

(***************************************************************************)
(* Properties.                                                             *)
(***************************************************************************)
\* Every variable has its type.
TypeOK ==
    /\ FileTypeOK
    /\ timer \in BOOLEAN /\ chain \in 0..MaxChain /\ step \in {"boot", "down", "idle", "prepare", "build"}
    /\ read \in Listings
    /\ print \in [Agents -> SUBSET Wirings]
    /\ graph \in [Agents -> SUBSET [wiring : Wirings, text : Calls \cup {Shipped}]]
    /\ {watching, missed, sessions, basis, ledgerOpen, failed} \subseteq BOOLEAN

Wiring(a) == {n.wiring : n \in graph[a]}
Quiet == watching /\ ~timer /\ chain = 0 /\ step = "idle"

\* A call on a stands between its two writes, or was cut off there.
Disturbed(a) ==
    \E c \in Calls : prompted[c] /\ request[c].agent = a /\ stage[c] \in {"json"} \cup Cut

\* When nothing is under way, the graph has the specialists that the files ask for,
\* whatever was written while a recompile was reading, closing or building: but for
\* an agent whose two writes were cut apart, after a recompile that threw, and for
\* what was written before the watcher started.
GraphIsCurrent ==
    Quiet /\ ~failed /\ ~missed => \A a \in Agents : Disturbed(a) \/ Wiring(a) = Prepared(basis)[a]

\* A recompile that throws does not hold up those behind it.
Settles == <>[](Quiet \/ step = "down")

\* README.md: "Prompts are read from disk on each invocation".
PromptIsRead ==
    Quiet /\ ~failed => \A a \in Agents : Disturbed(a) \/ \A n \in graph[a] : prompts[a] = {n.text}

\* The scheduler's ledger can be used.
LedgerStaysOpen == watching => ledgerOpen

\* ARCHITECTURE.md: "Finance gracefully degrades: if Supabase is unconfigured, the finance
\* agent is disabled at bootstrap"; the process does not end.
FinanceDegrades == step # "down"
=============================================================================
