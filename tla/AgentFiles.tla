------------------------------ MODULE AgentFiles ------------------------------
(***************************************************************************)
(* The repository of specialists (core/agents/repository.ts): a JSON file  *)
(* of definitions and one prompt file for each of them (prompt-store.ts).  *)
(* The calls that change it run one after another in the bot's process     *)
(* (withSerializedFileWrite of core/persistence/json-store.ts); the        *)
(* scheduler's process only reads.                                         *)
(*                                                                         *)
(* Every write goes to a temporary file that is then renamed: a file has   *)
(* its old content or its new one.  The two files of an agent are written  *)
(* one after the other, and the process or the disk may fail in between.   *)
(* A call is a tool call of the configuration agent whose capabilities and *)
(* confirmation token are in order.  The ids do not include that of the    *)
(* configuration agent, which the wrapper of system-agent/repository.ts    *)
(* keeps out of the file.                                                  *)
(***************************************************************************)
EXTENDS Sequences, Naturals

CONSTANTS
    Calls,
    Agents,
    Wirings,    \* what the graph of an agent depends on: model, steps, capabilities
    Shipped,    \* the text of the prompts the application comes with
    NoRequest   \* a call that has not been made

Defs == [wiring : Wirings, enabled : BOOLEAN]

\* What a call asks for, and whether the prompt file is to change.
Requests == {q \in [kind : {"create", "update", "delete"}, agent : Agents, def : Defs, prompt : BOOLEAN] :
                q.kind = "update" \/ q.prompt}

ASSUME ShippedAssumption == Shipped \notin Calls

VARIABLES
    file,       \* file[a]: the definition of agent a in the JSON file, as a set
    prompts,    \* prompts[a]: the text in a's prompt file, as a set: the call that wrote it
    request,    \* request[c]: what call c asks for
    stage,      \* stage[c]: where call c is
    loaded,     \* loaded[c]: the content of the JSON file that call c has read
    prompted,   \* prompted[c]: whether c has written or removed the prompt file
    queue       \* the calls that hold or await the file's write lock

fileVars == <<file, prompts, request, stage, loaded, prompted, queue>>

Listings == [Agents -> {{}} \cup {{d} : d \in Defs}]

Working == {"prompt", "json"}
Pending == {"queued"} \cup Working
Cut     == {"failed", "lost"}

FileInit ==
    /\ file \in Listings
    /\ prompts = [a \in Agents |-> IF file[a] = {} THEN {} ELSE {Shipped}]
    /\ request = [c \in Calls |-> NoRequest]
    /\ stage = [c \in Calls |-> "idle"]
    /\ loaded = [c \in Calls |-> file]
    /\ prompted = [c \in Calls |-> FALSE]
    /\ queue = <<>>

Goto(c, s) == stage' = [stage EXCEPT ![c] = s]

\* withSerializedFileWrite: the operation waits for all that were queued before.
Ask(c) ==
    /\ stage[c] = "idle"
    /\ Goto(c, "queued")
    /\ \E q \in Requests : request' = [request EXCEPT ![c] = q]
    /\ queue' = Append(queue, c)
    /\ UNCHANGED <<file, prompts, loaded, prompted>>

HasLock_Always(c) == TRUE
HasLock(c) == queue # <<>> /\ Head(queue) = c

\* The lock is released whatever the operation comes to.
Ends(c, s) == Goto(c, s) /\ queue' = Tail(queue)

Admits(l, q) == (q.kind = "create") = (l[q.agent] = {})

\* loadAgents, then validateUniqueAgentId or the search for the id.
Load(c) ==
    /\ stage[c] = "queued" /\ HasLock(c)
    /\ \/ /\ ~Admits(file, request[c])
          /\ Ends(c, "refused")
          /\ UNCHANGED loaded
       \/ /\ Admits(file, request[c])
          /\ Goto(c, IF request[c].prompt THEN "prompt" ELSE "json")
          /\ loaded' = [loaded EXCEPT ![c] = file]
          /\ UNCHANGED queue
    /\ UNCHANGED <<file, prompts, request, prompted>>

\* persistPromptUpdate, or the prompt store's delete.
WritePrompt_Leaves(c) ==
    /\ stage[c] = "prompt"
    /\ prompts' = [prompts EXCEPT ![request[c].agent] = IF request[c].kind = "delete" THEN @ ELSE {c}]
    /\ prompted' = [prompted EXCEPT ![c] = TRUE]
    /\ Goto(c, "json")
    /\ UNCHANGED <<file, request, loaded, queue>>

WritePrompt(c) ==
    /\ stage[c] = "prompt"
    /\ prompts' = [prompts EXCEPT ![request[c].agent] = IF request[c].kind = "delete" THEN {} ELSE {c}]
    /\ prompted' = [prompted EXCEPT ![c] = TRUE]
    /\ Goto(c, "json")
    /\ UNCHANGED <<file, request, loaded, queue>>

\* What was read, with the call's change.
Changed(l, q) == [l EXCEPT ![q.agent] = IF q.kind = "delete" THEN {} ELSE {q.def}]

\* writeDocumentAtomically.
WriteJson(c) ==
    /\ stage[c] = "json"
    /\ file' = Changed(loaded[c], request[c])
    /\ Ends(c, "ok")
    /\ UNCHANGED <<prompts, request, loaded, prompted>>

\* A call of the file system fails.
Fails(c) ==
    /\ HasLock(c) /\ stage[c] \in Pending
    /\ Ends(c, "failed")
    /\ UNCHANGED <<file, prompts, request, loaded, prompted>>

\* The bot's process ends; the queue is gone with it.
BotCrashes ==
    /\ queue # <<>>
    /\ stage' = [c \in Calls |-> IF stage[c] \in Pending THEN "lost" ELSE stage[c]]
    /\ queue' = <<>>
    /\ UNCHANGED <<file, prompts, request, loaded, prompted>>

CallStep(c) == Load(c) \/ WritePrompt(c) \/ WriteJson(c) \/ Fails(c)

FileNext == BotCrashes \/ \E c \in Calls : Ask(c) \/ CallStep(c)

FileSpec == FileInit /\ [][FileNext]_fileVars /\ \A c \in Calls : WF_fileVars(CallStep(c))

(***************************************************************************)
(* Properties.                                                             *)
(***************************************************************************)
\* Every variable has its type.
FileTypeOK ==
    /\ file \in Listings /\ loaded \in [Calls -> Listings]
    /\ prompts \in [Agents -> SUBSET (Calls \cup {Shipped})]
    /\ request \in [Calls -> Requests \cup {NoRequest}]
    /\ stage \in [Calls -> {"idle", "ok", "refused"} \cup Pending \cup Cut]
    /\ prompted \in [Calls -> BOOLEAN]
    /\ queue \in Seq(Calls)

Outcome(s) == IF s = "idle" THEN "none" ELSE IF s \in Pending THEN "pending" ELSE s

Registry == INSTANCE AgentRegistry WITH
    registry <- file,
    outcome  <- [c \in Calls |-> Outcome(stage[c])]

\* The files implement the registry: although a call reads, writes a prompt and writes
\* the JSON file in steps of its own, no update is lost, no call acts on what another
\* has changed meanwhile, and every call is answered, after failures too.
ImplementsRegistry == Registry!Spec

\* An agent that is listed has a prompt, and a prompt has its agent, except while a
\* call is between its two writes, and where a crash or a failure cut one off there.
TornOnlyByCut ==
    \A a \in Agents :
        \/ (file[a] = {}) = (prompts[a] = {})
        \/ \E c \in Calls : prompted[c] /\ request[c].agent = a /\ stage[c] \in {"json"} \cup Cut
=============================================================================
