---------------------------- MODULE MessageHistory ----------------------------
(***************************************************************************)
(* The two message channels of a turn (state.ts).  The supervisor's holds  *)
(* what users asked and what was answered; a specialist begins with the    *)
(* part of it that concerns it and the supervisor's brief, and adds its    *)
(* calls of tools and their results.  Every update of either is reduced:   *)
(* results that have been acted upon give way to markers                   *)
(* (message-compaction.ts), and a history over the budget loses its        *)
(* beginning (message-trimming.ts).                                        *)
(*                                                                         *)
(* A message is what it costs, who it is by, the ids of the tool calls it  *)
(* makes and the id of the one it answers.                                 *)
(***************************************************************************)
EXTENDS Integers, Sequences, FiniteSetsExt

CONSTANTS
    Agents,
    Sizes,          \* what a message may cost, in tokens
    MaxTokens,      \* messageHistoryMaxTokens
    MarkerTokens,   \* what the marker of a result costs
    HumanTurns,     \* SUB_AGENT_CONTEXT_HUMAN_TURNS
    MaxAsked,       \* questions of users (bound)
    MaxDelegated,   \* delegations in a turn (bound)
    MaxCalls        \* calls of tools in a delegation (bound)

ASSUME TokensAssumption ==
    {MaxTokens, MarkerTokens, HumanTurns, MaxCalls} \cup Sizes \subseteq Nat \ {0}
ASSUME NamesAssumption == {"user", "supervisor"} \cap Agents = {}

VARIABLES
    messages,       \* the supervisor's channel
    agentMessages,  \* the specialist's
    stage,          \* who is at work
    agent,          \* the specialist
    called,         \* ids of calls used in this delegation
    asked,
    delegated       \* delegations in this turn

historyVars == <<messages, agentMessages, stage, agent, called, asked, delegated>>

(***************************************************************************)
(* Messages.                                                               *)
(***************************************************************************)
Human(by, n) ==
    [kind |-> "human", by |-> by, tokens |-> n, calls |-> {}, answers |-> 0, text |-> TRUE, raw |-> TRUE]
Ai(by, n, calls, text) ==
    [kind |-> "ai", by |-> by, tokens |-> n, calls |-> calls, answers |-> 0, text |-> text, raw |-> TRUE]
Result(id, n) ==
    [kind |-> "tool", by |-> "tool", tokens |-> n, calls |-> {}, answers |-> id, text |-> TRUE, raw |-> TRUE]

OfKind(h, kind) == {i \in DOMAIN h : h[i].kind = kind}
Highest(S) == IF S = {} THEN 0 ELSE Max(S)

\* The messages of h whose indexes are in S.
Picked(h, S) ==
    LET Rank(i) == Cardinality({j \in S : j <= i})
    IN [n \in 1..Cardinality(S) |-> h[CHOOSE i \in S : Rank(i) = n]]

(***************************************************************************)
(* message-compaction.ts.                                                  *)
(***************************************************************************)
\* The results of the calls of message i that directly follow it (getToolBatchEndIndex).
Batch(h, i) == {j \in (i + 1)..Len(h) : \A k \in (i + 1)..j : h[k].answers \in h[i].calls}

\* isAgentToolLoopInFlight: the last message is a result, makes calls, or is empty.
InFlight(h) ==
    h # <<>> /\ LET last == h[Len(h)] IN
        last.kind = "tool" \/ (last.kind = "ai" /\ (last.calls # {} \/ ~last.text))

Consuming(m) == m.kind # "tool" /\ (m.kind = "ai" => (m.text \/ m.calls # {}))

\* collectConsumedToolIndexes: the batches that what comes next has made use of.
Consumed(h) ==
    UNION {Batch(h, i) : i \in {i \in DOMAIN h :
        \E n \in DOMAIN h : n - 1 \in Batch(h, i) /\ n \notin Batch(h, i) /\ Consuming(h[n])}}

Marker(m) == [m EXCEPT !.tokens = MarkerTokens, !.raw = FALSE]

WithMarkers(h) == [i \in DOMAIN h |-> IF i \in Consumed(h) THEN Marker(h[i]) ELSE h[i]]
Compact_InFlight(h) == WithMarkers(h)
Compact(h) == IF InFlight(h) THEN h ELSE WithMarkers(h)

(***************************************************************************)
(* message-trimming.ts.                                                    *)
(***************************************************************************)
\* What the messages from s on cost: estimateMessageTokens.
Tokens(h, s) == Cardinality(UNION {{i} \X (1..h[i].tokens) : i \in s..Len(h)})
Fits(h, s) == Tokens(h, s) <= MaxTokens

\* findLatestHumanIndex, findActiveToolCallIndex: 0 if there is none.
LatestHuman(h) == Highest(OfKind(h, "human"))
ActiveCall(h) == Highest({i \in DOMAIN h : h[i].calls # {} /\ (i + 1)..Len(h) = Batch(h, i)})

\* buildFallbackMessages
Fallback(h) ==
    IF LatestHuman(h) > 0 THEN LatestHuman(h) ELSE IF ActiveCall(h) > 0 THEN ActiveCall(h) ELSE Len(h)

\* trimLastMaxTokensSync: the first human message from which the rest fits.
Window(h) ==
    LET fitting == {i \in OfKind(h, "human") : Fits(h, i)}
    IN IF fitting = {} THEN Fallback(h) ELSE Min(fitting)

\* The check that the latest human message is kept.
Retained(h) ==
    IF LatestHuman(h) > 0 /\ Window(h) > LatestHuman(h)
    THEN IF Fits(h, LatestHuman(h)) \/ ActiveCall(h) > 0 THEN LatestHuman(h) ELSE Fallback(h)
    ELSE Window(h)

\* stripOrphanedLeadingToolMessages
Stripped(h, s) ==
    Min({i \in s..Len(h) : h[i].kind # "tool" \/ i = ActiveCall(h)} \cup {Len(h) + 1})

FirstKept_Call(h) ==
    IF ActiveCall(h) > 0 /\ ~Fits(h, ActiveCall(h)) THEN ActiveCall(h) ELSE Stripped(h, Retained(h))
FirstKept(h) ==
    LET active == ActiveCall(h)
        latest == LatestHuman(h)
    IN IF active > 0 /\ ~Fits(h, active)
       THEN IF latest \in 1..(active - 1) THEN latest ELSE active
       ELSE Stripped(h, Retained(h))

Trim(h) == IF Fits(h, 1) THEN h ELSE SubSeq(h, FirstKept(h), Len(h))

\* createReduceAgentMessages, of messages that are new.
Reduce(left, right) == Trim(Compact(left \o right))

(***************************************************************************)
(* sub-agent-messages.ts: what of the conversation a specialist is given.  *)
(***************************************************************************)
\* Its own replies, and the human messages that they answer or that nobody has answered.
Owned(h, a) ==
    {i \in DOMAIN h :
        \/ h[i].kind = "ai" /\ h[i].by = a
        \/ h[i].kind = "human" /\ (i = Len(h) \/ (h[i + 1].kind = "ai" /\ h[i + 1].by = a))}

\* The latest human message comes last, if another specialist has answered it.
WithLatest(h, a) ==
    Picked(h, Owned(h, a)) \o
    (IF LatestHuman(h) \in Owned(h, a) \cup {0} THEN <<>> ELSE <<h[LatestHuman(h)]>>)

Recent(h) ==
    LET humans == OfKind(h, "human")
        first  == {i \in humans : Cardinality({j \in humans : j >= i}) <= HumanTurns}
    IN IF humans = {} THEN h ELSE SubSeq(h, Min(first), Len(h))

\* collapseConsecutiveAssistantMessages
Collapsed(h) == Picked(h, {i \in DOMAIN h : ~(h[i].kind = "ai" /\ i + 1 \in OfKind(h, "ai"))})

Scoped(h, a) == Collapsed(Recent(WithLatest(h, a)))

(***************************************************************************)
(* The turn.                                                               *)
(***************************************************************************)
HistoryInit ==
    /\ messages = <<>> /\ agentMessages = <<>>
    /\ stage = "idle" /\ agent \in Agents /\ called = 0 /\ asked = 0 /\ delegated = 0

\* A message of a user, or of the cron runner.
UserAsks(n) ==
    /\ stage = "idle" /\ asked < MaxAsked
    /\ messages' = Reduce(messages, <<Human("user", n)>>)
    /\ stage' = "supervisor" /\ asked' = asked + 1 /\ delegated' = 0
    /\ UNCHANGED <<agentMessages, agent, called>>

\* createRuntimeAgentPrepareNode: Overwrite is not reduced.
Prepare(a, brief) ==
    /\ stage = "supervisor" /\ delegated < MaxDelegated
    /\ agentMessages' = Scoped(messages, a) \o brief
    /\ stage' = "llm" /\ agent' = a /\ called' = 0 /\ delegated' = delegated + 1
    /\ UNCHANGED <<messages, asked>>

\* A model's answer: k calls, or none.
ModelAnswers(k, n, text) ==
    /\ stage = "llm" /\ called + k <= MaxCalls
    /\ agentMessages' = Reduce(agentMessages, <<Ai(agent, n, (called + 1)..(called + k), text)>>)
    /\ called' = called + k
    /\ stage' = IF k = 0 THEN "finalize" ELSE "tools"
    /\ UNCHANGED <<messages, agent, asked, delegated>>

\* ToolNode answers all the calls of the last message; then the model, or no more steps.
ToolsAnswer(sizes) ==
    /\ stage = "tools"
    /\ LET ids == agentMessages[Len(agentMessages)].calls
           first == Min(ids)
       IN agentMessages' = Reduce(agentMessages, [j \in 1..Cardinality(ids) |-> Result(first + j - 1, sizes[j])])
    /\ stage' \in {"llm", "finalize"}
    /\ UNCHANGED <<messages, agent, called, asked, delegated>>

\* createRuntimeAgentFinalizeNode: an empty handoff leaves no message.
Finalize(handoff) ==
    /\ stage = "finalize"
    /\ messages' = IF handoff = <<>> THEN messages ELSE Reduce(messages, handoff)
    /\ agentMessages' = <<>> /\ stage' = "supervisor"
    /\ UNCHANGED <<agent, called, asked, delegated>>

SupervisorReplies(n) ==
    /\ stage = "supervisor"
    /\ messages' = Reduce(messages, <<Ai("supervisor", n, {}, TRUE)>>)
    /\ stage' = "idle"
    /\ UNCHANGED <<agentMessages, agent, called, asked, delegated>>

\* The turn ends on what the specialist said, with an error, or with the process.
TurnAborts ==
    /\ stage # "idle" /\ stage' = "idle"
    /\ UNCHANGED <<messages, agentMessages, agent, called, asked, delegated>>

HistoryNext ==
    \/ \E n \in Sizes : UserAsks(n) \/ SupervisorReplies(n)
    \/ \E a \in Agents : \E brief \in {<<>>} \cup {<<Human("supervisor", n)>> : n \in Sizes} : Prepare(a, brief)
    \/ \E n \in Sizes, k \in 0..MaxCalls, text \in BOOLEAN : ModelAnswers(k, n, text)
    \/ \E sizes \in [1..MaxCalls -> Sizes] : ToolsAnswer(sizes)
    \/ \E handoff \in {<<>>} \cup {<<Ai(agent, n, {}, TRUE)>> : n \in Sizes} : Finalize(handoff)
    \/ TurnAborts

HistorySpec == HistoryInit /\ [][HistoryNext]_historyVars

(***************************************************************************)
(* Properties.                                                             *)
(***************************************************************************)
\* A result follows its call with nothing but results of the same message between, a call that
\* is not the last message has all its results, and while the specialist is at work each of them
\* can be read: no update cuts a batch in two, whatever it costs.
BatchesStayWhole ==
    LET h == agentMessages IN
    /\ \A t \in OfKind(h, "tool") : \E i \in OfKind(h, "ai") : t \in Batch(h, i)
    /\ \A i \in DOMAIN h : i # Len(h) => h[i].calls = {h[j].answers : j \in Batch(h, i)}
    /\ stage \in {"llm", "tools"} => \A i \in DOMAIN h : h[i].raw

\* An update drops whole turns from the beginning of a history, and only those without which
\* the budget would not hold: never what follows the latest human message, which is kept
\* though it may exceed the budget.
SameMessage(m, k) == [m EXCEPT !.tokens = 0, !.raw = TRUE] = [k EXCEPT !.tokens = 0, !.raw = TRUE]
DropsOldTurns(h, g) ==
    \E d \in 0..Len(h) :
        /\ Len(g) > Len(h) - d /\ \A i \in (d + 1)..Len(h) : SameMessage(g[i - d], h[i])
        /\ d > 0 => g[1].kind = "human"
        /\ Fits(g, 1) \/ LatestHuman(g) = 1
        /\ \A i \in 1..d : h[i].kind = "human" => ~Fits(SubSeq(h, i, d) \o g, 1)
OnlyOldTurnsGo ==
    [][/\ messages' # messages => DropsOldTurns(messages, messages')
       /\ stage \in {"llm", "tools"} /\ stage' # "idle" => DropsOldTurns(agentMessages, agentMessages')]_historyVars

\* message-trimming.ts: the latest human message is retained "so tool-heavy turns cannot drop the
\* user request".
RequestStays ==
    stage \in {"llm", "tools"} => \E i \in DOMAIN agentMessages : agentMessages[i].by = "user"
=============================================================================
