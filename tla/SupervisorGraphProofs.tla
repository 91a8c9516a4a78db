----------------------- MODULE SupervisorGraphProofs -----------------------
(***************************************************************************)
(* Theorems about SupervisorGraph, for any agents, plans and bounds.  The  *)
(* routing model may answer any plan, one that names an agent twice too.   *)
(***************************************************************************)
EXTENDS SupervisorGraph, TLAPS, Functions

LEMMA QueueFacts ==
    ASSUME NEW s \in Seq(Agents), s # <<>>
    PROVE  /\ Head(s) \in Agents
           /\ Tail(s) \in Seq(Agents)
           /\ Len(s) \in Nat
  OBVIOUS

LEMMA RoutablePlanFacts ==
    ASSUME NEW plan \in RoutablePlans, TypeOK
    PROVE  /\ plan \in Seq(Agents)
           /\ plan # <<>>
           /\ Head(plan) \in wired
           /\ Tail(plan) # <<>> => Head(Tail(plan)) \in wired
  <1>1. plan \in Seq(Agents) /\ plan # <<>>
    BY PlansAssumption DEF RoutablePlans
  <1>2. Head(plan) \in wired
    BY <1>1 DEF RoutablePlans
  <1>3. ASSUME Tail(plan) # <<>> PROVE Head(Tail(plan)) \in wired
    <2>1. 2 \in DOMAIN plan /\ Head(Tail(plan)) = plan[2]
      BY <1>1, <1>3
    <2> QED BY <2>1 DEF RoutablePlans
  <1> QED BY <1>1, <1>2, <1>3
(***************************************************************************)
(* Type correctness.                                                       *)
(***************************************************************************)
\* Starting a well-formed plan leaves well-formed channels.
LEMMA EnqueueKeepsTypes ==
    ASSUME TypeOK, NEW plan \in Seq(Agents), plan # <<>>, NEW continuing \in BOOLEAN,
           steps < RecursionLimit, EnqueueAndStart(plan, continuing), retryCount' \in Nat,
           attempts' \in Nat, twice' \subseteq Agents
    PROVE  TypeOK'
  <1>1. Head(plan) \in Agents /\ Tail(plan) \in Seq(Agents) /\ Len(plan) \in Nat
    BY QueueFacts
  <1>2. steps + 1 \in 0..RecursionLimit
    BY BoundsAssumption DEF TypeOK, Workspaces
  <1> QED
    BY <1>1, <1>2 DEF TypeOK, Workspaces, EnqueueAndStart, Advance, SpecialistNodes, ReplyNodes, NoHandoff,
       workspaceVars, turnVars, repoVars

LEMMA TypeInit == Init => TypeOK
  <1> SUFFICES ASSUME Init PROVE TypeOK
    OBVIOUS
  <1>1. multiSpecialistTurn \in BOOLEAN /\ plannedMany \in BOOLEAN
    BY Zenon DEF Init
  <1>2. agentMessages \in Workspaces
    BY DEF Init, NoMessages, Workspaces
  <1>3. /\ node = "idle" /\ next = "FINISH" /\ outcome = "none" /\ steps = 0
        /\ executionQueue = <<>> /\ lastHandoff = NoHandoff
        /\ retryCount = 0 /\ stepCount = 0 /\ handoffStatus = "none"
        /\ intent = "request" /\ cronRoute = "none" /\ lastReply = "none"
        /\ thread = "new" /\ turns = 0 /\ aborts = 0 /\ edits = 0
        /\ enabled = Agents /\ wired = Agents /\ attempts = 0 /\ twice = {}
    BY Zenon DEF Init
  <1> QED
    BY <1>1, <1>2, <1>3, BoundsAssumption DEF TypeOK, SpecialistNodes

\* The steps of the supervisor that do not start a specialist, and the reply nodes.
LEMMA TypeRouting ==
    ASSUME TypeOK,
           SummarizeEmpty \/ DequeueUnwired \/ ConfigurationFinish \/ DirectFinish
           \/ SupervisorReply \/ RoutingFailure \/ Reply \/ RecursionLimitReached
           \/ Abort \/ \E plan \in RoutablePlans : BlockRepeat(plan)
    PROVE  TypeOK'
  <1> USE BoundsAssumption DEF TypeOK, Workspaces, SpecialistNodes, ReplyNodes, NoHandoff,
          workspaceVars, turnVars, repoVars, historyVars, planVars
  <1>0. ASSUME ClearDelegation PROVE lastHandoff' = NoHandoff /\ multiSpecialistTurn' \in BOOLEAN
    BY <1>0, Zenon DEF ClearDelegation
  <1>1. CASE SummarizeEmpty
    BY <1>1 DEF SummarizeEmpty, ToReplyNode, Advance, Runs
  <1>2. CASE DequeueUnwired
    BY <1>2 DEF DequeueUnwired, EndTurn
  <1>3. CASE ConfigurationFinish
    BY <1>3 DEF ConfigurationFinish, ToReplyNode, Advance, Runs
  <1>4. CASE DirectFinish
    BY <1>0, <1>4 DEF DirectFinish, FinishWith, EndTurn
  <1>5. CASE SupervisorReply
    BY <1>0, <1>5 DEF SupervisorReply, FinishWith, EndTurn
  <1>6. CASE RoutingFailure
    BY <1>6 DEF RoutingFailure, ConsultsModel, ToReplyNode, Advance, Runs
  <1>7. CASE Reply
    BY <1>0, <1>7 DEF Reply, EmptyReply, FailureReply, PostHandoffFinish, ReplyAndEnd, EndTurn
  <1>8. CASE RecursionLimitReached
    BY <1>8 DEF RecursionLimitReached, EndTurn
  <1>9. CASE Abort
    BY <1>9 DEF Abort, EndTurn
  <1>10. ASSUME NEW plan \in RoutablePlans, BlockRepeat(plan) PROVE TypeOK'
    BY <1>10 DEF BlockRepeat, ConsultsModel, ToReplyNode, Advance, Runs
  <1> QED BY <1>1, <1>2, <1>3, <1>4, <1>5, <1>6, <1>7, <1>8, <1>9, <1>10

LEMMA AdoptKeepsTypes ==
    ASSUME TypeOK, NEW plan, Adopt(plan)
    PROVE  attempts' \in Nat /\ twice' \subseteq Agents
  BY DEF TypeOK, Adopt, Attempt, Repeated

LEMMA TypeStarting ==
    ASSUME TypeOK,
           CronRoute \/ Dequeue
           \/ \E plan \in RoutablePlans : AutoRetry(plan) \/ SkipRepeat(plan) \/ Delegate(plan)
    PROVE  TypeOK'
  <1>1. CASE CronRoute
    <2>1. <<cronRoute>> \in Seq(Agents) /\ <<cronRoute>> # <<>>
      BY <1>1 DEF CronRoute, CronTriggered, TypeOK, Workspaces
    <2> QED
      BY <1>1, <2>1, EnqueueKeepsTypes, AdoptKeepsTypes, 0 \in Nat DEF CronRoute, Runs
  <1>2. CASE Dequeue
    BY <1>2, EnqueueKeepsTypes, 0 \in Nat, 1 \in Nat DEF Dequeue, Dequeues, Runs, TypeOK, Workspaces
  <1>3. ASSUME NEW plan \in RoutablePlans, AutoRetry(plan) PROVE TypeOK'
    <2>1. retryCount' \in Nat
      BY <1>3 DEF AutoRetry, TypeOK, Workspaces
    <2> QED
      BY <1>3, <2>1, RoutablePlanFacts, EnqueueKeepsTypes, AdoptKeepsTypes
      DEF AutoRetry, ConsultsModel, Runs
  <1>4. ASSUME NEW plan \in RoutablePlans, SkipRepeat(plan) PROVE TypeOK'
    <2>1. Tail(plan) \in Seq(Agents) /\ Tail(plan) # <<>>
      BY <1>4, RoutablePlanFacts, QueueFacts DEF SkipRepeat
    <2>2. attempts' \in Nat /\ twice' \subseteq Agents
      BY <1>4 DEF SkipRepeat, Repeated
    <2> QED
      BY <1>4, <2>1, <2>2, EnqueueKeepsTypes, 0 \in Nat DEF SkipRepeat, ConsultsModel, Runs
  <1>5. ASSUME NEW plan \in RoutablePlans, Delegate(plan) PROVE TypeOK'
    <2>1. multiSpecialistTurn \in BOOLEAN
      BY DEF TypeOK, Workspaces
    <2> QED
      BY <1>5, <2>1, RoutablePlanFacts, EnqueueKeepsTypes, AdoptKeepsTypes, 0 \in Nat
      DEF Delegate, ConsultsModel, Runs
  <1> QED BY <1>1, <1>2, <1>3, <1>4, <1>5

\* Moving on within a specialist keeps every channel it does not write well typed.
LEMMA SpecialistStepKeepsTypes ==
    ASSUME TypeOK, NEW to \in SpecialistNodes \cup {"supervisor"}, SpecialistStep(to),
           node \in SpecialistNodes, steps < RecursionLimit,
           lastHandoff' \in [agent : Agents, status : Statuses] \cup {NoHandoff},
           stepCount' \in Nat, handoffStatus' \in {"none", "error"},
           agentMessages' \in Workspaces, lastReply' \in {"none", "specialist", "supervisor"}
    PROVE  TypeOK'
  <1>1. next \in Agents /\ next' = next
    BY DEF TypeOK, Workspaces, SpecialistStep
  <1>2. steps' \in 0..RecursionLimit
    BY BoundsAssumption DEF TypeOK, Workspaces, SpecialistStep, Advance
  <1>3. node' \in {"idle", "supervisor"} \cup SpecialistNodes \cup ReplyNodes
    BY DEF SpecialistStep, Advance
  <1> QED
    BY <1>1, <1>2, <1>3 DEF TypeOK, Workspaces, SpecialistStep, Advance, turnVars, repoVars, historyVars

LEMMA TypeSpecialist ==
    ASSUME TypeOK, Specialist
    PROVE  TypeOK'
  <1> USE DEF Runs, SpecialistNodes
  <1>0. /\ stepCount \in Nat /\ agentMessages \in Workspaces
        /\ lastHandoff \in [agent : Agents, status : Statuses] \cup {NoHandoff}
        /\ handoffStatus \in {"none", "error"}
        /\ lastReply \in {"none", "specialist", "supervisor"}
        /\ node \in SpecialistNodes => next \in Agents
    BY DEF TypeOK, Workspaces
  <1>1. CASE Prepare
    <2>1. NoMessages \in Workspaces
      BY DEF NoMessages, Workspaces
    <2> QED BY <1>0, <1>1, <2>1, SpecialistStepKeepsTypes, 0 \in Nat DEF Prepare
  <1>2. ASSUME NEW last \in {"calls", "text", "blank"}, ModelAnswers(last) PROVE TypeOK'
    <2>1. agentMessages' \in Workspaces
      BY <1>0, <1>2 DEF ModelAnswers, Reduce, BlankBecomes, Workspaces
    <2>2. stepCount' \in Nat
      BY <1>0, <1>2 DEF ModelAnswers, NextStepCount
    <2>3. (IF last = "calls" THEN "tools" ELSE "finalize") \in SpecialistNodes \cup {"supervisor"}
      OBVIOUS
    <2> QED BY <1>0, <1>2, <2>1, <2>2, <2>3, SpecialistStepKeepsTypes DEF ModelAnswers
  <1>3. CASE ModelThrows
    <2>1. agentMessages' \in Workspaces
      BY <1>0, <1>3 DEF ModelThrows, Reduce, Workspaces
    <2> QED BY <1>0, <1>3, <2>1, SpecialistStepKeepsTypes DEF ModelThrows
  <1>4. CASE SkipUnavailable
    BY <1>0, <1>4, SpecialistStepKeepsTypes, 0 \in Nat DEF SkipUnavailable
  <1>5. ASSUME NEW result \in {"ok", "error"}, ToolsAnswer(result) PROVE TypeOK'
    <2>1. PICK usable \in Usable(result) :
             agentMessages' = [last    |-> "tools",
                               tool    |-> result,
                               salvage |-> agentMessages.salvage \/ usable,
                               failed  |-> result = "error"]
      BY <1>5 DEF ToolsAnswer
    <2>2. usable \in BOOLEAN
      BY DEF Usable
    <2>3. agentMessages' \in Workspaces
      BY <1>0, <2>1, <2>2 DEF Workspaces
    <2>4. AfterTools \in SpecialistNodes
      BY DEF AfterTools
    <2> QED BY <1>0, <1>5, <2>3, <2>4, SpecialistStepKeepsTypes DEF ToolsAnswer
  <1>6. CASE Finalize
    <2>1. HandoffStatus \in Statuses
      BY <1>0 DEF HandoffStatus, Statuses
    <2>2. lastHandoff' \in [agent : Agents, status : Statuses]
      BY <1>0, <1>6, <2>1 DEF Finalize
    <2>3. agentMessages' \in Workspaces
      BY <1>6 DEF Finalize, NoMessages, Workspaces
    <2> QED BY <1>0, <1>6, <2>2, <2>3, SpecialistStepKeepsTypes, 0 \in Nat DEF Finalize
  <1> QED BY <1>1, <1>2, <1>3, <1>4, <1>5, <1>6 DEF Specialist

LEMMA TypeEnvironment ==
    ASSUME TypeOK,
           \/ \E text \in {"request", "again", "captionless"} : UserMessage(text)
           \/ \E route \in Agents \cup {"supervisor"} : CronMessage(route)
           \/ \E a \in Agents : SetEnabled(a)
           \/ Recompile
           \/ UNCHANGED vars
    PROVE  TypeOK'
  <1> USE DEF SpecialistNodes, workspaceVars, turnVars, repoVars, historyVars, planVars
  <1>1. ASSUME BeginTurn, intent' \in {"request", "again"},
               cronRoute' \in Agents \cup {"none", "supervisor"}, thread' \in {"new", "chat", "cron"}
        PROVE  TypeOK'
    <2>1. plannedMany' \in BOOLEAN
      BY <1>1, Zenon DEF BeginTurn
    <2>2. /\ turns < MaxTurns /\ turns' = turns + 1
          /\ node' = "supervisor" /\ steps' = 0 /\ outcome' = "running"
          /\ lastReply' = "none" /\ attempts' = 0
          /\ UNCHANGED <<next, planVars, workspaceVars, aborts, repoVars, twice>>
      BY <1>1, Zenon DEF BeginTurn
    <2>3. turns' \in 0..MaxTurns /\ steps' \in 0..RecursionLimit
      BY <2>2, BoundsAssumption DEF TypeOK
    <2> QED BY <1>1, <2>1, <2>2, <2>3, 0 \in Nat DEF TypeOK
  <1>2. ASSUME NEW text \in {"request", "again", "captionless"}, UserMessage(text) PROVE TypeOK'
    BY <1>1, <1>2 DEF UserMessage, TypeOK, Workspaces
  <1>3. ASSUME NEW route \in Agents \cup {"supervisor"}, CronMessage(route) PROVE TypeOK'
    BY <1>1, <1>3 DEF CronMessage, TypeOK, Workspaces
  <1>4. ASSUME NEW a \in Agents, SetEnabled(a) PROVE TypeOK'
    <2>1. edits' \in 0..MaxEdits /\ enabled' \subseteq Agents
      BY <1>4, BoundsAssumption DEF SetEnabled, TypeOK, Workspaces
    <2> QED BY <1>4, <2>1 DEF SetEnabled, TypeOK, Workspaces
  <1>5. CASE Recompile
    BY <1>5 DEF Recompile, TypeOK, Workspaces
  <1>6. CASE UNCHANGED vars
    BY <1>6 DEF vars, TypeOK, Workspaces
  <1> QED BY <1>2, <1>3, <1>4, <1>5, <1>6

LEMMA TypeStep == TypeOK /\ [Next]_vars => TypeOK'
  BY TypeRouting, TypeStarting, TypeSpecialist, TypeEnvironment
  DEF Next, TurnStep, Supervise

\* Every reachable state is well typed, whatever the agents, the plans the model
\* answers, the crashes and the edits of the repository.
THEOREM TypeCorrect == Spec => []TypeOK
  BY TypeInit, TypeStep, PTL DEF Spec

(***************************************************************************)
(* How a turn ends.                                                        *)
(***************************************************************************)
\* What makes the two properties of a finished turn inductive: an outcome is
\* written exactly when the graph stops, and the reply nodes, which keep the
\* queue, are reached with an empty one.
TurnInv ==
    /\ node = "idle" <=> outcome # "running"
    /\ node \in ReplyNodes => executionQueue = <<>>
    /\ FinishedTurnReplies
    /\ FinishedTurnIsClean

LEMMA AdvanceKeepsTurn ==
    ASSUME TurnInv, node # "idle", NEW to, to # "idle", Advance(to),
           to \in ReplyNodes => executionQueue' = <<>>
    PROVE  TurnInv'
  <1>1. node' = to /\ outcome' = "running"
    BY DEF TurnInv, Advance
  <1> QED BY <1>1 DEF TurnInv, FinishedTurnReplies, FinishedTurnIsClean

LEMMA AbortKeepsTurn ==
    ASSUME EndTurn("aborted")
    PROVE  TurnInv'
  BY DEF EndTurn, TurnInv, FinishedTurnReplies, FinishedTurnIsClean, ReplyNodes

LEMMA FinishKeepsTurn ==
    ASSUME EndTurn("finished"), ClearDelegation, executionQueue' = <<>>, lastReply' # "none"
    PROVE  TurnInv'
  <1>1. lastHandoff' = NoHandoff /\ ~multiSpecialistTurn'
    BY Zenon DEF ClearDelegation
  <1>2. node' = "idle" /\ outcome' = "finished"
    BY DEF EndTurn
  <1> QED BY <1>1, <1>2 DEF TurnInv, FinishedTurnReplies, FinishedTurnIsClean, ReplyNodes

LEMMA TurnInit == Init => TurnInv
  BY DEF Init, TurnInv, FinishedTurnReplies, FinishedTurnIsClean, ReplyNodes

LEMMA TurnSupervise ==
    ASSUME TypeOK, TurnInv, Supervise
    PROVE  TurnInv'
  <1> USE DEF Runs
  <1>1. ASSUME NEW plan, NEW continuing, EnqueueAndStart(plan, continuing), node # "idle"
        PROVE  TurnInv'
    BY <1>1, AdvanceKeepsTurn DEF EnqueueAndStart, ReplyNodes
  <1>2. ASSUME NEW n \in ReplyNodes, ToReplyNode(n), node # "idle", executionQueue' = <<>>
        PROVE  TurnInv'
    BY <1>2, AdvanceKeepsTurn DEF ToReplyNode, ReplyNodes
  <1>3. CASE CronRoute
    BY <1>1, <1>3 DEF CronRoute
  <1>4. CASE SummarizeEmpty
    BY <1>2, <1>4 DEF SummarizeEmpty, ReplyNodes
  <1>5. CASE Dequeue
    BY <1>1, <1>5 DEF Dequeue
  <1>6. CASE DequeueUnwired
    BY <1>6, AbortKeepsTurn DEF DequeueUnwired
  <1>7. CASE ConfigurationFinish
    BY <1>2, <1>7 DEF ConfigurationFinish, ConfigurationSettled, Settled, planVars, ReplyNodes
  <1>8. CASE DirectFinish
    <2>1. lastReply # "none"
      BY <1>8 DEF DirectFinish, SpecialistSettled, Settled, SpecialistJustFinished
    <2> QED BY <1>8, <2>1, FinishKeepsTurn DEF DirectFinish, FinishWith
  <1>9. CASE SupervisorReply
    BY <1>9, FinishKeepsTurn DEF SupervisorReply, FinishWith
  <1>10. CASE RoutingFailure
    BY <1>2, <1>10 DEF RoutingFailure, ConsultsModel, ReplyNodes
  <1>11. ASSUME NEW plan \in RoutablePlans,
                AutoRetry(plan) \/ SkipRepeat(plan) \/ Delegate(plan)
         PROVE  TurnInv'
    BY <1>1, <1>11 DEF AutoRetry, SkipRepeat, Delegate, ConsultsModel
  <1>12. ASSUME NEW plan \in RoutablePlans, BlockRepeat(plan) PROVE TurnInv'
    BY <1>2, <1>12 DEF BlockRepeat, ConsultsModel, ReplyNodes
  <1> QED
    BY <1>3, <1>4, <1>5, <1>6, <1>7, <1>8, <1>9, <1>10, <1>11, <1>12 DEF Supervise

LEMMA TurnSpecialist ==
    ASSUME TurnInv, Specialist
    PROVE  TurnInv'
  <1>1. ASSUME NEW to \in SpecialistNodes \cup {"supervisor"}, SpecialistStep(to), node # "idle"
        PROVE  TurnInv'
    BY <1>1, AdvanceKeepsTurn DEF SpecialistStep, SpecialistNodes, ReplyNodes
  <1> USE DEF Runs, SpecialistNodes
  <1>2. CASE Prepare
    BY <1>1, <1>2 DEF Prepare
  <1>3. ASSUME NEW last \in {"calls", "text", "blank"}, ModelAnswers(last) PROVE TurnInv'
    BY <1>1, <1>3 DEF ModelAnswers
  <1>4. CASE ModelThrows
    BY <1>1, <1>4 DEF ModelThrows
  <1>5. CASE SkipUnavailable
    BY <1>1, <1>5 DEF SkipUnavailable
  <1>6. ASSUME NEW result \in {"ok", "error"}, ToolsAnswer(result) PROVE TurnInv'
    BY <1>1, <1>6 DEF ToolsAnswer, AfterTools
  <1>7. CASE Finalize
    BY <1>1, <1>7 DEF Finalize
  <1> QED BY <1>2, <1>3, <1>4, <1>5, <1>6, <1>7 DEF Specialist

LEMMA TurnReply ==
    ASSUME TurnInv, Reply
    PROVE  TurnInv'
  <1>1. ASSUME NEW reply, reply # "none", ReplyAndEnd(reply), node \in ReplyNodes
        PROVE  TurnInv'
    BY <1>1, FinishKeepsTurn DEF ReplyAndEnd, TurnInv
  <1> QED
    BY <1>1 DEF Reply, EmptyReply, FailureReply, PostHandoffFinish, Runs, ReplyNodes

LEMMA TurnEnvironment ==
    ASSUME TurnInv,
           \/ \E text \in {"request", "again", "captionless"} : UserMessage(text)
           \/ \E route \in Agents \cup {"supervisor"} : CronMessage(route)
           \/ RecursionLimitReached \/ Abort
           \/ \E a \in Agents : SetEnabled(a)
           \/ Recompile
           \/ UNCHANGED vars
    PROVE  TurnInv'
  <1>1. ASSUME BeginTurn PROVE TurnInv'
    <2>1. node' = "supervisor" /\ outcome' = "running"
      BY <1>1, Zenon DEF BeginTurn
    <2> QED BY <2>1 DEF TurnInv, FinishedTurnReplies, FinishedTurnIsClean, ReplyNodes
  <1>2. ASSUME UNCHANGED <<node, outcome, lastReply, planVars>> PROVE TurnInv'
    BY <1>2 DEF planVars, TurnInv, FinishedTurnReplies, FinishedTurnIsClean
  <1>3. ASSUME NEW text, UserMessage(text) PROVE TurnInv'
    BY <1>1, <1>3 DEF UserMessage
  <1>4. ASSUME NEW route, CronMessage(route) PROVE TurnInv'
    BY <1>1, <1>4 DEF CronMessage
  <1>5. CASE RecursionLimitReached \/ Abort
    BY <1>5, AbortKeepsTurn DEF RecursionLimitReached, Abort
  <1>6. ASSUME NEW a \in Agents, SetEnabled(a) PROVE TurnInv'
    BY <1>2, <1>6 DEF SetEnabled
  <1>7. CASE Recompile
    BY <1>2, <1>7 DEF Recompile
  <1>8. CASE UNCHANGED vars
    BY <1>2, <1>8 DEF vars
  <1> QED BY <1>3, <1>4, <1>5, <1>6, <1>7, <1>8

LEMMA TurnNext == TypeOK /\ TurnInv /\ [Next]_vars => TurnInv'
  BY TurnSupervise, TurnSpecialist, TurnReply, TurnEnvironment DEF Next, TurnStep

\* No path to END forgets the reply: whatever the model answers and whatever
\* failed before, a turn that finishes has an AI message for the adapter to send.
THEOREM FinishedTurnsReply == Spec => []FinishedTurnReplies
  <1>1. TurnInv => FinishedTurnReplies
    BY DEF TurnInv
  <1> QED BY <1>1, TurnInit, TurnNext, TypeCorrect, PTL DEF Spec

\* A finished turn leaves no handoff, no queued step and no multi-specialist flag
\* to the next one.
THEOREM FinishedTurnsAreClean == Spec => []FinishedTurnIsClean
  <1>1. TurnInv => FinishedTurnIsClean
    BY DEF TurnInv
  <1> QED BY <1>1, TurnInit, TurnNext, TypeCorrect, PTL DEF Spec

(***************************************************************************)
(* Which specialist runs, and for how long.                                *)
(***************************************************************************)
\* The budget is only spent at "tools"; what bounds it there is that the llm node
\* follows a tool batch only while the count is below the agent's maxSteps.
RunInv ==
    /\ OnlyWiredAgentsRun
    /\ StepBudget
    /\ node = "llm" /\ agentMessages.last = "tools" => stepCount < MaxSteps[next]

\* Outside "llm" and "tools" only the route matters.
LEMMA RunElsewhere ==
    ASSUME node' \notin {"llm", "tools"}, node' \in SpecialistNodes => next' \in wired'
    PROVE  RunInv'
  BY DEF RunInv, OnlyWiredAgentsRun, StepBudget

LEMMA RunInit == Init => RunInv
  BY DEF Init, RunInv, OnlyWiredAgentsRun, StepBudget, SpecialistNodes

LEMMA RunSupervise ==
    ASSUME TypeOK, Supervise
    PROVE  RunInv'
  <1>1. ASSUME NEW plan, NEW continuing, EnqueueAndStart(plan, continuing), Head(plan) \in wired
        PROVE  RunInv'
    <2>1. node' = "prepare" /\ next' = Head(plan) /\ wired' = wired
      BY <1>1 DEF EnqueueAndStart, Advance, repoVars
    <2> QED BY <1>1, <2>1, RunElsewhere
  <1>2. ASSUME NEW n \in ReplyNodes, ToReplyNode(n) PROVE RunInv'
    BY <1>2, RunElsewhere DEF ToReplyNode, Advance, ReplyNodes, SpecialistNodes
  <1>3. ASSUME NEW how, EndTurn(how) PROVE RunInv'
    BY <1>3, RunElsewhere DEF EndTurn, SpecialistNodes
  <1>4. CASE CronRoute
    <2>1. EnqueueAndStart(<<cronRoute>>, FALSE) /\ cronRoute \in wired
      BY <1>4 DEF CronRoute, CronTriggered
    <2>2. Head(<<cronRoute>>) = cronRoute
      OBVIOUS
    <2> QED BY <1>1, <2>1, <2>2
  <1>5. CASE Dequeue
    BY <1>1, <1>5 DEF Dequeue
  <1>6. CASE DequeueUnwired
    BY <1>3, <1>6 DEF DequeueUnwired
  <1>7. CASE SummarizeEmpty \/ ConfigurationFinish \/ RoutingFailure
    BY <1>2, <1>7 DEF SummarizeEmpty, ConfigurationFinish, RoutingFailure, ReplyNodes
  <1>8. CASE DirectFinish \/ SupervisorReply
    BY <1>3, <1>8 DEF DirectFinish, SupervisorReply, FinishWith
  <1>9. ASSUME NEW plan \in RoutablePlans, AutoRetry(plan) \/ Delegate(plan) PROVE RunInv'
    BY <1>1, <1>9, RoutablePlanFacts DEF AutoRetry, Delegate
  <1>10. ASSUME NEW plan \in RoutablePlans, SkipRepeat(plan) PROVE RunInv'
    BY <1>1, <1>10, RoutablePlanFacts DEF SkipRepeat
  <1>11. ASSUME NEW plan \in RoutablePlans, BlockRepeat(plan) PROVE RunInv'
    BY <1>2, <1>11 DEF BlockRepeat, ReplyNodes
  <1> QED
    BY <1>4, <1>5, <1>6, <1>7, <1>8, <1>9, <1>10, <1>11 DEF Supervise

LEMMA RunSpecialist ==
    ASSUME TypeOK, RunInv, Specialist
    PROVE  RunInv'
  <1> USE DEF Runs, SpecialistNodes
  <1>1. ASSUME NEW to, SpecialistStep(to), node \in SpecialistNodes
        PROVE  /\ node' = to /\ next' = next
               /\ next \in wired /\ next' \in wired' /\ next \in Agents
    BY <1>1 DEF SpecialistStep, Advance, repoVars, RunInv, OnlyWiredAgentsRun, TypeOK
  <1>2. CASE Prepare
    <2>1. node' = "llm" /\ next' \in wired' /\ agentMessages'.last = "human"
      BY <1>1, <1>2 DEF Prepare, NoMessages
    <2> QED BY <2>1 DEF RunInv, OnlyWiredAgentsRun, StepBudget
  <1>3. ASSUME NEW last \in {"calls", "text", "blank"}, ModelAnswers(last) PROVE RunInv'
    <2>1. CASE last # "calls"
      <3>1. node' = "finalize" /\ next' \in wired'
        BY <1>1, <1>3, <2>1 DEF ModelAnswers
      <3> QED BY <3>1, RunElsewhere
    <2>2. CASE last = "calls"
      <3>1. /\ node' = "tools" /\ next' = next /\ next' \in wired' /\ next \in Agents
            /\ stepCount' = NextStepCount /\ MaxSteps[next] # 0
        BY <1>1, <1>3, <2>2 DEF ModelAnswers, Unavailable
      <3>2. MaxSteps[next] \in Nat /\ stepCount \in Nat
        BY <3>1, BoundsAssumption DEF TypeOK
      <3>3. agentMessages.last = "tools" => stepCount < MaxSteps[next]
        BY <1>3 DEF ModelAnswers, RunInv
      <3>4. stepCount' <= MaxSteps[next]
        BY <3>1, <3>2, <3>3 DEF NextStepCount
      <3> QED BY <3>1, <3>4 DEF RunInv, OnlyWiredAgentsRun, StepBudget
    <2> QED BY <2>1, <2>2
  <1>4. CASE ModelThrows \/ SkipUnavailable
    <2>1. node' = "finalize" /\ next' \in wired'
      BY <1>1, <1>4 DEF ModelThrows, SkipUnavailable
    <2> QED BY <2>1, RunElsewhere
  <1>5. ASSUME NEW result \in {"ok", "error"}, ToolsAnswer(result) PROVE RunInv'
    <2>1. /\ node' = AfterTools /\ next' = next /\ next' \in wired' /\ next \in Agents
          /\ stepCount' = stepCount
      BY <1>1, <1>5 DEF ToolsAnswer
    <2>2. MaxSteps[next] \in Nat /\ stepCount \in Nat
      BY <2>1, BoundsAssumption DEF TypeOK
    <2>3. node' \in {"llm", "finalize"} /\ (node' = "llm" => stepCount' < MaxSteps[next'])
      BY <2>1, <2>2 DEF AfterTools
    <2> QED BY <2>1, <2>3 DEF RunInv, OnlyWiredAgentsRun, StepBudget
  <1>6. CASE Finalize
    BY <1>1, <1>6, RunElsewhere DEF Finalize
  <1> QED BY <1>2, <1>3, <1>4, <1>5, <1>6 DEF Specialist

LEMMA RunEnvironment ==
    ASSUME RunInv, TurnInv,
           \/ \E text \in {"request", "again", "captionless"} : UserMessage(text)
           \/ \E route \in Agents \cup {"supervisor"} : CronMessage(route)
           \/ Reply \/ RecursionLimitReached \/ Abort
           \/ \E a \in Agents : SetEnabled(a)
           \/ Recompile
           \/ UNCHANGED vars
    PROVE  RunInv'
  <1> USE DEF SpecialistNodes
  <1>1. ASSUME node' \in {"idle", "supervisor"} PROVE RunInv'
    BY <1>1, RunElsewhere
  <1>2. ASSUME UNCHANGED <<node, next, workspaceVars, wired>> PROVE RunInv'
    <2>1. UNCHANGED <<node, next, stepCount, agentMessages, wired>>
      BY <1>2 DEF workspaceVars
    <2> QED BY <2>1 DEF RunInv, OnlyWiredAgentsRun, StepBudget
  <1>3. ASSUME NEW text, UserMessage(text) PROVE RunInv'
    BY <1>1, <1>3 DEF UserMessage, BeginTurn
  <1>4. ASSUME NEW route, CronMessage(route) PROVE RunInv'
    BY <1>1, <1>4 DEF CronMessage, BeginTurn
  <1>5. CASE Reply
    BY <1>1, <1>5 DEF Reply, EmptyReply, FailureReply, PostHandoffFinish, ReplyAndEnd, EndTurn
  <1>6. CASE RecursionLimitReached \/ Abort
    BY <1>1, <1>6 DEF RecursionLimitReached, Abort, EndTurn
  <1>7. ASSUME NEW a \in Agents, SetEnabled(a) PROVE RunInv'
    BY <1>2, <1>7 DEF SetEnabled
  <1>8. CASE Recompile
    BY <1>1, <1>8 DEF Recompile
  <1>9. CASE UNCHANGED vars
    BY <1>2, <1>9 DEF vars, repoVars
  <1> QED BY <1>3, <1>4, <1>5, <1>6, <1>7, <1>8, <1>9

LEMMA RunNext == TypeOK /\ TurnInv /\ RunInv /\ [Next]_vars => RunInv'
  BY RunSupervise, RunSpecialist, RunEnvironment DEF Next, TurnStep

\* Only agents compiled into the graph run: each way of starting a specialist
\* checks the route against the compiled graph, and a turn keeps that graph.
THEOREM OnlyWiredAgents == Spec => []OnlyWiredAgentsRun
  <1>1. RunInv => OnlyWiredAgentsRun
    BY DEF RunInv
  <1> QED
    BY <1>1, RunInit, RunNext, TurnInit, TurnNext, TypeCorrect, PTL DEF Spec

\* No delegation executes more than maxSteps tool batches.
THEOREM StepBudgetHolds == Spec => []StepBudget
  <1>1. RunInv => StepBudget
    BY DEF RunInv
  <1> QED
    BY <1>1, RunInit, RunNext, TurnInit, TurnNext, TypeCorrect, PTL DEF Spec

(***************************************************************************)
(* When a specialist may run again, and in which order the steps of a plan *)
(* run.                                                                    *)
(***************************************************************************)
\* What is left of a plan repeats no agent that the plan does not repeat.
LEMMA RepeatedFacts ==
    ASSUME NEW s \in Seq(Agents), s # <<>>
    PROVE  /\ Repeated(Tail(s)) \subseteq Repeated(s)
           /\ Head(s) \in Range(Tail(s)) => Head(s) \in Repeated(s)
           /\ Tail(s) # <<>> => Head(Tail(s)) \in Range(Tail(s))
  <1>1. Head(s) = s[1] /\ 1 \in DOMAIN s /\ Len(s) \in Nat /\ Head(s) \in Agents
    OBVIOUS
  <1>2. ASSUME NEW i \in DOMAIN Tail(s)
        PROVE  i + 1 \in DOMAIN s /\ Tail(s)[i] = s[i + 1] /\ i + 1 # 1 /\ i \in Nat
    OBVIOUS
  <1>3. ASSUME NEW a \in Repeated(Tail(s)) PROVE a \in Repeated(s)
    <2>1. PICK i \in DOMAIN Tail(s), j \in DOMAIN Tail(s) :
             i # j /\ Tail(s)[i] = a /\ Tail(s)[j] = a
      BY <1>3 DEF Repeated
    <2>2. i + 1 # j + 1 /\ s[i + 1] = a /\ s[j + 1] = a /\ i + 1 \in DOMAIN s /\ j + 1 \in DOMAIN s
      BY <1>2, <2>1
    <2>3. a \in Agents
      BY <1>3 DEF Repeated
    <2> QED BY <2>2, <2>3 DEF Repeated
  <1>4. ASSUME Head(s) \in Range(Tail(s)) PROVE Head(s) \in Repeated(s)
    <2>1. PICK i \in DOMAIN Tail(s) : Tail(s)[i] = Head(s)
      BY <1>4 DEF Range
    <2>2. s[i + 1] = Head(s) /\ i + 1 \in DOMAIN s /\ i + 1 # 1
      BY <1>2, <2>1
    <2> QED BY <1>1, <2>2 DEF Repeated
  <1>5. ASSUME Tail(s) # <<>> PROVE Head(Tail(s)) \in Range(Tail(s))
    <2>1. Tail(s) \in Seq(Agents)
      BY QueueFacts
    <2>2. Head(Tail(s)) = Tail(s)[1] /\ 1 \in DOMAIN Tail(s)
      BY <1>5, <2>1
    <2> QED BY <2>2 DEF Range
  <1> QED BY <1>3, <1>4, <1>5

(***************************************************************************)
(* A cron trigger that names an agent is answered on clean channels.       *)
(***************************************************************************)
CronInv ==
    /\ thread = "new" => node = "idle" /\ lastHandoff = NoHandoff /\ executionQueue = <<>>
    /\ CronTriggered /\ node # "idle" => ~HandoffComplete /\ executionQueue = <<>>

LEMMA CronInit == Init => CronInv
  BY DEF Init, CronInv

\* While a turn runs, a step that leaves the turn's trigger alone keeps CronInv if
\* it keeps the channels CronInv reads.
LEMMA CronKept ==
    ASSUME CronInv, UNCHANGED <<thread, cronRoute, wired, executionQueue, lastHandoff>>,
           node = "idle" <=> node' = "idle", lastReply # "none" => lastReply' # "none"
    PROVE  CronInv'
  BY DEF CronInv, CronTriggered, HandoffComplete

LEMMA CronIdle ==
    ASSUME node' = "idle", thread' # "new"
    PROVE  CronInv'
  BY DEF CronInv

LEMMA CronStep ==
    ASSUME TypeOK, TurnInv, CronInv, [Next]_vars
    PROVE  CronInv'
  <1>1. node # "idle" => thread # "new"
    BY DEF CronInv
  <1>2. ASSUME NEW plan, NEW continuing, EnqueueAndStart(plan, continuing),
               CronTriggered => Tail(plan) = <<>>, node # "idle"
        PROVE  CronInv'
    <2>1. /\ UNCHANGED <<thread, cronRoute, wired, lastReply>>
          /\ lastHandoff' = NoHandoff /\ executionQueue' = Tail(plan)
      BY <1>2 DEF EnqueueAndStart, turnVars, repoVars
    <2> QED BY <1>1, <1>2, <2>1 DEF CronInv, CronTriggered, HandoffComplete
  <1>3. ASSUME NEW n, ToReplyNode(n), ~CronTriggered, node # "idle"
        PROVE  CronInv'
    <2>1. UNCHANGED <<thread, cronRoute, wired, lastReply>>
      BY <1>3 DEF ToReplyNode, turnVars, repoVars
    <2> QED BY <1>1, <1>3, <2>1 DEF CronInv, CronTriggered
  <1>4. ASSUME NEW how, EndTurn(how), node # "idle", thread' = thread PROVE CronInv'
    BY <1>1, <1>4, CronIdle DEF EndTurn
  <1> USE DEF Runs
  <1>5. CASE Supervise
    <2>1. CASE CronRoute
      <3>1. Tail(<<cronRoute>>) = <<>>
        OBVIOUS
      <3> QED BY <1>2, <2>1, <3>1 DEF CronRoute
    <2>2. CASE Dequeue
      BY <1>2, <2>2 DEF Dequeue, Dequeues
    <2>3. CASE SummarizeEmpty \/ ConfigurationFinish \/ RoutingFailure
      BY <1>3, <2>3 DEF SummarizeEmpty, ConfigurationFinish, RoutingFailure,
         ConfigurationSettled, Settled, ConsultsModel
    <2>4. CASE DequeueUnwired \/ DirectFinish \/ SupervisorReply
      BY <1>4, <2>4 DEF DequeueUnwired, DirectFinish, SupervisorReply, ConsultsModel,
         FinishWith, turnVars
    <2>5. ASSUME NEW plan \in RoutablePlans,
                 AutoRetry(plan) \/ SkipRepeat(plan) \/ Delegate(plan)
          PROVE  CronInv'
      BY <1>2, <2>5 DEF AutoRetry, SkipRepeat, Delegate, ConsultsModel
    <2>6. ASSUME NEW plan \in RoutablePlans, BlockRepeat(plan) PROVE CronInv'
      BY <1>3, <2>6 DEF BlockRepeat, ConsultsModel
    <2> QED BY <1>5, <2>1, <2>2, <2>3, <2>4, <2>5, <2>6 DEF Supervise
  <1>6. CASE Specialist
    <2>1. ASSUME NEW to, to # "idle", SpecialistStep(to), node # "idle",
                 UNCHANGED <<lastHandoff, lastReply>>
          PROVE  CronInv'
      BY <2>1, CronKept DEF SpecialistStep, Advance, turnVars, repoVars
    <2>2. CASE Finalize
      <3>1. node' = "supervisor" /\ node # "idle"
            /\ UNCHANGED <<thread, cronRoute, wired, executionQueue>>
        BY <2>2 DEF Finalize, SpecialistStep, Advance, turnVars, repoVars
      <3>2. lastHandoff' = [agent |-> next, status |-> HandoffStatus]
            /\ lastReply' = IF HandoffStatus = "empty" THEN lastReply ELSE "specialist"
        BY <2>2 DEF Finalize
      <3>3. lastReply' = "none" => lastReply = "none" /\ lastHandoff'.status = "empty"
        BY <3>2
      <3> QED BY <1>1, <3>1, <3>3 DEF CronInv, CronTriggered, HandoffComplete
    <2>3. ASSUME NEW last \in {"calls", "text", "blank"}, ModelAnswers(last) PROVE CronInv'
      BY <2>1, <2>3 DEF ModelAnswers
    <2>4. ASSUME NEW result \in {"ok", "error"}, ToolsAnswer(result) PROVE CronInv'
      BY <2>1, <2>4 DEF ToolsAnswer, AfterTools
    <2>5. CASE Prepare \/ ModelThrows \/ SkipUnavailable
      BY <2>1, <2>5 DEF Prepare, ModelThrows, SkipUnavailable
    <2> QED BY <1>6, <2>2, <2>3, <2>4, <2>5 DEF Specialist
  <1>7. CASE Reply \/ RecursionLimitReached \/ Abort
    BY <1>4, <1>7 DEF Reply, EmptyReply, FailureReply, PostHandoffFinish, ReplyAndEnd,
       RecursionLimitReached, Abort, turnVars
  <1>8. ASSUME NEW text, UserMessage(text) PROVE CronInv'
    BY <1>8 DEF UserMessage, CronInv, CronTriggered
  <1>9. ASSUME NEW route, CronMessage(route) PROVE CronInv'
    <2>1. thread = "new" /\ thread' = "cron" /\ UNCHANGED <<executionQueue, lastHandoff>>
      BY <1>9 DEF CronMessage, BeginTurn, planVars
    <2> QED BY <2>1 DEF CronInv, HandoffComplete
  <1>10. ASSUME NEW a \in Agents, SetEnabled(a) PROVE CronInv'
    BY <1>10, CronKept DEF SetEnabled, planVars, turnVars
  <1>11. CASE Recompile
    <2>1. node' = "idle" /\ UNCHANGED <<thread, executionQueue, lastHandoff>>
      BY <1>11 DEF Recompile, planVars, turnVars
    <2> QED BY <2>1 DEF CronInv
  <1>12. CASE UNCHANGED vars
    BY <1>12, CronKept DEF vars, planVars, turnVars, repoVars
  <1> QED
    BY <1>5, <1>6, <1>7, <1>8, <1>9, <1>10, <1>11, <1>12 DEF Next, TurnStep

\* While a cron trigger is still the last message of its thread, no specialist has
\* handed off a result and no step is queued, so the bypass neither repeats a
\* specialist that answered nor drops a queue.
THEOREM CronInvHolds == Spec => []CronInv
  BY CronInit, CronStep, TypeCorrect, TurnInit, TurnNext, PTL DEF Spec

(***************************************************************************)
(* Repeated runs.                                                          *)
(***************************************************************************)
\* A queue names the specialist that runs or that handed off last, or another one
\* more than once, only if the plan it is left of does.
QueueInv ==
    /\ Repeated(executionQueue) \subseteq twice
    /\ node \in SpecialistNodes /\ next \in Range(executionQueue) => next \in twice
    /\ lastHandoff.agent \in Range(executionQueue) => lastHandoff.agent \in twice

\* Each further attempt at a step is paid for by retryCount.
RetryInv ==
    /\ retryCount <= MaxErrorRetries
    /\ RetriesAreBounded
    /\ thread = "chat" /\ intent = "request" /\ node \in SpecialistNodes \cup {"supervisor"}
          => attempts <= retryCount + 1

LEMMA NoneIsQueued ==
    ASSUME NEW s \in Seq(Agents)
    PROVE  NoHandoff.agent \notin Range(s) /\ NoHandoff.agent \notin Agents
  <1>1. NoHandoff.agent = "none" /\ "none" \notin Agents
    BY AgentsAssumption DEF NoHandoff
  <1>2. \A i \in DOMAIN s : s[i] \in Agents
    OBVIOUS
  <1> QED BY <1>1, <1>2 DEF Range

LEMMA EmptyQueue == Repeated(<<>>) = {} /\ Range(<<>>) = {}
  BY DEF Repeated, Range

LEMMA BoundChain ==
    ASSUME NEW a \in Nat, NEW b \in Nat, NEW c \in Nat, a <= b + 1, b <= c
    PROVE  a <= c + 1
  OBVIOUS

\* A specialist starts, and the plan it is taken from is recorded.
LEMMA StartKeepsQueue ==
    ASSUME NEW plan \in Seq(Agents), plan # <<>>, NEW continuing, EnqueueAndStart(plan, continuing),
           Repeated(plan) \subseteq twice'
    PROVE  QueueInv'
  <1>1. next' = Head(plan) /\ executionQueue' = Tail(plan) /\ lastHandoff' = NoHandoff
    BY DEF EnqueueAndStart
  <1> QED BY <1>1, RepeatedFacts, NoneIsQueued, QueueFacts DEF QueueInv

\* It gets a fresh retry budget only for a new step, or when it is not the one that
\* handed off last.
LEMMA StartKeepsRetry ==
    ASSUME TypeOK, RetryInv, node = "supervisor",
           NEW plan, NEW continuing, EnqueueAndStart(plan, continuing),
           \/ retryCount' = 0 /\ attempts' = 1
           \/ /\ retryCount' = 0 /\ Attempt(Head(plan))
              /\ thread = "chat" /\ intent = "request" => lastHandoff.agent # Head(plan)
           \/ /\ retryCount' = retryCount + 1 /\ retryCount < MaxErrorRetries
              /\ Attempt(Head(plan))
    PROVE  RetryInv'
  <1>1. node' = "prepare" /\ UNCHANGED <<thread, intent>>
    BY DEF EnqueueAndStart, Advance, turnVars
  <1>2. retryCount \in Nat /\ MaxErrorRetries \in Nat /\ attempts \in Nat
    BY BoundsAssumption DEF TypeOK
  <1>3. retryCount' <= MaxErrorRetries /\ retryCount' \in Nat /\ attempts' \in Nat
    BY <1>2 DEF Attempt, RetryInv
  <1>4. ASSUME thread = "chat", intent = "request" PROVE attempts' <= retryCount' + 1
    <2>1. attempts <= retryCount + 1
      BY <1>4 DEF RetryInv
    <2> QED BY <1>2, <1>4, <2>1 DEF Attempt
  <1>5. ASSUME thread = "chat", intent = "request" PROVE attempts' <= MaxErrorRetries + 1
    BY <1>2, <1>3, <1>4, <1>5, BoundChain
  <1> QED
    BY <1>1, <1>3, <1>4, <1>5 DEF RetryInv, RetriesAreBounded

\* Every other step of a turn keeps the queue or empties it, and starts nothing.
LEMMA RestKeepsRepeat ==
    ASSUME TypeOK, QueueInv, RetryInv,
           node' \in SpecialistNodes => node \in SpecialistNodes /\ next' = next,
           node' = "supervisor" => node \in SpecialistNodes \cup {"supervisor"},
           executionQueue' = executionQueue \/ executionQueue' = <<>>,
           \/ lastHandoff' = lastHandoff
           \/ lastHandoff' = NoHandoff
           \/ node \in SpecialistNodes /\ lastHandoff'.agent = next,
           \/ retryCount' = retryCount
           \/ retryCount' = 0 /\ node' \notin SpecialistNodes \cup {"supervisor"},
           UNCHANGED <<thread, intent, attempts, twice>>
    PROVE  QueueInv' /\ RetryInv'
  <1>1. executionQueue \in Seq(Agents) /\ executionQueue' \in Seq(Agents)
    <2>1. executionQueue \in Seq(Agents)
      BY DEF TypeOK
    <2>2. <<>> \in Seq(Agents)
      OBVIOUS
    <2> QED BY <2>1, <2>2
  <1>2. /\ Repeated(executionQueue') \subseteq Repeated(executionQueue)
        /\ Range(executionQueue') \subseteq Range(executionQueue)
    BY EmptyQueue
  <1>3. lastHandoff'.agent \in Range(executionQueue') => lastHandoff'.agent \in twice'
    BY <1>1, <1>2, NoneIsQueued DEF QueueInv
  <1>4. QueueInv'
    BY <1>2, <1>3 DEF QueueInv
  <1>5. retryCount' <= MaxErrorRetries
    <2>1. 0 <= MaxErrorRetries
      BY BoundsAssumption
    <2> QED BY <2>1 DEF RetryInv
  <1>6. RetriesAreBounded'
    BY DEF RetryInv, RetriesAreBounded
  <1>7. thread' = "chat" /\ intent' = "request" /\ node' \in SpecialistNodes \cup {"supervisor"}
        => attempts' <= retryCount' + 1
    BY DEF RetryInv
  <1> QED BY <1>4, <1>5, <1>6, <1>7 DEF RetryInv

LEMMA RepeatInit == Init => QueueInv /\ RetryInv
  <1> SUFFICES ASSUME Init PROVE QueueInv /\ RetryInv
    OBVIOUS
  <1>1. /\ node = "idle" /\ executionQueue = <<>> /\ retryCount = 0
        /\ thread = "new" /\ lastHandoff = NoHandoff
    BY DEF Init
  <1>2. QueueInv
    BY <1>1, EmptyQueue DEF QueueInv, SpecialistNodes
  <1>3. 0 <= MaxErrorRetries
    BY BoundsAssumption
  <1> QED BY <1>1, <1>2, <1>3 DEF RetryInv, RetriesAreBounded

LEMMA RepeatSupervise ==
    ASSUME TypeOK, QueueInv, RetryInv, Supervise
    PROVE  QueueInv' /\ RetryInv'
  <1> USE DEF Runs
  <1>1. ASSUME NEW n \in ReplyNodes, node = "supervisor", ToReplyNode(n),
               executionQueue' = executionQueue \/ executionQueue' = <<>>,
               lastHandoff' = lastHandoff \/ lastHandoff' = NoHandoff,
               retryCount' = retryCount \/ retryCount' = 0
        PROVE  QueueInv' /\ RetryInv'
    <2>1. node' = n /\ UNCHANGED <<thread, intent, attempts, twice>>
      BY <1>1 DEF ToReplyNode, Advance, turnVars, historyVars
    <2>2. n \notin SpecialistNodes \cup {"supervisor"}
      BY DEF ReplyNodes, SpecialistNodes
    <2> QED BY <1>1, <2>1, <2>2, RestKeepsRepeat
  <1>2. ASSUME NEW reply, FinishWith(reply) PROVE QueueInv' /\ RetryInv'
    <2>1. /\ node' = "idle" /\ executionQueue' = <<>> /\ retryCount' = 0
          /\ lastHandoff' = NoHandoff /\ UNCHANGED <<thread, intent, attempts, twice>>
      BY <1>2 DEF FinishWith, EndTurn, ClearDelegation, turnVars, historyVars
    <2> QED BY <2>1, RestKeepsRepeat DEF SpecialistNodes
  <1>3. CASE CronRoute
    <2>1. /\ EnqueueAndStart(<<cronRoute>>, FALSE) /\ retryCount' = 0
          /\ node = "supervisor" /\ thread = "cron" /\ cronRoute \in wired
      BY <1>3 DEF CronRoute, CronTriggered
    <2>2. cronRoute \in Agents
      BY <2>1 DEF TypeOK
    <2>3. <<cronRoute>> \in Seq(Agents) /\ <<cronRoute>> # <<>> /\ Head(<<cronRoute>>) = cronRoute
      BY <2>2
    <2>4. Attempt(cronRoute) /\ twice' = Repeated(<<cronRoute>>)
      BY <1>3, <2>3 DEF CronRoute, Adopt
    <2> QED BY <2>1, <2>3, <2>4, StartKeepsQueue, StartKeepsRetry
  <1>4. CASE Dequeue
    <2>1. /\ executionQueue \in Seq(Agents) /\ executionQueue # <<>>
          /\ EnqueueAndStart(executionQueue, TRUE) /\ retryCount' = 0
          /\ attempts' = 1 /\ Repeated(executionQueue) \subseteq twice' /\ node = "supervisor"
      BY <1>4 DEF Dequeue, Dequeues, TypeOK, QueueInv
    <2> QED BY <2>1, StartKeepsQueue, StartKeepsRetry
  <1>5. CASE DequeueUnwired
    <2>1. node' = "idle" /\ UNCHANGED <<executionQueue, lastHandoff, retryCount, thread, intent, attempts, twice>>
      BY <1>5 DEF DequeueUnwired, EndTurn, planVars, turnVars, historyVars
    <2> QED BY <2>1, RestKeepsRepeat DEF SpecialistNodes
  <1>6. CASE SummarizeEmpty \/ ConfigurationFinish \/ RoutingFailure
    BY <1>1, <1>6 DEF SummarizeEmpty, ConfigurationFinish, RoutingFailure, ConsultsModel,
       ReplyNodes, planVars
  <1>7. CASE DirectFinish \/ SupervisorReply
    BY <1>2, <1>7 DEF DirectFinish, SupervisorReply
  <1>8. ASSUME NEW plan \in RoutablePlans, AutoRetry(plan) PROVE QueueInv' /\ RetryInv'
    <2>1. EnqueueAndStart(plan, FALSE) /\ retryCount' = retryCount + 1
          /\ retryCount < MaxErrorRetries /\ node = "supervisor"
          /\ Attempt(Head(plan)) /\ twice' = Repeated(plan)
      BY <1>8 DEF AutoRetry, RetriesError, CanAutoRetry, ConsultsModel, Adopt
    <2> QED BY <2>1, RoutablePlanFacts, StartKeepsQueue, StartKeepsRetry
  <1>9. ASSUME NEW plan \in RoutablePlans, SkipRepeat(plan) PROVE QueueInv' /\ RetryInv'
    <2>1. /\ EnqueueAndStart(Tail(plan), TRUE) /\ retryCount' = 0 /\ node = "supervisor"
          /\ Tail(plan) # <<>> /\ attempts' = 1 /\ twice' = Repeated(plan)
      BY <1>9 DEF SkipRepeat, ConsultsModel
    <2>2. Tail(plan) \in Seq(Agents) /\ Repeated(Tail(plan)) \subseteq Repeated(plan)
      BY RoutablePlanFacts, QueueFacts, RepeatedFacts
    <2> QED BY <2>1, <2>2, StartKeepsQueue, StartKeepsRetry
  <1>10. ASSUME NEW plan \in RoutablePlans, BlockRepeat(plan) PROVE QueueInv' /\ RetryInv'
    BY <1>1, <1>10 DEF BlockRepeat, ConsultsModel, ReplyNodes
  <1>11. ASSUME NEW plan \in RoutablePlans, Delegate(plan) PROVE QueueInv' /\ RetryInv'
    <2>1. /\ EnqueueAndStart(plan, multiSpecialistTurn) /\ retryCount' = 0
          /\ node = "supervisor" /\ ~RepeatsHandoff(plan) /\ lastHandoff.status # "empty"
          /\ Attempt(Head(plan)) /\ twice' = Repeated(plan)
      BY <1>11 DEF Delegate, ConsultsModel, Adopt
    <2>2. plan \in Seq(Agents) /\ plan # <<>>
      BY RoutablePlanFacts
    <2>3. Head(plan) # NoHandoff.agent
      BY <2>2, QueueFacts, NoneIsQueued
    <2>4. intent = "request" => lastHandoff.agent # Head(plan)
      BY <2>1, <2>3 DEF RepeatsHandoff, HandoffComplete
    <2> QED BY <2>1, <2>2, <2>4, StartKeepsQueue, StartKeepsRetry
  <1> QED
    BY <1>3, <1>4, <1>5, <1>6, <1>7, <1>8, <1>9, <1>10, <1>11 DEF Supervise

LEMMA RepeatSpecialist ==
    ASSUME TypeOK, QueueInv, RetryInv, Specialist
    PROVE  QueueInv' /\ RetryInv'
  <1> USE DEF Runs, SpecialistNodes
  <1>1. ASSUME NEW to, SpecialistStep(to), node \in SpecialistNodes,
               lastHandoff' = lastHandoff \/ lastHandoff'.agent = next
        PROVE  QueueInv' /\ RetryInv'
    <2>1. UNCHANGED <<next, executionQueue, retryCount, thread, intent, attempts, twice>>
      BY <1>1 DEF SpecialistStep, turnVars, historyVars
    <2> QED BY <1>1, <2>1, RestKeepsRepeat
  <1>2. CASE Prepare \/ ModelThrows \/ SkipUnavailable
    BY <1>1, <1>2 DEF Prepare, ModelThrows, SkipUnavailable
  <1>3. ASSUME NEW last \in {"calls", "text", "blank"}, ModelAnswers(last)
        PROVE  QueueInv' /\ RetryInv'
    BY <1>1, <1>3 DEF ModelAnswers
  <1>4. ASSUME NEW result \in {"ok", "error"}, ToolsAnswer(result)
        PROVE  QueueInv' /\ RetryInv'
    BY <1>1, <1>4 DEF ToolsAnswer
  <1>5. CASE Finalize
    BY <1>1, <1>5 DEF Finalize
  <1> QED BY <1>2, <1>3, <1>4, <1>5 DEF Specialist

LEMMA RepeatEnvironment ==
    ASSUME TypeOK, QueueInv, RetryInv,
           \/ \E text \in {"request", "again", "captionless"} : UserMessage(text)
           \/ \E route \in Agents \cup {"supervisor"} : CronMessage(route)
           \/ Reply \/ RecursionLimitReached \/ Abort
           \/ \E a \in Agents : SetEnabled(a)
           \/ Recompile
           \/ UNCHANGED vars
    PROVE  QueueInv' /\ RetryInv'
  <1> USE DEF SpecialistNodes
  <1>1. ASSUME BeginTurn PROVE QueueInv' /\ RetryInv'
    <2>1. /\ node' = "supervisor" /\ attempts' = 0
          /\ UNCHANGED <<executionQueue, lastHandoff, retryCount, twice>>
      BY <1>1, Zenon DEF BeginTurn, planVars
    <2>2. retryCount \in Nat /\ MaxErrorRetries \in Nat
      BY BoundsAssumption DEF TypeOK
    <2>3. attempts' <= retryCount' + 1 /\ attempts' <= MaxErrorRetries + 1
      BY <2>1, <2>2
    <2> QED BY <2>1, <2>3 DEF QueueInv, RetryInv, RetriesAreBounded
  <1>2. ASSUME NEW text, UserMessage(text) PROVE QueueInv' /\ RetryInv'
    BY <1>1, <1>2 DEF UserMessage
  <1>3. ASSUME NEW route, CronMessage(route) PROVE QueueInv' /\ RetryInv'
    BY <1>1, <1>3 DEF CronMessage
  <1>4. CASE Reply \/ RecursionLimitReached \/ Abort
    <2>1. /\ node' = "idle"
          /\ lastHandoff' = lastHandoff \/ lastHandoff' = NoHandoff
          /\ UNCHANGED <<executionQueue, retryCount, thread, intent, attempts, twice>>
      BY <1>4 DEF Reply, EmptyReply, FailureReply, PostHandoffFinish, ReplyAndEnd, EndTurn,
         ClearDelegation, RecursionLimitReached, Abort, planVars, turnVars, historyVars
    <2> QED BY <2>1, RestKeepsRepeat
  <1>5. ASSUME UNCHANGED <<node, next, executionQueue, lastHandoff, retryCount, thread, intent, attempts, twice>>
        PROVE  QueueInv' /\ RetryInv'
    BY <1>5, RestKeepsRepeat
  <1>6. ASSUME NEW a \in Agents, SetEnabled(a) PROVE QueueInv' /\ RetryInv'
    BY <1>5, <1>6 DEF SetEnabled, planVars, turnVars, historyVars
  <1>7. CASE Recompile
    BY <1>5, <1>7 DEF Recompile, planVars, turnVars, historyVars
  <1>8. CASE UNCHANGED vars
    BY <1>5, <1>8 DEF vars, planVars, turnVars, historyVars
  <1> QED BY <1>2, <1>3, <1>4, <1>6, <1>7, <1>8

LEMMA RepeatNext ==
    TypeOK /\ QueueInv /\ RetryInv /\ [Next]_vars => QueueInv' /\ RetryInv'
  BY RepeatSupervise, RepeatSpecialist, RepeatEnvironment DEF Next, TurnStep

LEMMA RepeatInvHolds == Spec => [](QueueInv /\ RetryInv)
  BY RepeatInit, RepeatNext, TypeCorrect, PTL DEF Spec

\* Unless the user asked for it, no step of a chat turn is given to its specialist more
\* than MaxErrorRetries + 1 times in a row, whatever the model answers, whichever
\* supersteps are lost and whatever an aborted turn left in the channels.
THEOREM RetriesBounded == Spec => []RetriesAreBounded
  <1>1. RetryInv => RetriesAreBounded
    BY DEF RetryInv
  <1> QED BY <1>1, RepeatInvHolds, PTL

\* A specialist that just handed off runs again only as an automatic retry, on the
\* user's word, or because the plan under way names it more than once; a cron
\* trigger finds no handoff to repeat.
THEOREM RepeatsAreEarned == Spec => NoUnearnedRepeat
  <1> DEFINE Earned == CanAutoRetry \/ intent = "again" \/ next' \in twice'
  <1>1. ASSUME TypeOK, CronInv, QueueInv, Next
        PROVE  StartsAgain /\ HandoffComplete => Earned
    <2> SUFFICES ASSUME StartsAgain, HandoffComplete PROVE Earned
      OBVIOUS
    <2>1. node = "supervisor" /\ node' = "prepare" /\ next' = lastHandoff.agent
      BY DEF StartsAgain
    <2>2. CASE CronRoute
      BY <1>1, <2>1, <2>2 DEF CronRoute, CronInv
    <2>3. CASE Dequeue
      <3>1. /\ executionQueue \in Seq(Agents) /\ executionQueue # <<>>
            /\ next' = Head(executionQueue) /\ UNCHANGED twice
        BY <1>1, <2>3 DEF Dequeue, Dequeues, EnqueueAndStart, TypeOK
      <3>2. Head(executionQueue) \in Range(executionQueue)
        <4>1. Head(executionQueue) = executionQueue[1] /\ 1 \in DOMAIN executionQueue
          BY <3>1
        <4> QED BY <4>1 DEF Range
      <3> QED BY <1>1, <2>1, <3>1, <3>2 DEF QueueInv
    <2>4. ASSUME NEW plan \in RoutablePlans, AutoRetry(plan) PROVE CanAutoRetry
      BY <2>4 DEF AutoRetry, RetriesError
    <2>5. ASSUME NEW plan \in RoutablePlans, SkipRepeat(plan) PROVE next' \in twice'
      <3>1. /\ next' = Head(Tail(plan)) /\ Tail(plan) # <<>> /\ Head(plan) = lastHandoff.agent
            /\ twice' = Repeated(plan)
        BY <2>5 DEF SkipRepeat, RepeatsHandoff, EnqueueAndStart
      <3> QED BY <1>1, <2>1, <3>1, RoutablePlanFacts, RepeatedFacts
    <2>6. ASSUME NEW plan \in RoutablePlans, Delegate(plan) PROVE intent = "again"
      BY <2>1, <2>6 DEF Delegate, EnqueueAndStart, RepeatsHandoff
    <2>7. ASSUME NEW plan \in RoutablePlans, BlockRepeat(plan) PROVE FALSE
      BY <2>1, <2>7 DEF BlockRepeat, ToReplyNode, Advance
    <2>8. CASE SummarizeEmpty \/ ConfigurationFinish \/ RoutingFailure
      BY <2>1, <2>8 DEF SummarizeEmpty, ConfigurationFinish, RoutingFailure, ToReplyNode, Advance
    <2>9. CASE DequeueUnwired \/ DirectFinish \/ SupervisorReply \/ RecursionLimitReached \/ Abort
      BY <2>1, <2>9 DEF DequeueUnwired, DirectFinish, SupervisorReply, FinishWith, EndTurn,
         RecursionLimitReached, Abort
    <2>10. CASE Specialist \/ Reply
      BY <2>1, <2>10 DEF Specialist, Prepare, ModelAnswers, ModelThrows, SkipUnavailable,
         ToolsAnswer, Finalize, Reply, EmptyReply, FailureReply, PostHandoffFinish, Runs
    <2>11. ASSUME \/ \E text \in {"request", "again", "captionless"} : UserMessage(text)
                  \/ \E route \in Agents \cup {"supervisor"} : CronMessage(route)
                  \/ \E a \in Agents : SetEnabled(a)
                  \/ Recompile
           PROVE  FALSE
      BY <2>1, <2>11 DEF UserMessage, CronMessage, BeginTurn, SetEnabled, Recompile
    <2> QED
      BY <1>1, <2>2, <2>3, <2>4, <2>5, <2>6, <2>7, <2>8, <2>9, <2>10, <2>11
      DEF Next, TurnStep, Supervise
  <1>2. TypeOK /\ CronInv /\ QueueInv /\ [Next]_vars
        => [StartsAgain /\ HandoffComplete => Earned]_vars
    BY <1>1
  <1>3. Spec => [][StartsAgain /\ HandoffComplete => Earned]_vars
    BY <1>2, CronInvHolds, RepeatInvHolds, TypeCorrect, PTL DEF Spec
  <1> QED BY <1>3 DEF NoUnearnedRepeat

(***************************************************************************)
(* The order of a plan's steps: no assumption on the plans.                *)
(***************************************************************************)
\* The channels of the step after a handoff, as QueueFollowsPlan reads them.
FollowsPlan ==
    node = "supervisor" /\ node' # "supervisor" /\ outcome' # "aborted"
       /\ lastHandoff # NoHandoff /\ executionQueue # <<>>
    => \/ next' = Head(executionQueue) /\ executionQueue' = Tail(executionQueue)
       \/ lastHandoff.status = "empty" /\ next' = "empty_reply" /\ executionQueue' = <<>>

\* Once a specialist has handed off, the rest of its plan is neither reordered nor
\* skipped nor replaced by a new plan of the model, and no reply comes before it is run.
THEOREM QueueIsFollowed == Spec => QueueFollowsPlan
  <1>1. ASSUME CronInv, Next PROVE FollowsPlan
    <2> SUFFICES ASSUME node = "supervisor", node' # "supervisor", outcome' # "aborted",
                        lastHandoff # NoHandoff, executionQueue # <<>>
                 PROVE  \/ next' = Head(executionQueue) /\ executionQueue' = Tail(executionQueue)
                        \/ /\ lastHandoff.status = "empty" /\ next' = "empty_reply"
                           /\ executionQueue' = <<>>
      BY DEF FollowsPlan
    <2>1. ~CronTriggered
      BY <1>1 DEF CronInv
    <2>2. ~ConsultsModel /\ ~Settled
      BY <2>1 DEF ConsultsModel, Settled, Dequeues, HandoffComplete
    <2>3. CASE SummarizeEmpty
      BY <2>3 DEF SummarizeEmpty, ToReplyNode
    <2>4. CASE Dequeue
      BY <2>4 DEF Dequeue, EnqueueAndStart
    <2>5. ~CronRoute /\ ~ConfigurationFinish /\ ~DirectFinish /\ ~SupervisorReply /\ ~RoutingFailure
      BY <2>1, <2>2 DEF CronRoute, ConfigurationFinish, ConfigurationSettled, DirectFinish,
         SpecialistSettled, SupervisorReply, RoutingFailure
    <2>6. ASSUME NEW plan \in RoutablePlans
          PROVE  ~(AutoRetry(plan) \/ SkipRepeat(plan) \/ BlockRepeat(plan) \/ Delegate(plan))
      BY <2>2 DEF AutoRetry, SkipRepeat, BlockRepeat, Delegate
    <2>7. ~DequeueUnwired /\ ~RecursionLimitReached /\ ~Abort
      BY DEF DequeueUnwired, RecursionLimitReached, Abort, EndTurn
    <2>8. ~Specialist /\ ~Reply
      BY DEF Specialist, Prepare, ModelAnswers, ModelThrows, SkipUnavailable, ToolsAnswer,
         Finalize, Reply, EmptyReply, FailureReply, PostHandoffFinish, Runs
    <2>9. \/ \E text \in {"request", "again", "captionless"} : UserMessage(text)
          \/ \E route \in Agents \cup {"supervisor"} : CronMessage(route)
          \/ \E a \in Agents : SetEnabled(a)
          \/ Recompile
          => FALSE
      BY DEF UserMessage, CronMessage, BeginTurn, SetEnabled, Recompile
    <2> QED
      BY <1>1, <2>3, <2>4, <2>5, <2>6, <2>7, <2>8, <2>9 DEF Next, TurnStep, Supervise
  <1>2. CronInv /\ [Next]_vars => [FollowsPlan]_vars
    BY <1>1
  <1>3. Spec => [][FollowsPlan]_vars
    BY <1>2, CronInvHolds, PTL DEF Spec
  <1> QED BY <1>3 DEF QueueFollowsPlan, FollowsPlan
=============================================================================
