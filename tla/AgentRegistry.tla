---------------------------- MODULE AgentRegistry ----------------------------
(***************************************************************************)
(* What the repository of specialists promises to those who call it: the   *)
(* calls that change it take effect one at a time and at once, each is     *)
(* answered by what it found at that moment, and a call that is cut off    *)
(* by a crash or a failing disk has no effect on the registry.             *)
(***************************************************************************)
CONSTANTS
    Calls,      \* calls of createAgent, updateAgent and deleteAgent
    Agents,     \* ids
    Defs,       \* what a definition can say
    Requests,   \* of a kind, for an agent, with a definition
    NoRequest

VARIABLES
    registry,   \* registry[a]: the definition of agent a, as a set
    request,    \* request[c]: what call c asks for
    outcome     \* outcome[c]: how far call c is

vars == <<registry, request, outcome>>

\* A create needs a new id, an update and a delete need an existing one.
Allowed(r, q) == (q.kind = "create") = (r[q.agent] = {})
Result(r, q)  == [r EXCEPT ![q.agent] = IF q.kind = "delete" THEN {} ELSE {q.def}]

Init ==
    /\ registry \in [Agents -> {{}} \cup {{d} : d \in Defs}]
    /\ request = [c \in Calls |-> NoRequest]
    /\ outcome = [c \in Calls |-> "none"]

Answered(c, o) ==
    /\ outcome[c] = "pending"
    /\ outcome' = [outcome EXCEPT ![c] = o]
    /\ UNCHANGED request

Called(c) ==
    /\ outcome[c] = "none"
    /\ outcome' = [outcome EXCEPT ![c] = "pending"]
    /\ \E q \in Requests : request' = [request EXCEPT ![c] = q]
    /\ UNCHANGED registry

Commit(c) ==
    /\ Answered(c, "ok") /\ Allowed(registry, request[c])
    /\ registry' = Result(registry, request[c])

Refuse(c) ==
    /\ Answered(c, "refused") /\ ~Allowed(registry, request[c])
    /\ UNCHANGED registry

Fail(c) == Answered(c, "failed") /\ UNCHANGED registry

Crash ==
    /\ outcome' = [c \in Calls |-> IF outcome[c] = "pending" THEN "lost" ELSE outcome[c]]
    /\ UNCHANGED <<registry, request>>

Next ==
    \/ \E c \in Calls : Called(c) \/ Commit(c) \/ Refuse(c) \/ Fail(c)
    \/ Crash

Atomic   == Init /\ [][Next]_vars
Answers  == \A c \in Calls : (outcome[c] = "pending") ~> (outcome[c] # "pending")
Spec     == Atomic /\ Answers
=============================================================================
