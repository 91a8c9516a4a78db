------------------------------ MODULE SqlSession ------------------------------
(***************************************************************************)
(* A Supabase session that heals itself (integrations/mcp/                 *)
(* self-healing-session.ts, over the MCP client of mcp/supabase.ts).       *)
(*                                                                         *)
(* The finance tools call executeSql, several of them at a time.  A call   *)
(* takes the current session, or the one that a reset under way will       *)
(* bring, or connects one of its own when there is neither.  When its      *)
(* query fails for the transport it resets the session, or waits for the   *)
(* reset that somebody else has begun, and tries again.  A reset waits for *)
(* its backoff, closes the session that is current by then, forgets it and *)
(* connects the next.  A recompilation of the runtime, or the end of the   *)
(* process, closes the session with calls in flight.                       *)
(*                                                                         *)
(* The server, the network and the MCP client are external: a connect and  *)
(* a query settle in either way, a query on a closed session with an error *)
(* that may look like one of the transport or not.                         *)
(***************************************************************************)
EXTENDS Integers, Sequences, FiniteSets

CONSTANTS
    Calls,                  \* the invocations of the finance tools
    MaxReconnectAttempts,
    BaseDelays, MaxDelay    \* what MCP_RECONNECT_BASE_DELAY_MS may be, and its cap

ASSUME AttemptsAssumption == MaxReconnectAttempts \in Nat
ASSUME DelaysAssumption == BaseDelays \subseteq Nat /\ MaxDelay \in Nat

VARIABLES
    wrapper,        \* "setup", "ready", or "absent" when the connections were not made
    baseDelay,
    sessions,       \* the sessions, in the order in which they began to connect
    session,        \* the current one, 0 for undefined
    reconnecting,   \* the reset under way: where it is, and its new session
    calls,          \* calls[c]: where it is, its attempt, its session, those it was tried on
    closer          \* close()

vars == <<wrapper, baseDelay, sessions, session, reconnecting, calls, closer>>

NoReset == [at |-> "none", to |-> 0]
Idle == [at |-> "idle", attempt |-> 0, active |-> 0, tried |-> <<>>, error |-> "none"]
Ended == {"answered", "thrown"}
Errors == {"transport", "other"}

Init ==
    /\ wrapper = "setup" /\ baseDelay \in BaseDelays
    /\ sessions = <<"connecting">> /\ session = 0 /\ reconnecting = NoReset
    /\ calls = [c \in Calls |-> Idle] /\ closer = "idle"

\* setupSupabaseSessions: no session at all when this one or its twin cannot be connected.
SetUp ==
    /\ wrapper = "setup" /\ wrapper' = "ready"
    /\ sessions' = <<"open">> /\ session' = 1
    /\ UNCHANGED <<baseDelay, reconnecting, calls, closer>>

SetUpFails ==
    /\ wrapper = "setup" /\ wrapper' = "absent"
    /\ \E outcome \in {"open", "failed"} :
        sessions' = <<outcome>> /\ session' = IF outcome = "open" THEN 1 ELSE 0
    /\ UNCHANGED <<baseDelay, reconnecting, calls, closer>>

(***************************************************************************)
(* What a call is doing.                                                   *)
(***************************************************************************)
Queries(call, s) == [call EXCEPT !.at = "query", !.active = s, !.tried = Append(@, s)]
Caught(call, error) == [call EXCEPT !.at = "caught", !.active = 0, !.error = error]
Over(outcome) == [Idle EXCEPT !.at = outcome]
Goes(c, call) == calls' = [calls EXCEPT ![c] = call]

\* establishSession, at the beginning of an attempt.
MayTake == reconnecting = NoReset /\ session # 0
MayConnect_Anyway == session = 0
MayConnect == reconnecting = NoReset /\ session = 0

Establish(c) ==
    /\ wrapper = "ready" /\ calls[c].at \in {"idle", "establish"}
    /\ \/ MayTake /\ Goes(c, Queries(calls[c], session)) /\ UNCHANGED sessions
       \/ /\ MayConnect /\ sessions' = Append(sessions, "connecting")
          /\ Goes(c, [calls[c] EXCEPT !.at = "connects", !.active = Len(sessions) + 1])
       \/ ~MayTake /\ ~MayConnect /\ Goes(c, [calls[c] EXCEPT !.at = "waits"]) /\ UNCHANGED sessions
    /\ UNCHANGED <<wrapper, baseDelay, session, reconnecting, closer>>

\* connectSupabaseMcp for the call itself.
Connects(c) ==
    /\ calls[c].at = "connects"
    /\ sessions' = [sessions EXCEPT ![calls[c].active] = "open"] /\ session' = calls[c].active
    /\ Goes(c, Queries(calls[c], calls[c].active))
    /\ UNCHANGED <<wrapper, baseDelay, reconnecting, closer>>

ConnectFails(c) ==
    /\ calls[c].at = "connects"
    /\ sessions' = [sessions EXCEPT ![calls[c].active] = "failed"]
    /\ \E e \in Errors : Goes(c, Caught(calls[c], e))
    /\ UNCHANGED <<wrapper, baseDelay, session, reconnecting, closer>>

\* client.callTool
Answers(c) ==
    /\ calls[c].at = "query" /\ sessions[calls[c].active] = "open"
    /\ Goes(c, Over("answered"))
    /\ UNCHANGED <<wrapper, baseDelay, sessions, session, reconnecting, closer>>

QueryFails(c) ==
    /\ calls[c].at = "query"
    /\ \E e \in Errors : Goes(c, Caught(calls[c], e))
    /\ UNCHANGED <<wrapper, baseDelay, sessions, session, reconnecting, closer>>

(***************************************************************************)
(* resetAndConnect: a reset belongs to no call once it has begun.          *)
(***************************************************************************)
\* computeReconnectDelayMs
Delay(attempt) ==
    LET delay == baseDelay * 2 ^ (attempt - 1) IN
    IF baseDelay <= 0 \/ attempt <= 0 THEN 0 ELSE IF delay < MaxDelay THEN delay ELSE MaxDelay

\* The session is closed if there is one, and otherwise the next is connected at once.
CloseAndConnect ==
    IF session # 0
    THEN /\ sessions' = [sessions EXCEPT ![session] = "closed"]
         /\ reconnecting' = [at |-> "closing", to |-> 0] /\ UNCHANGED session
    ELSE /\ sessions' = Append(sessions, "connecting")
         /\ reconnecting' = [at |-> "connecting", to |-> Len(sessions) + 1] /\ UNCHANGED session

Exhausted(c) == calls[c].attempt >= MaxReconnectAttempts
Retried_AtOnce(call) == [call EXCEPT !.at = IF reconnecting = NoReset THEN "resets" ELSE "establish", !.attempt = @ + 1, !.error = "none"]
Retried(call) == [call EXCEPT !.at = "resets", !.attempt = @ + 1, !.error = "none"]

\* The catch of executeSql.  The tool turns what is thrown into its result.
Throw(c) ==
    /\ calls[c].at = "caught" /\ (calls[c].error = "other" \/ Exhausted(c))
    /\ Goes(c, Over("thrown"))
    /\ UNCHANGED <<wrapper, baseDelay, sessions, session, reconnecting, closer>>

Retry(c) ==
    /\ calls[c].at = "caught" /\ calls[c].error = "transport" /\ ~Exhausted(c)
    /\ Goes(c, Retried(calls[c]))
    /\ IF reconnecting # NoReset THEN UNCHANGED <<sessions, session, reconnecting>>
       ELSE IF Delay(calls[c].attempt + 1) = 0 THEN CloseAndConnect
       ELSE reconnecting' = [at |-> "sleeping", to |-> 0] /\ UNCHANGED <<sessions, session>>
    /\ UNCHANGED <<wrapper, baseDelay, closer>>

ResetAwakes ==
    /\ reconnecting.at = "sleeping" /\ CloseAndConnect
    /\ UNCHANGED <<wrapper, baseDelay, calls, closer>>

\* The session is forgotten, however its close ended, and whatever is current by now.
Forgotten_Later == session
Forgotten == 0

ResetClosed ==
    /\ reconnecting.at = "closing"
    /\ session' = Forgotten /\ sessions' = Append(sessions, "connecting")
    /\ reconnecting' = [at |-> "connecting", to |-> Len(sessions) + 1]
    /\ UNCHANGED <<wrapper, baseDelay, calls, closer>>

\* The end of the reset, in the order of its awaits: reconnecting = undefined comes first.
Woken(call, s) ==
    CASE call.at = "waits" -> Queries(call, s)
      [] call.at = "resets" -> [call EXCEPT !.at = "establish", !.active = 0]
      [] OTHER -> call
Refused_ResetsOnly(call, e) == IF call.at = "resets" THEN Over("thrown") ELSE call
Refused(call, e) ==
    CASE call.at = "waits" -> Caught(call, e)
      [] call.at = "resets" -> Over("thrown")
      [] OTHER -> call
CloserGoes == closer' = IF closer = "waits" THEN "goes" ELSE closer

ResetConnects ==
    /\ reconnecting.at = "connecting"
    /\ sessions' = [sessions EXCEPT ![reconnecting.to] = "open"] /\ session' = reconnecting.to
    /\ calls' = [c \in Calls |-> Woken(calls[c], reconnecting.to)]
    /\ reconnecting' = NoReset /\ CloserGoes
    /\ UNCHANGED <<wrapper, baseDelay>>

ResetFails ==
    /\ reconnecting.at = "connecting"
    /\ sessions' = [sessions EXCEPT ![reconnecting.to] = "failed"]
    /\ \E e \in Errors : calls' = [c \in Calls |-> Refused(calls[c], e)]
    /\ reconnecting' = NoReset /\ CloserGoes
    /\ UNCHANGED <<wrapper, baseDelay, session>>

(***************************************************************************)
(* close, called once, by closePersonalAdapters.                           *)
(***************************************************************************)
CloseBegins ==
    IF session = 0 THEN closer' = "done" /\ UNCHANGED sessions
    ELSE closer' = "closing" /\ sessions' = [sessions EXCEPT ![session] = "closed"]

Close ==
    /\ wrapper = "ready"
    /\ \/ closer = "idle" /\ reconnecting # NoReset /\ closer' = "waits" /\ UNCHANGED sessions
       \/ closer = "idle" /\ reconnecting = NoReset /\ CloseBegins
       \/ closer = "goes" /\ CloseBegins
    /\ UNCHANGED <<wrapper, baseDelay, session, reconnecting, calls>>

Closed ==
    /\ closer = "closing" /\ closer' = "done" /\ session' = 0
    /\ UNCHANGED <<wrapper, baseDelay, sessions, reconnecting, calls>>

\* client.close rejects: the session stays the current one.
CloseFails ==
    /\ closer = "closing" /\ closer' = "failed"
    /\ UNCHANGED <<wrapper, baseDelay, sessions, session, reconnecting, calls>>

CallStep(c) ==
    \/ Establish(c) \/ Connects(c) \/ ConnectFails(c) \/ Answers(c) \/ QueryFails(c)
    \/ Throw(c) \/ Retry(c)
ResetStep == ResetAwakes \/ ResetClosed \/ ResetConnects \/ ResetFails
CloseStep == Close \/ Closed \/ CloseFails
Next == SetUp \/ SetUpFails \/ (\E c \in Calls : CallStep(c)) \/ ResetStep \/ CloseStep

\* What is awaited settles, as requests to the server do in the client's time limit, and timers
\* fire.  Nobody has to call a tool or close().
Fairness ==
    /\ \A c \in Calls : WF_vars(calls[c].at # "idle" /\ CallStep(c))
    /\ WF_vars(ResetStep)
Spec == Init /\ [][Next]_vars /\ Fairness

(***************************************************************************)
(* Properties.                                                             *)
(***************************************************************************)
Sessions == DOMAIN sessions
Busy == {"waits", "connects", "query", "caught", "resets", "establish"}

\* Every value is one the code can have: no attempt beyond the last, and a call is at a query
\* only on a session that has been connected.
TypeOK ==
    /\ wrapper \in {"setup", "ready", "absent"} /\ baseDelay \in BaseDelays
    /\ sessions \in Seq({"connecting", "open", "closed", "failed"}) /\ session \in 0..Len(sessions)
    /\ reconnecting.at \in {"none", "sleeping", "closing", "connecting"} /\ reconnecting.to \in 0..Len(sessions)
    /\ closer \in {"idle", "waits", "goes", "closing", "done", "failed"}
    /\ \A c \in Calls :
        /\ calls[c].at \in {"idle"} \cup Busy \cup Ended
        /\ calls[c].attempt \in 0..MaxReconnectAttempts
        /\ calls[c].active \in 0..Len(sessions) /\ calls[c].error \in Errors \cup {"none"}
        /\ calls[c].at = "query" => sessions[calls[c].active] \in {"open", "closed"}

\* What establishSession hands out is an open session, unless somebody is closing it at this
\* moment or its close has failed: a reset forgets the session it closes, also when it cannot
\* connect another.
CurrentIsOpen ==
    (session # 0 /\ reconnecting.at # "closing" /\ closer \notin {"closing", "failed"})
        => sessions[session] = "open"

\* A retry never goes to a session on which the same query has failed before, whoever reset the
\* session and whatever else was connected or closed in the meantime.
RetriesOnAnother ==
    \A c \in Calls : \A i, j \in DOMAIN calls[c].tried :
        i # j => calls[c].tried[i] # calls[c].tried[j]

\* As long as every connect succeeds and nobody has called close, no session is left open besides
\* the current one, however many calls fail and in which order they notice.
NoneLeftOpen ==
    (closer = "idle" /\ wrapper = "ready" /\ \A s \in Sessions : sessions[s] # "failed")
        => \A s \in Sessions : sessions[s] = "open" => s = session

\* Every call ends, in an answer or an error: nobody waits for a reset that is over, and no two
\* calls keep resetting the session under each other.
Settles == \A c \in Calls : calls[c].at \in Busy ~> calls[c].at \in Ended
===============================================================================
