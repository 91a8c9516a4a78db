--------------------------- MODULE SqlSessionProofs ---------------------------
(***************************************************************************)
(* The safety properties of SqlSession, for any number of calls, attempts  *)
(* and sessions.                                                           *)
(*                                                                         *)
(* The argument: a session becomes current when it has just been           *)
(* connected, so no call has been tried on it before (CallOK).  As long as *)
(* no connect has failed and nobody closes, there is a current session     *)
(* whenever no reset is under way, so no call connects one of its own, and *)
(* a reset closes the current session before it connects the next          *)
(* (CalmInv).                                                              *)
(***************************************************************************)
EXTENDS SqlSession, TLAPS

States == {"connecting", "open", "closed", "failed"}
CallType == [at : {"idle"} \cup Busy \cup Ended, attempt : 0..MaxReconnectAttempts,
             active : Nat, tried : Seq(Nat), error : Errors \cup {"none"}]
ResetType == [at : {"none", "sleeping", "closing", "connecting"}, to : Nat]

Typed ==
    /\ wrapper \in {"setup", "ready", "absent"} /\ baseDelay \in BaseDelays
    /\ sessions \in Seq(States) /\ session \in 0..Len(sessions)
    /\ reconnecting \in ResetType /\ reconnecting.to \in 0..Len(sessions)
    /\ calls \in [Calls -> CallType]
    /\ closer \in {"idle", "waits", "goes", "closing", "done", "failed"}

\* What a call knows of the sessions: it queries one that was connected, connects one that is
\* not, and was tried on different ones, none of which it can be handed again.
CallOK(r) ==
    /\ r.active \in 0..Len(sessions)
    /\ r.at = "query" => r.active # 0 /\ sessions[r.active] \in {"open", "closed"}
    /\ r.at = "connects" => r.active # 0 /\ sessions[r.active] = "connecting"
    /\ \A i \in 1..Len(r.tried) : r.tried[i] \in 1..Len(sessions) /\ sessions[r.tried[i]] # "connecting"
    /\ \A i, j \in 1..Len(r.tried) : i # j => r.tried[i] # r.tried[j]
    /\ r.at = "idle" => r.tried = <<>>
    /\ r.at = "establish" => \A i \in 1..Len(r.tried) : r.tried[i] # session

\* Every session that is being connected is so by one call or by the reset.
Apart ==
    \A c \in Calls : calls[c].at = "connects" =>
        /\ reconnecting.at = "connecting" => calls[c].active # reconnecting.to
        /\ \A d \in Calls : d # c /\ calls[d].at = "connects" => calls[c].active # calls[d].active

Linked ==
    /\ session # 0 => sessions[session] \in {"open", "closed"}
    /\ reconnecting.at = "connecting" => reconnecting.to # 0 /\ sessions[reconnecting.to] = "connecting"
    /\ wrapper # "ready" => reconnecting = NoReset /\ closer = "idle" /\ \A c \in Calls : calls[c] = Idle

Common == Typed /\ Linked /\ Apart /\ \A c \in Calls : CallOK(calls[c])

\* Nothing has gone wrong but queries.
Calm == closer = "idle" /\ wrapper = "ready" /\ \A s \in 1..Len(sessions) : sessions[s] # "failed"
CalmInv ==
    Calm =>
        /\ \A s \in 1..Len(sessions) : sessions[s] = "open" => s = session
        /\ session = 0 <=> reconnecting.at = "connecting"
        /\ reconnecting.at = "closing" => sessions[session] = "closed"
        /\ \A c \in Calls : calls[c].at # "connects"

USE AttemptsAssumption, DelaysAssumption DEF States, Busy, Ended, Errors

(***************************************************************************)
(* Lemmas on sequences and on calls that a step leaves alone.              *)
(***************************************************************************)
LEMMA Appended ==
    ASSUME NEW S, NEW q \in Seq(S), NEW x \in S
    PROVE  /\ Append(q, x) \in Seq(S) /\ Len(Append(q, x)) = Len(q) + 1 /\ Len(q) \in Nat
           /\ \A i \in 1..Len(q) : Append(q, x)[i] = q[i]
           /\ Append(q, x)[Len(q) + 1] = x
  OBVIOUS

LEMMA Replaced ==
    ASSUME NEW S, NEW q \in Seq(S), NEW n \in 1..Len(q), NEW x \in S
    PROVE  /\ [q EXCEPT ![n] = x] \in Seq(S) /\ Len([q EXCEPT ![n] = x]) = Len(q)
           /\ \A i \in 1..Len(q) : [q EXCEPT ![n] = x][i] = IF i = n THEN x ELSE q[i]
  OBVIOUS

LEMMA CallUpdated ==
    ASSUME NEW r \in CallType
    PROVE  /\ \A a \in {"idle"} \cup Busy \cup Ended :
                 LET q == [r EXCEPT !.at = a]
                 IN  q \in CallType /\ q.at = a /\ q.active = r.active /\ q.tried = r.tried
           /\ \A n \in Nat :
                 LET q == [r EXCEPT !.at = "connects", !.active = n]
                 IN  q \in CallType /\ q.at = "connects" /\ q.active = n /\ q.tried = r.tried
           /\ \A e \in Errors :
                 LET q == Caught(r, e)
                 IN  q \in CallType /\ q.at = "caught" /\ q.active = 0 /\ q.tried = r.tried
           /\ \A o \in Ended :
                 LET q == Over(o)
                 IN  q \in CallType /\ q.at = o /\ q.active = 0 /\ q.tried = <<>>
  <1>1. r.attempt \in 0..MaxReconnectAttempts /\ r.tried \in Seq(Nat) /\ r.active \in Nat
        /\ r.error \in Errors \cup {"none"}
    BY DEF CallType
  <1>2. ASSUME NEW a \in {"idle"} \cup Busy \cup Ended
        PROVE  LET q == [r EXCEPT !.at = a]
               IN  q \in CallType /\ q.at = a /\ q.active = r.active /\ q.tried = r.tried
    BY DEF CallType
  <1>3. ASSUME NEW n \in Nat
        PROVE  LET q == [r EXCEPT !.at = "connects", !.active = n]
               IN  q \in CallType /\ q.at = "connects" /\ q.active = n /\ q.tried = r.tried
    BY DEF CallType
  <1>4. ASSUME NEW e \in Errors
        PROVE  LET q == Caught(r, e)
               IN  q \in CallType /\ q.at = "caught" /\ q.active = 0 /\ q.tried = r.tried
    BY DEF CallType, Caught
  <1>5. ASSUME NEW o \in Ended
        PROVE  LET q == Over(o)
               IN  q \in CallType /\ q.at = o /\ q.active = 0 /\ q.tried = <<>>
    <2>1. Over(o) = [at |-> o, attempt |-> 0, active |-> 0, tried |-> <<>>, error |-> "none"]
      BY DEF Over, Idle
    <2>2. <<>> \in Seq(Nat) /\ 0 \in 0..MaxReconnectAttempts
      OBVIOUS
    <2> QED BY <2>1, <2>2 DEF CallType
  <1> QED BY <1>2, <1>3, <1>4, <1>5

\* Sessions only begin, and go on from connecting to open or failed, or from open to closed.
Grows ==
    /\ sessions' \in Seq(States) /\ Len(sessions') \in Nat /\ Len(sessions) \in Nat
    /\ Len(sessions) <= Len(sessions')
    /\ \A s \in 1..Len(sessions) :
          /\ sessions[s] # "connecting" => sessions'[s] # "connecting"
          /\ sessions[s] \in {"open", "closed"} => sessions'[s] \in {"open", "closed"}

Moves == session' \in {session, 0} \/ (session' \in 1..Len(sessions) /\ sessions[session'] = "connecting")

LEMMA CallKept ==
    ASSUME Typed, NEW r \in CallType, CallOK(r), Grows, Moves,
           r.at = "connects" => sessions'[r.active] = "connecting"
    PROVE  CallOK(r)'
  <1>1. r.tried \in Seq(Nat) /\ Len(r.tried) \in Nat
    BY DEF CallType
  <1>2. Len(sessions) \in Nat /\ Len(sessions') \in Nat /\ Len(sessions) <= Len(sessions')
    BY DEF Grows
  <1>3. r.active \in 0..Len(sessions')
    BY <1>2 DEF CallOK
  <1>4. r.at = "query" => r.active # 0 /\ sessions'[r.active] \in {"open", "closed"}
    BY <1>2 DEF CallOK, Grows
  <1>5. \A i \in 1..Len(r.tried) : r.tried[i] \in 1..Len(sessions') /\ sessions'[r.tried[i]] # "connecting"
    <2>1. \A i \in 1..Len(r.tried) : r.tried[i] \in 1..Len(sessions) /\ sessions[r.tried[i]] # "connecting"
      BY DEF CallOK
    <2>2. \A s \in 1..Len(sessions) : s \in 1..Len(sessions') /\ (sessions[s] # "connecting" => sessions'[s] # "connecting")
      BY <1>2 DEF Grows
    <2> QED BY <2>1, <2>2
  <1>6. r.at = "establish" => \A i \in 1..Len(r.tried) : r.tried[i] # session'
    BY <1>1, <1>2 DEF CallOK, Moves
  <1> QED BY <1>3, <1>4, <1>5, <1>6 DEF CallOK

\* A query on a session that the call has not been tried on.
LEMMA QueriesOK ==
    ASSUME Typed, NEW r \in CallType, CallOK(r), Grows, NEW s \in 1..Len(sessions),
           sessions'[s] \in {"open", "closed"}, \A i \in 1..Len(r.tried) : r.tried[i] # s
    PROVE  Queries(r, s) \in CallType /\ CallOK(Queries(r, s))'
  <1>1. r.tried \in Seq(Nat) /\ Len(r.tried) \in Nat /\ s \in Nat
    BY DEF CallType, Typed
  <1> DEFINE q == Append(r.tried, s)
  <1>2. q \in Seq(Nat) /\ Len(q) = Len(r.tried) + 1 /\ (\A i \in 1..Len(r.tried) : q[i] = r.tried[i])
        /\ q[Len(r.tried) + 1] = s
    BY <1>1, Appended
  <1>3. Queries(r, s) \in CallType /\ Queries(r, s).at = "query" /\ Queries(r, s).active = s
        /\ Queries(r, s).tried = q
    BY <1>1, <1>2 DEF Queries, CallType
  <1>4. s \in 1..Len(sessions') /\ s # 0
    BY DEF Grows, Typed
  <1> HIDE DEF q
  <1>c. \A i \in 1..Len(q) : i \in 1..Len(r.tried) \/ i = Len(r.tried) + 1
    BY <1>1, <1>2
  <1>d. \A i \in 1..Len(r.tried) : r.tried[i] \in 1..Len(sessions) /\ sessions[r.tried[i]] # "connecting"
    BY DEF CallOK
  <1>e. \A i, j \in 1..Len(r.tried) : i # j => r.tried[i] # r.tried[j]
    BY DEF CallOK
  <1>b. \A i \in 1..Len(r.tried) : r.tried[i] \in 1..Len(sessions') /\ sessions'[r.tried[i]] # "connecting"
    BY <1>d DEF Grows
  <1>5. \A i \in 1..Len(q) : q[i] \in 1..Len(sessions') /\ sessions'[q[i]] # "connecting"
    BY <1>2, <1>4, <1>c, <1>b
  <1>6. \A i, j \in 1..Len(q) : i # j => q[i] # q[j]
    BY <1>1, <1>2, <1>c, <1>e
  <1> QED BY <1>3, <1>4, <1>5, <1>6 DEF CallOK

\* What a call does leaves the others as they were.
LEMMA OneCall ==
    ASSUME Common, NEW c \in Calls, NEW r \in CallType, calls' = [calls EXCEPT ![c] = r],
           CallOK(r)', Grows, Moves,
           \A d \in Calls : d # c /\ calls[d].at = "connects" => sessions'[calls[d].active] = "connecting"
    PROVE  /\ calls' \in [Calls -> CallType] /\ \A d \in Calls : CallOK(calls[d])'
           /\ \A d \in Calls : calls'[d] = IF d = c THEN r ELSE calls[d]
  <1>1. Typed /\ \A d \in Calls : CallOK(calls[d]) /\ calls[d] \in CallType
    BY DEF Common, Typed
  <1>2. calls' \in [Calls -> CallType] /\ \A d \in Calls : calls'[d] = IF d = c THEN r ELSE calls[d]
    BY <1>1 DEF Typed
  <1>3. ASSUME NEW d \in Calls PROVE CallOK(calls[d])'
    <2>1. CASE d = c
      <3>1. calls'[d] = r
        BY <1>2, <2>1
      <3> QED BY <3>1 DEF CallOK
    <2>2. CASE d # c
      <3>1. PICK q \in CallType : q = calls[d]
        BY <1>1
      <3>2. calls'[d] = q
        BY <1>2, <2>2, <3>1
      <3>3. CallOK(q) /\ (q.at = "connects" => sessions'[q.active] = "connecting")
        BY <1>1, <2>2, <3>1
      <3>4. CallOK(q)'
        BY <1>1, <3>3, CallKept
      <3> QED BY <3>2, <3>4 DEF CallOK
    <2> QED BY <2>1, <2>2
  <1> QED BY <1>2, <1>3

(***************************************************************************)
(* The calls.                                                              *)
(***************************************************************************)
\* A call goes on while the sessions stay as they are.
LEMMA CallGoes ==
    ASSUME Common, NEW c \in Calls, NEW r \in CallType, calls' = [calls EXCEPT ![c] = r], wrapper = "ready",
           CallOK(r)', r.at # "connects",
           UNCHANGED <<wrapper, baseDelay, sessions, session, reconnecting, closer>>
    PROVE  Common'
  <1>1. Typed /\ Linked /\ Apart /\ \A d \in Calls : CallOK(calls[d])
    BY DEF Common
  <1>2. Grows /\ Moves
    BY <1>1 DEF Grows, Moves, Typed
  <1>3. \A d \in Calls : calls[d].at = "connects" => sessions'[calls[d].active] = "connecting"
    BY <1>1 DEF CallOK
  <1>4. /\ calls' \in [Calls -> CallType] /\ \A d \in Calls : CallOK(calls[d])'
        /\ \A d \in Calls : calls'[d] = IF d = c THEN r ELSE calls[d]
    BY <1>2, <1>3, OneCall
  <1>5. Typed' /\ Linked'
    BY <1>1, <1>4 DEF Typed, Linked
  <1>6. Apart'
    BY <1>1, <1>4 DEF Apart
  <1> QED BY <1>4, <1>5, <1>6 DEF Common

LEMMA CallAlone ==
    ASSUME Common, NEW c \in Calls, Answers(c) \/ QueryFails(c) \/ Throw(c)
    PROVE  Common'
  <1>1. /\ Typed /\ calls[c] \in CallType /\ CallOK(calls[c]) /\ wrapper = "ready"
        /\ UNCHANGED <<wrapper, baseDelay, sessions, session, reconnecting, closer>>
    <2>1. calls[c] # Idle
      BY DEF Answers, QueryFails, Throw, Idle
    <2> QED BY <2>1 DEF Common, Typed, Linked, Answers, QueryFails, Throw
  <1>2. CASE Answers(c) \/ Throw(c)
    <2>1. PICK r \in CallType : calls' = [calls EXCEPT ![c] = r] /\ r.active = 0 /\ r.tried = <<>> /\ r.at \in Ended
      BY <1>1, <1>2, CallUpdated DEF Answers, Throw, Goes
    <2>2. CallOK(r)'
      BY <1>1, <2>1 DEF CallOK, Typed
    <2> QED BY <1>1, <2>1, <2>2, CallGoes
  <1>3. CASE QueryFails(c)
    <2>0. PICK e \in Errors : calls' = [calls EXCEPT ![c] = Caught(calls[c], e)]
      BY <1>3 DEF QueryFails, Goes
    <2>1. PICK r \in CallType : calls' = [calls EXCEPT ![c] = r] /\ r.active = 0 /\ r.tried = calls[c].tried /\ r.at = "caught"
      BY <1>1, <2>0, CallUpdated
    <2>2. CallOK(r)'
      BY <1>1, <2>1 DEF CallOK, Typed
    <2> QED BY <1>1, <2>1, <2>2, CallGoes
  <1> QED BY <1>2, <1>3

LEMMA EstablishCommon ==
    ASSUME Common, NEW c \in Calls, Establish(c)
    PROVE  Common'
  <1>1. Typed /\ Linked /\ Apart /\ \A d \in Calls : CallOK(calls[d])
    BY DEF Common
  <1>2. PICK old \in CallType : old = calls[c] /\ CallOK(old) /\ old.at \in {"idle", "establish"}
    BY <1>1 DEF Typed, Establish
  <1>3. /\ wrapper = "ready" /\ UNCHANGED <<wrapper, baseDelay, session, reconnecting, closer>>
        /\ Len(sessions) \in Nat
    BY <1>1 DEF Establish, Typed
  <1>4. CASE MayTake /\ Goes(c, Queries(calls[c], session)) /\ UNCHANGED sessions
    <2>1. session \in 1..Len(sessions) /\ sessions'[session] \in {"open", "closed"} /\ Grows
      BY <1>1, <1>3, <1>4 DEF MayTake, Linked, Typed, Grows
    <2>2. \A i \in 1..Len(old.tried) : old.tried[i] # session
      BY <1>2 DEF CallOK
    <2>3. PICK s \in 1..Len(sessions) : s = session
      BY <2>1
    <2>4. Queries(old, s) \in CallType /\ CallOK(Queries(old, s))'
      BY <1>1, <1>2, <2>1, <2>2, <2>3, QueriesOK
    <2>5. calls' = [calls EXCEPT ![c] = Queries(old, s)] /\ Queries(old, s).at # "connects"
      BY <1>2, <1>4, <2>3 DEF Goes, Queries, CallType
    <2> QED BY <1>3, <1>4, <2>4, <2>5, CallGoes
  <1>5. CASE ~MayTake /\ ~MayConnect /\ Goes(c, [calls[c] EXCEPT !.at = "waits"]) /\ UNCHANGED sessions
    <2>1. PICK r \in CallType : /\ calls' = [calls EXCEPT ![c] = r] /\ r.at = "waits"
                                /\ r.active = old.active /\ r.tried = old.tried
      <3>1. calls' = [calls EXCEPT ![c] = [old EXCEPT !.at = "waits"]]
        BY <1>2, <1>5 DEF Goes
      <3>2. PICK r : r = [old EXCEPT !.at = "waits"]
        OBVIOUS
      <3>3. r \in CallType /\ r.at = "waits" /\ r.active = old.active /\ r.tried = old.tried
        BY <3>2 DEF CallType
      <3> QED BY <3>1, <3>2, <3>3
    <2>2. CallOK(r)'
      BY <1>2, <1>3, <1>5, <2>1 DEF CallOK
    <2> QED BY <1>3, <1>5, <2>1, <2>2, CallGoes
  <1>6. CASE /\ MayConnect /\ sessions' = Append(sessions, "connecting")
             /\ Goes(c, [calls[c] EXCEPT !.at = "connects", !.active = Len(sessions) + 1])
    <2>1. /\ sessions' \in Seq(States) /\ Len(sessions') = Len(sessions) + 1
          /\ \A s \in 1..Len(sessions) : sessions'[s] = sessions[s]
          /\ sessions'[Len(sessions) + 1] = "connecting"
      BY <1>1, <1>6, Appended DEF Typed
    <2>2. Grows /\ Moves
      BY <1>3, <2>1 DEF Grows, Moves
    <2>3. PICK r \in CallType : /\ calls' = [calls EXCEPT ![c] = r] /\ r.at = "connects"
                                /\ r.active = Len(sessions) + 1 /\ r.tried = old.tried
      <3>1. calls' = [calls EXCEPT ![c] = [old EXCEPT !.at = "connects", !.active = Len(sessions) + 1]]
        BY <1>2, <1>6 DEF Goes
      <3>2. Len(sessions) + 1 \in Nat
        BY <1>3
      <3>3. PICK r : r = [old EXCEPT !.at = "connects", !.active = Len(sessions) + 1]
        OBVIOUS
      <3>4. r \in CallType /\ r.at = "connects" /\ r.active = Len(sessions) + 1 /\ r.tried = old.tried
        BY <3>2, <3>3, CallUpdated
      <3> QED BY <3>1, <3>3, <3>4
    <2>4. CallOK(r)'
      BY <1>2, <1>3, <2>1, <2>3 DEF CallOK
    <2>5. \A d \in Calls : calls[d].at = "connects" =>
             calls[d].active \in 1..Len(sessions) /\ sessions'[calls[d].active] = "connecting"
      BY <1>1, <1>3, <2>1 DEF CallOK
    <2>6. /\ calls' \in [Calls -> CallType] /\ \A d \in Calls : CallOK(calls[d])'
          /\ \A d \in Calls : calls'[d] = IF d = c THEN r ELSE calls[d]
      BY <2>2, <2>3, <2>4, <2>5, OneCall
    <2>7. Typed'
      BY <1>1, <1>3, <2>1, <2>6 DEF Typed
    <2>8. Linked'
      BY <1>1, <1>3, <2>1 DEF Linked, Typed
    <2>9. Apart'
      <3>1. reconnecting.at = "none"
        BY <1>6 DEF MayConnect, NoReset
      <3>2. \A d \in Calls : d # c /\ calls'[d].at = "connects" => calls'[d].active # r.active
        BY <1>3, <2>3, <2>5, <2>6
      <3> QED BY <1>1, <1>3, <2>6, <3>1, <3>2 DEF Apart
    <2> QED BY <2>6, <2>7, <2>8, <2>9 DEF Common
  <1> QED BY <1>4, <1>5, <1>6 DEF Establish

LEMMA ConnectsCommon ==
    ASSUME Common, NEW c \in Calls, Connects(c) \/ ConnectFails(c)
    PROVE  Common'
  <1>1. Typed /\ Linked /\ Apart /\ \A d \in Calls : CallOK(calls[d])
    BY DEF Common
  <1>2. PICK old \in CallType : old = calls[c] /\ CallOK(old) /\ old.at = "connects"
    BY <1>1 DEF Typed, Connects, ConnectFails
  <1>3. PICK n \in 1..Len(sessions) : n = old.active /\ sessions[n] = "connecting" /\ Len(sessions) \in Nat
    BY <1>1, <1>2 DEF CallOK, Typed
  <1>4. /\ wrapper = "ready" /\ UNCHANGED <<wrapper, baseDelay, reconnecting, closer>>
        /\ session' \in {session, n}
    <2>1. calls[c] # Idle
      BY <1>2 DEF Idle
    <2> QED BY <1>1, <1>2, <1>3, <2>1 DEF Linked, Connects, ConnectFails
  <1>5. PICK x \in {"open", "failed"} : /\ sessions' = [sessions EXCEPT ![n] = x]
                                        /\ session' = n => x = "open"
    <2>1. CASE Connects(c)
      BY <1>2, <1>3, <2>1 DEF Connects
    <2>2. CASE ConnectFails(c)
      BY <1>1, <1>2, <1>3, <2>2 DEF ConnectFails, Linked
    <2> QED BY <2>1, <2>2
  <1>6. /\ sessions' \in Seq(States) /\ Len(sessions') = Len(sessions)
        /\ \A s \in 1..Len(sessions) : sessions'[s] = IF s = n THEN x ELSE sessions[s]
    <2>1. sessions \in Seq(States) /\ x \in States
      BY <1>1 DEF Typed
    <2>2. /\ [sessions EXCEPT ![n] = x] \in Seq(States) /\ Len([sessions EXCEPT ![n] = x]) = Len(sessions)
          /\ \A s \in 1..Len(sessions) : [sessions EXCEPT ![n] = x][s] = IF s = n THEN x ELSE sessions[s]
      BY <2>1, Replaced
    <2>3. sessions' = [sessions EXCEPT ![n] = x]
      BY <1>5
    <2> HIDE DEF States
    <2> QED BY <2>2, <2>3, Zenon
  <1>7. Grows /\ Moves
    BY <1>3, <1>4, <1>6 DEF Grows, Moves
  <1>8. PICK r \in CallType : calls' = [calls EXCEPT ![c] = r] /\ CallOK(r)' /\ r.at # "connects"
    <2>1. CASE Connects(c)
      <3>1. \A i \in 1..Len(old.tried) : old.tried[i] # n
        BY <1>2, <1>3 DEF CallOK
      <3>2. sessions'[n] = "open"
        BY <1>2, <1>3, <1>6, <2>1 DEF Connects, Typed
      <3>3. Queries(old, n) \in CallType /\ CallOK(Queries(old, n))'
        BY <1>1, <1>2, <1>7, <3>1, <3>2, QueriesOK
      <3>4. calls' = [calls EXCEPT ![c] = Queries(old, n)] /\ Queries(old, n).at # "connects"
        BY <1>2, <1>3, <2>1 DEF Connects, Goes, Queries, CallType
      <3> QED BY <3>3, <3>4
    <2>2. CASE ConnectFails(c)
      <3>1. PICK r \in CallType : /\ calls' = [calls EXCEPT ![c] = r] /\ r.at = "caught"
                                  /\ r.active = 0 /\ r.tried = old.tried
        <4>1. PICK e \in Errors : calls' = [calls EXCEPT ![c] = Caught(old, e)]
          BY <1>2, <2>2 DEF ConnectFails, Goes
        <4> QED BY <4>1, CallUpdated
      <3>2. CallOK(r)'
        BY <1>2, <1>3, <1>6, <3>1 DEF CallOK
      <3> QED BY <3>1, <3>2
    <2> QED BY <2>1, <2>2
  <1>9. \A d \in Calls : d # c /\ calls[d].at = "connects" =>
           calls[d].active # n /\ sessions'[calls[d].active] = "connecting"
    BY <1>1, <1>2, <1>3, <1>6 DEF CallOK, Apart
  <1>10. /\ calls' \in [Calls -> CallType] /\ \A d \in Calls : CallOK(calls[d])'
         /\ \A d \in Calls : calls'[d] = IF d = c THEN r ELSE calls[d]
    BY <1>7, <1>8, <1>9, OneCall
  <1>11. Typed'
    BY <1>1, <1>3, <1>4, <1>6, <1>10 DEF Typed
  <1>12. Linked'
    <2>1. session' # 0 => sessions'[session'] \in {"open", "closed"}
      BY <1>1, <1>3, <1>4, <1>5, <1>6 DEF Linked, Typed
    <2>2. reconnecting.at = "connecting" => reconnecting.to # n
      BY <1>1, <1>2, <1>3 DEF Apart
    <2>3. reconnecting.at = "connecting" => reconnecting.to # 0 /\ sessions'[reconnecting.to] = "connecting"
      BY <1>1, <1>3, <1>6, <2>2 DEF Linked, Typed
    <2> QED BY <1>4, <2>1, <2>3 DEF Linked
  <1>13. Apart'
    BY <1>1, <1>4, <1>8, <1>10 DEF Apart
  <1> QED BY <1>10, <1>11, <1>12, <1>13 DEF Common

(***************************************************************************)
(* Resets and close.                                                       *)
(***************************************************************************)
\* A step in which no call begins to connect.
LEMMA SessionsGo ==
    ASSUME Common, wrapper = "ready", UNCHANGED <<wrapper, baseDelay>>, Grows,
           closer' \in {"idle", "waits", "goes", "closing", "done", "failed"},
           session' \in 0..Len(sessions'), session' # 0 => sessions'[session'] \in {"open", "closed"},
           reconnecting' \in ResetType, reconnecting'.to \in 0..Len(sessions'),
           reconnecting'.at = "connecting" =>
               /\ reconnecting'.to # 0 /\ sessions'[reconnecting'.to] = "connecting"
               /\ \/ reconnecting'.to = Len(sessions) + 1
                  \/ reconnecting.at = "connecting" /\ reconnecting'.to = reconnecting.to,
           calls' \in [Calls -> CallType], \A d \in Calls : CallOK(calls[d])',
           \A d \in Calls : calls'[d].at = "connects" =>
               calls[d].at = "connects" /\ calls'[d].active = calls[d].active
    PROVE  Common'
  <1>1. Typed /\ Linked /\ Apart /\ \A d \in Calls : CallOK(calls[d])
    BY DEF Common
  <1>2. Typed'
    BY <1>1 DEF Typed, Grows
  <1>3. Linked'
    BY DEF Linked
  <1>4. Apart'
    <2>1. \A d \in Calls : calls[d].at = "connects" => calls[d].active # Len(sessions) + 1
      BY <1>1 DEF CallOK, Grows
    <2> QED BY <1>1, <2>1 DEF Apart
  <1> QED BY <1>2, <1>3, <1>4 DEF Common

\* Calls that a step does not move, when what is being connected still is.
LEMMA CallsKept ==
    ASSUME Common, UNCHANGED calls, Grows, Moves,
           \A s \in 1..Len(sessions) : sessions[s] = "connecting" => sessions'[s] = "connecting"
    PROVE  /\ calls' \in [Calls -> CallType] /\ \A d \in Calls : CallOK(calls[d])'
           /\ \A d \in Calls : calls'[d].at = "connects" =>
                  calls[d].at = "connects" /\ calls'[d].active = calls[d].active
  <1>1. ASSUME NEW d \in Calls PROVE CallOK(calls[d])'
    <2>1. PICK q \in CallType : q = calls[d]
      BY DEF Common, Typed
    <2>2. CallOK(q)
      BY <2>1 DEF Common
    <2>3. q.at = "connects" => sessions'[q.active] = "connecting"
      BY <2>2 DEF CallOK, Grows
    <2>4. CallOK(q)' /\ calls'[d] = q
      BY <2>1, <2>2, <2>3, CallKept DEF Common
    <2> QED BY <2>4 DEF CallOK
  <1> QED BY <1>1 DEF Common, Typed

LEMMA ResetUnderWay == ASSUME Common, reconnecting # NoReset \/ closer # "idle" PROVE wrapper = "ready"
  BY DEF Common, Linked

LEMMA CloseAndConnectDoes ==
    ASSUME Common, CloseAndConnect, reconnecting.at # "connecting"
    PROVE  /\ Grows /\ Moves /\ session' = session
           /\ session' \in 0..Len(sessions') /\ (session' # 0 => sessions'[session'] \in {"open", "closed"})
           /\ \A s \in 1..Len(sessions) : sessions[s] = "connecting" => sessions'[s] = "connecting"
           /\ reconnecting' \in ResetType /\ reconnecting'.to \in 0..Len(sessions')
           /\ reconnecting'.at = "connecting" =>
               /\ reconnecting'.to # 0 /\ sessions'[reconnecting'.to] = "connecting"
               /\ reconnecting'.to = Len(sessions) + 1
  <1>1. Typed /\ Linked /\ sessions \in Seq(States) /\ Len(sessions) \in Nat
    BY DEF Common, Typed
  <1>2. CASE session # 0
    <2>1. session \in 1..Len(sessions) /\ "closed" \in States /\ sessions[session] \in {"open", "closed"}
      BY <1>1, <1>2 DEF Typed, Linked
    <2>2. /\ sessions' = [sessions EXCEPT ![session] = "closed"] /\ session' = session
          /\ reconnecting' = [at |-> "closing", to |-> 0]
      BY <1>2 DEF CloseAndConnect
    <2>3. /\ sessions' \in Seq(States) /\ Len(sessions') = Len(sessions)
          /\ \A s \in 1..Len(sessions) : sessions'[s] = IF s = session THEN "closed" ELSE sessions[s]
      BY <1>1, <2>1, <2>2, Replaced
    <2> QED BY <1>1, <2>1, <2>2, <2>3 DEF Grows, Moves, ResetType
  <1>3. CASE session = 0
    <2>1. /\ sessions' = Append(sessions, "connecting") /\ session' = session
          /\ reconnecting' = [at |-> "connecting", to |-> Len(sessions) + 1]
      BY <1>3 DEF CloseAndConnect
    <2>2. /\ sessions' \in Seq(States) /\ Len(sessions') = Len(sessions) + 1
          /\ \A s \in 1..Len(sessions) : sessions'[s] = sessions[s]
          /\ sessions'[Len(sessions) + 1] = "connecting"
      BY <1>1, <2>1, Appended
    <2> QED BY <1>1, <1>3, <2>1, <2>2 DEF Grows, Moves, ResetType
  <1> QED BY <1>2, <1>3

LEMMA RetryCommon ==
    ASSUME Common, NEW c \in Calls, Retry(c)
    PROVE  Common'
  <1>1. Typed /\ Linked /\ \A d \in Calls : CallOK(calls[d])
    BY DEF Common
  <1>2. PICK old \in CallType : old = calls[c] /\ CallOK(old) /\ old.at = "caught"
    BY <1>1 DEF Typed, Retry
  <1>3. wrapper = "ready" /\ UNCHANGED <<wrapper, baseDelay, closer>>
    <2>1. calls[c] # Idle
      BY <1>2 DEF Idle
    <2> QED BY <1>1, <2>1 DEF Linked, Retry
  <1>4. PICK r : r = Retried(old)
    OBVIOUS
  <1>5. r \in CallType /\ r.at = "resets" /\ r.active = old.active /\ r.tried = old.tried
    <2>1. old.attempt \in 0..MaxReconnectAttempts /\ ~(old.attempt >= MaxReconnectAttempts)
      BY <1>2 DEF Retry, Exhausted, CallType
    <2>2. old.attempt + 1 \in 0..MaxReconnectAttempts
      BY <2>1
    <2> QED BY <1>4, <2>2 DEF Retried, CallType
  <1>6. calls' = [calls EXCEPT ![c] = r]
    BY <1>2, <1>4 DEF Retry, Goes
  <1>7. CASE CloseAndConnect /\ reconnecting = NoReset
    <2>1. /\ Grows /\ Moves /\ session' = session
          /\ session' \in 0..Len(sessions') /\ (session' # 0 => sessions'[session'] \in {"open", "closed"})
          /\ \A s \in 1..Len(sessions) : sessions[s] = "connecting" => sessions'[s] = "connecting"
          /\ reconnecting' \in ResetType /\ reconnecting'.to \in 0..Len(sessions')
          /\ reconnecting'.at = "connecting" =>
               /\ reconnecting'.to # 0 /\ sessions'[reconnecting'.to] = "connecting"
               /\ reconnecting'.to = Len(sessions) + 1
      BY <1>7, CloseAndConnectDoes DEF NoReset
    <2>2. CallOK(r)'
      BY <1>2, <1>5, <2>1 DEF CallOK, Grows
    <2>3. \A d \in Calls : calls[d].at = "connects" => sessions'[calls[d].active] = "connecting"
      BY <1>1, <2>1 DEF CallOK, Grows
    <2>4. /\ calls' \in [Calls -> CallType] /\ \A d \in Calls : CallOK(calls[d])'
          /\ \A d \in Calls : calls'[d] = IF d = c THEN r ELSE calls[d]
      BY <1>5, <1>6, <2>1, <2>2, <2>3, OneCall
    <2>5. closer' \in {"idle", "waits", "goes", "closing", "done", "failed"}
      BY <1>1, <1>3 DEF Typed
    <2>6. \A d \in Calls : calls'[d].at = "connects" =>
             calls[d].at = "connects" /\ calls'[d].active = calls[d].active
      BY <1>5, <2>4
    <2> QED BY <1>3, <2>1, <2>4, <2>5, <2>6, SessionsGo
  <1>8. CASE UNCHANGED <<sessions, session>> /\ (reconnecting' = reconnecting \/ reconnecting' = [at |-> "sleeping", to |-> 0])
    <2>1. Grows /\ Moves
      BY <1>1, <1>8 DEF Grows, Moves, Typed
    <2>2. CallOK(r)'
      BY <1>2, <1>5, <1>8 DEF CallOK
    <2>3. \A d \in Calls : calls[d].at = "connects" => sessions'[calls[d].active] = "connecting"
      BY <1>1, <1>8 DEF CallOK
    <2>4. /\ calls' \in [Calls -> CallType] /\ \A d \in Calls : CallOK(calls[d])'
          /\ \A d \in Calls : calls'[d] = IF d = c THEN r ELSE calls[d]
      BY <1>5, <1>6, <2>1, <2>2, <2>3, OneCall
    <2>5. reconnecting' \in ResetType /\ reconnecting'.to \in 0..Len(sessions')
          /\ (reconnecting'.at = "connecting" => reconnecting' = reconnecting)
      BY <1>1, <1>8 DEF Typed, ResetType
    <2>6. /\ closer' \in {"idle", "waits", "goes", "closing", "done", "failed"}
          /\ session' \in 0..Len(sessions') /\ (session' # 0 => sessions'[session'] \in {"open", "closed"})
          /\ reconnecting'.at = "connecting" =>
               reconnecting'.to # 0 /\ sessions'[reconnecting'.to] = "connecting"
      BY <1>1, <1>3, <1>8, <2>5 DEF Typed, Linked
    <2>7. \A d \in Calls : calls'[d].at = "connects" =>
             calls[d].at = "connects" /\ calls'[d].active = calls[d].active
      BY <1>5, <2>4
    <2>8. reconnecting'.at = "connecting" => reconnecting.at = "connecting" /\ reconnecting'.to = reconnecting.to
      BY <2>5
    <2> QED BY <1>3, <2>1, <2>4, <2>5, <2>6, <2>7, <2>8, SessionsGo
  <1> QED BY <1>7, <1>8 DEF Retry

LEMMA ResetBeginsCommon ==
    ASSUME Common, ResetAwakes \/ ResetClosed
    PROVE  Common'
  <1>1. Typed /\ Linked /\ reconnecting # NoReset /\ wrapper = "ready"
        /\ UNCHANGED <<wrapper, baseDelay, calls, closer>>
    BY ResetUnderWay DEF Common, ResetAwakes, ResetClosed, NoReset
  <1>2. closer' \in {"idle", "waits", "goes", "closing", "done", "failed"}
    BY <1>1 DEF Typed
  <1>3. CASE ResetAwakes
    <2>1. /\ Grows /\ Moves /\ session' = session
          /\ session' \in 0..Len(sessions') /\ (session' # 0 => sessions'[session'] \in {"open", "closed"})
          /\ \A s \in 1..Len(sessions) : sessions[s] = "connecting" => sessions'[s] = "connecting"
          /\ reconnecting' \in ResetType /\ reconnecting'.to \in 0..Len(sessions')
          /\ reconnecting'.at = "connecting" =>
               /\ reconnecting'.to # 0 /\ sessions'[reconnecting'.to] = "connecting"
               /\ reconnecting'.to = Len(sessions) + 1
      BY <1>3, CloseAndConnectDoes DEF ResetAwakes
    <2>2. /\ calls' \in [Calls -> CallType] /\ \A d \in Calls : CallOK(calls[d])'
          /\ \A d \in Calls : calls'[d].at = "connects" =>
                 calls[d].at = "connects" /\ calls'[d].active = calls[d].active
      BY <1>1, <2>1, CallsKept
    <2> QED BY <1>1, <1>2, <2>1, <2>2, SessionsGo
  <1>4. CASE ResetClosed
    <2>1. /\ sessions' = Append(sessions, "connecting") /\ session' = 0
          /\ reconnecting' = [at |-> "connecting", to |-> Len(sessions) + 1]
      BY <1>4 DEF ResetClosed, Forgotten
    <2>2. /\ sessions' \in Seq(States) /\ Len(sessions') = Len(sessions) + 1 /\ Len(sessions) \in Nat
          /\ \A s \in 1..Len(sessions) : sessions'[s] = sessions[s]
          /\ sessions'[Len(sessions) + 1] = "connecting"
      BY <1>1, <2>1, Appended DEF Typed
    <2>3. Grows /\ Moves
      BY <2>1, <2>2 DEF Grows, Moves
    <2>4. reconnecting' \in ResetType /\ reconnecting'.to = Len(sessions) + 1
      BY <2>1, <2>2 DEF ResetType
    <2> QED BY <1>1, <1>2, <2>1, <2>2, <2>3, <2>4, CallsKept, SessionsGo
  <1> QED BY <1>3, <1>4

\* The reset wakes those who wait for it with a session that nobody has used.
LEMMA ResetEndsCommon ==
    ASSUME Common, ResetConnects \/ ResetFails
    PROVE  Common'
  <1>1. Typed /\ Linked /\ Apart /\ \A d \in Calls : CallOK(calls[d])
    BY DEF Common
  <1>2. reconnecting.at = "connecting" /\ reconnecting # NoReset /\ wrapper = "ready"
        /\ UNCHANGED <<wrapper, baseDelay>>
    BY ResetUnderWay DEF ResetConnects, ResetFails, NoReset
  <1>3. PICK n \in 1..Len(sessions) : n = reconnecting.to /\ sessions[n] = "connecting" /\ Len(sessions) \in Nat
    BY <1>1, <1>2 DEF Typed, Linked
  <1>4. PICK x \in {"open", "failed"} :
           /\ sessions' = [sessions EXCEPT ![n] = x]
           /\ session' = IF x = "open" THEN n ELSE session
           /\ x = "open" <=> ResetConnects
    <2>1. CASE ResetConnects
      BY <1>3, <2>1 DEF ResetConnects
    <2>2. CASE ~ResetConnects /\ ResetFails
      BY <1>3, <2>2 DEF ResetFails
    <2> QED BY <2>1, <2>2
  <1>5. /\ sessions' \in Seq(States) /\ Len(sessions') = Len(sessions)
        /\ \A s \in 1..Len(sessions) : sessions'[s] = IF s = n THEN x ELSE sessions[s]
    <2>1. sessions \in Seq(States) /\ x \in States /\ sessions' = [sessions EXCEPT ![n] = x]
      BY <1>1, <1>4 DEF Typed
    <2> QED BY <2>1, Replaced
  <1>6. Grows /\ Moves
    BY <1>3, <1>4, <1>5 DEF Grows, Moves
  <1>7. /\ reconnecting' = NoReset /\ reconnecting' \in ResetType /\ reconnecting'.to \in 0..Len(sessions')
        /\ reconnecting'.at = "none"
    <2>1. reconnecting' = NoReset
      BY DEF ResetConnects, ResetFails
    <2> QED BY <1>3, <1>5, <2>1 DEF NoReset, ResetType
  <1>8. closer' \in {"idle", "waits", "goes", "closing", "done", "failed"}
    BY <1>1 DEF ResetConnects, ResetFails, CloserGoes, Typed
  <1>9. session' \in 0..Len(sessions') /\ (session' # 0 => sessions'[session'] \in {"open", "closed"})
    BY <1>1, <1>3, <1>4, <1>5 DEF Typed, Linked
  <1>10. ASSUME NEW d \in Calls
         PROVE  /\ calls'[d] \in CallType /\ CallOK(calls[d])'
                /\ calls'[d].at = "connects" => calls[d].at = "connects" /\ calls'[d].active = calls[d].active
    <2>1. PICK old \in CallType : old = calls[d] /\ CallOK(old)
      BY <1>1 DEF Typed
    <2>2. old.at = "connects" => old.active # n /\ sessions'[old.active] = "connecting"
      BY <1>1, <1>2, <1>3, <1>5, <2>1 DEF Apart, CallOK
    <2>3. CallOK(old)'
      BY <1>1, <1>6, <2>1, <2>2, CallKept
    <2>4. \A i \in 1..Len(old.tried) : old.tried[i] # n
      BY <1>3, <2>1 DEF CallOK
    <2>5. \/ calls'[d] = old
          \/ calls'[d] = Queries(old, n) /\ ResetConnects
          \/ calls'[d] = [old EXCEPT !.at = "establish", !.active = 0] /\ ResetConnects
          \/ \E e \in Errors : calls'[d] = Caught(old, e)
          \/ calls'[d] = Over("thrown")
      <3>1. CASE ResetConnects
        <4>1. calls'[d] = Woken(old, n)
          BY <1>3, <2>1, <3>1 DEF ResetConnects
        <4>2. CASE old.at = "waits"
          <5>1. Woken(old, n) = Queries(old, n)
            BY <4>2 DEF Woken
          <5> QED BY <3>1, <4>1, <4>2, <5>1
        <4>3. CASE old.at = "resets"
          <5>1. Woken(old, n) = [old EXCEPT !.at = "establish", !.active = 0]
            BY <4>3 DEF Woken
          <5> QED BY <3>1, <4>1, <4>3, <5>1
        <4>4. CASE old.at # "waits" /\ old.at # "resets"
          <5>1. Woken(old, n) = old
            BY <4>4 DEF Woken
          <5> QED BY <4>1, <5>1
        <4> QED BY <4>2, <4>3, <4>4
      <3>2. CASE ResetFails
        <4>1. PICK e \in Errors : calls' = [c \in Calls |-> Refused(calls[c], e)]
          BY <3>2 DEF ResetFails
        <4>2. calls'[d] = Refused(old, e)
          BY <2>1, <4>1
        <4>3. CASE old.at = "waits"
          <5>1. Refused(old, e) = Caught(old, e)
            BY <4>3 DEF Refused
          <5> QED BY <4>2, <5>1
        <4>4. CASE old.at = "resets"
          <5>1. Refused(old, e) = Over("thrown")
            BY <4>4 DEF Refused
          <5> QED BY <4>2, <5>1
        <4>5. CASE old.at # "waits" /\ old.at # "resets"
          <5>1. Refused(old, e) = old
            BY <4>5 DEF Refused
          <5> QED BY <4>2, <5>1
        <4> QED BY <4>3, <4>4, <4>5
      <3> QED BY <3>1, <3>2
    <2>6. CASE calls'[d] = old
      BY <2>1, <2>3, <2>6 DEF CallOK
    <2>7. CASE calls'[d] = Queries(old, n) /\ ResetConnects
      <3>1. sessions'[n] \in {"open", "closed"}
        BY <1>3, <1>4, <1>5, <2>7
      <3>2. Queries(old, n) \in CallType /\ CallOK(Queries(old, n))'
        BY <1>1, <1>6, <2>1, <2>4, <3>1, QueriesOK
      <3>a. Queries(old, n).at = "query"
        BY <2>1 DEF Queries, CallType
      <3>3. PICK r \in CallType : r = Queries(old, n) /\ CallOK(r)' /\ r.at = "query"
        BY <3>2, <3>a
      <3> QED BY <2>7, <3>3 DEF CallOK
    <2>8. CASE calls'[d] = [old EXCEPT !.at = "establish", !.active = 0] /\ ResetConnects
      <3>1. PICK r : r = [old EXCEPT !.at = "establish", !.active = 0]
        OBVIOUS
      <3>2. r \in CallType /\ r.at = "establish" /\ r.active = 0 /\ r.tried = old.tried
        BY <3>1 DEF CallType
      <3>3. session' = n
        BY <1>4, <2>8
      <3>4. CallOK(r)'
        BY <1>3, <1>5, <2>3, <2>4, <3>2, <3>3 DEF CallOK
      <3> QED BY <2>8, <3>1, <3>2, <3>4 DEF CallOK
    <2>9. CASE \E e \in Errors : calls'[d] = Caught(old, e)
      <3>0. PICK e \in Errors : calls'[d] = Caught(old, e)
        BY <2>9
      <3>a. Caught(old, e) \in CallType /\ Caught(old, e).at = "caught" /\ Caught(old, e).active = 0
            /\ Caught(old, e).tried = old.tried
        BY CallUpdated
      <3>1. PICK r \in CallType : calls'[d] = r /\ r.at = "caught" /\ r.active = 0 /\ r.tried = old.tried
        BY <3>0, <3>a, Zenon
      <3>2. CallOK(r)'
        BY <1>3, <1>5, <2>3, <3>1 DEF CallOK
      <3> QED BY <3>1, <3>2 DEF CallOK
    <2>10. CASE calls'[d] = Over("thrown")
      <3>1. "thrown" \in Ended
        OBVIOUS
      <3>2. PICK r \in CallType : calls'[d] = r /\ r.at = "thrown" /\ r.active = 0 /\ r.tried = <<>>
        BY <2>1, <2>10, <3>1, CallUpdated
      <3>3. CallOK(r)'
        BY <1>3, <1>5, <3>2 DEF CallOK
      <3> QED BY <3>2, <3>3 DEF CallOK
    <2> QED BY <2>5, <2>6, <2>7, <2>8, <2>9, <2>10
  <1>11. calls' \in [Calls -> CallType]
    <2>1. \E f : calls' = [c \in Calls |-> f[c]]
      <3>1. calls' = [c \in Calls |-> calls'[c]]
        BY DEF ResetConnects, ResetFails
      <3> QED BY <3>1
    <2> QED BY <1>10, <2>1
  <1> QED BY <1>2, <1>6, <1>7, <1>8, <1>9, <1>10, <1>11, SessionsGo

LEMMA CloseCommon ==
    ASSUME Common, CloseStep
    PROVE  Common'
  <1>1. Typed /\ Linked
    BY DEF Common
  <1>2. wrapper = "ready" /\ UNCHANGED <<wrapper, baseDelay, reconnecting, calls>>
        /\ closer' \in {"idle", "waits", "goes", "closing", "done", "failed"}
    BY ResetUnderWay DEF CloseStep, Close, Closed, CloseFails, CloseBegins
  <1>3. session' \in {session, 0}
    BY DEF CloseStep, Close, Closed, CloseFails
  <1>4. sessions' = sessions \/ (session # 0 /\ sessions' = [sessions EXCEPT ![session] = "closed"])
    BY DEF CloseStep, Close, Closed, CloseFails, CloseBegins
  <1>5. /\ sessions' \in Seq(States) /\ Len(sessions') = Len(sessions) /\ Len(sessions) \in Nat
        /\ \A s \in 1..Len(sessions) :
              sessions'[s] = sessions[s] \/ (sessions'[s] = "closed" /\ sessions[s] \in {"open", "closed"})
    <2>1. CASE sessions' = sessions
      BY <1>1, <2>1 DEF Typed
    <2>2. CASE session # 0 /\ sessions' = [sessions EXCEPT ![session] = "closed"]
      <3>1. session \in 1..Len(sessions) /\ "closed" \in States /\ sessions \in Seq(States)
            /\ sessions[session] \in {"open", "closed"}
        BY <1>1, <2>2 DEF Typed, Linked
      <3>2. /\ sessions' \in Seq(States) /\ Len(sessions') = Len(sessions)
            /\ \A s \in 1..Len(sessions) : sessions'[s] = IF s = session THEN "closed" ELSE sessions[s]
        BY <2>2, <3>1, Replaced
      <3> QED BY <3>1, <3>2
    <2> QED BY <1>4, <2>1, <2>2
  <1>6. Grows /\ Moves
    BY <1>3, <1>5 DEF Grows, Moves
  <1>7. /\ calls' \in [Calls -> CallType] /\ \A d \in Calls : CallOK(calls[d])'
        /\ \A d \in Calls : calls'[d].at = "connects" =>
               calls[d].at = "connects" /\ calls'[d].active = calls[d].active
    BY <1>2, <1>5, <1>6, CallsKept
  <1>8. /\ session' \in 0..Len(sessions') /\ (session' # 0 => sessions'[session'] \in {"open", "closed"})
        /\ reconnecting' \in ResetType /\ reconnecting'.to \in 0..Len(sessions')
        /\ reconnecting'.at = "connecting" =>
               reconnecting'.to # 0 /\ sessions'[reconnecting'.to] = "connecting"
    BY <1>1, <1>2, <1>3, <1>5 DEF Typed, Linked
  <1> QED BY <1>2, <1>6, <1>7, <1>8, SessionsGo

(***************************************************************************)
(* The setup, and the common invariant.                                    *)
(***************************************************************************)
LEMMA IdleOK == Idle \in CallType /\ (Len(sessions) \in Nat => CallOK(Idle))
  <1>1. Idle = [at |-> "idle", attempt |-> 0, active |-> 0, tried |-> <<>>, error |-> "none"]
    BY DEF Idle
  <1>2. <<>> \in Seq(Nat) /\ 0 \in 0..MaxReconnectAttempts
    OBVIOUS
  <1> QED BY <1>1, <1>2 DEF CallType, CallOK

LEMMA SetUpCommon == ASSUME Common, SetUp \/ SetUpFails PROVE Common'
  <1>1. /\ wrapper = "setup" /\ reconnecting = NoReset /\ closer = "idle"
        /\ Typed /\ \A c \in Calls : calls[c] = Idle
    BY DEF Common, Linked, SetUp, SetUpFails
  <1>2. /\ UNCHANGED <<baseDelay, reconnecting, calls, closer>> /\ wrapper' \in {"ready", "absent"}
        /\ \E x \in {"open", "failed"} : sessions' = <<x>> /\ session' = IF x = "open" THEN 1 ELSE 0
    BY DEF SetUp, SetUpFails
  <1>3. /\ sessions' \in Seq(States) /\ Len(sessions') = 1 /\ session' \in 0..1
        /\ session' # 0 => sessions'[session'] = "open"
    BY <1>2
  <1>4. Typed'
    BY <1>1, <1>2, <1>3 DEF Typed, NoReset
  <1>5. Linked' /\ Apart'
    BY <1>1, <1>2, <1>3 DEF Linked, Apart, NoReset, Idle
  <1>7. \A c \in Calls : CallOK(calls[c])'
    BY <1>1, <1>2, <1>3 DEF CallOK, Idle
  <1> QED BY <1>4, <1>5, <1>7 DEF Common

LEMMA CommonInit == Init => Common
  <1> SUFFICES ASSUME Init PROVE Common
    OBVIOUS
  <1>1. /\ sessions \in Seq(States) /\ Len(sessions) = 1 /\ session = 0 /\ reconnecting = NoReset
        /\ closer = "idle" /\ \A c \in Calls : calls[c] = Idle
    BY DEF Init
  <1>2. Typed
    BY <1>1, IdleOK DEF Init, Typed, NoReset, ResetType
  <1>3. Linked /\ Apart
    BY <1>1 DEF Linked, Apart, NoReset, Idle
  <1>4. \A c \in Calls : CallOK(calls[c])
    BY <1>1, IdleOK
  <1> QED BY <1>2, <1>3, <1>4 DEF Common

LEMMA CommonNext == Common /\ [Next]_vars => Common'
  <1> SUFFICES ASSUME Common, [Next]_vars PROVE Common'
    OBVIOUS
  <1>1. CASE UNCHANGED vars
    BY <1>1 DEF vars, Common, Typed, Linked, Apart, CallOK
  <1>2. CASE SetUp \/ SetUpFails
    BY <1>2, SetUpCommon
  <1>3. ASSUME NEW c \in Calls, CallStep(c) PROVE Common'
    BY <1>3, EstablishCommon, ConnectsCommon, CallAlone, RetryCommon DEF CallStep
  <1>4. CASE ResetStep
    BY <1>4, ResetBeginsCommon, ResetEndsCommon DEF ResetStep
  <1>5. CASE CloseStep
    BY <1>5, CloseCommon
  <1> QED BY <1>1, <1>2, <1>3, <1>4, <1>5 DEF Next

\* The invariant on which the properties rest.
THEOREM CommonHolds == Spec => []Common
  BY CommonInit, CommonNext, PTL DEF Spec

\* TypeOK: the states are those the code can have, whatever fails and in whatever order.
THEOREM SqlTypeCorrect == Spec => []TypeOK
  <1>1. ASSUME Common PROVE TypeOK
    <2>1. Typed /\ \A c \in Calls : calls[c] \in CallType /\ CallOK(calls[c])
      BY <1>1 DEF Common, Typed
    <2>2. reconnecting.at \in {"none", "sleeping", "closing", "connecting"}
      BY <2>1 DEF Typed, ResetType
    <2>3. ASSUME NEW c \in Calls
          PROVE  /\ calls[c].at \in {"idle"} \cup Busy \cup Ended
                 /\ calls[c].attempt \in 0..MaxReconnectAttempts
                 /\ calls[c].active \in 0..Len(sessions) /\ calls[c].error \in Errors \cup {"none"}
                 /\ calls[c].at = "query" => sessions[calls[c].active] \in {"open", "closed"}
      BY <2>1 DEF CallType, CallOK
    <2> QED BY <2>1, <2>2, <2>3 DEF TypeOK, Typed
  <1> QED BY <1>1, CommonHolds, PTL

\* RetriesOnAnother: no call is sent twice to the session on which its query failed.
THEOREM RetriesGoElsewhere == Spec => []RetriesOnAnother
  <1>1. ASSUME Common PROVE RetriesOnAnother
    <2>1. ASSUME NEW c \in Calls
          PROVE  \A i, j \in DOMAIN calls[c].tried : i # j => calls[c].tried[i] # calls[c].tried[j]
      <3>1. calls[c] \in CallType /\ CallOK(calls[c])
        BY <1>1 DEF Common, Typed
      <3>2. DOMAIN calls[c].tried = 1..Len(calls[c].tried)
        BY <3>1 DEF CallType
      <3> QED BY <3>1, <3>2 DEF CallOK
    <2> QED BY <2>1 DEF RetriesOnAnother
  <1> QED BY <1>1, CommonHolds, PTL

(***************************************************************************)
(* The current session is open.                                            *)
(***************************************************************************)
LEMMA CurrentNext ==
    ASSUME Common, CurrentIsOpen, [Next]_vars
    PROVE  CurrentIsOpen'
  <1>1. /\ sessions \in Seq(States) /\ Len(sessions) \in Nat /\ session \in 0..Len(sessions)
        /\ session # 0 => sessions[session] \in {"open", "closed"}
        /\ reconnecting.at = "connecting" => reconnecting.to \in 1..Len(sessions) /\ sessions[reconnecting.to] = "connecting"
        /\ \A c \in Calls : calls[c].at = "connects" =>
               calls[c].active \in 1..Len(sessions) /\ sessions[calls[c].active] = "connecting"
    BY DEF Common, Typed, Linked, CallOK
  <1>2. CASE UNCHANGED <<sessions, session, reconnecting, closer>>
    BY <1>2 DEF CurrentIsOpen
  <1>3. CASE SetUp \/ SetUpFails
    <2>1. session' # 0 => sessions' = <<"open">> /\ session' = 1
      BY <1>3 DEF SetUp, SetUpFails
    <2> QED BY <2>1 DEF CurrentIsOpen
  <1>4. ASSUME CloseAndConnect, closer' = closer
        PROVE  CurrentIsOpen'
    BY <1>4 DEF CloseAndConnect, CurrentIsOpen
  <1>5. ASSUME NEW c \in Calls, CallStep(c) PROVE CurrentIsOpen'
    <2>1. CASE Establish(c)
      <3>1. session' = session /\ reconnecting' = reconnecting /\ closer' = closer
            /\ sessions' \in {sessions, Append(sessions, "connecting")}
        BY <2>1 DEF Establish
      <3>2. session # 0 => sessions'[session] = sessions[session]
        BY <1>1, <3>1, Appended
      <3> QED BY <3>1, <3>2 DEF CurrentIsOpen
    <2>2. CASE Connects(c)
      <3>1. sessions' = [sessions EXCEPT ![calls[c].active] = "open"] /\ session' = calls[c].active
        BY <2>2 DEF Connects
      <3>2. sessions'[session'] = "open"
        BY <1>1, <2>2, <3>1 DEF Connects
      <3> QED BY <3>2 DEF CurrentIsOpen
    <2>3. CASE ConnectFails(c)
      <3>1. /\ sessions' = [sessions EXCEPT ![calls[c].active] = "failed"]
            /\ UNCHANGED <<session, reconnecting, closer>> /\ calls[c].at = "connects"
        BY <2>3 DEF ConnectFails
      <3>2. session # 0 => sessions'[session] = sessions[session]
        BY <1>1, <3>1
      <3> QED BY <3>1, <3>2 DEF CurrentIsOpen
    <2>4. CASE Answers(c) \/ QueryFails(c) \/ Throw(c)
      BY <1>2, <2>4 DEF Answers, QueryFails, Throw
    <2>5. CASE Retry(c)
      <3>1. closer' = closer
        BY <2>5 DEF Retry
      <3>2. CASE CloseAndConnect
        BY <1>4, <3>1, <3>2
      <3>3. CASE UNCHANGED <<sessions, session, reconnecting>>
        BY <1>2, <3>1, <3>3
      <3>4. CASE /\ reconnecting = NoReset /\ reconnecting' = [at |-> "sleeping", to |-> 0]
                 /\ UNCHANGED <<sessions, session>>
        BY <3>1, <3>4 DEF CurrentIsOpen, NoReset
      <3> QED BY <2>5, <3>2, <3>3, <3>4 DEF Retry
    <2> QED BY <1>5, <2>1, <2>2, <2>3, <2>4, <2>5 DEF CallStep
  <1>6. CASE ResetStep
    <2>1. CASE ResetAwakes
      BY <1>4, <2>1 DEF ResetAwakes
    <2>2. CASE ResetClosed
      BY <2>2 DEF ResetClosed, Forgotten, CurrentIsOpen
    <2>3. CASE ResetConnects
      <3>1. /\ sessions' = [sessions EXCEPT ![reconnecting.to] = "open"] /\ session' = reconnecting.to
            /\ reconnecting.at = "connecting"
        BY <2>3 DEF ResetConnects
      <3>2. sessions'[session'] = "open"
        BY <1>1, <3>1
      <3> QED BY <3>2 DEF CurrentIsOpen
    <2>4. CASE ResetFails
      <3>1. /\ sessions' = [sessions EXCEPT ![reconnecting.to] = "failed"] /\ session' = session
            /\ reconnecting.at = "connecting" /\ closer' \in {closer, "goes"} /\ (closer' = "goes" => closer \in {"waits", "goes"})
        BY <2>4 DEF ResetFails, CloserGoes
      <3>2. session # 0 => sessions'[session] = sessions[session]
        BY <1>1, <3>1
      <3> QED BY <3>1, <3>2 DEF CurrentIsOpen
    <2> QED BY <1>6, <2>1, <2>2, <2>3, <2>4 DEF ResetStep
  <1>7. CASE CloseStep
    <2>1. CASE Close
      BY <2>1 DEF Close, CloseBegins, CurrentIsOpen
    <2>2. CASE Closed \/ CloseFails
      BY <2>2 DEF Closed, CloseFails, CurrentIsOpen
    <2> QED BY <1>7, <2>1, <2>2 DEF CloseStep
  <1> QED BY <1>2, <1>3, <1>5, <1>6, <1>7 DEF Next, vars

\* CurrentIsOpen: a session that nobody is closing is not handed out closed.
THEOREM CurrentSessionIsOpen == Spec => []CurrentIsOpen
  <1>1. Init => CurrentIsOpen
    BY DEF Init, CurrentIsOpen
  <1> QED BY <1>1, CurrentNext, CommonHolds, PTL DEF Spec

(***************************************************************************)
(* When nothing has gone wrong but queries, one session is open.           *)
(***************************************************************************)
\* What is calm after a step was so before it, unless the connections have just been made.
LEMMA CalmBefore ==
    ASSUME Common, Next, Calm'
    PROVE  SetUp \/ Calm
  <1>1. /\ sessions \in Seq(States) /\ Len(sessions) \in Nat /\ session \in 0..Len(sessions)
        /\ session # 0 => sessions[session] \in {"open", "closed"}
        /\ reconnecting.at = "connecting" => reconnecting.to \in 1..Len(sessions) /\ sessions[reconnecting.to] = "connecting"
        /\ \A c \in Calls : calls[c].at = "connects" =>
               calls[c].active \in 1..Len(sessions) /\ sessions[calls[c].active] = "connecting"
    BY DEF Common, Typed, Linked, CallOK
  <1>2. ASSUME ~SetUp PROVE closer = "idle" /\ wrapper = "ready"
    <2>1. CASE SetUpFails
      BY <2>1 DEF SetUpFails, Calm
    <2>2. ASSUME NEW c \in Calls, CallStep(c) PROVE closer' = closer /\ wrapper' = wrapper
      BY <2>2 DEF CallStep, Establish, Connects, ConnectFails, Answers, QueryFails, Throw, Retry
    <2>3. CASE ResetStep
      BY <2>3 DEF ResetStep, ResetAwakes, ResetClosed, ResetConnects, ResetFails, CloserGoes, Calm
    <2>4. CASE CloseStep
      BY <2>4 DEF CloseStep, Close, CloseBegins, Closed, CloseFails, Calm
    <2> QED BY <1>2, <2>1, <2>2, <2>3, <2>4 DEF Next, Calm
  <1>3. ASSUME ~SetUp PROVE \A s \in 1..Len(sessions) : sessions[s] # "failed"
    <2>1. \/ sessions' = sessions \/ sessions' = Append(sessions, "connecting")
          \/ session # 0 /\ sessions' = [sessions EXCEPT ![session] = "closed"]
          \/ \E n \in 1..Len(sessions) : \E x \in {"open", "failed"} :
                 sessions[n] = "connecting" /\ sessions' = [sessions EXCEPT ![n] = x]
      <3>1. CASE SetUpFails
        BY <3>1 DEF SetUpFails, Calm
      <3>2. ASSUME NEW c \in Calls, CallStep(c)
            PROVE  \/ sessions' = sessions \/ sessions' = Append(sessions, "connecting")
                   \/ session # 0 /\ sessions' = [sessions EXCEPT ![session] = "closed"]
                   \/ \E n \in 1..Len(sessions) : \E x \in {"open", "failed"} :
                          sessions[n] = "connecting" /\ sessions' = [sessions EXCEPT ![n] = x]
        BY <1>1, <3>2 DEF CallStep, Establish, Connects, ConnectFails, Answers, QueryFails, Throw, Retry, CloseAndConnect
      <3>3. CASE ResetStep
        BY <1>1, <3>3 DEF ResetStep, ResetAwakes, ResetClosed, ResetConnects, ResetFails, CloseAndConnect
      <3>4. CASE CloseStep
        BY <1>1, <3>4 DEF CloseStep, Close, CloseBegins, Closed, CloseFails
      <3> QED BY <1>3, <3>1, <3>2, <3>3, <3>4 DEF Next
    <2>2. \A s \in 1..Len(sessions) : sessions[s] = "failed" => s \in 1..Len(sessions') /\ sessions'[s] = "failed"
      <3>1. CASE sessions' = sessions \/ sessions' = Append(sessions, "connecting")
        BY <1>1, <3>1, Appended
      <3>2. CASE session # 0 /\ sessions' = [sessions EXCEPT ![session] = "closed"]
        BY <1>1, <3>2
      <3>3. CASE \E n \in 1..Len(sessions) : \E x \in {"open", "failed"} :
                    sessions[n] = "connecting" /\ sessions' = [sessions EXCEPT ![n] = x]
        BY <1>1, <3>3
      <3> QED BY <2>1, <3>1, <3>2, <3>3
    <2> QED BY <2>2 DEF Calm
  <1> QED BY <1>2, <1>3 DEF Calm

\* What a call does to its record, when it begins no connect.
LEMMA NotConnecting ==
    ASSUME Common, NEW c \in Calls, NEW r, calls' = [calls EXCEPT ![c] = r], r.at # "connects",
           \A d \in Calls : calls[d].at # "connects"
    PROVE  \A d \in Calls : calls'[d].at # "connects"
  BY DEF Common, Typed

LEMMA CalmReset ==
    ASSUME Common, CalmInv, Calm, CloseAndConnect, reconnecting.at \in {"none", "sleeping"}
    PROVE  /\ \A s \in 1..Len(sessions') : sessions'[s] = "open" => s = session'
           /\ session' # 0 /\ reconnecting'.at = "closing" /\ sessions'[session'] = "closed"
  <1>1. session # 0 /\ \A s \in 1..Len(sessions) : sessions[s] = "open" => s = session
    BY DEF CalmInv
  <1>2. sessions \in Seq(States) /\ session \in 1..Len(sessions) /\ "closed" \in States
    BY <1>1 DEF Common, Typed
  <1>3. /\ sessions' = [sessions EXCEPT ![session] = "closed"] /\ session' = session
        /\ reconnecting' = [at |-> "closing", to |-> 0]
    BY <1>1 DEF CloseAndConnect
  <1>4. /\ Len(sessions') = Len(sessions)
        /\ \A s \in 1..Len(sessions) : sessions'[s] = IF s = session THEN "closed" ELSE sessions[s]
    BY <1>2, <1>3, Replaced
  <1> QED BY <1>1, <1>2, <1>3, <1>4

LEMMA CalmNext ==
    ASSUME Common, CalmInv, Next
    PROVE  CalmInv'
  <1> DEFINE Good == /\ \A s \in 1..Len(sessions) : sessions[s] = "open" => s = session
                     /\ session = 0 <=> reconnecting.at = "connecting"
                     /\ reconnecting.at = "closing" => sessions[session] = "closed"
                     /\ \A c \in Calls : calls[c].at # "connects"
  <1> SUFFICES ASSUME Calm' PROVE Good'
    BY DEF CalmInv
  <1>1. /\ sessions \in Seq(States) /\ Len(sessions) \in Nat /\ session \in 0..Len(sessions)
        /\ calls \in [Calls -> CallType]
        /\ reconnecting.at = "connecting" => reconnecting.to \in 1..Len(sessions)
        /\ reconnecting.at \in {"none", "sleeping", "closing", "connecting"}
    BY DEF Common, Typed, Linked, ResetType
  <1>2. CASE SetUp
    <2>1. sessions' = <<"open">> /\ session' = 1 /\ UNCHANGED <<reconnecting, calls>> /\ wrapper # "ready"
      BY <1>2 DEF SetUp
    <2>2. reconnecting = NoReset /\ \A c \in Calls : calls[c] = Idle
      BY <2>1 DEF Common, Linked
    <2> QED BY <2>1, <2>2 DEF NoReset, Idle
  <1>3. CASE ~SetUp
    <2>1. Calm /\ Good
      BY <1>3, CalmBefore DEF CalmInv
    <2>2. ASSUME NEW c \in Calls, CallStep(c) PROVE Good'
      <3>1. calls[c] \in CallType /\ calls[c].at # "connects"
        BY <1>1, <2>1
      <3>2. CASE Establish(c)
        <4>1. ~MayConnect
          BY <2>1 DEF MayConnect, NoReset
        <4>2. PICK r : calls' = [calls EXCEPT ![c] = r] /\ r \in {Queries(calls[c], session), [calls[c] EXCEPT !.at = "waits"]}
          BY <3>2, <4>1 DEF Establish, Goes
        <4>3. r.at # "connects"
          BY <3>1, <4>2 DEF Queries, CallType
        <4>4. \A d \in Calls : calls'[d].at # "connects"
          BY <2>1, <4>2, <4>3, NotConnecting
        <4>5. UNCHANGED <<sessions, session, reconnecting>>
          BY <3>2, <4>1 DEF Establish
        <4> QED BY <2>1, <4>4, <4>5
      <3>3. CASE Connects(c) \/ ConnectFails(c)
        BY <3>1, <3>3 DEF Connects, ConnectFails
      <3>4. CASE Answers(c) \/ QueryFails(c) \/ Throw(c)
        <4>1. PICK r : calls' = [calls EXCEPT ![c] = r] /\
                       (r \in {Over("answered"), Over("thrown")} \/ \E e \in Errors : r = Caught(calls[c], e))
          BY <3>4 DEF Answers, QueryFails, Throw, Goes
        <4>2. r.at # "connects"
          BY <3>1, <4>1 DEF Over, Caught, Idle, CallType
        <4>3. \A d \in Calls : calls'[d].at # "connects"
          BY <2>1, <4>1, <4>2, NotConnecting
        <4>4. UNCHANGED <<sessions, session, reconnecting>>
          BY <3>4 DEF Answers, QueryFails, Throw
        <4> QED BY <2>1, <4>3, <4>4
      <3>5. CASE Retry(c)
        <4>1. PICK r : calls' = [calls EXCEPT ![c] = r] /\ r = Retried(calls[c])
          BY <3>5 DEF Retry, Goes
        <4>2. r.at # "connects"
          BY <3>1, <4>1 DEF Retried, CallType
        <4>3. \A d \in Calls : calls'[d].at # "connects"
          BY <2>1, <4>1, <4>2, NotConnecting
        <4>4. CASE reconnecting # NoReset
          BY <2>1, <3>5, <4>3, <4>4 DEF Retry
        <4>5. CASE reconnecting = NoReset /\ CloseAndConnect
          BY <2>1, <4>3, <4>5, CalmReset DEF NoReset
        <4>6. CASE reconnecting = NoReset /\ reconnecting' = [at |-> "sleeping", to |-> 0] /\ UNCHANGED <<sessions, session>>
          BY <2>1, <4>3, <4>6 DEF NoReset
        <4> QED BY <3>5, <4>4, <4>5, <4>6 DEF Retry
      <3> QED BY <2>2, <3>2, <3>3, <3>4, <3>5 DEF CallStep
    <2>3. CASE ResetAwakes
      <3>1. reconnecting.at = "sleeping" /\ CloseAndConnect /\ calls' = calls
        BY <2>3 DEF ResetAwakes
      <3> QED BY <2>1, <3>1, CalmReset
    <2>4. CASE ResetClosed
      <3>1. /\ sessions' = Append(sessions, "connecting") /\ session' = 0 /\ calls' = calls
            /\ reconnecting'.at = "connecting" /\ reconnecting.at = "closing"
        BY <2>4 DEF ResetClosed, Forgotten
      <3>2. \A s \in 1..Len(sessions) : sessions[s] # "open"
        BY <2>1, <3>1
      <3>3. \A s \in 1..Len(sessions') : sessions'[s] # "open"
        <4>1. /\ Len(sessions') = Len(sessions) + 1 /\ sessions'[Len(sessions) + 1] = "connecting"
              /\ \A s \in 1..Len(sessions) : sessions'[s] = sessions[s]
          BY <1>1, <3>1, Appended
        <4> QED BY <1>1, <3>2, <4>1
      <3> QED BY <2>1, <3>1, <3>3
    <2>5. CASE ResetConnects
      <3>1. /\ sessions' = [sessions EXCEPT ![reconnecting.to] = "open"] /\ session' = reconnecting.to
            /\ reconnecting' = NoReset /\ reconnecting.at = "connecting"
            /\ calls' = [c \in Calls |-> Woken(calls[c], reconnecting.to)]
        BY <2>5 DEF ResetConnects
      <3>2. \A s \in 1..Len(sessions) : sessions[s] # "open"
        BY <2>1, <3>1
      <3>3. /\ session' \in 1..Len(sessions)
            /\ \A s \in 1..Len(sessions') : sessions'[s] = "open" => s = session'
        BY <1>1, <3>1, <3>2
      <3>4. ASSUME NEW d \in Calls PROVE calls'[d].at # "connects"
        <4>1. calls[d] \in CallType /\ calls[d].at # "connects"
          BY <1>1, <2>1
        <4>2. calls'[d] = Woken(calls[d], reconnecting.to)
          BY <3>1
        <4> QED BY <4>1, <4>2 DEF Woken, Queries, CallType
      <3> QED BY <3>1, <3>3, <3>4 DEF NoReset
    <2>6. CASE ResetFails
      <3>1. sessions' = [sessions EXCEPT ![reconnecting.to] = "failed"] /\ reconnecting.to \in 1..Len(sessions)
        BY <1>1, <2>6 DEF ResetFails
      <3> QED BY <1>1, <3>1 DEF Calm
    <2>7. CASE CloseStep \/ SetUpFails
      BY <2>1, <2>7 DEF CloseStep, Close, CloseBegins, Closed, CloseFails, SetUpFails, Calm
    <2> QED BY <1>3, <2>2, <2>3, <2>4, <2>5, <2>6, <2>7 DEF Next, ResetStep
  <1> QED BY <1>2, <1>3

\* NoneLeftOpen: whatever queries fail and in whatever order that is noticed, no session is left
\* open behind the current one while every connect succeeds.
THEOREM NoneStaysOpen == Spec => []NoneLeftOpen
  <1>1. Init => CalmInv
    BY DEF Init, CalmInv, Calm
  <1>2. Common /\ CalmInv /\ [Next]_vars => CalmInv'
    <2>1. ASSUME CalmInv, UNCHANGED vars PROVE CalmInv'
      BY <2>1 DEF vars, CalmInv, Calm
    <2> QED BY <2>1, CalmNext
  <1>3. Common /\ CalmInv => NoneLeftOpen
    BY DEF Common, Typed, CalmInv, Calm, NoneLeftOpen, Sessions
  <1> QED BY <1>1, <1>2, <1>3, CommonHolds, PTL DEF Spec
=============================================================================
