------------------------ MODULE RuntimeRecompileProofs ------------------------
(***************************************************************************)
(* Theorems about AgentFiles and RuntimeRecompile, which extends it.       *)
(*                                                                         *)
(* The files.  The repository of specialists keeps the promise of AgentRegistry, for   *)
(* any number of calls, agents and definitions, and a listed agent lacks   *)
(* its prompt only where a call has been cut off.                          *)
(*                                                                         *)
(* The argument: a call between its reading and its last write is the head *)
(* of the queue, so there is one such call, and what it has read is still  *)
(* what the file says (LockInv).  Its two writes belong together           *)
(* (PromptInv).                                                            *)
(*                                                                         *)
(* The graph.  When nothing is under way it has the specialists that the   *)
(* files ask for.  The argument: a change of the JSON file leaves a trace  *)
(* (Dirty: the timer, a link of the chain, or the window before the        *)
(* watcher) that only a new reading of the file takes away, so that        *)
(* without the trace each stage of a recompile is about what the files     *)
(* say now (CurrentInv).                                                   *)
(***************************************************************************)
EXTENDS RuntimeRecompile, TLAPS

\* Who has been asked has a request.
Requested == \A c \in Calls : stage[c] # "idle" => request[c] \in Requests

\* A call that works has the lock, has read what the file says, and may do what it is to do.
LockInv ==
    \A c \in Calls : stage[c] \in Working =>
        queue # <<>> /\ Head(queue) = c /\ loaded[c] = file /\ Admits(file, request[c])

\* Whether a call has written the prompt file, and what it says until the JSON file follows.
PromptOf(c) == IF request[c].kind = "delete" THEN {} ELSE {c}
PromptInv ==
    \A c \in Calls :
        /\ stage[c] \in {"idle", "queued", "prompt"} => ~prompted[c]
        /\ stage[c] = "prompt" => request[c].prompt
        /\ stage[c] = "json" => (prompted[c] <=> request[c].prompt)
        /\ stage[c] = "json" /\ prompted[c] => prompts[request[c].agent] = PromptOf(c)

TypeInv == FileTypeOK /\ Requested
FileInv == TypeInv /\ LockInv /\ PromptInv /\ TornOnlyByCut

USE DEF Working, Pending, Cut

(***************************************************************************)
(* Types.                                                                  *)
(***************************************************************************)
\* What a call writes is a listing again.
LEMMA ChangedIsListing ==
    ASSUME NEW l \in Listings, NEW q \in Requests
    PROVE  /\ Changed(l, q) \in Listings
           /\ q.agent \in Agents
           /\ (Changed(l, q)[q.agent] = {}) = (q.kind = "delete")
           /\ \A a \in Agents : a # q.agent => Changed(l, q)[a] = l[a]
  <1>1. q.agent \in Agents /\ q.def \in Defs /\ q.kind \in {"create", "update", "delete"}
    BY DEF Requests
  <1>2. {} \in {{}} \cup {{d} : d \in Defs} /\ {q.def} \in {{}} \cup {{d} : d \in Defs}
    BY <1>1
  <1>3. l \in [Agents -> {{}} \cup {{d} : d \in Defs}]
    BY DEF Listings
  <1> QED BY <1>1, <1>2, <1>3 DEF Changed, Listings

\* One call moves to a stage that there is.
LEMMA GotoTyped ==
    ASSUME FileTypeOK, NEW c \in Calls, NEW s, Goto(c, s)
    PROVE  /\ stage'[c] = s
           /\ \A d \in Calls : d # c => stage'[d] = stage[d]
           /\ s \in {"idle", "ok", "refused", "queued", "prompt", "json", "failed", "lost"}
                => stage' \in [Calls -> {"idle", "ok", "refused"} \cup Pending \cup Cut]
  BY DEF FileTypeOK, Goto

\* At the start, and after every step, every variable has its type.
LEMMA TypeInit == FileInit => TypeInv
  BY DEF FileInit, TypeInv, FileTypeOK, Requested

\* Every step of the files keeps the types.
LEMMA TypeNext == TypeInv /\ LockInv /\ [FileNext]_fileVars => TypeInv'
  <1> SUFFICES ASSUME TypeInv, LockInv, [FileNext]_fileVars PROVE TypeInv'
    OBVIOUS
  <1> USE DEF TypeInv
  <1>1. CASE UNCHANGED fileVars
    BY <1>1 DEF fileVars, FileTypeOK, Requested
  <1>2. CASE BotCrashes
    BY <1>2 DEF BotCrashes, FileTypeOK, Requested
  <1>3. ASSUME NEW c \in Calls, Ask(c) PROVE TypeInv'
    BY <1>3, GotoTyped DEF Ask, FileTypeOK, Requested
  <1>4. ASSUME NEW c \in Calls, Load(c) PROVE TypeInv'
    <2>1. queue \in Seq(Calls) /\ queue # <<>> => Tail(queue) \in Seq(Calls)
      OBVIOUS
    <2>2. stage[c] = "queued" /\ queue # <<>>
      BY <1>4 DEF Load, HasLock
    <2>3. CASE Ends(c, "refused") /\ UNCHANGED loaded
      BY <1>4, <2>1, <2>2, <2>3, GotoTyped DEF Load, Ends, FileTypeOK, Requested
    <2>4. CASE /\ Goto(c, IF request[c].prompt THEN "prompt" ELSE "json")
               /\ loaded' = [loaded EXCEPT ![c] = file] /\ UNCHANGED queue
      BY <1>4, <2>2, <2>4, GotoTyped DEF Load, FileTypeOK, Requested
    <2> QED BY <1>4, <2>3, <2>4 DEF Load
  <1>5. ASSUME NEW c \in Calls, WritePrompt(c) PROVE TypeInv'
    BY <1>5, GotoTyped DEF WritePrompt, FileTypeOK, Requested
  <1>6. ASSUME NEW c \in Calls, WriteJson(c) PROVE TypeInv'
    <2>1. Tail(queue) \in Seq(Calls)
      BY <1>6 DEF FileTypeOK, WriteJson, LockInv
    <2>2. Changed(loaded[c], request[c]) \in Listings
      BY <1>6, ChangedIsListing DEF WriteJson, FileTypeOK, Requested
    <2> QED BY <1>6, <2>1, <2>2, GotoTyped DEF WriteJson, Ends, FileTypeOK, Requested
  <1>7. ASSUME NEW c \in Calls, Fails(c) PROVE TypeInv'
    <2>1. Tail(queue) \in Seq(Calls)
      BY <1>7 DEF FileTypeOK, Fails, HasLock
    <2> QED BY <1>7, <2>1, GotoTyped DEF Fails, Ends, FileTypeOK, Requested
  <1> QED BY <1>1, <1>2, <1>3, <1>4, <1>5, <1>6, <1>7 DEF FileNext, CallStep

(***************************************************************************)
(* The lock.                                                               *)
(***************************************************************************)
\* There is one call at a time between its reading and its last write.
LEMMA OneWorks ==
    ASSUME LockInv, NEW c \in Calls, NEW d \in Calls, stage[c] \in Working, stage[d] \in Working
    PROVE  c = d
  BY DEF LockInv

\* Every step of the files keeps the lock: only the call at the head gets beyond its reading.
LEMMA LockNext == TypeInv /\ LockInv /\ [FileNext]_fileVars => LockInv'
  <1> SUFFICES ASSUME TypeInv, LockInv, [FileNext]_fileVars PROVE LockInv'
    OBVIOUS
  <1>0. FileTypeOK /\ Requested
    BY DEF TypeInv
  <1>1. CASE UNCHANGED fileVars
    BY <1>1 DEF fileVars, LockInv, Admits
  <1>2. CASE BotCrashes
    BY <1>2 DEF BotCrashes, LockInv
  <1>3. ASSUME NEW c \in Calls, Ask(c) PROVE LockInv'
    <2> SUFFICES ASSUME NEW d \in Calls, stage'[d] \in Working
                 PROVE  queue' # <<>> /\ Head(queue') = d /\ loaded'[d] = file' /\ Admits(file', request'[d])
      BY DEF LockInv
    <2>1. d # c /\ stage[d] \in Working
      BY <1>0, <1>3, GotoTyped DEF Ask
    <2>2. queue \in Seq(Calls) /\ queue # <<>> /\ Head(queue) = d
      BY <1>0, <2>1 DEF LockInv, FileTypeOK
    <2>3. queue' = Append(queue, c)
      BY <1>3 DEF Ask
    <2>4. queue' # <<>> /\ Head(queue') = d
      BY <2>2, <2>3
    <2>5. request'[d] = request[d]
      BY <1>0, <1>3, <2>1 DEF Ask, FileTypeOK
    <2> QED BY <1>3, <2>1, <2>4, <2>5 DEF Ask, LockInv, Admits
  \* Who ends its work had the lock, so nobody else works.
  <1>4. ASSUME NEW c \in Calls, NEW s \in {"ok", "refused", "failed"}, HasLock(c), Ends(c, s)
        PROVE  LockInv'
    <2> SUFFICES ASSUME NEW d \in Calls, stage'[d] \in Working PROVE FALSE
      BY DEF LockInv
    <2>1. d # c /\ stage[d] \in Working
      BY <1>0, <1>4, GotoTyped DEF Ends
    <2> QED BY <1>4, <2>1 DEF LockInv, HasLock
  <1>5. ASSUME NEW c \in Calls, Load(c) PROVE LockInv'
    <2>1. CASE Ends(c, "refused")
      BY <1>4, <1>5, <2>1 DEF Load
    <2>2. CASE /\ Admits(file, request[c])
               /\ Goto(c, IF request[c].prompt THEN "prompt" ELSE "json")
               /\ loaded' = [loaded EXCEPT ![c] = file] /\ UNCHANGED queue
      <3> SUFFICES ASSUME NEW d \in Calls, stage'[d] \in Working
                   PROVE  queue # <<>> /\ Head(queue) = d /\ loaded'[d] = file /\ Admits(file, request[d])
        BY <1>5, <2>2 DEF LockInv, Load, Admits
      <3>1. CASE d = c
        BY <1>0, <1>5, <2>2, <3>1 DEF Load, HasLock, FileTypeOK
      <3>2. CASE d # c
        <4>1. stage[d] \in Working
          BY <1>0, <2>2, <3>2, GotoTyped
        <4> QED BY <1>5, <4>1, <3>2 DEF LockInv, Load, HasLock
      <3> QED BY <3>1, <3>2
    <2> QED BY <1>5, <2>1, <2>2 DEF Load
  <1>6. ASSUME NEW c \in Calls, WritePrompt(c) PROVE LockInv'
    <2> SUFFICES ASSUME NEW d \in Calls, stage'[d] \in Working
                 PROVE  queue # <<>> /\ Head(queue) = d /\ loaded[d] = file /\ Admits(file, request[d])
      BY <1>6 DEF LockInv, WritePrompt, Admits
    <2>1. stage[d] \in Working
      BY <1>0, <1>6, GotoTyped DEF WritePrompt
    <2> QED BY <2>1 DEF LockInv
  <1>7. ASSUME NEW c \in Calls, WriteJson(c) PROVE LockInv'
    <2>1. HasLock(c)
      BY <1>7 DEF WriteJson, LockInv, HasLock
    <2> QED BY <1>4, <1>7, <2>1 DEF WriteJson
  <1>8. ASSUME NEW c \in Calls, Fails(c) PROVE LockInv'
    BY <1>4, <1>8 DEF Fails
  <1> QED BY <1>1, <1>2, <1>3, <1>5, <1>6, <1>7, <1>8 DEF FileNext, CallStep

(***************************************************************************)
(* The two writes of a call.                                               *)
(***************************************************************************)
\* The witness of TornOnlyByCut.
Torn(c, a) == prompted[c] /\ request[c].agent = a /\ stage[c] \in {"json"} \cup Cut
Whole(a) == (file[a] = {}) = (prompts[a] = {})

\* TornOnlyByCut in terms of its witness.
LEMMA TornIsWitness == TornOnlyByCut <=> \A a \in Agents : Whole(a) \/ \E c \in Calls : Torn(c, a)
  BY DEF TornOnlyByCut, Torn, Whole

\* A prompt is written by the call at the head, for an agent that only it may have changed.
LEMMA PromptNext == TypeInv /\ LockInv /\ PromptInv /\ [FileNext]_fileVars => PromptInv'
  <1> SUFFICES ASSUME TypeInv, LockInv, PromptInv, [FileNext]_fileVars PROVE PromptInv'
    OBVIOUS
  <1>0. FileTypeOK /\ Requested
    BY DEF TypeInv
  <1>1. CASE UNCHANGED fileVars
    BY <1>1 DEF fileVars, PromptInv, PromptOf
  <1>2. CASE BotCrashes
    BY <1>2 DEF BotCrashes, PromptInv
  <1>3. ASSUME NEW c \in Calls, Ask(c) PROVE PromptInv'
    <2>1. \A d \in Calls : d # c => request'[d] = request[d]
      BY <1>0, <1>3 DEF Ask, FileTypeOK
    <2>2. stage[c] = "idle" /\ stage'[c] = "queued" /\ \A d \in Calls : d # c => stage'[d] = stage[d]
      BY <1>0, <1>3, GotoTyped DEF Ask
    <2>3. prompted' = prompted /\ prompts' = prompts
      BY <1>3 DEF Ask
    <2> QED BY <2>1, <2>2, <2>3 DEF PromptInv, PromptOf
  <1>4. ASSUME NEW c \in Calls, NEW s \in {"ok", "refused", "failed"}, Ends(c, s),
               UNCHANGED <<prompts, request, prompted>>
        PROVE  PromptInv'
    <2>1. stage'[c] = s /\ \A d \in Calls : d # c => stage'[d] = stage[d]
      BY <1>0, <1>4, GotoTyped DEF Ends
    <2> QED BY <1>4, <2>1 DEF PromptInv, PromptOf
  <1>5. ASSUME NEW c \in Calls, Load(c) PROVE PromptInv'
    <2>1. CASE Ends(c, "refused")
      BY <1>4, <1>5, <2>1 DEF Load
    <2>2. CASE Goto(c, IF request[c].prompt THEN "prompt" ELSE "json")
      <3>1. request[c].prompt \in BOOLEAN /\ prompted[c] \in BOOLEAN
        BY <1>0, <1>5 DEF Load, Requested, Requests, FileTypeOK
      <3>2. ~prompted[c] /\ UNCHANGED <<prompts, request, prompted>>
        BY <1>5 DEF Load, PromptInv
      <3>3. /\ stage'[c] = IF request[c].prompt THEN "prompt" ELSE "json"
            /\ \A d \in Calls : d # c => stage'[d] = stage[d]
        BY <1>0, <2>2, GotoTyped
      <3> QED BY <3>1, <3>2, <3>3 DEF PromptInv, PromptOf
    <2> QED BY <1>5, <2>1, <2>2 DEF Load
  <1>6. ASSUME NEW c \in Calls, WritePrompt(c) PROVE PromptInv'
    <2>1. stage[c] = "prompt" /\ stage'[c] = "json" /\ \A d \in Calls : d # c => stage'[d] = stage[d]
      BY <1>0, <1>6, GotoTyped DEF WritePrompt
    <2>2. request' = request /\ request[c].agent \in Agents /\ request[c].prompt
      BY <1>0, <1>6, <2>1 DEF WritePrompt, Requested, Requests, PromptInv
    <2>3. prompted'[c] = TRUE /\ \A d \in Calls : d # c => prompted'[d] = prompted[d]
      BY <1>0, <1>6 DEF WritePrompt, FileTypeOK
    <2>4. prompts'[request[c].agent] = PromptOf(c)
      BY <1>0, <1>6, <2>2 DEF WritePrompt, FileTypeOK, PromptOf
    <2>5. \A d \in Calls : d # c => stage[d] # "json"
      BY <2>1, OneWorks
    <2> QED BY <2>1, <2>2, <2>3, <2>4, <2>5 DEF PromptInv, PromptOf
  <1>7. ASSUME NEW c \in Calls, WriteJson(c) PROVE PromptInv'
    BY <1>4, <1>7 DEF WriteJson
  <1>8. ASSUME NEW c \in Calls, Fails(c) PROVE PromptInv'
    BY <1>4, <1>8 DEF Fails
  <1> QED BY <1>1, <1>2, <1>3, <1>5, <1>6, <1>7, <1>8 DEF FileNext, CallStep

\* What is torn after a step is torn by the call that made it, or was torn before it.
LEMMA TornNext ==
    TypeInv /\ LockInv /\ PromptInv /\ TornOnlyByCut /\ [FileNext]_fileVars => TornOnlyByCut'
  <1> SUFFICES ASSUME TypeInv, LockInv, PromptInv, TornOnlyByCut, [FileNext]_fileVars,
                      NEW a \in Agents
               PROVE  Whole(a)' \/ \E d \in Calls : Torn(d, a)'
    BY DEF TornOnlyByCut, Torn, Whole
  <1>0. FileTypeOK /\ Requested
    BY DEF TypeInv
  <1>w. Whole(a) \/ \E d \in Calls : Torn(d, a)
    BY TornIsWitness
  <1>1. CASE UNCHANGED fileVars
    BY <1>1, <1>w DEF fileVars, Whole, Torn
  <1>2. CASE BotCrashes
    BY <1>0, <1>2, <1>w DEF BotCrashes, Whole, Torn
  \* Nothing is written, and a call that was in the way of its second write stays a witness.
  <1>3. ASSUME NEW c \in Calls, UNCHANGED <<file, prompts, prompted>>, ~prompted[c] \/ stage[c] \notin {"json"} \cup Cut,
               \A d \in Calls : d # c => stage'[d] = stage[d] /\ request'[d] = request[d]
        PROVE  Whole(a)' \/ \E d \in Calls : Torn(d, a)'
    BY <1>3, <1>w DEF Whole, Torn
  <1>4. ASSUME NEW c \in Calls, Ask(c) PROVE Whole(a)' \/ \E d \in Calls : Torn(d, a)'
    <2>1. stage[c] = "idle" /\ \A d \in Calls : d # c => stage'[d] = stage[d] /\ request'[d] = request[d]
      BY <1>0, <1>4, GotoTyped DEF Ask, FileTypeOK
    <2> QED BY <1>3, <1>4, <2>1 DEF Ask
  <1>5. ASSUME NEW c \in Calls, Load(c) PROVE Whole(a)' \/ \E d \in Calls : Torn(d, a)'
    <2>1. stage[c] = "queued" /\ \A d \in Calls : d # c => stage'[d] = stage[d]
      BY <1>0, <1>5, GotoTyped DEF Load, Ends
    <2> QED BY <1>3, <1>5, <2>1 DEF Load
  <1>6. ASSUME NEW c \in Calls, WritePrompt(c) PROVE Whole(a)' \/ \E d \in Calls : Torn(d, a)'
    <2>1. stage[c] = "prompt" /\ stage'[c] = "json" /\ \A d \in Calls : d # c => stage'[d] = stage[d]
      BY <1>0, <1>6, GotoTyped DEF WritePrompt
    <2>2. prompted'[c] /\ \A d \in Calls : d # c => prompted'[d] = prompted[d]
      BY <1>0, <1>6 DEF WritePrompt, FileTypeOK
    <2>3. CASE a = request[c].agent
      <3>1. Torn(c, a)'
        BY <1>6, <2>1, <2>2, <2>3 DEF WritePrompt, Torn
      <3> QED BY <3>1
    <2>4. CASE a # request[c].agent
      <3>1. prompts'[a] = prompts[a] /\ UNCHANGED <<file, request>>
        BY <1>0, <1>6, <2>4 DEF WritePrompt, FileTypeOK
      <3>2. \A d \in Calls : Torn(d, a) => Torn(d, a)'
        BY <2>1, <2>2, <2>4, <3>1 DEF Torn
      <3> QED BY <1>w, <3>1, <3>2 DEF Whole
    <2> QED BY <2>3, <2>4
  <1>7. ASSUME NEW c \in Calls, WriteJson(c) PROVE Whole(a)' \/ \E d \in Calls : Torn(d, a)'
    <2>1. /\ stage[c] = "json" /\ \A d \in Calls : d # c => stage'[d] = stage[d]
          /\ UNCHANGED <<prompts, request, prompted>>
      BY <1>0, <1>7, GotoTyped DEF WriteJson, Ends
    <2>2. \A d \in Calls : d # c /\ Torn(d, a) => Torn(d, a)'
      BY <2>1 DEF Torn
    <2>3. loaded[c] = file /\ Admits(file, request[c]) /\ request[c] \in Requests /\ file \in Listings
      BY <1>0, <2>1 DEF LockInv, Requested, FileTypeOK
    <2>4. file' = Changed(file, request[c])
      BY <1>7, <2>3 DEF WriteJson
    <2>5. CASE a # request[c].agent
      <3>1. file'[a] = file[a]
        BY <2>3, <2>4, <2>5, ChangedIsListing
      <3>2. ~Torn(c, a)
        BY <2>5 DEF Torn
      <3> QED BY <1>w, <2>1, <2>2, <3>1, <3>2 DEF Whole
    <2>6. CASE a = request[c].agent
      <3>1. (file'[a] = {}) = (request[c].kind = "delete")
        BY <2>3, <2>4, <2>6, ChangedIsListing
      <3>2. CASE prompted[c]
        <4>1. (prompts[a] = {}) = (request[c].kind = "delete")
          BY <2>1, <2>6, <3>2 DEF PromptInv, PromptOf
        <4> QED BY <2>1, <3>1, <4>1 DEF Whole
      \* An update that leaves the prompt as it is: the agent was listed before.
      <3>3. CASE ~prompted[c]
        <4>1. request[c].kind = "update"
          BY <2>1, <2>3, <3>3 DEF PromptInv, Requests
        <4>2. file[a] # {} /\ file'[a] # {}
          BY <2>3, <2>6, <3>1, <4>1 DEF Admits
        <4>3. ~Torn(c, a)
          BY <3>3 DEF Torn
        <4>4. Whole(a) => Whole(a)'
          BY <2>1, <4>2 DEF Whole
        <4> QED BY <1>w, <2>2, <4>3, <4>4
      <3> QED BY <3>2, <3>3
    <2> QED BY <2>5, <2>6
  <1>8. ASSUME NEW c \in Calls, Fails(c) PROVE Whole(a)' \/ \E d \in Calls : Torn(d, a)'
    <2>1. /\ stage'[c] = "failed" /\ \A d \in Calls : d # c => stage'[d] = stage[d]
          /\ UNCHANGED <<file, prompts, request, prompted>>
      BY <1>0, <1>8, GotoTyped DEF Fails, Ends
    <2>2. \A d \in Calls : Torn(d, a) => Torn(d, a)'
      BY <2>1 DEF Torn
    <2> QED BY <1>w, <2>1, <2>2 DEF Whole
  <1> QED BY <1>1, <1>2, <1>4, <1>5, <1>6, <1>7, <1>8 DEF FileNext, CallStep

(***************************************************************************)
(* The theorems.                                                           *)
(***************************************************************************)
LEMMA InvInit == FileInit => FileInv
  <1> SUFFICES ASSUME FileInit PROVE FileInv
    OBVIOUS
  <1>1. TypeInv
    BY TypeInit
  <1>2. LockInv /\ PromptInv
    BY DEF FileInit, LockInv, PromptInv
  <1>3. \A a \in Agents : Whole(a)
    BY DEF FileInit, Whole
  <1> QED BY <1>1, <1>2, <1>3, TornIsWitness DEF FileInv

\* The invariant is inductive.
LEMMA InvNext == FileInv /\ [FileNext]_fileVars => FileInv'
  BY TypeNext, LockNext, PromptNext, TornNext DEF FileInv

\* The invariant of the files.
THEOREM FileInvHolds == FileSpec => []FileInv
  <1> QED BY InvInit, InvNext, PTL DEF FileSpec

\* Every variable of the files has its type.
THEOREM FilesTypeCorrect == FileSpec => []FileTypeOK
  <1>1. FileInv => FileTypeOK
    BY DEF FileInv, TypeInv
  <1> QED BY FileInvHolds, <1>1, PTL

\* repository.ts, prompt-store.ts: whatever fails and whenever the bot crashes, an agent has its
\* definition without its prompt, or a prompt without its agent, only between the two writes of a
\* call or where a call was cut off there.
THEOREM PromptsAreTornOnlyByCut == FileSpec => []TornOnlyByCut
  <1>1. FileInv => TornOnlyByCut
    BY DEF FileInv
  <1> QED BY FileInvHolds, <1>1, PTL

(***************************************************************************)
(* Refinement: every step of the files is one of the registry.             *)
(***************************************************************************)
\* The outcome of one call changes with its stage.
LEMMA OutcomeMoves ==
    ASSUME FileTypeOK, NEW c \in Calls, NEW s \in {"queued", "ok", "refused", "failed"}, Goto(c, s)
    PROVE  [d \in Calls |-> Outcome(stage'[d])] = [[d \in Calls |-> Outcome(stage[d])] EXCEPT ![c] = Outcome(s)]
  BY GotoTyped

\* A call that goes on is pending before and after.
LEMMA OutcomeStays ==
    ASSUME FileTypeOK, NEW c \in Calls, stage[c] \in Pending, NEW s \in Pending, Goto(c, s)
    PROVE  [d \in Calls |-> Outcome(stage'[d])] = [d \in Calls |-> Outcome(stage[d])]
  <1>1. Outcome(stage'[c]) = Outcome(stage[c])
    BY GotoTyped DEF Outcome
  <1> QED BY <1>1, GotoTyped

\* The files start as the registry.
LEMMA RegistryInit == FileInit => Registry!Init
  BY DEF FileInit, Registry!Init, Listings, Outcome

\* Every step of the files is one of the registry or none.
LEMMA RegistryNext == FileInv /\ [FileNext]_fileVars => [Registry!Next]_(Registry!vars)
  <1> SUFFICES ASSUME FileInv, [FileNext]_fileVars PROVE [Registry!Next]_(Registry!vars)
    OBVIOUS
  <1>0. FileTypeOK /\ Requested /\ LockInv
    BY DEF FileInv, TypeInv
  <1>1. CASE UNCHANGED fileVars
    BY <1>1 DEF fileVars, Registry!vars
  <1>2. CASE BotCrashes
    <2>1. \A c \in Calls : Outcome(stage'[c]) = IF Outcome(stage[c]) = "pending" THEN "lost" ELSE Outcome(stage[c])
      BY <1>0, <1>2 DEF BotCrashes, Outcome, FileTypeOK
    <2>2. Registry!Crash
      BY <1>2, <2>1 DEF BotCrashes, Registry!Crash
    <2> QED BY <2>2 DEF Registry!Next
  <1>3. ASSUME NEW c \in Calls, Ask(c) PROVE Registry!Next
    <2>1. Outcome(stage[c]) = "none" /\ Outcome("queued") = "pending"
      BY <1>3 DEF Ask, Outcome
    <2>2. Registry!Called(c)
      BY <1>0, <1>3, <2>1, OutcomeMoves DEF Ask, Registry!Called
    <2> QED BY <2>2 DEF Registry!Next
  <1>4. ASSUME NEW c \in Calls, Load(c) PROVE [Registry!Next]_(Registry!vars)
    <2>1. CASE ~Admits(file, request[c]) /\ Ends(c, "refused")
      <3>1. Outcome(stage[c]) = "pending" /\ Outcome("refused") = "refused"
        BY <1>4 DEF Load, Outcome
      <3>2. Registry!Refuse(c)
        BY <1>0, <1>4, <2>1, <3>1, OutcomeMoves
        DEF Load, Ends, Admits, Registry!Refuse, Registry!Answered, Registry!Allowed
      <3> QED BY <3>2 DEF Registry!Next
    <2>2. CASE Goto(c, IF request[c].prompt THEN "prompt" ELSE "json")
      <3>1. stage[c] \in Pending /\ (IF request[c].prompt THEN "prompt" ELSE "json") \in Pending
        BY <1>4 DEF Load
      <3>2. [d \in Calls |-> Outcome(stage'[d])] = [d \in Calls |-> Outcome(stage[d])]
        BY <1>0, <2>2, <3>1, OutcomeStays
      <3> QED BY <1>4, <3>2 DEF Load, Registry!vars
    <2> QED BY <1>4, <2>1, <2>2 DEF Load
  <1>5. ASSUME NEW c \in Calls, WritePrompt(c) PROVE UNCHANGED Registry!vars
    <2>1. [d \in Calls |-> Outcome(stage'[d])] = [d \in Calls |-> Outcome(stage[d])]
      BY <1>0, <1>5, OutcomeStays DEF WritePrompt
    <2> QED BY <1>5, <2>1 DEF WritePrompt, Registry!vars
  <1>6. ASSUME NEW c \in Calls, WriteJson(c) PROVE Registry!Next
    <2>1. Outcome(stage[c]) = "pending" /\ Outcome("ok") = "ok"
      BY <1>6 DEF WriteJson, Outcome
    <2>2. loaded[c] = file /\ Admits(file, request[c])
      BY <1>0, <1>6 DEF LockInv, WriteJson
    <2>3. Registry!Answered(c, "ok")
      BY <1>0, <1>6, <2>1, OutcomeMoves DEF WriteJson, Ends, Registry!Answered
    <2>4. Registry!Commit(c)
      BY <1>6, <2>2, <2>3 DEF WriteJson, Admits, Changed, Registry!Commit, Registry!Allowed, Registry!Result
    <2> QED BY <2>4 DEF Registry!Next
  <1>7. ASSUME NEW c \in Calls, Fails(c) PROVE Registry!Next
    <2>1. Outcome(stage[c]) = "pending" /\ Outcome("failed") = "failed"
      BY <1>7 DEF Fails, Outcome
    <2>2. Registry!Fail(c)
      BY <1>0, <1>7, <2>1, OutcomeMoves DEF Fails, Ends, Registry!Fail, Registry!Answered
    <2> QED BY <2>2 DEF Registry!Next
  <1> QED BY <1>1, <1>2, <1>3, <1>4, <1>5, <1>6, <1>7 DEF FileNext, CallStep

\* json-store.ts, repository.ts: although a call reads, writes a prompt and writes the JSON file in
\* steps of its own, the calls take effect one at a time and at once, each as its answer says.
THEOREM FilesImplementAtomic == FileSpec => Registry!Atomic
  <1> QED BY RegistryInit, RegistryNext, FileInvHolds, PTL DEF FileSpec, Registry!Atomic

(***************************************************************************)
(* The process with the graph.                                             *)
(***************************************************************************)
\* Every step of the program is one of the files or leaves them alone.
LEMMA RuntimeReads == [Next]_vars => [FileNext]_fileVars
  <1> SUFFICES ASSUME [Next]_vars PROVE [FileNext]_fileVars
    OBVIOUS
  <1>1. CASE UNCHANGED vars
    BY <1>1 DEF vars
  <1>2. CASE BotStep
    BY <1>2 DEF BotStep, Edits, FileNext, CallStep
  <1>3. CASE RuntimeStep
    BY <1>3 DEF RuntimeStep, Boot, Watch, Fire, ReadAgents, Compare, Build
  <1> QED BY <1>1, <1>2, <1>3 DEF Next

\* create-supervisor-runtime.ts, read-only-repositories.ts: the invariant of the files holds with
\* any process that compiles its graph from them.
THEOREM RuntimeKeepsFiles == Spec => []FileInv
  <1>1. Init => FileInv
    BY InvInit DEF Init
  <1>2. FileInv /\ [Next]_vars => FileInv'
    BY RuntimeReads, InvNext
  <1> QED BY <1>1, <1>2, PTL DEF Spec

\* TornOnlyByCut, of the whole program: a definition without its prompt, or a prompt without its
\* agent, is the trace of a call between its two writes or cut off there.
THEOREM TornOnlyByCutHolds == Spec => []TornOnlyByCut
  <1>1. FileInv => TornOnlyByCut
    BY DEF FileInv
  <1> QED BY RuntimeKeepsFiles, <1>1, PTL

\* ImplementsRegistry, but for its liveness and of the whole program: the processes that read the
\* files do not keep the calls from being atomic.
THEOREM RuntimeImplementsAtomic == Spec => Registry!Atomic
  <1>1. Init => Registry!Init
    BY RegistryInit DEF Init
  <1>2. FileInv /\ [Next]_vars => [Registry!Next]_(Registry!vars)
    BY RuntimeReads, RegistryNext
  <1> QED BY <1>1, <1>2, RuntimeKeepsFiles, PTL DEF Spec, Registry!Atomic

(***************************************************************************)
(* Its types.                                                              *)
(***************************************************************************)
\* What the functions on listings return.
LEMMA ListingFacts ==
    ASSUME FileTypeOK, NEW l \in Listings, NEW got \in BOOLEAN
    PROVE  /\ WithPrompt(l) \in Listings
           /\ Wired(l, got) \in [Agents -> SUBSET Wirings]
           /\ \A a \in Agents : prompts[a] = {} => Wired(WithPrompt(l), got)[a] = {}
  <1>1. l \in [Agents -> {{}} \cup {{d} : d \in Defs}]
    BY DEF Listings
  <1>2. WithPrompt(l) \in Listings
    BY <1>1 DEF WithPrompt, Listings
  <1>3. ASSUME NEW a \in Agents PROVE {d.wiring : d \in {e \in l[a] : Enabled(e, got)}} \subseteq Wirings
    <2>1. \A d \in l[a] : d \in Defs
      BY <1>1
    <2>2. \A d \in Defs : d.wiring \in Wirings
      BY DEF Defs
    <2> QED BY <2>1, <2>2
  <1>4. ASSUME NEW a \in Agents, prompts[a] = {} PROVE Wired(WithPrompt(l), got)[a] = {}
    BY <1>4 DEF Wired, WithPrompt
  <1> QED BY <1>2, <1>3, <1>4 DEF Wired

\* The nodes of a graph have the wirings that they were built with, as no prompt was missing.
LEMMA NodesFacts ==
    ASSUME FileTypeOK, NEW w \in [Agents -> SUBSET Wirings],
           \A a \in Agents : w[a] # {} => prompts[a] # {}
    PROVE  /\ Nodes(w) \in [Agents -> SUBSET [wiring : Wirings, text : Calls \cup {Shipped}]]
           /\ \A a \in Agents : {n.wiring : n \in Nodes(w)[a]} = w[a]
  <1>1. ASSUME NEW a \in Agents
        PROVE  Bundle(a, w[a]) \subseteq [wiring : Wirings, text : Calls \cup {Shipped}]
    <2>1. w[a] \subseteq Wirings /\ prompts[a] \subseteq Calls \cup {Shipped}
      BY DEF FileTypeOK
    <2> QED BY <2>1 DEF Bundle
  <1>2. ASSUME NEW a \in Agents PROVE {n.wiring : n \in Bundle(a, w[a])} = w[a]
    <2>1. ASSUME NEW n \in Bundle(a, w[a]) PROVE n.wiring \in w[a]
      BY DEF Bundle
    <2>2. ASSUME NEW x \in w[a] PROVE \E n \in Bundle(a, w[a]) : n.wiring = x
      <3>1. PICK t \in prompts[a] : TRUE
        BY <2>2
      <3>2. [wiring |-> x, text |-> t] \in Bundle(a, w[a])
        BY <2>2, <3>1 DEF Bundle
      <3> QED BY <3>2
    <2> QED BY <2>1, <2>2
  <1> QED BY <1>1, <1>2 DEF Nodes

\* TypeOK: every variable of the process has its type, whatever it has read and however many
\* recompiles were queued while one ran.
THEOREM RuntimeTypeCorrect == Spec => []TypeOK
  <1>1. Init => TypeOK
    <2> SUFFICES ASSUME Init PROVE TypeOK
      OBVIOUS
    <2>1. FileTypeOK
      BY TypeInit DEF Init, TypeInv
    <2>2. NoAgents \in Listings /\ NoAgents \in [Agents -> SUBSET Wirings]
          /\ NoAgents \in [Agents -> SUBSET [wiring : Wirings, text : Calls \cup {Shipped}]]
      BY DEF NoAgents, Listings
    <2>3. 0 \in 0..MaxChain
      BY ChainAssumption
    <2> QED BY <2>1, <2>2, <2>3 DEF Init, TypeOK
  <1>2. TypeOK /\ FileInv /\ FileInv' /\ [Next]_vars => TypeOK'
    <2> SUFFICES ASSUME TypeOK, FileInv, FileInv', [Next]_vars PROVE TypeOK'
      OBVIOUS
    <2>0. FileTypeOK /\ FileTypeOK'
      BY DEF FileInv, TypeInv
    <2>1. CASE UNCHANGED vars
      BY <2>0, <2>1 DEF vars, graphVars, runtime, TypeOK
    <2>2. CASE BotStep
      BY <2>0, <2>2 DEF BotStep, Edits, graphVars, TypeOK
    <2>3. CASE Boot
      <3>1. PICK got \in SessionsSetUp :
                IF Validated(WithPrompt(file), got) /\ Resolved(Prepared(got), got)
                THEN /\ step' = "idle" /\ ledgerOpen' = TRUE
                     /\ print' = Prepared(got) /\ graph' = Nodes(Prepared(got)) /\ sessions' = got /\ basis' = got
                ELSE step' = "down" /\ UNCHANGED graphVars
        BY <2>3 DEF Boot
      <3>2. got \in BOOLEAN
        BY DEF SessionsSetUp
      <3>3. /\ Prepared(got) \in [Agents -> SUBSET Wirings]
            /\ \A a \in Agents : Prepared(got)[a] # {} => prompts[a] # {}
        BY <2>0, <3>2, ListingFacts DEF Prepared, FileTypeOK
      <3>4. Nodes(Prepared(got)) \in [Agents -> SUBSET [wiring : Wirings, text : Calls \cup {Shipped}]]
        BY <2>0, <3>3, NodesFacts
      <3> QED BY <2>0, <2>3, <3>1, <3>2, <3>3, <3>4 DEF Boot, TypeOK, graphVars
    <2>4. CASE Watch
      BY <2>0, <2>4 DEF Watch, graphVars, TypeOK
    <2>5. CASE Fire
      <3>1. chain + 1 \in 0..MaxChain
        BY <2>5, ChainAssumption DEF Fire, TypeOK
      <3> QED BY <2>0, <2>5, <3>1 DEF Fire, Linked, graphVars, TypeOK
    <2>6. CASE ReadAgents
      <3>1. chain - 1 \in 0..MaxChain /\ file \in Listings
        BY <2>0, <2>6, ChainAssumption DEF ReadAgents, MayStart, TypeOK, FileTypeOK
      <3> QED BY <2>0, <2>6, <3>1 DEF ReadAgents, graphVars, TypeOK
    <2>7. CASE Compare
      <3>1. NoAgents \in Listings /\ WithPrompt(read) \in Listings
        BY <2>0, ListingFacts DEF TypeOK, NoAgents, Listings
      <3> QED BY <2>0, <2>7, <3>1 DEF Compare, CloseAdapters, TypeOK
    <2>8. CASE Build
      <3>1. PICK got \in SessionsSetUp, built \in BOOLEAN :
                /\ built => ~PromptGone(Wired(read, basis))
                /\ print' = PrintAfter(Wired(read, basis), built)
                /\ IF built THEN graph' = Nodes(Wired(read, basis)) /\ sessions' = got
                           ELSE UNCHANGED <<graph, sessions>>
                /\ failed' = ~built
        BY <2>8 DEF Build
      <3>2. Wired(read, basis) \in [Agents -> SUBSET Wirings]
        BY <2>0, ListingFacts DEF TypeOK
      <3>3. built => Nodes(Wired(read, basis)) \in [Agents -> SUBSET [wiring : Wirings, text : Calls \cup {Shipped}]]
        BY <2>0, <3>1, <3>2, NodesFacts DEF PromptGone
      <3>4. NoAgents \in Listings /\ got \in BOOLEAN
        BY DEF NoAgents, Listings, SessionsSetUp
      <3> QED BY <2>0, <2>8, <3>1, <3>2, <3>3, <3>4 DEF Build, PrintAfter, TypeOK
    <2> QED BY <2>1, <2>2, <2>3, <2>4, <2>5, <2>6, <2>7, <2>8 DEF Next, RuntimeStep
  <1> QED BY <1>1, <1>2, RuntimeKeepsFiles, PTL DEF Spec

(***************************************************************************)
(* The graph is current.                                                   *)
(***************************************************************************)
\* A change of the JSON file that no recompile has read.
Dirty == timer \/ chain > 0 \/ missed

\* The fingerprint says what the graph has.
WiringInv == \A a \in Agents : Wiring(a) = print[a]

\* What each stage of a recompile goes by, if nothing has changed since it read the file.
ReadInv  == step = "prepare" => read = file
BuildInv == step = "build" => \A a \in Agents : Disturbed(a) \/ read[a] = WithPrompt(file)[a]
IdleInv  == step = "idle" /\ ~failed => \A a \in Agents : Disturbed(a) \/ print[a] = Prepared(basis)[a]
CurrentInv == ~Dirty => ReadInv /\ BuildInv /\ IdleInv

\* A graph is built where no prompt is missing, and its fingerprint is kept with it.
LEMMA WiringNext == TypeOK /\ WiringInv /\ [Next]_vars => WiringInv'
  <1> SUFFICES ASSUME TypeOK, WiringInv, [Next]_vars PROVE WiringInv'
    OBVIOUS
  <1>0. FileTypeOK
    BY DEF TypeOK
  <1>1. ASSUME UNCHANGED <<print, graph>> PROVE WiringInv'
    BY <1>1 DEF WiringInv, Wiring
  <1>2. ASSUME NEW w \in [Agents -> SUBSET Wirings], print' = w, graph' = Nodes(w),
               \A a \in Agents : w[a] # {} => prompts[a] # {}
        PROVE  WiringInv'
    BY <1>0, <1>2, NodesFacts DEF WiringInv, Wiring
  <1>3. CASE Boot
    <2>1. PICK got \in SessionsSetUp :
              \/ print' = Prepared(got) /\ graph' = Nodes(Prepared(got))
              \/ UNCHANGED graphVars
      BY <1>3 DEF Boot
    <2>2. /\ Prepared(got) \in [Agents -> SUBSET Wirings]
          /\ \A a \in Agents : Prepared(got)[a] # {} => prompts[a] # {}
      BY <1>0, ListingFacts DEF Prepared, FileTypeOK, SessionsSetUp
    <2> QED BY <1>1, <1>2, <2>1, <2>2 DEF graphVars
  <1>4. CASE Build
    <2>1. PICK built \in BOOLEAN :
              /\ built => ~PromptGone(Wired(read, basis)) /\ graph' = Nodes(Wired(read, basis))
              /\ ~built => UNCHANGED graph
              /\ print' = PrintAfter(Wired(read, basis), built)
      BY <1>4 DEF Build
    <2>2. Wired(read, basis) \in [Agents -> SUBSET Wirings]
      BY <1>0, ListingFacts DEF TypeOK
    <2> QED BY <1>1, <1>2, <2>1, <2>2 DEF PrintAfter, PromptGone
  <1>5. CASE UNCHANGED vars
    BY <1>1, <1>5 DEF vars, graphVars
  <1>6. CASE BotStep \/ Watch \/ Fire \/ ReadAgents \/ Compare
    BY <1>1, <1>6 DEF BotStep, Watch, Fire, ReadAgents, Compare, graphVars
  <1> QED BY <1>3, <1>4, <1>5, <1>6 DEF Next, RuntimeStep

\* What the bot does without writing a JSON file.
QuietEdit == BotCrashes \/ \E c \in Calls : Ask(c) \/ Load(c) \/ WritePrompt(c) \/ Fails(c)

\* Until a JSON file is written, a call that has disturbed an agent goes on doing so, and only an
\* agent that is disturbed has another prompt than before.
LEMMA DisturbedStays ==
    ASSUME FileInv, QuietEdit, NEW a \in Agents
    PROVE  /\ Disturbed(a) => Disturbed(a)'
           /\ prompts'[a] # prompts[a] => Disturbed(a)'
  <1>0. FileTypeOK /\ Requested
    BY DEF FileInv, TypeInv
  <1> DEFINE Goal == /\ \A d \in Calls : Torn(d, a) => Torn(d, a)'
                     /\ prompts'[a] # prompts[a] => \E d \in Calls : Torn(d, a)'
  <1>1. SUFFICES Goal
    BY DEF Disturbed, Torn
  <1>3. CASE BotCrashes
    BY <1>0, <1>3 DEF BotCrashes, Torn
  <1>4. ASSUME NEW c \in Calls, UNCHANGED <<file, prompts, prompted>>, ~prompted[c] \/ stage[c] \notin {"json"} \cup Cut,
               \A d \in Calls : d # c => stage'[d] = stage[d] /\ request'[d] = request[d]
        PROVE  Goal
    BY <1>4 DEF Torn
  <1>5. ASSUME NEW c \in Calls, Ask(c) PROVE Goal
    <2>1. stage[c] = "idle" /\ \A d \in Calls : d # c => stage'[d] = stage[d] /\ request'[d] = request[d]
      BY <1>0, <1>5, GotoTyped DEF Ask, FileTypeOK
    <2> QED BY <1>4, <1>5, <2>1 DEF Ask
  <1>6. ASSUME NEW c \in Calls, Load(c) PROVE Goal
    <2>1. stage[c] = "queued" /\ \A d \in Calls : d # c => stage'[d] = stage[d]
      BY <1>0, <1>6, GotoTyped DEF Load, Ends
    <2> QED BY <1>4, <1>6, <2>1 DEF Load
  <1>7. ASSUME NEW c \in Calls, WritePrompt(c) PROVE Goal
    <2>1. stage[c] = "prompt" /\ stage'[c] = "json" /\ \A d \in Calls : d # c => stage'[d] = stage[d]
      BY <1>0, <1>7, GotoTyped DEF WritePrompt
    <2>2. prompted'[c] /\ \A d \in Calls : d # c => prompted'[d] = prompted[d]
      BY <1>0, <1>7 DEF WritePrompt, FileTypeOK
    <2>3. UNCHANGED <<file, request>>
      BY <1>7 DEF WritePrompt
    <2>4. a # request[c].agent => prompts'[a] = prompts[a]
      BY <1>0, <1>7 DEF WritePrompt, FileTypeOK
    <2>5. a = request[c].agent => Torn(c, a)'
      BY <2>1, <2>2, <2>3 DEF Torn
    <2>6. ASSUME NEW d \in Calls, Torn(d, a) PROVE Torn(d, a)'
      BY <2>1, <2>2, <2>3, <2>6 DEF Torn
    <2> QED BY <2>4, <2>5, <2>6
  <1>8. ASSUME NEW c \in Calls, Fails(c) PROVE Goal
    <2>1. /\ stage'[c] = "failed" /\ \A d \in Calls : d # c => stage'[d] = stage[d]
          /\ UNCHANGED <<file, prompts, request, prompted>>
      BY <1>0, <1>8, GotoTyped DEF Fails, Ends
    <2> QED BY <2>1 DEF Torn
  <1> QED BY <1>3, <1>5, <1>6, <1>7, <1>8 DEF QuietEdit

\* The bot's steps: either the JSON file is written, which leaves its trace, or what has been read
\* stays what the files say, but for the agents that the step disturbs.
LEMMA CurrentWithBot == TypeOK /\ FileInv /\ CurrentInv /\ BotStep => CurrentInv'
  <1> SUFFICES ASSUME TypeOK, FileInv, CurrentInv, BotStep, ~Dirty' PROVE ReadInv' /\ BuildInv' /\ IdleInv'
    BY DEF CurrentInv
  <1>0. UNCHANGED <<graphVars, watching, chain, step, read, failed>>
    BY DEF BotStep
  <1>1. QuietEdit /\ UNCHANGED <<missed, timer>>
    <2>1. ~(IF watching THEN timer' = TRUE /\ UNCHANGED missed ELSE missed' = TRUE /\ UNCHANGED timer)
      BY DEF Dirty
    <2> QED BY <2>1 DEF BotStep, Edits, QuietEdit
  <1>2. ~Dirty /\ ReadInv /\ BuildInv /\ IdleInv
    BY <1>0, <1>1 DEF Dirty, CurrentInv
  <1>4. \A a \in Agents : (Disturbed(a) => Disturbed(a)') /\ (prompts'[a] # prompts[a] => Disturbed(a)')
    BY <1>1, DisturbedStays
  <1>5. file' = file
    BY <1>1 DEF QuietEdit, BotCrashes, Ask, Load, WritePrompt, Fails
  <1>6. ASSUME NEW a \in Agents, prompts'[a] = prompts[a]
        PROVE  WithPrompt(file)'[a] = WithPrompt(file)[a]
    BY <1>5, <1>6 DEF WithPrompt
  <1>7. ReadInv'
    BY <1>0, <1>2, <1>5 DEF ReadInv
  <1>8. BuildInv'
    BY <1>0, <1>2, <1>4, <1>6 DEF BuildInv
  <1>9. IdleInv'
    <2>1. ASSUME NEW a \in Agents, prompts'[a] = prompts[a] PROVE Prepared(basis)'[a] = Prepared(basis)[a]
      BY <1>0, <1>6, <2>1 DEF Prepared, Wired, graphVars
    <2> QED BY <1>0, <1>2, <1>4, <2>1 DEF IdleInv, graphVars
  <1> QED BY <1>7, <1>8, <1>9

\* The steps of the process: what it reads, it reads from the files as they are.
LEMMA CurrentWithRuntime == TypeOK /\ CurrentInv /\ RuntimeStep => CurrentInv'
  <1> SUFFICES ASSUME TypeOK, CurrentInv, RuntimeStep, ~Dirty' PROVE ReadInv' /\ BuildInv' /\ IdleInv'
    BY DEF CurrentInv
  <1>0. UNCHANGED fileVars /\ FileTypeOK
    BY DEF RuntimeStep, Boot, Watch, Fire, ReadAgents, Compare, Build, TypeOK
  <1>1. /\ UNCHANGED <<file, prompts>>
        /\ \A a \in Agents : Disturbed(a)' <=> Disturbed(a)
    BY <1>0 DEF fileVars, Disturbed
  <1>4. CASE Boot
    <2>1. step' = "idle" \/ step' = "down"
      BY <1>4 DEF Boot
    <2>2. step' = "idle" => print' = Wired(WithPrompt(file), basis')
      BY <1>4 DEF Boot, Prepared
    <2>3. step' = "idle" => print' = Prepared(basis)'
      BY <1>1, <2>2 DEF Prepared, WithPrompt, Wired
    <2> QED BY <2>1, <2>3 DEF ReadInv, BuildInv, IdleInv
  <1>5. CASE Watch
    <2>1. UNCHANGED <<step, read, failed, print, basis>> /\ ~Dirty
      BY <1>5 DEF Watch, graphVars, Dirty
    <2>2. WithPrompt(file)' = WithPrompt(file) /\ Prepared(basis)' = Prepared(basis)
      BY <1>1, <2>1 DEF WithPrompt, Prepared, Wired
    <2> QED BY <1>1, <2>1, <2>2 DEF CurrentInv, ReadInv, BuildInv, IdleInv
  <1>6. CASE Fire
    <2>1. chain + 1 > 0
      BY DEF TypeOK
    <2> QED BY <1>6, <2>1 DEF Fire, Linked, Dirty
  <1>7. CASE ReadAgents
    BY <1>1, <1>7 DEF ReadAgents, ReadInv, BuildInv, IdleInv
  <1>8. CASE Compare
    <2>1. ~Dirty /\ read = file
      BY <1>8 DEF Compare, Dirty, CurrentInv, ReadInv
    <2>2. WithPrompt(file)' = WithPrompt(file)
      BY <1>1 DEF WithPrompt
    <2>3. CASE Wired(WithPrompt(read), sessions) = print
      <3>1. step' = "idle" /\ print' = Wired(WithPrompt(file), basis')
        BY <1>8, <2>1, <2>3 DEF Compare
      <3>2. print' = Prepared(basis)'
        BY <1>1, <3>1 DEF Prepared, WithPrompt, Wired
      <3> QED BY <3>1, <3>2 DEF ReadInv, BuildInv, IdleInv
    <2>4. CASE Wired(WithPrompt(read), sessions) # print
      <3>1. step' = "build" /\ read' = WithPrompt(file)
        BY <1>8, <2>1, <2>4 DEF Compare
      <3> QED BY <2>2, <3>1 DEF ReadInv, BuildInv, IdleInv
    <2> QED BY <2>3, <2>4
  <1>9. CASE Build
    <2>1. ~Dirty /\ BuildInv /\ step = "build" /\ step' = "idle" /\ basis' = basis
      BY <1>9 DEF Build, Dirty, CurrentInv
    <2>2. ~failed' => print' = Wired(read, basis)
      BY <1>9 DEF Build, PrintAfter
    <2>3. ASSUME NEW a \in Agents, read[a] = WithPrompt(file)[a]
          PROVE  Wired(read, basis)[a] = Prepared(basis)'[a]
      <3>1. Wired(read, basis)[a] = Wired(WithPrompt(file), basis)[a]
        BY <2>3 DEF Wired
      <3>2. Prepared(basis)' = Wired(WithPrompt(file), basis)
        BY <1>1, <2>1 DEF Prepared, WithPrompt, Wired
      <3> QED BY <3>1, <3>2
    <2> QED BY <1>1, <2>1, <2>2, <2>3 DEF ReadInv, BuildInv, IdleInv
  <1> QED BY <1>4, <1>5, <1>6, <1>7, <1>8, <1>9 DEF RuntimeStep

\* create-supervisor-runtime.ts, runtime-agent-watcher.ts: for any number of calls, agents and
\* queued recompiles, when nothing is under way the graph has the specialists that the files ask
\* for, whatever was written while a recompile was reading, closing or building; the exceptions are
\* those that GraphIsCurrent names.
THEOREM GraphStaysCurrent == Spec => []GraphIsCurrent
  <1>1. Init => WiringInv /\ CurrentInv
    BY DEF Init, NoAgents, WiringInv, Wiring, CurrentInv, ReadInv, BuildInv, IdleInv
  <1>2. CurrentInv /\ UNCHANGED vars => CurrentInv'
    BY DEF vars, fileVars, graphVars, runtime, CurrentInv, Dirty, ReadInv, BuildInv, IdleInv,
           Disturbed, WithPrompt, Prepared, Wired
  <1>3. TypeOK /\ FileInv /\ CurrentInv /\ [Next]_vars => CurrentInv'
    BY <1>2, CurrentWithBot, CurrentWithRuntime DEF Next
  <1>4. TypeOK /\ WiringInv /\ CurrentInv => GraphIsCurrent
    <2> SUFFICES ASSUME TypeOK, WiringInv, CurrentInv, Quiet, ~failed, ~missed
                 PROVE  \A a \in Agents : Disturbed(a) \/ Wiring(a) = Prepared(basis)[a]
      BY DEF GraphIsCurrent
    <2>1. ~Dirty /\ step = "idle"
      BY DEF Quiet, Dirty
    <2> QED BY <2>1 DEF WiringInv, CurrentInv, IdleInv
  <1> QED
    BY <1>1, <1>3, <1>4, WiringNext, RuntimeTypeCorrect, RuntimeKeepsFiles, PTL DEF Spec
===============================================================================
