---------------------------- MODULE ContextCache ----------------------------
(***************************************************************************)
(* The cache of prompts kept at the model's service                        *)
(* (llm-gemini/src/gemini-context-cache.ts) and the turns that use it: the *)
(* supervisor's routing call (core/supervisor/supervisor-node.ts) and a    *)
(* specialist's call (core/execution/runtime-node.ts with                  *)
(* policies/context-cache-runtime.ts).                                     *)
(*                                                                         *)
(* A print is the fingerprint of a prompt.  Creation k asks the service    *)
(* for a cache, and k is that cache's name.  The client judges a cache by  *)
(* its expiry time, the service may have dropped it before.  Whatever runs *)
(* between two awaits is one step.                                         *)
(***************************************************************************)
EXTENDS Naturals, FiniteSets

CONSTANTS
    Turns,          \* model calls of supervisor turns and specialist turns
    Supervisors,    \* those of them that are the supervisor's
    Prints,
    MaxCreates,     \* bound: creations asked of the service
    MaxAged,        \* bound: caches that near their expiry
    MaxLost         \* bound: caches the service drops

ASSUME CacheAssumption ==
    /\ Supervisors \subseteq Turns /\ Prints # {}
    /\ MaxCreates \in Nat /\ MaxAged \in Nat /\ MaxLost \in Nat

VARIABLES
    caches,     \* caches[f]: the name stored for print f, as a set
    pending,    \* pending[f]: the creation others may join, as a set
    generation, \* generation[f]: how often f was invalidated
    printOf,    \* printOf[n]: the print that name n is mapped to, as a set
    made,       \* creations so far: 1..made
    creation,   \* creation[k]: its print, its generation, where it is, what it returns
    aged,       \* names within the skew before their expiry: not fresh to the client
    lost,       \* names the service no longer has
    print,      \* print[t]: of turn t's prompt
    turn        \* turn[t]: where t is, its handle, the creation it awaits, and the names it missed

manager == <<caches, pending, generation, printOf>>
service == <<aged, lost>>
vars    == <<manager, made, creation, service, print, turn>>

Names == 1..MaxCreates

\* A creation not asked for yet.
NoCreation == [print |-> CHOOSE f \in Prints : TRUE, start |-> 0, stage |-> "none", returns |-> {}]

InFlight(k) == creation[k].stage \in {"asked", "settled"}

TurnStages == {"resolve", "await", "call", "missing", "blank", "recoveryMissing", "answered", "failed"}
AtTurn(t, s) == turn[t].stage = s

\* first: the handle is getOrCreate's, not that of the cache made after a miss.
\* recovery: a directive was added after a blank answer.
\* missed (history): the caches the service told it are missing.
IdleTurn == [stage |-> "resolve", handle |-> {}, awaits |-> {}, first |-> TRUE,
             recovery |-> FALSE, missed |-> {}]

Init ==
    /\ caches = [f \in Prints |-> {}] /\ pending = [f \in Prints |-> {}]
    /\ generation = [f \in Prints |-> 0]
    /\ printOf = [n \in Names |-> {}]
    /\ made = 0 /\ creation = [k \in Names |-> NoCreation]
    /\ aged = {} /\ lost = {}
    /\ print \in [Turns -> Prints]
    /\ turn = [t \in Turns |-> IdleTurn]

(***************************************************************************)
(* getOrCreate, for turn t, in the state the arguments describe: a fresh   *)
(* entry answers at once; otherwise the entry is dropped and the creation  *)
(* in the map is joined, or one is started.                                *)
(***************************************************************************)
Joined(p, f)      == p[f]

GetOrCreate(t, c, p, g, first) ==
    LET f     == print[t]
        going == [turn[t] EXCEPT !.first = first]
    IN  \/ /\ ~(c[f] \subseteq aged)
           /\ turn' = [turn EXCEPT ![t] = [going EXCEPT !.stage = "call", !.handle = c[f]]]
           /\ caches' = c /\ pending' = p
           /\ UNCHANGED <<made, creation>>
        \/ /\ c[f] \subseteq aged /\ Joined(p, f) # {}
           /\ turn' = [turn EXCEPT ![t] = [going EXCEPT !.stage = "await", !.awaits = p[f]]]
           /\ caches' = [c EXCEPT ![f] = {}] /\ pending' = p
           /\ UNCHANGED <<made, creation>>
        \/ /\ c[f] \subseteq aged /\ Joined(p, f) = {} /\ made < MaxCreates
           /\ made' = made + 1
           /\ creation' = [creation EXCEPT ![made + 1] =
                 [print |-> f, start |-> g[f], stage |-> "asked", returns |-> {}]]
           /\ turn' = [turn EXCEPT ![t] = [going EXCEPT !.stage = "await", !.awaits = {made + 1}]]
           /\ caches' = [c EXCEPT ![f] = {}] /\ pending' = [p EXCEPT ![f] = {made + 1}]

Resolve(t) ==
    /\ AtTurn(t, "resolve")
    /\ GetOrCreate(t, caches, pending, generation, TRUE)
    /\ UNCHANGED <<generation, printOf, service, print>>

(***************************************************************************)
(* createCache.                                                            *)
(***************************************************************************)
Settled(k, result) == [creation EXCEPT ![k] = [@ EXCEPT !.stage = "settled", !.returns = result]]

\* The seed is too small even after the one retry with more padding, any other error, or
\* a cache without a name: null, the turn goes uncached.
CreateFails(k) ==
    /\ creation[k].stage = "asked"
    /\ creation' = Settled(k, {})
    /\ UNCHANGED <<manager, made, service, print, turn>>

\* The cache exists.  It is stored unless its print was invalidated meanwhile; names
\* of earlier caches of the print are forgotten.
Stores_Always(k) == TRUE
Stores(k)        == generation[creation[k].print] = creation[k].start

Mapped_ClearsLast(k) == [n \in Names |-> printOf[n] \ {creation[k].print}]
Mapped_KeepsOld(k) == [printOf EXCEPT ![k] = {creation[k].print}]
Mapped(k) ==
    [n \in Names |-> IF n = k THEN {creation[k].print} ELSE printOf[n] \ {creation[k].print}]

Created(k) ==
    /\ creation[k].stage = "asked"
    /\ creation' = Settled(k, {k})
    /\ IF Stores(k)
       THEN caches' = [caches EXCEPT ![creation[k].print] = {k}] /\ printOf' = Mapped(k)
       ELSE UNCHANGED <<caches, printOf>>
    /\ UNCHANGED <<pending, generation, made, service, print, turn>>

\* The finally of getOrCreate: the print's pending creation is removed, whichever it is.
\* Then every turn that awaits this one goes on with what it returned, stored or not.
Resumed(k) ==
    [t \in Turns |-> IF turn[t].awaits = {k}
                     THEN [turn[t] EXCEPT !.stage = "call", !.handle = creation[k].returns, !.awaits = {}]
                     ELSE turn[t]]

Finally_IfCurrent(k) ==
    /\ creation[k].stage = "settled" /\ k \in pending[creation[k].print]
    /\ creation' = [creation EXCEPT ![k] = [@ EXCEPT !.stage = "done", !.returns = {}]]
    /\ pending' = [pending EXCEPT ![creation[k].print] = {}]
    /\ turn' = Resumed(k)
    /\ UNCHANGED <<caches, generation, printOf, made, service, print>>

Finally(k) ==
    /\ creation[k].stage = "settled"
    /\ creation' = [creation EXCEPT ![k] = [@ EXCEPT !.stage = "done", !.returns = {}]]
    /\ pending' = [pending EXCEPT ![creation[k].print] = {}]
    /\ turn' = Resumed(k)
    /\ UNCHANGED <<caches, generation, printOf, made, service, print>>

(***************************************************************************)
(* The model's call, cached or not.                                        *)
(***************************************************************************)
\* An answer of the network comes after what the event loop has ready: every creation
\* that has settled has had its finally.
Arrives(t) == AtTurn(t, "call") /\ \A k \in Names : creation[k].stage # "settled"

Ends(t, stage) ==
    /\ turn' = [turn EXCEPT ![t] = [IdleTurn EXCEPT !.stage = stage]]
    /\ UNCHANGED <<manager, made, creation, service, print>>

Hit(t) == turn[t].handle \cap lost = {}

Answered(t) ==
    /\ Arrives(t) /\ Hit(t)
    /\ Ends(t, "answered")

\* "CachedContent not found".
Missing(t) ==
    /\ Arrives(t) /\ ~Hit(t)
    /\ turn' = [turn EXCEPT ![t] =
          [@ EXCEPT !.stage = IF turn[t].recovery THEN "recoveryMissing" ELSE "missing",
                    !.missed = turn[t].missed \cup turn[t].handle]]
    /\ UNCHANGED <<manager, made, creation, service, print>>

\* Any other error of the call.  The supervisor retries without a cache when it was
\* the recreated cache's call.
CallFails(t) ==
    /\ Arrives(t)
    /\ IF t \in Supervisors /\ ~turn[t].first /\ turn[t].handle # {}
       THEN turn' = [turn EXCEPT ![t].handle = {}]
            /\ UNCHANGED <<manager, made, creation, service, print>>
       ELSE Ends(t, "failed")

\* invalidate(name): nothing when the name is not mapped.
Invalidated(t, fs, g) == [f \in Prints |-> IF f \in fs THEN {} ELSE g[f]]

\* The first miss: the cache is invalidated and made again before anything else runs.
Recover(t) ==
    /\ AtTurn(t, "missing") /\ turn[t].first
    /\ LET fs == UNION {printOf[n] : n \in turn[t].handle}
           g  == [f \in Prints |-> IF f \in fs THEN generation[f] + 1 ELSE generation[f]]
       IN  /\ generation' = g
           /\ GetOrCreate(t, Invalidated(t, fs, caches), Invalidated(t, fs, pending), g, FALSE)
    /\ UNCHANGED <<printOf, service, print>>

\* The second miss: the same call without a cache.
Uncached(t) ==
    /\ AtTurn(t, "missing") /\ ~turn[t].first
    /\ turn' = [turn EXCEPT ![t] = [@ EXCEPT !.stage = "call", !.handle = {}]]
    /\ UNCHANGED <<manager, made, creation, service, print>>

\* A specialist's blank answer that processResponse cannot save: the call again with
\* a recovery directive, and once more uncached when the cached one is blank too.
Blank(t) ==
    /\ Arrives(t) /\ t \notin Supervisors /\ Hit(t)
    /\ ~turn[t].recovery \/ turn[t].handle # {}
    /\ turn' = [turn EXCEPT ![t] =
          IF turn[t].recovery THEN [@ EXCEPT !.handle = {}] ELSE [@ EXCEPT !.recovery = TRUE]]
    /\ UNCHANGED <<manager, made, creation, service, print>>

\* No handler surrounds the recovery call: its miss ends the turn as an error.
RecoveryMissing(t) ==
    /\ AtTurn(t, "recoveryMissing")
    /\ Ends(t, "failed")

(***************************************************************************)
(* Time and the service.                                                   *)
(***************************************************************************)
\* The entry enters the skew before its expiry: the service still has it.
Ages(n) ==
    /\ \E f \in Prints : n \in caches[f]
    /\ n \notin aged /\ Cardinality(aged) < MaxAged
    /\ aged' = aged \cup {n}
    /\ UNCHANGED <<manager, made, creation, lost, print, turn>>

\* It expires, or is deleted while the client takes it for valid. A cache that nobody
\* can use any more is left out.
Dropped(n) ==
    /\ \/ \E f \in Prints : n \in caches[f]
       \/ \E t \in Turns : n \in turn[t].handle
    /\ n \notin lost /\ Cardinality(lost) < MaxLost
    /\ lost' = lost \cup {n}
    /\ UNCHANGED <<manager, made, creation, aged, print, turn>>

CreateStep(k) == CreateFails(k) \/ Created(k) \/ Finally(k)
TurnStep(t) ==
    \/ Resolve(t) \/ Answered(t) \/ Missing(t) \/ CallFails(t) \/ Recover(t)
    \/ Uncached(t) \/ Blank(t) \/ RecoveryMissing(t)

Next ==
    \/ \E k \in Names : CreateStep(k)
    \/ \E t \in Turns : TurnStep(t)
    \/ \E n \in Names : Ages(n) \/ Dropped(n)

\* The service answers every request, and the event loop runs what is ready.
Fairness ==
    /\ \A k \in Names : WF_vars(CreateStep(k))
    /\ \A t \in Turns : WF_vars(TurnStep(t))

Spec == Init /\ [][Next]_vars /\ Fairness

(***************************************************************************)
(* Properties.                                                             *)
(***************************************************************************)
CreationType == [print : Prints, start : Nat, returns : SUBSET Names,
                 stage : {"none", "asked", "settled", "done"}]
TurnType     == [stage : TurnStages, handle : SUBSET Names, awaits : SUBSET Names,
                 first : BOOLEAN, recovery : BOOLEAN, missed : SUBSET Names]

\* Every variable has its type; the creations asked for are the first ones, and a turn
\* waits only for one of them.
TypeOK ==
    /\ caches \in [Prints -> SUBSET Names] /\ pending \in [Prints -> SUBSET Names]
    /\ generation \in [Prints -> Nat]
    /\ printOf \in [Names -> SUBSET Prints]
    /\ made \in 0..MaxCreates
    /\ creation \in [Names -> CreationType]
    /\ aged \subseteq 1..made /\ lost \subseteq 1..made
    /\ print \in [Turns -> Prints]
    /\ turn \in [Turns -> TurnType]
    /\ \A k \in Names : creation[k].stage = "none" <=> k > made
    /\ \A t \in Turns :
          AtTurn(t, "await") <=> \E k \in 1..made : turn[t].awaits = {k} /\ creation[k].print = print[t]

\* A creation asked for before its print was invalidated is never stored afterwards:
\* an entry was made since the last miss, whatever was in flight at that moment.
StoredIsCurrent ==
    \A f \in Prints : \A n \in caches[f] :
        creation[n].print = f /\ creation[n].start = generation[f]

\* A turn that was told a cache is missing never calls the model with that cache again:
\* neither the entry nor a creation it joins after the invalidation hands it back,
\* whoever else misses, invalidates and creates for the same print meanwhile. The next
\* call of the turn has another cache or none.
MissedIsNotHandedBack ==
    \A t \in Turns : AtTurn(t, "call") => turn[t].handle \cap turn[t].missed = {}

\* An entry the client takes for valid is dropped only by a turn that was told it is
\* missing; a miss of an older cache of the same print leaves it alone.
DroppedByItsMiss ==
    [][\A f \in Prints : \A n \in caches[f] \ aged :
          caches'[f] = {} => \E t \in Turns : AtTurn(t, "missing") /\ turn[t].handle = {n}]_vars

\* No turn waits for ever, neither for a creation that was invalidated nor for one that
\* a later creation replaced in the map.
EveryTurnEnds == <>(\A t \in Turns : turn[t].stage \in {"answered", "failed"})

\* gemini-context-cache.test.ts: "dedupes concurrent getOrCreate calls": between two
\* invalidations of a print nobody asks for it while a creation is in flight.
CreatedOnce ==
    \A j, k \in Names :
        /\ InFlight(j) /\ InFlight(k)
        /\ creation[j].print = creation[k].print /\ creation[j].start = creation[k].start
        => j = k
=============================================================================
