-------------------------- MODULE ContextCacheProofs --------------------------
(***************************************************************************)
(* The safety properties of ContextCache, for any number of turns, prints, *)
(* creations and losses.                                                   *)
(*                                                                         *)
(* The argument: a print has at most one entry, and the only name that is  *)
(* mapped to a print with an entry is that entry's (EntryInv).  So a miss  *)
(* of another name drops nothing, and an entry is dropped by its own miss. *)
(* An invalidation raises the generation and empties the entry in one      *)
(* step, so an entry has the generation of now (StoredIsCurrent).          *)
(* A cache a turn missed was made before, and the invalidation that follows*)
(* removes its entry: neither an entry nor a creation that is joined later *)
(* gives it to the turn again (BackInv).                                   *)
(***************************************************************************)
EXTENDS ContextCache, TLAPS

\* At most one of a kind, and of a creation that has been asked for.
Single(S) == S \subseteq 1..made /\ \A x, y \in S : x = y
Singles ==
    /\ \A f \in Prints : Single(caches[f]) /\ Single(pending[f])
    /\ \A t \in Turns : Single(turn[t].handle) /\ Single(turn[t].awaits)
    /\ \A k \in Names : Single(creation[k].returns)

\* Who joins a print's creation gets a cache of that print; who does not wait awaits nothing.
JoinInv ==
    /\ \A f \in Prints : \A k \in pending[f] : creation[k].print = f
    /\ \A t \in Turns :
          /\ AtTurn(t, "await") <=> turn[t].awaits # {}
          /\ \A k \in turn[t].awaits : creation[k].print = print[t]

\* TypeOK but for its last clause, which JoinInv says better.
Typed ==
    /\ caches \in [Prints -> SUBSET Names] /\ pending \in [Prints -> SUBSET Names]
    /\ generation \in [Prints -> Nat]
    /\ printOf \in [Names -> SUBSET Prints]
    /\ made \in 0..MaxCreates
    /\ creation \in [Names -> CreationType]
    /\ aged \subseteq 1..made /\ lost \subseteq 1..made
    /\ print \in [Turns -> Prints]
    /\ turn \in [Turns -> TurnType]
    /\ \A k \in Names : creation[k].stage = "none" <=> k > made

TypeInv == Typed /\ Singles /\ JoinInv

\* The name of an entry is the only one that is mapped to its print.
EntryInv ==
    \A f \in Prints, n \in Names : caches[f] # {} /\ f \in printOf[n] => caches[f] = {n}

CacheInv == TypeInv /\ EntryInv /\ StoredIsCurrent

USE CacheAssumption DEF Names, AtTurn

(***************************************************************************)
(* Steps that move one turn.                                               *)
(***************************************************************************)
LEMMA NoCreationTyped == NoCreation \in CreationType /\ NoCreation.stage = "none" /\ NoCreation.returns = {}
  <1>1. (CHOOSE f \in Prints : TRUE) \in Prints
    OBVIOUS
  <1> QED BY <1>1 DEF NoCreation, CreationType

LEMMA IdleTurnTyped ==
    \A s \in TurnStages :
        LET r == [IdleTurn EXCEPT !.stage = s] IN
        /\ r \in TurnType /\ r.stage = s /\ r.handle = {} /\ r.awaits = {}
  BY DEF IdleTurn, TurnType, TurnStages

LEMMA CacheInit == Init => CacheInv
  <1> SUFFICES ASSUME Init PROVE CacheInv
    OBVIOUS
  <1>1. IdleTurn \in TurnType /\ IdleTurn.stage = "resolve" /\ IdleTurn.handle = {} /\ IdleTurn.awaits = {}
    BY DEF IdleTurn, TurnType, TurnStages
  <1>2. \A t \in Turns : turn[t] = IdleTurn
    BY DEF Init
  <1>3. \A k \in Names : creation[k] = NoCreation
    BY DEF Init
  <1>4. Typed
    BY <1>1, <1>2, <1>3, NoCreationTyped DEF Init, Typed
  <1>5. Singles /\ JoinInv
    BY <1>1, <1>2, <1>3, NoCreationTyped DEF Init, Singles, Single, JoinInv
  <1>6. EntryInv /\ StoredIsCurrent
    BY DEF Init, EntryInv, StoredIsCurrent
  <1> QED BY <1>4, <1>5, <1>6 DEF CacheInv, TypeInv

\* A step that moves one turn, which keeps its cache or goes without, and nothing else.
LEMMA OneTurn ==
    ASSUME CacheInv, NEW t \in Turns, NEW r \in TurnType,
           turn' = [turn EXCEPT ![t] = r],
           UNCHANGED <<manager, made, creation, service, print>>,
           r.stage # "await", r.awaits = {}, r.handle \subseteq turn[t].handle
    PROVE  CacheInv'
  <1>1. Typed /\ Singles /\ JoinInv /\ EntryInv /\ StoredIsCurrent
    BY DEF CacheInv, TypeInv
  <1>2. UNCHANGED <<caches, pending, generation, printOf, made, creation, aged, lost, print>>
    BY DEF manager, service
  <1>3. \A u \in Turns : turn'[u] = IF u = t THEN r ELSE turn[u]
    BY <1>1 DEF Typed
  <1>4. turn' \in [Turns -> TurnType]
    BY <1>1 DEF Typed
  <1>5. Typed'
    BY <1>1, <1>2, <1>3, <1>4 DEF Typed
  <1>6. Singles' /\ JoinInv'
    BY <1>1, <1>2, <1>3 DEF Singles, Single, JoinInv
  <1>7. EntryInv' /\ StoredIsCurrent'
    BY <1>1, <1>2 DEF EntryInv, StoredIsCurrent
  <1> QED BY <1>5, <1>6, <1>7 DEF CacheInv, TypeInv

LEMMA TurnMoves ==
    ASSUME CacheInv, NEW t \in Turns,
           Answered(t) \/ Missing(t) \/ CallFails(t) \/ Uncached(t) \/ Blank(t) \/ RecoveryMissing(t)
    PROVE  CacheInv'
  <1>1. /\ turn[t] \in TurnType
        /\ turn[t].stage # "await" => turn[t].awaits = {}
    BY DEF CacheInv, TypeInv, Typed, JoinInv
  <1>2. CASE Answered(t)
    BY <1>1, <1>2, IdleTurnTyped, OneTurn DEF Answered, Ends, TurnStages
  <1>3. CASE Missing(t)
    <2> DEFINE r == [turn[t] EXCEPT !.stage = IF turn[t].recovery THEN "recoveryMissing" ELSE "missing",
                                    !.missed = turn[t].missed \cup turn[t].handle]
    <2>1. r \in TurnType /\ r.stage # "await" /\ r.awaits = {} /\ r.handle = turn[t].handle
      BY <1>1, <1>3 DEF Missing, Arrives, TurnType, TurnStages
    <2>2. turn' = [turn EXCEPT ![t] = r]
      BY <1>3 DEF Missing, CacheInv, TypeInv, Typed
    <2> QED BY <1>3, <2>1, <2>2, OneTurn DEF Missing
  <1>4. CASE CallFails(t)
    <2>1. CASE turn' = [turn EXCEPT ![t].handle = {}] /\ UNCHANGED <<manager, made, creation, service, print>>
      <3>1. turn' = [turn EXCEPT ![t] = [turn[t] EXCEPT !.handle = {}]]
        BY <2>1 DEF CacheInv, TypeInv, Typed
      <3>2. [turn[t] EXCEPT !.handle = {}] \in TurnType
        BY <1>1 DEF TurnType
      <3> QED BY <1>1, <1>4, <2>1, <3>1, <3>2, OneTurn DEF CallFails, Arrives, TurnType
    <2>2. CASE Ends(t, "failed")
      BY <2>2, IdleTurnTyped, OneTurn DEF Ends, TurnStages
    <2> QED BY <1>4, <2>1, <2>2 DEF CallFails
  <1>5. CASE Uncached(t)
    <2>1. [turn[t] EXCEPT !.stage = "call", !.handle = {}] \in TurnType
      BY <1>1 DEF TurnType, TurnStages
    <2> QED BY <1>1, <1>5, <2>1, OneTurn DEF Uncached, TurnType
  <1>6. CASE Blank(t)
    <2> DEFINE r == IF turn[t].recovery THEN [turn[t] EXCEPT !.handle = {}]
                                        ELSE [turn[t] EXCEPT !.recovery = TRUE]
    <2>1. r \in TurnType /\ r.stage = "call" /\ r.awaits = {} /\ r.handle \subseteq turn[t].handle
      BY <1>1, <1>6 DEF Blank, Arrives, TurnType
    <2>3. turn' = [turn EXCEPT ![t] = r]
      BY <1>6 DEF Blank, CacheInv, TypeInv, Typed
    <2> QED BY <1>6, <2>1, <2>3, OneTurn DEF Blank
  <1>7. CASE RecoveryMissing(t)
    BY <1>7, IdleTurnTyped, OneTurn DEF RecoveryMissing, Ends, TurnStages
  <1> QED BY <1>2, <1>3, <1>4, <1>5, <1>6, <1>7

(***************************************************************************)
(* Creations, time and the service.                                        *)
(***************************************************************************)
LEMMA CreationMoves ==
    ASSUME CacheInv, NEW k \in Names, CreateStep(k)
    PROVE  CacheInv'
  <1>1. Typed /\ Singles /\ JoinInv /\ EntryInv /\ StoredIsCurrent
    BY DEF CacheInv, TypeInv
  <1>2. creation[k] \in CreationType /\ creation[k].stage \in {"asked", "settled"} /\ k \in 1..made
    BY <1>1 DEF CreateStep, CreateFails, Created, Finally, Typed
  <1>3. UNCHANGED <<made, generation, print, aged, lost>>
    BY DEF CreateStep, CreateFails, Created, Finally, manager, service
  <1>4. /\ creation' \in [Names -> CreationType]
        /\ \A n \in Names : /\ creation'[n].print = creation[n].print /\ creation'[n].start = creation[n].start
                            /\ creation'[n].stage = "none" <=> creation[n].stage = "none"
                            /\ creation'[n].returns \in {{}, {k}, creation[n].returns}
    <2>1. ASSUME NEW s \in {"settled", "done"}, NEW R \in {{}, {k}},
                 creation' = [creation EXCEPT ![k] = [@ EXCEPT !.stage = s, !.returns = R]]
          PROVE  <1>4!1 /\ <1>4!2
      <3>1. creation' = [creation EXCEPT ![k] = [creation[k] EXCEPT !.stage = s, !.returns = R]]
        BY <1>1, <2>1 DEF Typed
      <3>2. [creation[k] EXCEPT !.stage = s, !.returns = R] \in CreationType
        BY <1>2 DEF CreationType
      <3> QED BY <1>1, <1>2, <3>1, <3>2 DEF Typed, CreationType
    <2> QED BY <2>1 DEF CreateStep, CreateFails, Created, Finally, Settled
  <1>a. /\ \A f \in Prints : pending[f] \subseteq Names
        /\ \A t \in Turns : turn[t].awaits \subseteq Names
    BY <1>1 DEF Typed, TurnType
  <1>5. CASE CreateFails(k) \/ Created(k)
    <2>1. UNCHANGED <<pending, turn>>
      BY <1>5 DEF CreateFails, Created, manager
    <2>2. CASE UNCHANGED <<caches, printOf>>
      <3>1. Typed'
        BY <1>1, <1>3, <1>4, <2>1, <2>2 DEF Typed
      <3>2. Singles'
        BY <1>1, <1>2, <1>3, <1>4, <2>1, <2>2 DEF Singles, Single
      <3>5. JoinInv'
        BY <1>1, <1>3, <1>4, <1>a, <2>1 DEF JoinInv
      <3>3. EntryInv' /\ StoredIsCurrent'
        BY <1>1, <1>3, <1>4, <2>1, <2>2 DEF EntryInv, StoredIsCurrent, Typed
      <3> QED BY <3>1, <3>2, <3>3, <3>5 DEF CacheInv, TypeInv
    <2>3. CASE /\ Stores(k)
               /\ caches' = [caches EXCEPT ![creation[k].print] = {k}] /\ printOf' = Mapped(k)
      <3>1. creation[k].print \in Prints
        BY <1>2 DEF CreationType
      <3>a. \A f \in Prints : caches'[f] = IF f = creation[k].print THEN {k} ELSE caches[f]
        BY <1>1, <2>3 DEF Typed
      <3>b. caches' \in [Prints -> SUBSET Names] /\ printOf' \in [Names -> SUBSET Prints]
        BY <1>1, <2>3, <3>1 DEF Typed, Mapped
      <3>2. Typed'
        BY <1>1, <1>3, <1>4, <2>1, <3>b DEF Typed
      <3>3. Singles'
        BY <1>1, <1>2, <1>3, <1>4, <2>1, <3>a DEF Singles, Single
      <3>6. JoinInv'
        BY <1>1, <1>3, <1>4, <1>a, <2>1 DEF JoinInv
      <3>c. \A n \in Names : printOf'[n] = IF n = k THEN {creation[k].print} ELSE printOf[n] \ {creation[k].print}
        BY <2>3 DEF Mapped
      <3>4. EntryInv'
        <4> SUFFICES ASSUME NEW f \in Prints, NEW n \in Names, caches'[f] # {}, f \in printOf'[n]
                     PROVE  caches'[f] = {n}
          BY DEF EntryInv
        <4>1. CASE f = creation[k].print
          BY <3>a, <3>c, <4>1
        <4>2. CASE f # creation[k].print
          <5>1. n # k /\ f \in printOf[n]
            BY <3>c, <4>2
          <5>2. caches'[f] = caches[f] /\ caches[f] # {}
            BY <3>a, <4>2
          <5> QED BY <1>1, <5>1, <5>2 DEF EntryInv
        <4> QED BY <4>1, <4>2
      <3>5. StoredIsCurrent'
        <4> SUFFICES ASSUME NEW f \in Prints, NEW n \in caches'[f]
                     PROVE  creation'[n].print = f /\ creation'[n].start = generation'[f]
          BY DEF StoredIsCurrent
        <4>1. CASE f = creation[k].print
          BY <1>3, <1>4, <2>3, <3>a, <4>1 DEF Stores
        <4>2. CASE f # creation[k].print
          <5>1. n \in caches[f] /\ n \in Names
            BY <1>1, <3>a, <4>2 DEF Typed
          <5>2. creation[n].print = f /\ creation[n].start = generation[f]
            BY <1>1, <5>1 DEF StoredIsCurrent
          <5> QED BY <1>3, <1>4, <5>1, <5>2
        <4> QED BY <4>1, <4>2
      <3> QED BY <3>2, <3>3, <3>4, <3>5, <3>6 DEF CacheInv, TypeInv
    <2> QED BY <1>5, <2>2, <2>3 DEF CreateFails, Created, manager
  <1>6. CASE Finally(k)
    <2>1. /\ UNCHANGED <<caches, printOf>> /\ turn' = Resumed(k)
          /\ pending' = [pending EXCEPT ![creation[k].print] = {}]
      BY <1>6 DEF Finally
    <2>2. \A t \in Turns :
             /\ turn'[t] \in TurnType
             /\ \/ turn'[t] = turn[t] /\ turn[t].awaits # {k}
                \/ turn'[t].stage = "call" /\ turn'[t].handle = creation[k].returns /\ turn'[t].awaits = {}
      <3> SUFFICES ASSUME NEW t \in Turns PROVE <2>2!(t)
        OBVIOUS
      <3>1. turn[t] \in TurnType /\ creation[k].returns \in SUBSET Names
        BY <1>1, <1>2 DEF Typed, CreationType
      <3>2. CASE turn[t].awaits = {k}
        <4>1. turn'[t] = [turn[t] EXCEPT !.stage = "call", !.handle = creation[k].returns, !.awaits = {}]
          BY <2>1, <3>2 DEF Resumed
        <4> QED BY <3>1, <4>1 DEF TurnType, TurnStages
      <3>3. CASE turn[t].awaits # {k}
        BY <2>1, <3>1, <3>3 DEF Resumed
      <3> QED BY <3>2, <3>3
    <2>3. turn' \in [Turns -> TurnType]
      BY <2>1, <2>2 DEF Resumed
    <2>a. /\ pending' \in [Prints -> SUBSET Names]
          /\ \A f \in Prints : pending'[f] \in {{}, pending[f]}
      BY <1>1, <2>1 DEF Typed
    <2>b. \A n \in 1..made : n \in Names /\ creation'[n].print = creation[n].print
      BY <1>1, <1>4 DEF Typed
    <2>4. Typed'
      BY <1>1, <1>3, <1>4, <2>1, <2>3, <2>a DEF Typed
    <2>d. JoinInv'
      BY <1>1, <1>3, <1>4, <1>a, <2>2, <2>a DEF JoinInv
    <2>5. Singles'
      BY <1>1, <1>2, <1>3, <1>4, <2>1, <2>2, <2>a DEF Singles, Single
    <2>6. EntryInv' /\ StoredIsCurrent'
      BY <1>1, <1>3, <1>4, <2>1 DEF EntryInv, StoredIsCurrent, Typed
    <2> QED BY <2>4, <2>5, <2>6, <2>d DEF CacheInv, TypeInv
  <1> QED BY <1>5, <1>6 DEF CreateStep

LEMMA ServiceMoves ==
    ASSUME CacheInv, NEW n \in Names, Ages(n) \/ Dropped(n)
    PROVE  CacheInv'
  <1>1. Typed /\ Singles /\ JoinInv /\ EntryInv /\ StoredIsCurrent
    BY DEF CacheInv, TypeInv
  <1>2. /\ UNCHANGED <<caches, pending, generation, printOf, made, creation, print, turn>>
        /\ aged' \in {aged, aged \cup {n}} /\ lost' \in {lost, lost \cup {n}}
    BY DEF Ages, Dropped, manager
  <1>3. n \in 1..made
    BY <1>1 DEF Ages, Dropped, Singles, Single
  <1>4. Typed'
    BY <1>1, <1>2, <1>3 DEF Typed
  <1>5. Singles' /\ JoinInv' /\ EntryInv' /\ StoredIsCurrent'
    BY <1>1, <1>2 DEF Singles, Single, JoinInv, EntryInv, StoredIsCurrent
  <1> QED BY <1>4, <1>5 DEF CacheInv, TypeInv

(***************************************************************************)
(* getOrCreate, after an invalidation or without one.                      *)
(***************************************************************************)
\* fs are the prints that are invalidated first.
LEMMA GetMoves ==
    ASSUME CacheInv, NEW t \in Turns, NEW fs \in SUBSET Prints, NEW first \in BOOLEAN,
           turn[t].stage \in {"resolve", "missing"},
           generation' = [f \in Prints |-> IF f \in fs THEN generation[f] + 1 ELSE generation[f]],
           GetOrCreate(t, Invalidated(t, fs, caches), Invalidated(t, fs, pending), generation', first),
           UNCHANGED <<printOf, service, print>>
    PROVE  CacheInv'
  <1> DEFINE c == Invalidated(t, fs, caches)
             p == Invalidated(t, fs, pending)
             f0 == print[t]
             going == [turn[t] EXCEPT !.first = first]
  <1>1. Typed /\ Singles /\ JoinInv /\ EntryInv /\ StoredIsCurrent
    BY DEF CacheInv, TypeInv
  <1>a. /\ turn[t] \in TurnType /\ turn[t].awaits = {} /\ f0 \in Prints
        /\ made \in Nat /\ made <= MaxCreates
    <2>1. turn[t].awaits = {}
      BY <1>1 DEF JoinInv
    <2>2. made \in Nat /\ made <= MaxCreates
      BY <1>1 DEF Typed
    <2> QED BY <1>1, <2>1, <2>2 DEF Typed
  <1>b. /\ going \in TurnType /\ going.awaits = turn[t].awaits /\ going.handle = turn[t].handle
        /\ going.stage = turn[t].stage
    BY <1>a DEF TurnType
  <1>2. /\ turn[t] \in TurnType /\ turn[t].awaits = {} /\ f0 \in Prints
        /\ made \in Nat /\ made <= MaxCreates
        /\ going \in TurnType /\ going.awaits = {} /\ going.handle = turn[t].handle
        /\ going.stage = turn[t].stage
    BY <1>a, <1>b
  <1>3. UNCHANGED <<printOf, aged, lost, print>>
    BY DEF service
  <1>4. /\ generation' \in [Prints -> Nat] /\ \A f \in Prints \ fs : generation'[f] = generation[f]
        /\ c \in [Prints -> SUBSET Names] /\ p \in [Prints -> SUBSET Names]
        /\ \A f \in Prints : c[f] \in {{}, caches[f]} /\ p[f] \in {{}, pending[f]}
        /\ \A f \in fs : c[f] = {}
    BY <1>1 DEF Invalidated, Typed
  <1>5. ASSUME caches' \in [Prints -> SUBSET Names], \A f \in Prints : caches'[f] \in {{}, c[f]},
               \A n \in 1..made : creation'[n].print = creation[n].print /\ creation'[n].start = creation[n].start
        PROVE  EntryInv' /\ StoredIsCurrent'
    <2>1. EntryInv'
      BY <1>1, <1>3, <1>4, <1>5 DEF EntryInv
    <2>2. StoredIsCurrent'
      <3> SUFFICES ASSUME NEW f \in Prints, NEW n \in caches'[f]
                   PROVE  creation'[n].print = f /\ creation'[n].start = generation'[f]
        BY DEF StoredIsCurrent
      <3>1. f \notin fs /\ n \in caches[f]
        BY <1>4, <1>5
      <3>2. n \in 1..made /\ creation[n].print = f /\ creation[n].start = generation[f]
        BY <1>1, <3>1 DEF StoredIsCurrent, Singles, Single
      <3> QED BY <1>4, <1>5, <3>1, <3>2
    <2> QED BY <2>1, <2>2
  <1>6. ASSUME NEW r \in TurnType, turn' = [turn EXCEPT ![t] = r]
        PROVE  turn' \in [Turns -> TurnType] /\ \A u \in Turns : turn'[u] = IF u = t THEN r ELSE turn[u]
    BY <1>1, <1>6 DEF Typed
  <1>7. CASE /\ ~(c[f0] \subseteq aged)
             /\ turn' = [turn EXCEPT ![t] = [going EXCEPT !.stage = "call", !.handle = c[f0]]]
             /\ caches' = c /\ pending' = p
             /\ UNCHANGED <<made, creation>>
    <2> DEFINE r == [going EXCEPT !.stage = "call", !.handle = c[f0]]
    <2>1. /\ r \in TurnType /\ r.stage = "call" /\ r.handle = c[f0] /\ r.awaits = {}
      BY <1>2, <1>4 DEF TurnType, TurnStages
    <2>2. turn' = [turn EXCEPT ![t] = r]
      BY <1>7
    <2> HIDE DEF r, c, p, going, f0
    <2>3. turn' \in [Turns -> TurnType] /\ \A u \in Turns : turn'[u] = IF u = t THEN r ELSE turn[u]
      BY <1>6, <2>1, <2>2
    <2>4. Typed'
      BY <1>1, <1>2, <1>3, <1>4, <1>7, <2>1, <2>3 DEF Typed
    <2>5. Singles' /\ JoinInv'
      BY <1>1, <1>2, <1>4, <1>7, <2>1, <2>3 DEF Singles, Single, JoinInv
    <2> QED BY <1>4, <1>5, <1>7, <2>3, <2>4, <2>5 DEF CacheInv, TypeInv
  <1>8. CASE /\ p[f0] # {}
             /\ turn' = [turn EXCEPT ![t] = [going EXCEPT !.stage = "await", !.awaits = p[f0]]]
             /\ caches' = [c EXCEPT ![f0] = {}] /\ pending' = p
             /\ UNCHANGED <<made, creation>>
    <2> DEFINE r == [going EXCEPT !.stage = "await", !.awaits = p[f0]]
    <2>1. /\ r \in TurnType /\ r.stage = "await" /\ r.handle = turn[t].handle /\ r.awaits = p[f0]
      BY <1>2, <1>4 DEF TurnType, TurnStages
    <2>2. turn' = [turn EXCEPT ![t] = r]
      BY <1>8
    <2> HIDE DEF r, c, p, going
    <2>3. turn' \in [Turns -> TurnType] /\ \A u \in Turns : turn'[u] = IF u = t THEN r ELSE turn[u]
      BY <1>6, <2>1, <2>2
    <2>5. caches' \in [Prints -> SUBSET Names] /\ \A f \in Prints : caches'[f] \in {{}, c[f]}
      BY <1>4, <1>8
    <2>6. Typed'
      BY <1>1, <1>2, <1>3, <1>4, <1>8, <2>1, <2>3, <2>5 DEF Typed
    <2>7. Singles' /\ JoinInv'
      BY <1>1, <1>2, <1>4, <1>8, <2>1, <2>3, <2>5 DEF Singles, Single, JoinInv
    <2> QED BY <1>4, <1>5, <1>8, <2>3, <2>5, <2>6, <2>7 DEF CacheInv, TypeInv
  <1>9. CASE /\ made < MaxCreates /\ made' = made + 1
             /\ creation' = [creation EXCEPT ![made + 1] =
                   [print |-> f0, start |-> generation'[f0], stage |-> "asked", returns |-> {}]]
             /\ turn' = [turn EXCEPT ![t] = [going EXCEPT !.stage = "await", !.awaits = {made + 1}]]
             /\ caches' = [c EXCEPT ![f0] = {}] /\ pending' = [p EXCEPT ![f0] = {made + 1}]
    <2> DEFINE r == [going EXCEPT !.stage = "await", !.awaits = {made + 1}]
               new == [print |-> f0, start |-> generation'[f0], stage |-> "asked", returns |-> {}]
    <2>0. made + 1 \in Names /\ made + 1 \in 1..made' /\ made + 1 \notin 1..made /\ made' \in 0..MaxCreates
          /\ \A n \in Names : n > made' <=> n > made /\ n # made + 1
      BY <1>2, <1>9
    <2>1. /\ r \in TurnType /\ r.stage = "await" /\ r.handle = turn[t].handle /\ r.awaits = {made + 1}
      BY <1>2, <2>0 DEF TurnType, TurnStages
    <2>2. turn' = [turn EXCEPT ![t] = r]
      BY <1>9
    <2>3. new \in CreationType /\ new.print = f0 /\ new.stage = "asked" /\ new.returns = {}
      BY <1>2, <1>4 DEF CreationType
    <2>4. creation' = [creation EXCEPT ![made + 1] = new]
      BY <1>9
    <2> HIDE DEF r, c, p, going, new
    <2>5. turn' \in [Turns -> TurnType] /\ \A u \in Turns : turn'[u] = IF u = t THEN r ELSE turn[u]
      BY <1>6, <2>1, <2>2
    <2>6. /\ creation' \in [Names -> CreationType]
          /\ \A n \in Names : creation'[n] = IF n = made + 1 THEN new ELSE creation[n]
      BY <1>1, <2>0, <2>3, <2>4 DEF Typed
    <2>7. /\ caches' \in [Prints -> SUBSET Names] /\ \A f \in Prints : caches'[f] \in {{}, c[f]}
          /\ pending' \in [Prints -> SUBSET Names]
          /\ \A f \in Prints : pending'[f] = IF f = f0 THEN {made + 1} ELSE p[f]
      BY <1>2, <1>4, <1>9, <2>0
    <2>8. \A n \in 1..made : n \in 1..made' /\ n \in Names /\ creation'[n] = creation[n]
      BY <1>2, <1>9, <2>0, <2>6
    <2>9. Typed'
      <3>1. \A n \in Names : creation'[n].stage = "none" <=> n > made'
        BY <1>1, <2>0, <2>3, <2>6 DEF Typed
      <3>4. aged \subseteq 1..made' /\ lost \subseteq 1..made'
        BY <1>1, <2>8 DEF Typed
      <3> QED BY <1>1, <1>3, <1>4, <2>0, <2>5, <2>6, <2>7, <3>1, <3>4 DEF Typed
    <2>10. Singles'
      <3>1. \A f \in Prints : Single(caches[f]) /\ Single(pending[f])
        BY <1>1 DEF Singles
      <3>2. \A f \in Prints : Single(caches[f])' /\ Single(pending[f])'
        BY <1>4, <2>0, <2>7, <2>8, <3>1 DEF Single
      <3>3. \A u \in Turns : Single(turn[u].handle)' /\ Single(turn[u].awaits)'
        BY <1>1, <2>0, <2>1, <2>5, <2>8 DEF Singles, Single
      <3>4. \A n \in Names : Single(creation[n].returns)'
        BY <1>1, <2>3, <2>6, <2>8 DEF Singles, Single
      <3> QED BY <3>2, <3>3, <3>4 DEF Singles
    <2>11. JoinInv'
      <3>1. \A f \in Prints : \A n \in pending'[f] : creation'[n].print = f
        <4> SUFFICES ASSUME NEW f \in Prints, NEW n \in pending'[f] PROVE creation'[n].print = f
          OBVIOUS
        <4>1. CASE f = f0
          BY <2>0, <2>3, <2>6, <2>7, <4>1
        <4>2. CASE f # f0
          <5>1. n \in pending[f]
            BY <1>4, <2>7, <4>2
          <5>2. n \in 1..made /\ creation[n].print = f
            BY <1>1, <5>1 DEF JoinInv, Singles, Single
          <5> QED BY <2>8, <5>2
        <4> QED BY <4>1, <4>2
      <3>2. \A u \in Turns : turn'[u].stage = "await" <=> turn'[u].awaits # {}
        BY <1>1, <2>1, <2>5 DEF JoinInv
      <3>3. \A u \in Turns : \A n \in turn'[u].awaits : creation'[n].print = print[u]
        <4> SUFFICES ASSUME NEW u \in Turns, NEW n \in turn'[u].awaits PROVE creation'[n].print = print[u]
          OBVIOUS
        <4>1. CASE u = t
          BY <2>0, <2>1, <2>3, <2>5, <2>6, <4>1 DEF f0
        <4>2. CASE u # t
          <5>1. n \in turn[u].awaits
            BY <2>5, <4>2
          <5>2. n \in 1..made /\ creation[n].print = print[u]
            BY <1>1, <5>1 DEF JoinInv, Singles, Single
          <5> QED BY <2>8, <5>2
        <4> QED BY <4>1, <4>2
      <3> QED BY <1>3, <3>1, <3>2, <3>3 DEF JoinInv
    <2> QED BY <1>4, <1>5, <2>5, <2>7, <2>8, <2>9, <2>10, <2>11 DEF CacheInv, TypeInv
  <1> QED BY <1>7, <1>8, <1>9 DEF GetOrCreate, Joined

(***************************************************************************)
(* The invariant.                                                          *)
(***************************************************************************)
LEMMA GetSteps ==
    ASSUME CacheInv, NEW t \in Turns, Resolve(t) \/ Recover(t)
    PROVE  CacheInv'
  <1>1. CASE Resolve(t)
    <2>1. /\ Invalidated(t, {}, caches) = caches /\ Invalidated(t, {}, pending) = pending
          /\ generation = [f \in Prints |-> IF f \in {} THEN generation[f] + 1 ELSE generation[f]]
      BY DEF CacheInv, TypeInv, Typed, Invalidated
    <2>2. /\ turn[t].stage = "resolve" /\ generation' = generation /\ UNCHANGED <<printOf, service, print>>
          /\ GetOrCreate(t, caches, pending, generation, TRUE)
      BY <1>1 DEF Resolve
    <2>3. GetOrCreate(t, Invalidated(t, {}, caches), Invalidated(t, {}, pending), generation', TRUE)
      BY <2>1, <2>2
    <2>4. {} \in SUBSET Prints /\ TRUE \in BOOLEAN
      OBVIOUS
    <2>5. generation' = [f \in Prints |-> IF f \in {} THEN generation[f] + 1 ELSE generation[f]]
      BY <2>1, <2>2
    <2> QED BY <2>2, <2>3, <2>4, <2>5, GetMoves
  <1>2. CASE Recover(t)
    <2> DEFINE fs == UNION {printOf[n] : n \in turn[t].handle}
    <2>1. fs \in SUBSET Prints
      BY DEF CacheInv, TypeInv, Typed, TurnType
    <2> QED BY <1>2, <2>1, GetMoves DEF Recover
  <1> QED BY <1>1, <1>2

LEMMA CacheNext == CacheInv /\ [Next]_vars => CacheInv'
  <1> SUFFICES ASSUME CacheInv, [Next]_vars PROVE CacheInv'
    OBVIOUS
  <1>1. CASE UNCHANGED vars
    <2>1. Typed'
      BY <1>1 DEF vars, manager, service, CacheInv, TypeInv, Typed
    <2>2. Singles' /\ JoinInv'
      BY <1>1 DEF vars, manager, service, CacheInv, TypeInv, Singles, Single, JoinInv
    <2>3. EntryInv' /\ StoredIsCurrent'
      BY <1>1 DEF vars, manager, service, CacheInv, EntryInv, StoredIsCurrent
    <2> QED BY <2>1, <2>2, <2>3 DEF CacheInv, TypeInv
  <1>2. ASSUME NEW k \in Names, CreateStep(k) PROVE CacheInv'
    BY <1>2, CreationMoves
  <1>3. ASSUME NEW t \in Turns, TurnStep(t) PROVE CacheInv'
    BY <1>3, TurnMoves, GetSteps DEF TurnStep
  <1>4. ASSUME NEW n \in Names, Ages(n) \/ Dropped(n) PROVE CacheInv'
    BY <1>4, ServiceMoves
  <1> QED BY <1>1, <1>2, <1>3, <1>4 DEF Next

\* The invariant holds in every reachable state.
THEOREM CacheInvHolds == Spec => []CacheInv
  <1> QED BY CacheInit, CacheNext, PTL DEF Spec

\* TypeOK: every variable has its type, and a turn waits only for a creation of its print.
THEOREM CacheTypeCorrect == Spec => []TypeOK
  <1>1. CacheInv => TypeOK
    <2> SUFFICES ASSUME CacheInv PROVE TypeOK
      OBVIOUS
    <2>1. Typed /\ Singles /\ JoinInv
      BY DEF CacheInv, TypeInv
    <2>2. ASSUME NEW t \in Turns
          PROVE  AtTurn(t, "await") <=> \E k \in 1..made : turn[t].awaits = {k} /\ creation[k].print = print[t]
      <3>1. CASE turn[t].awaits = {}
        BY <2>1, <3>1 DEF JoinInv
      <3>2. CASE turn[t].awaits # {}
        <4>1. PICK k \in turn[t].awaits : TRUE
          BY <3>2
        <4>2. k \in 1..made /\ turn[t].awaits = {k} /\ creation[k].print = print[t]
          BY <2>1, <4>1 DEF Singles, Single, JoinInv
        <4> QED BY <2>1, <3>2, <4>2 DEF JoinInv
      <3> QED BY <3>1, <3>2
    <2> QED BY <2>1, <2>2 DEF Typed, TypeOK
  <1> QED BY CacheInvHolds, <1>1, PTL

\* StoredIsCurrent: whatever was in flight when a print was invalidated is never stored.
THEOREM StoredEntriesAreCurrent == Spec => []StoredIsCurrent
  <1>1. CacheInv => StoredIsCurrent
    BY DEF CacheInv
  <1> QED BY CacheInvHolds, <1>1, PTL

(***************************************************************************)
(* No turn is handed back a cache it was told is missing.                  *)
(*                                                                         *)
(* A missed cache was made long ago: its creation is done, so no creation  *)
(* that is joined after the miss returns it.  An entry is mapped to its    *)
(* print, so the invalidation that follows the miss removes it if it is    *)
(* still stored (Named).                                                   *)
(***************************************************************************)
Made(S) == \A n \in S : creation[n].stage \in {"settled", "done"}

\* Entries and handles are caches the service made; an entry's name is mapped to its
\* print; a creation returns its own cache or none.
Named ==
    /\ \A f \in Prints : Made(caches[f]) /\ \A n \in caches[f] : f \in printOf[n]
    /\ \A t \in Turns : Made(turn[t].handle)
    /\ \A k \in Names : creation[k].returns \subseteq {k}

\* What a turn knows of the caches it missed: before its first recovery they are those
\* of the call that just missed, and no later call uses one of them.
Told(r) ==
    /\ r.stage = "resolve" => r.first
    /\ r.first /\ r.stage \notin {"missing", "recoveryMissing"} => r.missed = {}
    /\ r.first /\ r.stage = "missing" => r.missed \subseteq r.handle
    /\ r.stage = "call" => r.handle \cap r.missed = {}

ToldInv ==
    \A t \in Turns : Told(turn[t]) /\ \A n \in turn[t].missed : creation[n].stage = "done"

BackInv == Named /\ ToldInv

LEMMA BackInit == Init => BackInv
  <1> SUFFICES ASSUME Init PROVE BackInv
    OBVIOUS
  <1>1. \A k \in Names : creation[k].returns = {}
    BY NoCreationTyped DEF Init
  <1>2. Named
    BY <1>1 DEF Init, Named, Made, IdleTurn
  <1>3. ToldInv
    BY DEF Init, ToldInv, Told, IdleTurn
  <1> QED BY <1>2, <1>3 DEF BackInv

\* A step that moves one turn, which keeps its cache or goes without, and nothing else.
LEMMA BackOneTurn ==
    ASSUME CacheInv, BackInv, NEW t \in Turns, NEW r \in TurnType,
           turn' = [turn EXCEPT ![t] = r],
           UNCHANGED <<manager, made, creation, service, print>>,
           r.handle \subseteq turn[t].handle, Told(r),
           \A n \in r.missed : creation[n].stage = "done"
    PROVE  BackInv'
  <1>1. UNCHANGED <<caches, printOf, creation>>
    BY DEF manager
  <1>2. \A u \in Turns : turn'[u] = IF u = t THEN r ELSE turn[u]
    BY DEF CacheInv, TypeInv, Typed
  <1>3. Named'
    BY <1>1, <1>2 DEF BackInv, Named, Made
  <1>4. ToldInv'
    BY <1>1, <1>2 DEF BackInv, ToldInv, Told
  <1> QED BY <1>3, <1>4 DEF BackInv

LEMMA BackTurnMoves ==
    ASSUME CacheInv, BackInv, NEW t \in Turns,
           Answered(t) \/ Missing(t) \/ CallFails(t) \/ Uncached(t) \/ Blank(t) \/ RecoveryMissing(t)
    PROVE  BackInv'
  <1>1. /\ turn[t] \in TurnType /\ Told(turn[t]) /\ Made(turn[t].handle)
        /\ \A n \in turn[t].missed : creation[n].stage = "done"
    BY DEF CacheInv, TypeInv, Typed, BackInv, Named, ToldInv
  <1>2. ASSUME NEW s \in {"answered", "failed"}, Ends(t, s) PROVE BackInv'
    <2> DEFINE r == [IdleTurn EXCEPT !.stage = s]
    <2>1. /\ r \in TurnType /\ r.handle \subseteq turn[t].handle /\ r.missed = {} /\ Told(r)
      BY DEF IdleTurn, TurnType, TurnStages, Told
    <2> QED BY <1>2, <2>1, BackOneTurn DEF Ends
  <1>3. CASE Missing(t)
    <2> DEFINE r == [turn[t] EXCEPT !.stage = IF turn[t].recovery THEN "recoveryMissing" ELSE "missing",
                                    !.missed = turn[t].missed \cup turn[t].handle]
    <2>1. r \in TurnType /\ r.handle = turn[t].handle /\ r.missed = turn[t].missed \cup turn[t].handle
      BY <1>1 DEF TurnType, TurnStages
    <2>2. Told(r)
      BY <1>1, <1>3 DEF Missing, Arrives, Told, TurnType
    <2>3. \A n \in turn[t].handle : creation[n].stage = "done"
      <3>1. \A n \in turn[t].handle : n \in Names
        BY <1>1 DEF TurnType
      <3> QED BY <1>1, <1>3, <3>1 DEF Missing, Arrives, Made
    <2>4. turn' = [turn EXCEPT ![t] = r]
      BY <1>3 DEF Missing, CacheInv, TypeInv, Typed
    <2> QED BY <1>1, <1>3, <2>1, <2>2, <2>3, <2>4, BackOneTurn DEF Missing
  <1>4. CASE CallFails(t)
    <2>1. CASE /\ ~turn[t].first /\ turn' = [turn EXCEPT ![t].handle = {}]
               /\ UNCHANGED <<manager, made, creation, service, print>>
      <3> DEFINE r == [turn[t] EXCEPT !.handle = {}]
      <3>1. turn' = [turn EXCEPT ![t] = r]
        BY <2>1 DEF CacheInv, TypeInv, Typed
      <3>2. r \in TurnType /\ r.missed = turn[t].missed /\ r.handle = {}
        BY <1>1 DEF TurnType
      <3>3. Told(r)
        BY <1>1, <2>1 DEF Told, TurnType
      <3> QED BY <1>1, <2>1, <3>1, <3>2, <3>3, BackOneTurn
    <2> QED BY <1>2, <1>4, <2>1 DEF CallFails
  <1>5. CASE Uncached(t)
    <2> DEFINE r == [turn[t] EXCEPT !.stage = "call", !.handle = {}]
    <2>1. r \in TurnType /\ r.missed = turn[t].missed /\ r.handle = {} /\ Told(r)
      BY <1>1, <1>5 DEF Uncached, Told, TurnType, TurnStages
    <2> QED BY <1>1, <1>5, <2>1, BackOneTurn DEF Uncached
  <1>6. CASE Blank(t)
    <2> DEFINE r == IF turn[t].recovery THEN [turn[t] EXCEPT !.handle = {}]
                                        ELSE [turn[t] EXCEPT !.recovery = TRUE]
    <2>1. r \in TurnType /\ r.missed = turn[t].missed /\ r.handle \subseteq turn[t].handle
      BY <1>1 DEF TurnType
    <2>2. Told(r)
      BY <1>1, <1>6 DEF Blank, Arrives, Told, TurnType
    <2>3. turn' = [turn EXCEPT ![t] = r]
      BY <1>6 DEF Blank, CacheInv, TypeInv, Typed
    <2> QED BY <1>1, <1>6, <2>1, <2>2, <2>3, BackOneTurn DEF Blank
  <1> QED BY <1>2, <1>3, <1>4, <1>5, <1>6 DEF Answered, RecoveryMissing

LEMMA BackCreationMoves ==
    ASSUME CacheInv, BackInv, NEW k \in Names, CreateStep(k)
    PROVE  BackInv'
  <1>1. Typed /\ Singles /\ Named /\ ToldInv
    BY DEF CacheInv, TypeInv, BackInv
  <1>2. creation[k] \in CreationType /\ creation[k].stage \in {"asked", "settled"}
    BY <1>1 DEF CreateStep, CreateFails, Created, Finally, Typed
  <1>3. ASSUME NEW s \in {"settled", "done"}, NEW R \in {{}, {k}},
               creation' = [creation EXCEPT ![k] = [@ EXCEPT !.stage = s, !.returns = R]],
               s = "settled" => creation[k].stage = "asked"
        PROVE  /\ creation'[k].stage = s /\ creation'[k].returns = R /\ creation'[k].print = creation[k].print
               /\ \A n \in Names : n # k => creation'[n] = creation[n]
               /\ \A n \in Names : creation[n].stage \in {"settled", "done"}
                                      => creation'[n].stage \in {"settled", "done"}
               /\ \A n \in Names : creation[n].stage = "done" => creation'[n].stage = "done"
    <2>1. creation' = [creation EXCEPT ![k] = [creation[k] EXCEPT !.stage = s, !.returns = R]]
      BY <1>1, <1>3 DEF Typed
    <2> QED BY <1>1, <1>2, <1>3, <2>1 DEF Typed, CreationType
  <1>a. /\ \A f \in Prints : caches[f] \subseteq Names
        /\ \A t \in Turns : turn[t] \in TurnType /\ turn[t].handle \subseteq Names /\ turn[t].missed \subseteq Names
    BY <1>1 DEF Typed, TurnType
  <1>4. CASE CreateFails(k) \/ Created(k)
    <2>1. PICK R \in {{}, {k}} :
             /\ creation' = [creation EXCEPT ![k] = [@ EXCEPT !.stage = "settled", !.returns = R]]
             /\ creation[k].stage = "asked" /\ turn' = turn
      BY <1>4 DEF CreateFails, Created, Settled
    <2>2. /\ creation'[k].stage = "settled" /\ creation'[k].returns = R
          /\ \A n \in Names : n # k => creation'[n] = creation[n]
          /\ \A n \in Names : creation[n].stage \in {"settled", "done"}
                                 => creation'[n].stage \in {"settled", "done"}
          /\ \A n \in Names : creation[n].stage = "done" => creation'[n].stage = "done"
      BY <1>3, <2>1
    <2>3. ToldInv'
      BY <1>1, <1>a, <2>1, <2>2 DEF ToldInv, Told
    <2>4. \A f \in Prints : Made(caches[f])' /\ \A n \in caches'[f] : f \in printOf'[n]
      <3>1. CASE UNCHANGED <<caches, printOf>>
        BY <1>1, <1>a, <2>2, <3>1 DEF Named, Made
      <3>2. CASE caches' = [caches EXCEPT ![creation[k].print] = {k}] /\ printOf' = Mapped(k)
        <4> SUFFICES ASSUME NEW f \in Prints, NEW n \in caches'[f]
                     PROVE  creation'[n].stage \in {"settled", "done"} /\ f \in printOf'[n]
          BY DEF Made
        <4>1. caches'[f] = IF f = creation[k].print THEN {k} ELSE caches[f]
          BY <1>1, <3>2 DEF Typed
        <4>2. CASE f = creation[k].print
          BY <2>2, <3>2, <4>1, <4>2 DEF Mapped
        <4>3. CASE f # creation[k].print
          <5>1. n \in caches[f] /\ n \in Names /\ creation[n].stage \in {"settled", "done"} /\ f \in printOf[n]
            BY <1>1, <1>a, <4>1, <4>3 DEF Named, Made
          <5>2. n # k
            BY <2>1, <5>1
          <5> QED BY <2>2, <3>2, <4>3, <5>1, <5>2 DEF Mapped
        <4> QED BY <4>2, <4>3
      <3> QED BY <1>4, <3>1, <3>2 DEF CreateFails, Created, manager
    <2>5. Named'
      <3>1. \A t \in Turns : Made(turn[t].handle)'
        BY <1>1, <1>a, <2>1, <2>2 DEF Named, Made
      <3>2. \A n \in Names : creation'[n].returns \subseteq {n}
        BY <1>1, <2>2 DEF Named
      <3> QED BY <2>4, <3>1, <3>2 DEF Named
    <2> QED BY <2>3, <2>5 DEF BackInv
  <1>5. CASE Finally(k)
    <2>1. /\ creation' = [creation EXCEPT ![k] = [@ EXCEPT !.stage = "done", !.returns = {}]]
          /\ creation[k].stage = "settled" /\ turn' = Resumed(k) /\ UNCHANGED <<caches, printOf>>
      BY <1>5 DEF Finally
    <2>2. /\ creation'[k].stage = "done" /\ creation'[k].returns = {}
          /\ \A n \in Names : n # k => creation'[n] = creation[n]
          /\ \A n \in Names : creation[n].stage \in {"settled", "done"}
                                 => creation'[n].stage \in {"settled", "done"}
          /\ \A n \in Names : creation[n].stage = "done" => creation'[n].stage = "done"
      BY <1>3, <2>1
    <2>3. \A t \in Turns :
             \/ turn'[t] = turn[t]
             \/ turn'[t] = [turn[t] EXCEPT !.stage = "call", !.handle = creation[k].returns, !.awaits = {}]
                /\ turn[t].awaits = {k}
      BY <2>1 DEF Resumed
    <2>4. \A t \in Turns : Made(turn[t].handle)' /\ Told(turn[t])' /\ turn'[t].missed = turn[t].missed
      <3> SUFFICES ASSUME NEW t \in Turns PROVE <2>4!(t)
        OBVIOUS
      <3>1. CASE turn'[t] = turn[t]
        BY <1>1, <1>a, <2>2, <3>1 DEF Named, Made, ToldInv, Told
      <3>2. CASE /\ turn'[t] = [turn[t] EXCEPT !.stage = "call", !.handle = creation[k].returns, !.awaits = {}]
                 /\ turn[t].awaits = {k}
        <4>1. /\ turn'[t].stage = "call" /\ turn'[t].handle = creation[k].returns
              /\ turn'[t].missed = turn[t].missed /\ turn'[t].first = turn[t].first
          BY <1>a, <3>2 DEF TurnType
        <4>2. creation[k].returns \subseteq {k} /\ k \notin turn[t].missed
          BY <1>1, <2>1 DEF Named, ToldInv
        <4>3. turn[t].stage = "await"
          BY <3>2 DEF CacheInv, TypeInv, JoinInv
        <4>4. turn[t].first => turn[t].missed = {}
          BY <1>1, <4>3 DEF ToldInv, Told
        <4> QED BY <2>2, <4>1, <4>2, <4>4 DEF Made, Told
      <3> QED BY <2>3, <3>1, <3>2
    <2>5. ToldInv'
      BY <1>1, <1>a, <2>2, <2>4 DEF ToldInv
    <2>6. Named'
      <3>1. \A f \in Prints : Made(caches[f])' /\ \A n \in caches'[f] : f \in printOf'[n]
        BY <1>1, <1>a, <2>1, <2>2 DEF Named, Made
      <3>2. \A n \in Names : creation'[n].returns \subseteq {n}
        BY <1>1, <2>2 DEF Named
      <3> QED BY <2>4, <3>1, <3>2 DEF Named
    <2> QED BY <2>5, <2>6 DEF BackInv
  <1> QED BY <1>4, <1>5 DEF CreateStep

\* getOrCreate: before any miss, or after one whose prints fs are invalidated.
LEMMA BackGetMoves ==
    ASSUME CacheInv, BackInv, NEW t \in Turns, NEW fs \in SUBSET Prints, NEW first \in BOOLEAN, NEW g,
           turn[t].missed = {} \/ ~first,
           \A f \in Prints, n \in turn[t].missed : f \in printOf[n] => f \in fs,
           GetOrCreate(t, Invalidated(t, fs, caches), Invalidated(t, fs, pending), g, first),
           UNCHANGED printOf
    PROVE  BackInv'
  <1> DEFINE c  == Invalidated(t, fs, caches)
             p  == Invalidated(t, fs, pending)
             f0 == print[t]
  <1>1. Typed /\ Singles /\ Named /\ ToldInv
    BY DEF CacheInv, TypeInv, BackInv
  <1>2. /\ turn[t] \in TurnType /\ f0 \in Prints /\ made \in Nat /\ made <= MaxCreates
        /\ \A f \in Prints : caches[f] \subseteq Names
        /\ \A u \in Turns : turn[u].handle \subseteq Names /\ turn[u].missed \subseteq Names
    BY <1>1 DEF Typed, TurnType
  <1>3. /\ c \in [Prints -> SUBSET Names]
        /\ \A f \in Prints : c[f] \subseteq caches[f] /\ (f \in fs => c[f] = {})
    BY <1>1 DEF Invalidated, Typed
  <1>4. c[f0] \cap turn[t].missed = {}
    <2> SUFFICES ASSUME NEW n \in c[f0], n \in turn[t].missed PROVE FALSE
      OBVIOUS
    <2>1. n \in caches[f0] /\ f0 \notin fs
      BY <1>2, <1>3
    <2> QED BY <1>1, <1>2, <2>1 DEF Named
  <1>5. \A n \in Names : creation[n].stage \in {"settled", "done"} => n # made + 1
    BY <1>1, <1>2 DEF Typed
  <1>6. /\ \A n \in Names : creation[n].stage \in {"settled", "done"} => creation'[n].stage = creation[n].stage
        /\ \A n \in Names : creation'[n].returns \in {{}, creation[n].returns}
    <2>1. CASE UNCHANGED creation
      BY <2>1
    <2>2. CASE /\ made < MaxCreates
               /\ creation' = [creation EXCEPT ![made + 1] =
                     [print |-> f0, start |-> g[f0], stage |-> "asked", returns |-> {}]]
      <3>1. \A n \in Names : creation'[n] = IF n = made + 1
               THEN [print |-> f0, start |-> g[f0], stage |-> "asked", returns |-> {}] ELSE creation[n]
        BY <1>1, <2>2 DEF Typed
      <3> QED BY <1>5, <3>1
    <2> QED BY <2>1, <2>2 DEF GetOrCreate
  <1>7. caches' \in [Prints -> SUBSET Names] /\ \A f \in Prints : caches'[f] \subseteq caches[f]
    BY <1>2, <1>3 DEF GetOrCreate
  <1>8. PICK r \in TurnType :
           /\ turn' = [turn EXCEPT ![t] = r] /\ r.missed = turn[t].missed /\ r.first = first
           /\ \/ r.stage = "call" /\ r.handle = c[f0]
              \/ r.stage = "await" /\ r.handle = turn[t].handle
    <2> DEFINE going == [turn[t] EXCEPT !.first = first]
               R1 == [going EXCEPT !.stage = "call", !.handle = c[f0]]
               R2(a) == [going EXCEPT !.stage = "await", !.awaits = a]
    <2>1. going \in TurnType /\ going.missed = turn[t].missed /\ going.first = first
          /\ going.handle = turn[t].handle
      BY <1>2 DEF TurnType
    <2> HIDE DEF going
    <2>2. /\ R1 \in TurnType /\ R1.missed = turn[t].missed /\ R1.first = first
          /\ R1.stage = "call" /\ R1.handle = c[f0]
      BY <1>2, <1>3, <2>1 DEF TurnType, TurnStages
    <2>3. \A a \in SUBSET Names :
             /\ R2(a) \in TurnType /\ R2(a).missed = turn[t].missed /\ R2(a).first = first
             /\ R2(a).stage = "await" /\ R2(a).handle = turn[t].handle
      BY <2>1 DEF TurnType, TurnStages
    <2>4. /\ p[f0] \in SUBSET Names
          /\ made < MaxCreates => {made + 1} \in SUBSET Names
      BY <1>1, <1>2 DEF Invalidated, Typed
    <2>5. \/ turn' = [turn EXCEPT ![t] = R1]
          \/ turn' = [turn EXCEPT ![t] = R2(p[f0])]
          \/ made < MaxCreates /\ turn' = [turn EXCEPT ![t] = R2({made + 1})]
      BY DEF GetOrCreate, going
    <2> HIDE DEF R1, R2, p
    <2> QED BY <2>2, <2>3, <2>4, <2>5
  <1>9. \A u \in Turns : turn'[u] = IF u = t THEN r ELSE turn[u]
    BY <1>1, <1>8 DEF Typed
  <1> HIDE DEF c, p, f0
  <1>10. Told(r)
    BY <1>4, <1>8 DEF Told
  <1>11. Named'
    <2>1. \A f \in Prints : Made(caches[f])' /\ \A n \in caches'[f] : f \in printOf'[n]
      BY <1>1, <1>2, <1>6, <1>7 DEF Named, Made
    <2>2. \A u \in Turns : Made(turn[u].handle)'
      <3>1. \A n \in r.handle : n \in Names /\ creation[n].stage \in {"settled", "done"}
        <4>1. \A n \in c[f0] : n \in caches[f0] /\ f0 \in Prints
          BY <1>2, <1>3 DEF f0
        <4> QED BY <1>1, <1>2, <1>8, <4>1 DEF Named, Made
      <3>2. \A u \in Turns : \A n \in turn'[u].handle : n \in Names /\ creation[n].stage \in {"settled", "done"}
        BY <1>1, <1>2, <1>9, <3>1 DEF Named, Made
      <3> QED BY <1>6, <3>2 DEF Made
    <2>3. \A n \in Names : creation'[n].returns \subseteq {n}
      BY <1>1, <1>6 DEF Named
    <2> QED BY <2>1, <2>2, <2>3 DEF Named
  <1>12. ToldInv'
    <2>1. \A u \in Turns : Told(turn'[u]) /\ turn'[u].missed = turn[u].missed
      BY <1>1, <1>8, <1>9, <1>10 DEF ToldInv
    <2>2. \A u \in Turns : \A n \in turn[u].missed : creation'[n].stage = "done"
      BY <1>1, <1>2, <1>6 DEF ToldInv
    <2> QED BY <2>1, <2>2 DEF ToldInv, Told
  <1> QED BY <1>11, <1>12 DEF BackInv

LEMMA BackGetSteps ==
    ASSUME CacheInv, BackInv, NEW t \in Turns, Resolve(t) \/ Recover(t)
    PROVE  BackInv'
  <1>1. turn[t] \in TurnType /\ Told(turn[t])
    BY DEF CacheInv, TypeInv, Typed, BackInv, ToldInv
  <1>2. CASE Resolve(t)
    <2>1. Invalidated(t, {}, caches) = caches /\ Invalidated(t, {}, pending) = pending
      BY DEF CacheInv, TypeInv, Typed, Invalidated
    <2>2. turn[t].missed = {}
      BY <1>1, <1>2 DEF Resolve, Told
    <2>3. GetOrCreate(t, Invalidated(t, {}, caches), Invalidated(t, {}, pending), generation, TRUE)
      BY <1>2, <2>1 DEF Resolve
    <2>4. {} \in SUBSET Prints /\ TRUE \in BOOLEAN /\ UNCHANGED printOf
      BY <1>2 DEF Resolve
    <2> QED BY <2>2, <2>3, <2>4, BackGetMoves
  <1>3. CASE Recover(t)
    <2> DEFINE fs == UNION {printOf[n] : n \in turn[t].handle}
               g  == [f \in Prints |-> IF f \in fs THEN generation[f] + 1 ELSE generation[f]]
    <2>1. fs \in SUBSET Prints /\ FALSE \in BOOLEAN /\ UNCHANGED printOf
      BY <1>1, <1>3 DEF Recover, CacheInv, TypeInv, Typed, TurnType
    <2>2. \A f \in Prints, n \in turn[t].missed : f \in printOf[n] => f \in fs
      BY <1>1, <1>3 DEF Recover, Told
    <2>3. GetOrCreate(t, Invalidated(t, fs, caches), Invalidated(t, fs, pending), g, FALSE)
      BY <1>3 DEF Recover
    <2> HIDE DEF fs, g
    <2> QED BY <2>1, <2>2, <2>3, BackGetMoves
  <1> QED BY <1>2, <1>3

LEMMA BackNext == CacheInv /\ BackInv /\ [Next]_vars => BackInv'
  <1> SUFFICES ASSUME CacheInv, BackInv, [Next]_vars PROVE BackInv'
    OBVIOUS
  <1>1. CASE UNCHANGED <<caches, printOf, creation, turn>>
    BY <1>1 DEF BackInv, Named, Made, ToldInv, Told
  <1>2. ASSUME NEW k \in Names, CreateStep(k) PROVE BackInv'
    BY <1>2, BackCreationMoves
  <1>3. ASSUME NEW t \in Turns, TurnStep(t) PROVE BackInv'
    BY <1>3, BackTurnMoves, BackGetSteps DEF TurnStep
  <1>4. ASSUME NEW n \in Names, Ages(n) \/ Dropped(n) PROVE BackInv'
    BY <1>1, <1>4 DEF Ages, Dropped, manager
  <1>5. CASE UNCHANGED vars
    BY <1>1, <1>5 DEF vars, manager
  <1> QED BY <1>2, <1>3, <1>4, <1>5 DEF Next

\* MissedIsNotHandedBack: no turn calls the model again with a cache it was told is missing,
\* whatever the other turns and the service do meanwhile.
THEOREM MissedCachesStayAway == Spec => []MissedIsNotHandedBack
  <1>1. BackInv => MissedIsNotHandedBack
    BY DEF BackInv, ToldInv, Told, MissedIsNotHandedBack
  <1> QED BY CacheInvHolds, BackInit, BackNext, <1>1, PTL DEF Spec

\* What DroppedByItsMiss says of a step.
Dropping(f, n) == caches'[f] = {} => \E t \in Turns : AtTurn(t, "missing") /\ turn[t].handle = {n}
DropStep == \A f \in Prints : \A n \in caches[f] \ aged : Dropping(f, n)

\* Only a miss drops an entry that is not near its expiry, and by EntryInv it is its own.
LEMMA DropNext == CacheInv /\ [Next]_vars => [DropStep]_vars
  <1> SUFFICES ASSUME CacheInv, Next, NEW f \in Prints, NEW n \in caches[f] \ aged, caches'[f] = {}
               PROVE  \E t \in Turns : AtTurn(t, "missing") /\ turn[t].handle = {n}
    BY DEF DropStep, Dropping
  <1>1. Typed /\ Singles /\ EntryInv
    BY DEF CacheInv, TypeInv
  <1>2. ASSUME NEW t \in Turns, NEW c, NEW p, NEW g, NEW first, GetOrCreate(t, c, p, g, first),
               c \in [Prints -> SUBSET Names]
        PROVE  c[f] \subseteq aged
    BY <1>2 DEF GetOrCreate
  <1>3. PICK t \in Turns : Resolve(t) \/ Recover(t)
    <2>1. ASSUME NEW k \in Names, Created(k) PROVE caches'[f] # {}
      <3>1. caches[f] # {} /\ caches \in [Prints -> SUBSET Names]
        BY <1>1 DEF Typed
      <3> QED BY <2>1, <3>1 DEF Created
    <2>2. caches'[f] # caches[f]
      OBVIOUS
    <2> QED BY <2>1, <2>2 DEF Next, CreateStep, CreateFails, Finally, TurnStep, Answered, Missing,
              CallFails, Uncached, Blank, RecoveryMissing, Ends, Ages, Dropped, manager
  <1>4. CASE Resolve(t)
    BY <1>1, <1>2, <1>4 DEF Resolve, Typed
  <1>5. CASE Recover(t)
    <2> DEFINE fs == UNION {printOf[m] : m \in turn[t].handle}
    <2>1. Invalidated(t, fs, caches)[f] \subseteq aged /\ turn[t].stage = "missing"
      <3>1. Invalidated(t, fs, caches) \in [Prints -> SUBSET Names]
        BY <1>1 DEF Typed, Invalidated
      <3> QED BY <1>2, <1>5, <3>1 DEF Recover
    <2>2. f \in fs
      BY <2>1 DEF Invalidated
    <2>3. PICK m \in turn[t].handle : f \in printOf[m]
      BY <2>2
    <2>4. m \in Names /\ turn[t].handle = {m}
      BY <1>1, <2>3 DEF Singles, Single, Typed
    <2>5. caches[f] = {m}
      BY <1>1, <2>3, <2>4 DEF EntryInv
    <2> QED BY <2>1, <2>4, <2>5
  <1> QED BY <1>3, <1>4, <1>5

\* DroppedByItsMiss: a miss of an older cache of the same print drops nothing.
THEOREM EntriesAreDroppedByTheirMiss == Spec => DroppedByItsMiss
  <1>1. DroppedByItsMiss <=> [][DropStep]_vars
    BY PTL DEF DroppedByItsMiss, DropStep, Dropping
  <1> QED BY CacheInvHolds, DropNext, <1>1, PTL DEF Spec
=============================================================================
