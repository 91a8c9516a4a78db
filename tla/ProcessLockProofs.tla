------------------------- MODULE ProcessLockProofs -------------------------
(***************************************************************************)
(* Theorems about ProcessLock: what the lock guarantees to any number of   *)
(* processes on any number of hosts, however they start and end: who may   *)
(* take the lock of a running process, and who may be refused.             *)
(***************************************************************************)
EXTENDS ProcessLock, TLAPS

Stages == {"down", "refused"} \cup Acquiring \cup Keeping

(***************************************************************************)
(* Type correctness.                                                       *)
(***************************************************************************)
LEMMA TypeInit == Init => TypeOK
  BY BoundsAssumption DEF Init, TypeOK, NoFile

\* A step that leaves the file alone and moves p to a stage keeps the types.
LEMMA MoveKeepsTypes ==
    ASSUME TypeOK, NEW p \in Procs, NEW s \in Stages, stage[p] # "write", Goto(p, s),
           UNCHANGED <<host, pid, file, programs, boots, rivals>>,
           attempt' \in [Procs -> {0, 1}], seen' \in [Procs -> SUBSET Metadata]
    PROVE  TypeOK'
  <1>1. stage' \in [Procs -> Stages] /\ \A q \in Procs : q # p => stage'[q] = stage[q]
    BY DEF TypeOK, Goto, Stages
  <1>2. \A q \in file'.openBy : stage'[q] = "write"
    BY <1>1 DEF TypeOK
  <1> QED BY <1>1, <1>2 DEF TypeOK, Stages

LEMMA TypeStep ==
    ASSUME TypeOK, [Next]_vars
    PROVE  TypeOK'
  <1> USE DEF At
  <1>1. ASSUME NEW p \in Procs, Boot(p) PROVE TypeOK'
    <2>1. host' \in [Procs -> Hosts] /\ pid' \in [Procs -> Pids]
      BY <1>1 DEF Boot, TypeOK
    <2>2. boots' \in 0..MaxBoots
      BY <1>1, BoundsAssumption DEF Boot, TypeOK
    <2>3. attempt' \in [Procs -> {0, 1}] /\ seen' \in [Procs -> SUBSET Metadata]
      BY <1>1 DEF Boot, TypeOK
    <2>4. stage' = [stage EXCEPT ![p] = "open"] /\ stage[p] = "down" /\ UNCHANGED <<file, programs>>
      BY <1>1 DEF Boot, Goto
    <2>5. stage' \in [Procs -> Stages] /\ \A q \in file'.openBy : stage'[q] = "write"
      BY <2>4 DEF TypeOK, Stages, Acquiring
    <2>6. rivals' \in [Procs -> SUBSET Procs]
      BY <1>1 DEF Boot, Acquirers, TypeOK
    <2> QED BY <2>1, <2>2, <2>3, <2>4, <2>5, <2>6 DEF TypeOK, Stages
  <1>2. ASSUME NEW p \in Procs, Open(p) PROVE TypeOK'
    <2>1. CASE file.exists
      BY <1>2, <2>1, MoveKeepsTypes DEF Open, TypeOK, Stages, Acquiring
    <2>2. CASE ~file.exists
      <3>1. /\ stage' = [stage EXCEPT ![p] = "write"]
            /\ file' = [exists |-> TRUE, metadata |-> {}, openBy |-> {p}]
            /\ UNCHANGED <<host, pid, attempt, seen, programs, boots, rivals>>
        BY <1>2, <2>2 DEF Open, Goto
      <3> QED BY <3>1 DEF TypeOK, Acquiring
    <2> QED BY <2>1, <2>2
  <1>3. ASSUME NEW p \in Procs, Write(p) PROVE TypeOK'
    <2>1. Self(p) \in Metadata
      BY DEF TypeOK, Self, Metadata
    <2>2. /\ stage' = [stage EXCEPT ![p] = "hold"]
          /\ UNCHANGED <<host, pid, attempt, seen, programs, boots, rivals>>
      BY <1>3 DEF Write, Goto
    <2>3. stage' \in [Procs -> Stages] /\ \A q \in Procs : q # p => stage'[q] = stage[q]
      BY <2>2 DEF TypeOK, Stages, Keeping
    <2>4. CASE p \in file.openBy
      <3>1. file' = [exists |-> TRUE, metadata |-> {Self(p)}, openBy |-> {}]
        BY <1>3, <2>4 DEF Write
      <3> QED BY <2>1, <2>2, <2>3, <3>1 DEF TypeOK, Stages
    <2>5. CASE p \notin file.openBy
      <3>1. file' = file
        BY <1>3, <2>5 DEF Write
      <3> QED BY <2>2, <2>3, <2>5, <3>1 DEF TypeOK, Stages
    <2> QED BY <2>4, <2>5
  <1>4. ASSUME NEW p \in Procs, Read(p) \/ Reread(p) \/ Judge(p) PROVE TypeOK'
    <2>1. stage[p] # "write" /\ UNCHANGED <<host, pid, attempt, file, programs, boots, rivals>>
      BY <1>4 DEF Read, Reread, Judge
    <2>2. seen' \in [Procs -> SUBSET Metadata] /\ attempt' \in [Procs -> {0, 1}]
      BY <1>4 DEF Read, Reread, Judge, TypeOK
    <2>3. PICK s \in Stages : Goto(p, s)
      BY <1>4 DEF Read, Reread, Judge, Stages, Acquiring
    <2> QED BY <2>1, <2>2, <2>3, MoveKeepsTypes
  <1>5. ASSUME NEW p \in Procs, Unlink(p) PROVE TypeOK'
    <2>1. /\ file' = NoFile /\ UNCHANGED <<host, pid, seen, programs, boots, rivals>>
          /\ attempt' \in [Procs -> {0, 1}] /\ stage' \in [Procs -> Stages]
      BY <1>5 DEF Unlink, Goto, TypeOK, Stages, Acquiring
    <2> QED BY <2>1 DEF TypeOK, NoFile, Stages
  <1>6. ASSUME NEW p \in Procs, Release(p) PROVE TypeOK'
    <2>1. PICK s \in Stages : Goto(p, s)
      BY <1>6 DEF Release, Stages, Keeping
    <2> QED BY <1>6, <2>1, MoveKeepsTypes DEF Release, TypeOK
  <1>7. ASSUME NEW p \in Procs, ReleaseUnlinks(p) PROVE TypeOK'
    BY <1>7 DEF ReleaseUnlinks, Goto, TypeOK, NoFile
  <1>8. ASSUME NEW p \in Procs, Exit(p) PROVE TypeOK'
    <2>1. /\ stage' = [stage EXCEPT ![p] = "down"]
          /\ file' = [file EXCEPT !.openBy = @ \ {p}]
          /\ UNCHANGED <<host, pid, attempt, seen, programs, boots, rivals>>
      BY <1>8 DEF Exit, Goto
    <2> QED BY <2>1 DEF TypeOK
  <1>9. CASE (\E n \in Pids : ProgramStarts(n)) \/ ProgramEnds
    BY <1>9 DEF ProgramStarts, ProgramEnds, TypeOK
  <1>10. CASE UNCHANGED vars
    BY <1>10 DEF vars, TypeOK
  <1> QED BY <1>1, <1>2, <1>3, <1>4, <1>5, <1>6, <1>7, <1>8, <1>9, <1>10 DEF Next

\* Every reachable state is well typed, and no handle outlives the write it is for.
THEOREM TypeCorrect == Spec => []TypeOK
  BY TypeInit, TypeStep, PTL DEF Spec

(***************************************************************************)
(* Races.                                                                  *)
(***************************************************************************)
\* The system never gives a pid of a host to two running processes.
DistinctPids ==
    \A p, q \in Procs :
        Running(p) /\ Running(q) /\ host[p] = host[q] /\ pid[p] = pid[q] => p = q

\* Nobody running becomes another, whatever it does next.
LEMMA DistinctStep ==
    ASSUME TypeOK, DistinctPids, [Next]_vars
    PROVE  DistinctPids'
  <1> USE DEF At, Running
  <1>1. ASSUME NEW p \in Procs, Boot(p) PROVE DistinctPids'
    <2>1. PICK h \in Hosts, n \in Pids :
             /\ ~IsProcessRunning(h, n)
             /\ host' = [host EXCEPT ![p] = h] /\ pid' = [pid EXCEPT ![p] = n]
      BY <1>1 DEF Boot
    <2>2. \A q \in Procs : q # p =>
             host'[q] = host[q] /\ pid'[q] = pid[q] /\ stage'[q] = stage[q]
      BY <1>1, <2>1 DEF Boot, Goto, TypeOK
    <2>3. \A q \in Procs : Running(q) => ~(host[q] = h /\ pid[q] = n)
      BY <2>1 DEF IsProcessRunning
    <2>4. host'[p] = h /\ pid'[p] = n
      BY <2>1 DEF TypeOK
    <2> QED BY <2>2, <2>3, <2>4 DEF DistinctPids
  <1>2. CASE UNCHANGED <<host, pid>> /\ \A q \in Procs : stage'[q] # "down" => stage[q] # "down"
    BY <1>2 DEF DistinctPids
  <1>3. ASSUME NEW p \in Procs, NEW s, stage[p] # "down", Goto(p, s)
        PROVE  \A q \in Procs : stage'[q] # "down" => stage[q] # "down"
    BY <1>3 DEF Goto, TypeOK
  <1>4. ASSUME NEW p \in Procs,
               Open(p) \/ Write(p) \/ Read(p) \/ Reread(p) \/ Judge(p) \/ Unlink(p)
                  \/ Release(p) \/ ReleaseUnlinks(p) \/ Exit(p)
        PROVE  stage[p] # "down" /\ UNCHANGED <<host, pid>> /\ \E s : Goto(p, s)
    BY <1>4 DEF Open, Write, Read, Reread, Judge, Unlink, Release, ReleaseUnlinks, Exit
  <1>5. ASSUME (\E n \in Pids : ProgramStarts(n)) \/ ProgramEnds \/ UNCHANGED vars
        PROVE  UNCHANGED <<host, pid, stage>>
    BY <1>5 DEF ProgramStarts, ProgramEnds, vars
  <1> QED BY <1>1, <1>2, <1>3, <1>4, <1>5 DEF Next

\* What a step of p leaves alone.
LEMMA Others ==
    ASSUME TypeOK, NEW p \in Procs, NEW s, Goto(p, s)
    PROVE  /\ stage'[p] = s
           /\ \A q \in Procs : q # p => stage'[q] = stage[q]
  BY DEF TypeOK, Goto

\* Processes that acquire at the same time are each other's rivals.
Mutual ==
    /\ \A p, q \in Procs :
          p # q /\ stage[p] \in Acquiring /\ stage[q] \in Acquiring => q \in rivals[p]
    /\ \A p \in Procs : p \notin rivals[p]

LEMMA MutualStep ==
    ASSUME TypeOK, Mutual, [Next]_vars
    PROVE  Mutual'
  <1> USE DEF At
  <1>1. ASSUME NEW p \in Procs, Boot(p) PROVE Mutual'
    <2>1. /\ stage[p] = "down" /\ \A q \in Procs : q # p => stage'[q] = stage[q]
          /\ \A q \in Procs : rivals'[q] = IF q = p THEN Acquirers
                                            ELSE IF q \in Acquirers THEN rivals[q] \cup {p} ELSE rivals[q]
      BY <1>1, Others DEF Boot
    <2>2. p \notin Acquirers
      BY <2>1 DEF Acquirers, Acquiring
    <2>3. ASSUME NEW q \in Procs, NEW r \in Procs, q # r,
                 stage'[q] \in Acquiring, stage'[r] \in Acquiring
          PROVE  r \in rivals'[q]
      <3>1. CASE q = p
        BY <2>1, <2>3, <3>1 DEF Acquirers
      <3>2. CASE q # p
        <4>1. q \in Acquirers /\ rivals'[q] = rivals[q] \cup {p}
          BY <2>1, <2>3, <3>2 DEF Acquirers
        <4>2. r # p => r \in rivals[q]
          BY <2>1, <2>3, <3>2 DEF Mutual
        <4> QED BY <4>1, <4>2
      <3> QED BY <3>1, <3>2
    <2>4. ASSUME NEW q \in Procs PROVE q \notin rivals'[q]
      BY <2>1, <2>2 DEF Mutual
    <2> QED BY <2>3, <2>4 DEF Mutual
  <1>2. ASSUME UNCHANGED rivals,
               \A q \in Procs : stage'[q] \in Acquiring => stage[q] \in Acquiring
        PROVE  Mutual'
    BY <1>2 DEF Mutual
  <1>3. ASSUME NEW p \in Procs,
               Open(p) \/ Write(p) \/ Read(p) \/ Reread(p) \/ Judge(p) \/ Unlink(p)
                  \/ Release(p) \/ ReleaseUnlinks(p) \/ Exit(p)
        PROVE  /\ UNCHANGED rivals
               /\ \A q \in Procs : stage'[q] \in Acquiring => stage[q] \in Acquiring
    <2>1. PICK s : Goto(p, s) /\ (s \in Acquiring => stage[p] \in Acquiring)
      BY <1>3 DEF Open, Write, Read, Reread, Judge, Unlink, Release, ReleaseUnlinks, Exit, Acquiring
    <2>2. UNCHANGED rivals
      BY <1>3 DEF Open, Write, Read, Reread, Judge, Unlink, Release, ReleaseUnlinks, Exit
    <2> QED BY <2>1, <2>2, Others
  <1>4. ASSUME (\E n \in Pids : ProgramStarts(n)) \/ ProgramEnds \/ UNCHANGED vars
        PROVE  UNCHANGED <<rivals, stage>>
    BY <1>4 DEF ProgramStarts, ProgramEnds, vars
  <1> QED BY <1>1, <1>2, <1>3, <1>4 DEF Next

(***************************************************************************)
(* Who takes the lock from whom.                                           *)
(***************************************************************************)
\* A starter that was no rival of the keeper, whose name the file has held all along, has
\* at most read it.
Unjudged(p, q) ==
    \/ stage[p] \in {"open", "read"}
    \/ stage[p] = "judge" /\ seen[p] = {Self(q)}
Met(p, q) ==
    /\ p # q /\ host[p] = host[q] /\ q \notin rivals[p]
    /\ stage[p] \in Acquiring
    /\ stage[q] \in Keeping /\ file.metadata = {Self(q)}
Kept == \A p, q \in Procs : Met(p, q) => Unjudged(p, q)

\* A starter of the keeper's host does not judge its name stale.
LEMMA NameIsGood ==
    ASSUME TypeOK, DistinctPids, NEW p \in Procs, NEW q \in Procs, p # q, host[p] = host[q],
           Running(p), Running(q)
    PROVE  ~Stale(p, Self(q))
  <1>1. pid[p] # pid[q]
    BY DEF DistinctPids
  <1>2. IsProcessRunning(host[q], pid[q])
    BY DEF IsProcessRunning
  <1> QED BY <1>1, <1>2 DEF Stale, Self

LEMMA KeptStep ==
    ASSUME TypeOK, DistinctPids, Mutual, Kept, [Next]_vars
    PROVE  Kept'
  <1> SUFFICES ASSUME NEW p \in Procs, NEW q \in Procs, Met(p, q)'
               PROVE  Unjudged(p, q)'
    BY DEF Kept
  <1> USE DEF At, Acquiring, Keeping
  <1>0. /\ p # q /\ stage'[p] \in Acquiring /\ stage'[q] \in Keeping
        /\ host'[p] = host'[q] /\ q \notin rivals'[p] /\ file'.metadata = {Self(q)'}
    BY DEF Met
  <1>1. ASSUME NEW r \in Procs, Boot(r) PROVE Unjudged(p, q)'
    <2>1. /\ stage'[r] = "open" /\ \A o \in Procs : o # r => stage'[o] = stage[o]
          /\ \A o \in Procs : o # r => host'[o] = host[o] /\ pid'[o] = pid[o] /\ seen'[o] = seen[o]
                                       /\ rivals[o] \subseteq rivals'[o]
          /\ UNCHANGED file
      BY <1>1, Others DEF Boot, TypeOK
    <2>2. CASE r = p
      BY <2>1, <2>2 DEF Unjudged
    <2>3. CASE r # p
      <3>1. r # q
        BY <1>0, <2>1
      <3>2. Self(q)' = Self(q)
        BY <2>1, <3>1 DEF Self
      <3>3. Met(p, q)
        BY <1>0, <2>1, <2>3, <3>1, <3>2 DEF Met
      <3> QED BY <2>1, <2>3, <3>2, <3>3 DEF Kept, Unjudged
    <2> QED BY <2>2, <2>3
  <1>2. ASSUME UNCHANGED <<host, pid, rivals>>, file'.metadata = file.metadata,
               stage[p] \in Acquiring, stage[q] \in Keeping
        PROVE  Unjudged(p, q) /\ Self(q)' = Self(q) /\ file.metadata = {Self(q)}
    <2>1. Self(q)' = Self(q)
      BY <1>2 DEF Self
    <2> QED BY <1>0, <1>2, <2>1 DEF Met, Kept
  <1>3. ASSUME UNCHANGED <<host, pid, rivals>>, file'.metadata = file.metadata,
               stage'[p] = stage[p], seen'[p] = seen[p], stage[q] \in Keeping
        PROVE  Unjudged(p, q)'
    BY <1>0, <1>2, <1>3 DEF Unjudged
  <1>4. ASSUME NEW r \in Procs, Open(r) PROVE Unjudged(p, q)'
    <2>1. PICK s \in {"read", "write"} : Goto(r, s)
      BY <1>4 DEF Open
    <2>2. r # q /\ stage[q] \in Keeping
      BY <1>0, <2>1, Others
    <2>3. file.exists
      <3>1. ASSUME ~file.exists PROVE file'.metadata = {}
        BY <1>4, <3>1 DEF Open
      <3> QED BY <1>0, <3>1
    <2>4. Goto(r, "read") /\ UNCHANGED <<host, pid, rivals, seen, file>>
      BY <1>4, <2>3 DEF Open
    <2>5. CASE r = p
      BY <2>4, <2>5, Others DEF Unjudged
    <2>6. CASE r # p
      BY <1>3, <2>2, <2>4, <2>6, Others
    <2> QED BY <2>5, <2>6
  <1>5. ASSUME NEW r \in Procs, Write(r) PROVE Unjudged(p, q)'
    <2>1. stage[r] = "write" /\ Goto(r, "hold") /\ UNCHANGED <<host, pid, rivals, seen>>
      BY <1>5 DEF Write
    <2>2. r # p /\ stage'[p] = stage[p]
      BY <1>0, <2>1, Others
    <2>3. r # q
      BY <1>0, <2>1, <2>2 DEF Mutual
    <2>4. stage'[q] = stage[q]
      BY <2>1, <2>3, Others
    <2>5. UNCHANGED file
      <3>1. ASSUME r \in file.openBy PROVE FALSE
        <4>1. file'.metadata = {Self(r)}
          BY <1>5, <3>1 DEF Write
        <4>2. Self(q)' = Self(q)
          BY <2>1 DEF Self
        <4>3. host[r] = host[q] /\ pid[r] = pid[q]
          BY <1>0, <4>1, <4>2 DEF Self
        <4> QED BY <1>0, <2>1, <2>3, <2>4, <4>3 DEF DistinctPids, Running
      <3> QED BY <1>5, <3>1 DEF Write
    <2> QED BY <1>0, <1>3, <2>1, <2>2, <2>4, <2>5
  <1>6. ASSUME NEW r \in Procs, Read(r) \/ Reread(r) PROVE Unjudged(p, q)'
    <2>1. /\ stage[r] \in {"read", "reread"} /\ UNCHANGED <<host, pid, rivals, file>>
          /\ seen' = [seen EXCEPT ![r] = file.metadata]
      BY <1>6 DEF Read, Reread
    <2>2. PICK s \in {"reread", "judge", "unlink"} :
             Goto(r, s) /\ (file.metadata # {} => s = "judge")
      BY <1>6 DEF Read, Reread
    <2>3. r # q /\ stage[q] \in Keeping
      BY <1>0, <2>2, Others
    <2>4. CASE r = p
      <3>1. file.metadata = {Self(q)} /\ Self(q)' = Self(q)
        BY <1>2, <2>1, <2>3, <2>4
      <3>2. stage'[p] = "judge" /\ seen'[p] = {Self(q)}
        BY <2>1, <2>2, <2>4, <3>1, Others DEF TypeOK
      <3> QED BY <3>1, <3>2 DEF Unjudged
    <2>5. CASE r # p
      <3>1. seen'[p] = seen[p] /\ stage'[p] = stage[p]
        BY <2>1, <2>2, <2>5, Others DEF TypeOK
      <3> QED BY <1>3, <2>1, <2>3, <3>1
    <2> QED BY <2>4, <2>5
  <1>7. ASSUME NEW r \in Procs, Judge(r) PROVE Unjudged(p, q)'
    <2>1. stage[r] = "judge" /\ UNCHANGED <<host, pid, rivals, seen, file>>
      BY <1>7 DEF Judge
    <2>2. PICK s \in {"unlink", "refused"} :
             Goto(r, s) /\ (s = "unlink" => \E m \in seen[r] : Stale(r, m))
      BY <1>7 DEF Judge
    <2>3. r # q /\ stage[q] \in Keeping
      BY <1>0, <2>2, Others
    <2>4. CASE r = p
      <3>1. seen[p] = {Self(q)}
        BY <1>2, <2>1, <2>3, <2>4 DEF Unjudged
      <3>2. \E m \in seen[p] : Stale(p, m)
        BY <1>0, <2>2, <2>4, Others
      <3>3. Stale(p, Self(q))
        BY <3>1, <3>2
      <3>4. host[p] = host[q] /\ Running(p) /\ Running(q)
        BY <1>0, <2>1, <2>3, <2>4 DEF Running
      <3> QED BY <1>0, <3>3, <3>4, NameIsGood
    <2>5. CASE r # p
      BY <1>3, <2>1, <2>2, <2>3, <2>5, Others
    <2> QED BY <2>4, <2>5
  <1>8. ASSUME NEW r \in Procs, Unlink(r) \/ ReleaseUnlinks(r) PROVE FALSE
    <2>1. file'.metadata = {}
      BY <1>8 DEF Unlink, ReleaseUnlinks, NoFile
    <2> QED BY <1>0, <2>1
  <1>9. ASSUME NEW r \in Procs, Release(r) \/ Exit(r) PROVE Unjudged(p, q)'
    <2>1. /\ file'.metadata = file.metadata
          /\ UNCHANGED <<host, pid, rivals, seen>>
      BY <1>9 DEF Release, Exit, TypeOK
    <2>2. PICK s \in {"release", "down"} : Goto(r, s) /\ (s = "release" => stage[r] = "hold")
      BY <1>9 DEF Release, Exit
    <2>3. r # p /\ stage'[p] = stage[p] /\ stage[q] \in Keeping
      BY <1>0, <2>2, Others
    <2> QED BY <1>3, <2>1, <2>3
  <1>10. ASSUME (\E n \in Pids : ProgramStarts(n)) \/ ProgramEnds \/ UNCHANGED vars
         PROVE  Unjudged(p, q)'
    <2>1. UNCHANGED <<stage, host, pid, seen, file, rivals>>
      BY <1>10 DEF ProgramStarts, ProgramEnds, vars
    <2> QED BY <1>0, <1>3, <2>1
  <1> QED BY <1>1, <1>4, <1>5, <1>6, <1>7, <1>8, <1>9, <1>10 DEF Next

TakeInv == DistinctPids /\ Mutual /\ Kept

LEMMA TakeInvHolds == Spec => []TakeInv
  <1>1. Init => TakeInv
    BY DEF Init, TakeInv, DistinctPids, Mutual, Kept, Met, Running, Acquiring, Keeping
  <1>2. TypeOK /\ TakeInv /\ [Next]_vars => TakeInv'
    BY DistinctStep, MutualStep, KeptStep DEF TakeInv
  <1> QED BY <1>1, <1>2, TypeCorrect, PTL DEF Spec

\* process-lock.ts: whatever crashes, is half written or is used again, on whichever hosts, a
\* starter takes the lock of a running process of its host only if both were acquiring at once.
THEOREM StarterTakesOnlyInARace == Spec => TakenOnlyInARace
  <1>1. ASSUME TypeOK, TakeInv, NEW p \in Procs, NEW q \in Procs,
               p # q, host[p] = host[q], IsLockOf(q), stage[p] = "unlink"
        PROVE  q \in rivals[p]
    <2>1. stage[p] \in Acquiring /\ ~Unjudged(p, q)
      BY <1>1 DEF Acquiring, Unjudged
    <2>2. CASE q \in file.openBy
      <3>1. stage[q] \in Acquiring
        BY <1>1, <2>2 DEF TypeOK, Acquiring
      <3> QED BY <1>1, <2>1, <3>1 DEF TakeInv, Mutual
    <2>3. CASE stage[q] \in Keeping /\ file.metadata = {Self(q)}
      BY <1>1, <2>1, <2>3 DEF TakeInv, Kept, Met
    <2> QED BY <1>1, <2>2, <2>3 DEF IsLockOf
  <1>2. TypeOK /\ TakeInv /\ [Next]_vars =>
           [\A p, q \in Procs :
              /\ p # q /\ host[p] = host[q] /\ IsLockOf(q)
              /\ stage[p] = "unlink" /\ ~file'.exists
              => q \in rivals[p]]_vars
    BY <1>1
  <1> QED BY <1>2, TypeCorrect, TakeInvHolds, PTL DEF Spec, TakenOnlyInARace

(***************************************************************************)
(* Who is refused.                                                         *)
(***************************************************************************)
\* A process judges only a file it could read.
Informed == \A p \in Procs : stage[p] = "judge" => seen[p] # {}

LEMMA InformedStep ==
    ASSUME TypeOK, Informed, [Next]_vars
    PROVE  Informed'
  <1> USE DEF At
  <1>1. ASSUME NEW p \in Procs, Read(p) \/ Reread(p) PROVE Informed'
    <2>1. /\ seen' = [seen EXCEPT ![p] = file.metadata]
          /\ \E s : Goto(p, s) /\ (s = "judge" => file.metadata # {})
      BY <1>1 DEF Read, Reread
    <2> QED BY <2>1, Others DEF Informed, TypeOK
  <1>2. ASSUME NEW p \in Procs, NEW s, Goto(p, s), s # "judge", UNCHANGED seen
        PROVE  Informed'
    BY <1>2, Others DEF Informed
  <1>3. ASSUME NEW p \in Procs, Boot(p) PROVE Informed'
    <2>1. Goto(p, "open") /\ \A q \in Procs : q # p => seen'[q] = seen[q]
      BY <1>3 DEF Boot, TypeOK
    <2> QED BY <2>1, Others DEF Informed
  <1>4. ASSUME NEW p \in Procs,
               Open(p) \/ Write(p) \/ Judge(p) \/ Unlink(p) \/ Release(p)
                  \/ ReleaseUnlinks(p) \/ Exit(p)
        PROVE  UNCHANGED seen /\ \E s : Goto(p, s) /\ s # "judge"
    BY <1>4 DEF Open, Write, Judge, Unlink, Release, ReleaseUnlinks, Exit
  <1>5. CASE UNCHANGED <<stage, seen>>
    BY <1>5 DEF Informed
  <1>6. ASSUME (\E n \in Pids : ProgramStarts(n)) \/ ProgramEnds \/ UNCHANGED vars
        PROVE  UNCHANGED <<stage, seen>>
    BY <1>6 DEF ProgramStarts, ProgramEnds, vars
  <1> QED BY <1>1, <1>2, <1>3, <1>4, <1>5, <1>6 DEF Next

\* The second attempt of a process without rivals finds the file gone.
Retrying ==
    \A p \in Procs :
        stage[p] \in Acquiring /\ attempt[p] = 1 /\ rivals[p] = {} =>
           stage[p] = "write" \/ (stage[p] = "open" /\ ~file.exists)

LEMMA RetryStep ==
    ASSUME TypeOK, Mutual, Retrying, [Next]_vars
    PROVE  Retrying'
  <1> SUFFICES ASSUME NEW p \in Procs, stage'[p] \in Acquiring, attempt'[p] = 1, rivals'[p] = {}
               PROVE  stage'[p] = "write" \/ (stage'[p] = "open" /\ ~file'.exists)
    BY DEF Retrying
  <1> USE DEF At, Acquiring
  <1>1. ASSUME NEW r \in Procs, Boot(r) PROVE FALSE
    <2>1. CASE r = p
      <3>1. attempt'[p] = 0
        BY <1>1, <2>1 DEF Boot, TypeOK
      <3> QED BY <3>1
    <2>2. CASE r # p
      <3>1. p \in Acquirers
        BY <1>1, <2>2, Others DEF Boot, Acquirers
      <3>2. rivals'[p] = rivals[p] \cup {r}
        BY <1>1, <2>2, <3>1 DEF Boot
      <3> QED BY <3>2
    <2> QED BY <2>1, <2>2
  <1>2. ASSUME UNCHANGED <<rivals, attempt>>, stage'[p] = stage[p],
               file'.exists => file.exists
        PROVE  stage'[p] = "write" \/ (stage'[p] = "open" /\ ~file'.exists)
    BY <1>2 DEF Retrying
  <1>3. ASSUME NEW r \in Procs, r # p, stage[r] \in Acquiring, UNCHANGED rivals,
               stage'[p] = stage[p]
        PROVE  FALSE
    BY <1>3 DEF Mutual
  <1>4. ASSUME NEW r \in Procs,
               Open(r) \/ Write(r) \/ Read(r) \/ Reread(r) \/ Judge(r) \/ Unlink(r)
        PROVE  stage'[p] = "write" \/ (stage'[p] = "open" /\ ~file'.exists)
    <2>1. stage[r] \in Acquiring /\ UNCHANGED rivals /\ \E s : Goto(r, s)
      BY <1>4 DEF Open, Write, Read, Reread, Judge, Unlink
    <2>2. r = p
      BY <1>3, <2>1, Others
    <2>3. CASE Open(p)
      <3>1. attempt[p] = 1 /\ stage[p] = "open" /\ rivals[p] = {}
        BY <2>1, <2>3 DEF Open
      <3>2. ~file.exists
        BY <3>1 DEF Retrying
      <3>3. Goto(p, "write")
        BY <2>3, <3>2 DEF Open
      <3> QED BY <3>3, Others
    <2>4. CASE Write(p)
      BY <2>4, Others DEF Write
    <2>5. CASE Read(p) \/ Reread(p) \/ Judge(p)
      <3>1. attempt[p] = 1 /\ stage[p] \in {"read", "reread", "judge"} /\ rivals[p] = {}
        BY <2>1, <2>5 DEF Read, Reread, Judge
      <3> QED BY <3>1 DEF Retrying
    <2>6. CASE Unlink(p)
      <3>1. attempt[p] = 0
        <4>1. stage[p] = "unlink" /\ rivals[p] = {}
          BY <2>1, <2>6 DEF Unlink
        <4> QED BY <4>1 DEF Retrying, TypeOK
      <3>2. Goto(p, "open") /\ file' = NoFile
        BY <2>6, <3>1 DEF Unlink
      <3> QED BY <3>2, Others DEF NoFile
    <2> QED BY <1>4, <2>2, <2>3, <2>4, <2>5, <2>6
  <1>5. ASSUME NEW r \in Procs, Release(r) \/ ReleaseUnlinks(r) \/ Exit(r)
        PROVE  stage'[p] = "write" \/ (stage'[p] = "open" /\ ~file'.exists)
    <2>1. /\ UNCHANGED <<rivals, attempt>> /\ (file'.exists => file.exists)
          /\ \E s : Goto(r, s) /\ s \notin Acquiring
      BY <1>5 DEF Release, ReleaseUnlinks, Exit, NoFile, TypeOK
    <2>2. stage'[p] = stage[p]
      BY <2>1, Others
    <2> QED BY <1>2, <2>1, <2>2
  <1>6. ASSUME (\E n \in Pids : ProgramStarts(n)) \/ ProgramEnds \/ UNCHANGED vars
        PROVE  stage'[p] = "write" \/ (stage'[p] = "open" /\ ~file'.exists)
    <2>1. UNCHANGED <<stage, attempt, file, rivals>>
      BY <1>6 DEF ProgramStarts, ProgramEnds, vars
    <2> QED BY <1>2, <2>1
  <1> QED BY <1>1, <1>4, <1>5, <1>6 DEF Next

RefuseInv == Mutual /\ Informed /\ Retrying

LEMMA RefuseInvHolds == Spec => []RefuseInv
  <1>1. Init => RefuseInv
    BY DEF Init, RefuseInv, Mutual, Informed, Retrying, Acquiring
  <1>2. TypeOK /\ RefuseInv /\ [Next]_vars => RefuseInv'
    BY MutualStep, InformedStep, RetryStep DEF RefuseInv
  <1> QED BY <1>1, <1>2, TypeCorrect, PTL DEF Spec

\* A process is refused only for another that runs or was acquiring at the same time, or for a
\* program that has taken the pid of a dead one: no crash leaves a lock that outlives its use.
THEOREM RefusalsAreJustified == Spec => RefusedForTheLiving
  <1> USE DEF At, Acquiring
  <1>1. ASSUME TypeOK, RefuseInv, Next, NEW p \in Procs,
               stage[p] # "refused", stage'[p] = "refused"
        PROVE  \/ \E q \in Procs \ {p} : Running(q) \/ q \in rivals[p]
               \/ \E m \in seen[p] : m.pid \in programs
    <2>1. Judge(p) \/ Unlink(p)
      <3>1. ASSUME NEW q \in Procs, NEW s, Goto(q, s), s # "refused" PROVE FALSE
        BY <1>1, <3>1, Others
      <3>2. ASSUME NEW q \in Procs, NEW s, Goto(q, s) PROVE q = p
        BY <1>1, <3>2, Others
      <3>3. ~((\E n \in Pids : ProgramStarts(n)) \/ ProgramEnds)
        BY <1>1 DEF ProgramStarts, ProgramEnds
      <3>4. \A q \in Procs : ~(Boot(q) \/ Open(q) \/ Write(q) \/ Read(q) \/ Reread(q)
                               \/ Release(q) \/ ReleaseUnlinks(q) \/ Exit(q))
        BY <3>1 DEF Boot, Open, Write, Read, Reread, Release, ReleaseUnlinks, Exit
      <3>5. \A q \in Procs : Judge(q) \/ Unlink(q) => q = p
        BY <3>2 DEF Judge, Unlink
      <3> QED BY <1>1, <3>3, <3>4, <3>5 DEF Next
    <2>2. CASE Unlink(p)
      <3>1. attempt[p] = 1
        <4>1. ASSUME attempt[p] = 0 PROVE FALSE
          <5>1. Goto(p, "open")
            BY <2>2, <4>1 DEF Unlink
          <5> QED BY <1>1, <5>1, Others
        <4> QED BY <1>1, <4>1 DEF TypeOK
      <3>2. rivals[p] # {}
        BY <1>1, <2>2, <3>1 DEF Unlink, RefuseInv, Retrying
      <3>3. PICK q \in rivals[p] : q \in Procs \ {p}
        BY <1>1, <3>2 DEF RefuseInv, Mutual, TypeOK
      <3> QED BY <3>3
    <2>3. CASE Judge(p)
      <3>1. stage[p] = "judge" /\ ~\E m \in seen[p] : Stale(p, m)
        <4>1. ASSUME \E m \in seen[p] : Stale(p, m) PROVE FALSE
          <5>1. Goto(p, "unlink")
            BY <2>3, <4>1 DEF Judge
          <5> QED BY <1>1, <5>1, Others
        <4> QED BY <2>3, <4>1 DEF Judge
      <3>2. PICK m \in seen[p] : m.pid # pid[p] /\ IsProcessRunning(m.host, m.pid)
        BY <1>1, <3>1 DEF Stale, RefuseInv, Informed
      <3> QED BY <3>2 DEF IsProcessRunning
    <2> QED BY <2>1, <2>2, <2>3
  <1>2. ASSUME TypeOK, RefuseInv, [Next]_vars
        PROVE  [\A p \in Procs :
                  stage[p] # "refused" /\ stage'[p] = "refused" =>
                     \/ \E q \in Procs \ {p} : Running(q) \/ q \in rivals[p]
                     \/ \E m \in seen[p] : m.pid \in programs]_vars
    BY <1>1, <1>2
  <1> QED BY <1>2, TypeCorrect, RefuseInvHolds, PTL DEF Spec, RefusedForTheLiving
=============================================================================
