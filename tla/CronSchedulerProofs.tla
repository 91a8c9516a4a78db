------------------------ MODULE CronSchedulerProofs ------------------------
(***************************************************************************)
(* Theorems about CronScheduler, for any number of processes, jobs, slots  *)
(* and faults: its types, that the runs of a job do not overlap, what a    *)
(* restarted process may run, which tasks are left stopped, and that the   *)
(* scheduler implements JobRuns.                                           *)
(***************************************************************************)
EXTENDS CronScheduler, TLAPS

USE DEF None

\* Where slots come from: a schedule's slots are times, the last one is not ahead
\* of the time asked for, and the next one is.
LEMMA SlotFacts ==
    ASSUME NEW j \in Jobs, NEW t \in Int
    PROVE  /\ NextSlots(j, t) \in SUBSET Nat
           /\ \A s \in NextSlots(j, t) : s > t
           /\ \A s \in LastSlots(j, t) : s \in Nat /\ s <= t
  BY ScheduleAssumption DEF NextSlots, LastSlots

\* The poll's gap test never rejects a slot: shouldCatchUp is its tolerance test,
\* whatever the next run is.
THEOREM GapTestIsRedundant ==
    ASSUME NEW slot \in Nat, NEW t \in Nat, NEW nextRuns \in SUBSET Nat
    PROVE  ShouldCatchUp(slot, nextRuns, t) <=> t - slot > 0 /\ t - slot < Tolerance
  <1>1. ASSUME NEW n \in nextRuns PROVE n <= slot \/ n <= t \/ t - slot < n - slot
    OBVIOUS
  <1> QED BY <1>1 DEF ShouldCatchUp

(***************************************************************************)
(* Type correctness.                                                       *)
(***************************************************************************)
LEMMA TypeInit == Init => TypeOK
  BY TimesAssumption, FaultsAssumption DEF Init, TypeOK

\* A claim records a run of the present moment.
LEMMA ClaimKeepsTypes ==
    ASSUME TypeOK, NEW p \in Procs, NEW j \in Jobs, NEW slot \in Nat, slot <= now,
           NEW via \in {"timer", "poll"}, Claim(p, j, slot, via), now' = now
    PROVE  /\ latestRun' \in [Jobs -> [status : {"none", "running", "succeeded", "failed"},
                                       at : Nat \cup {None}]]
           /\ \A k \in Jobs : latestRun'[k].at <= now'
           /\ callbacks' \subseteq Callbacks
           /\ \A c \in callbacks' : c.slot <= now'
           /\ lastBegun' \in [Jobs -> Nat \cup {None}]
  <1>1. now \in Nat
    BY TimesAssumption DEF TypeOK
  <1> QED BY <1>1 DEF TypeOK, Claim, Callbacks

\* Marking a slot and arming a task keep the service's types.
LEMMA MarkKeepsTypes ==
    ASSUME TypeOK, NEW p \in Procs, NEW j \in Jobs, NEW slot \in Nat \cup {None}, Mark(p, j, slot)
    PROVE  caughtUpSlot' \in [Procs -> [Jobs -> Nat \cup {None}]]
  BY DEF TypeOK, Mark

LEMMA ArmKeepsTypes ==
    ASSUME TypeOK, NEW p \in Procs, NEW j \in Jobs, Arm(p, j, now)
    PROVE  timer' \in [Procs -> [Jobs -> SUBSET Nat]]
  <1>1. NextSlots(j, now) \in SUBSET Nat
    BY SlotFacts, TimesAssumption DEF TypeOK
  <1> QED BY <1>1 DEF TypeOK, Arm

\* Each fault is counted, up to the bound.
LEMMA FaultKeepsTypes ==
    ASSUME TypeOK, Fault \/ UNCHANGED faults
    PROVE  faults' \in 0..MaxFaults
  <1>1. faults \in 0..MaxFaults /\ faults \in Int /\ MaxFaults \in Int
    BY FaultsAssumption DEF TypeOK
  <1>2. CASE Fault
    BY <1>1, <1>2 DEF Fault
  <1> QED BY <1>1, <1>2

LEMMA TypeStep ==
    ASSUME TypeOK, [Next]_vars
    PROVE  TypeOK'
  <1> USE DEF serviceVars, runVars, processVars
  <1>1. now \in Nat /\ now \in Int
    BY TimesAssumption DEF TypeOK
  <1>2. CASE Tick
    <2>1. now' \in 0..MaxTime /\ now' = now + 1
      BY <1>1, <1>2, TimesAssumption DEF Tick, TypeOK
    <2>2. \A p \in Procs : pollNow[p] \in Int /\ pollNow[p] <= now
      BY DEF TypeOK
    <2>3. \A j \in Jobs : latestRun[j].at \in Int /\ latestRun[j].at <= now
      BY DEF TypeOK
    <2>4. \A c \in callbacks : c.slot \in Int /\ c.slot <= now
      BY DEF TypeOK, Callbacks
    <2>5. UNCHANGED <<serviceVars, runVars, processVars, faults, edits>>
      BY <1>2 DEF Tick
    <2>6. /\ \A p \in Procs : pollNow'[p] <= now'
          /\ \A j \in Jobs : latestRun'[j].at <= now'
          /\ \A c \in callbacks' : c.slot <= now'
      BY <1>1, <2>1, <2>2, <2>3, <2>4, <2>5
    <2> QED BY <2>1, <2>5, <2>6 DEF TypeOK
  <1>3. ASSUME NEW p \in Procs, Start(p) PROVE TypeOK'
    BY <1>1, <1>3, SlotFacts DEF Start, TypeOK
  <1>4. ASSUME NEW p \in Procs, Crash(p) PROVE TypeOK'
    <2>1. faults' \in 0..MaxFaults
      BY <1>4, FaultKeepsTypes DEF Crash
    <2> QED BY <1>1, <1>4, <2>1 DEF Crash, TypeOK
  <1>5. ASSUME NEW p \in Procs, Recompile(p) PROVE TypeOK'
    <2>1. faults' \in 0..MaxFaults
      BY <1>5, FaultKeepsTypes DEF Recompile
    <2> QED BY <1>5, <2>1 DEF Recompile, TypeOK
  <1>6. ASSUME NEW p \in Procs, NEW j \in Jobs, RemoveJob(p, j) PROVE TypeOK'
    BY <1>6, FaultsAssumption DEF RemoveJob, Mark, TypeOK
  <1>7. ASSUME NEW p \in Procs, NEW j \in Jobs, AddJob(p, j) PROVE TypeOK'
    <2>1. caughtUpSlot' \in [Procs -> [Jobs -> Nat \cup {None}]]
      <3>1. latestRun[j].at \in Nat \cup {None}
        BY DEF TypeOK
      <3>2. Mark(p, j, latestRun[j].at) \/ UNCHANGED caughtUpSlot
        BY <1>7 DEF AddJob
      <3> QED BY <3>1, <3>2, MarkKeepsTypes DEF TypeOK
    <2>2. timer' \in [Procs -> [Jobs -> SUBSET Nat]]
      BY <1>7, ArmKeepsTypes DEF AddJob
    <2>3. activeJobs' \in [Procs -> SUBSET Jobs]
      BY <1>7 DEF AddJob, TypeOK
    <2>4. UNCHANGED <<now, givenUp, pollNow, visited, runVars, processVars, faults, edits>>
      BY <1>7 DEF AddJob
    <2> QED BY <2>1, <2>2, <2>3, <2>4 DEF TypeOK
  <1>8. ASSUME NEW p \in Procs, NEW j \in Jobs, NEW slot \in timer[p][j], Timer(p, j, slot)
        PROVE  TypeOK'
    <2>1. slot \in Nat /\ slot <= now
      BY <1>8 DEF TypeOK, Timer, TimerMisses, TimerClaims, TimerOverlaps, TimerThrows, TimerFires
    <2>2. timer' \in [Procs -> [Jobs -> SUBSET Nat]]
      BY <1>8, ArmKeepsTypes DEF Timer, TimerMisses, TimerClaims, TimerOverlaps,
         TimerThrows, TimerFires
    <2>3. CASE TimerClaims(p, j, slot)
      <3>1. UNCHANGED <<now, activeJobs, caughtUpSlot, givenUp, pollNow, visited, processVars,
                        faults, edits>>
        BY <2>3 DEF TimerClaims
      <3>2. Claim(p, j, slot, "timer")
        BY <2>3 DEF TimerClaims
      <3> QED BY <2>1, <2>2, <3>1, <3>2, ClaimKeepsTypes DEF TypeOK
    <2>4. CASE TimerOverlaps(p, j, slot)
      <3>1. caughtUpSlot' \in [Procs -> [Jobs -> Nat \cup {None}]]
        BY <2>1, <2>4, MarkKeepsTypes DEF TimerOverlaps
      <3>2. UNCHANGED <<now, activeJobs, givenUp, pollNow, visited, runVars, processVars,
                        faults, edits>>
        BY <2>4 DEF TimerOverlaps
      <3> QED BY <2>2, <3>1, <3>2 DEF TypeOK
    <2>5. CASE TimerMisses(p, j, slot) \/ TimerThrows(p, j, slot)
      <3>1. faults' \in 0..MaxFaults
        BY <2>5, FaultKeepsTypes DEF TimerMisses, TimerThrows, LedgerThrows
      <3> QED BY <2>2, <2>5, <3>1 DEF TimerMisses, TimerThrows, TypeOK
    <2> QED BY <1>8, <2>3, <2>4, <2>5 DEF Timer
  <1>9. ASSUME NEW p \in Procs, Poll(p) PROVE TypeOK'
    <2>1. CASE PollStarts(p)
      <3>1. pollNow' = [pollNow EXCEPT ![p] = now] /\ now' = now
        BY <2>1 DEF PollStarts
      <3>2. pollNow' \in [Procs -> Nat \cup {None}] /\ \A q \in Procs : pollNow'[q] <= now'
        BY <1>1, <3>1 DEF TypeOK
      <3> QED BY <2>1, <3>2 DEF PollStarts, TypeOK
    <2>6. CASE PollEnds(p)
      <3>1. pollNow' = [pollNow EXCEPT ![p] = None] /\ now' = now
        BY <2>6 DEF PollEnds
      <3>2. pollNow' \in [Procs -> Nat \cup {None}] /\ \A q \in Procs : pollNow'[q] <= now'
        BY <1>1, <3>1 DEF TypeOK
      <3>3. visited' \in [Procs -> SUBSET Jobs]
        BY <2>6 DEF PollEnds, TypeOK
      <3> QED BY <2>6, <3>2, <3>3 DEF PollEnds, TypeOK
    <2>2. ASSUME NEW j \in Jobs, PollPasses(p, j) PROVE TypeOK'
      BY <2>2 DEF PollPasses, Visits, TypeOK
    <2>3. ASSUME NEW j \in Jobs, NEW slot \in DueSlots(p, j) PROVE slot \in Nat /\ slot <= now
      <3>1. pollNow[p] \in Int /\ pollNow[p] <= now
        BY DEF TypeOK
      <3>2. slot \in LastSlots(j, pollNow[p])
        BY DEF DueSlots
      <3>3. slot \in Nat /\ slot <= pollNow[p]
        BY <3>1, <3>2, SlotFacts
      <3> QED BY <1>1, <3>1, <3>3
    <2>4. ASSUME NEW j \in Jobs, PollClaims(p, j) PROVE TypeOK'
      <3>1. PICK slot \in DueSlots(p, j) : Claim(p, j, slot, "poll")
        BY <2>4 DEF PollClaims
      <3>2. visited' \in [Procs -> SUBSET Jobs] /\ timer' \in [Procs -> [Jobs -> SUBSET Nat]]
        BY <2>4 DEF PollClaims, Visits, TypeOK
      <3>3. UNCHANGED <<now, activeJobs, caughtUpSlot, givenUp, pollNow, processVars, faults, edits>>
        BY <2>4 DEF PollClaims
      <3> QED BY <2>3, <3>1, <3>2, <3>3, ClaimKeepsTypes DEF TypeOK
    <2>5. ASSUME NEW j \in Jobs, PollFindsBusy(p, j) \/ PollThrows(p, j) PROVE TypeOK'
      <3>1. PICK slot \in DueSlots(p, j) : Mark(p, j, slot)
        BY <2>5 DEF PollFindsBusy, PollThrows, Skips
      <3>2. caughtUpSlot' \in [Procs -> [Jobs -> Nat \cup {None}]]
        BY <2>3, <3>1, MarkKeepsTypes
      <3>3. timer' \in [Procs -> [Jobs -> SUBSET Nat]]
        BY <2>5, ArmKeepsTypes DEF PollFindsBusy, PollThrows, Skips
      <3>4. visited' \in [Procs -> SUBSET Jobs]
        <4>1. visited' = [visited EXCEPT ![p] = @ \cup {j}]
          BY <2>5 DEF PollFindsBusy, PollThrows, Skips, Visits
        <4> QED BY <4>1 DEF TypeOK
      <3>5. UNCHANGED <<now, activeJobs, pollNow, runVars, processVars, edits>>
        BY <2>5 DEF PollFindsBusy, PollThrows, Skips
      <3>6. faults' \in 0..MaxFaults
        BY <2>5, FaultKeepsTypes DEF PollFindsBusy, PollThrows, LedgerThrows
      <3>7. givenUp' \in [Procs -> [Jobs -> Nat \cup {None}]]
        <4> DEFINE given == caughtUpSlot'[p][j]
        <4>1. given \in Nat \cup {None}
          BY <3>2
        <4>2. UNCHANGED givenUp \/ givenUp' = [givenUp EXCEPT ![p][j] = given]
          BY <2>5 DEF PollFindsBusy, PollThrows
        <4>3. givenUp \in [Procs -> [Jobs -> Nat \cup {None}]]
          BY DEF TypeOK
        <4> HIDE DEF given
        <4> QED BY <4>1, <4>2, <4>3
      <3> QED BY <3>2, <3>3, <3>4, <3>5, <3>6, <3>7 DEF TypeOK
    <2> QED BY <1>9, <2>1, <2>2, <2>4, <2>5, <2>6 DEF Poll
  <1>10. ASSUME NEW c \in callbacks, Settles(c) PROVE TypeOK'
    <2>1. c \in Callbacks
      BY DEF TypeOK
    <2>2. ASSUME NEW status \in {"succeeded", "failed"}, GraphSettles(c, status) PROVE TypeOK'
      <3>1. Reporting(c) \in Callbacks /\ Reporting(c).slot = c.slot
        BY <2>1 DEF Callbacks, Reporting
      <3> QED BY <1>1, <2>1, <2>2, <3>1 DEF GraphSettles, TypeOK, Callbacks
    <2>3. ASSUME Resume(c) PROVE timer' \in [Procs -> [Jobs -> SUBSET Nat]]
      BY <1>1, <2>1, <2>3, SlotFacts DEF Resume, TypeOK, Callbacks
    <2>4. CASE CompletionThrows(c)
      <3>1. caughtUpSlot' \in [Procs -> [Jobs -> Nat \cup {None}]]
        <4>1. Mark(c.proc, c.job, c.slot) \/ UNCHANGED caughtUpSlot
          BY <2>4 DEF CompletionThrows
        <4>2. c.proc \in Procs /\ c.job \in Jobs /\ c.slot \in Nat
          BY <2>1 DEF Callbacks
        <4> QED BY <4>1, <4>2, MarkKeepsTypes DEF TypeOK
      <3>2. timer' \in [Procs -> [Jobs -> SUBSET Nat]]
        BY <2>3, <2>4 DEF CompletionThrows
      <3>3. callbacks' = callbacks \ {c}
        BY <2>4 DEF CompletionThrows
      <3>4. UNCHANGED <<now, activeJobs, givenUp, pollNow, visited, latestRun, lastBegun,
                        processVars, edits>>
        BY <2>4 DEF CompletionThrows
      <3>5. faults' \in 0..MaxFaults
        BY <2>4, FaultKeepsTypes DEF CompletionThrows, LedgerThrows
      <3> QED BY <3>1, <3>2, <3>3, <3>4, <3>5 DEF TypeOK
    <2>5. CASE ReportEnds(c)
      BY <2>1, <2>3, <2>5 DEF ReportEnds, Mark, TypeOK, Callbacks
    <2> QED BY <1>10, <2>2, <2>4, <2>5 DEF Settles
  <1>11. CASE UNCHANGED vars
    BY <1>11 DEF vars, TypeOK
  <1> QED BY <1>2, <1>3, <1>4, <1>5, <1>6, <1>7, <1>8, <1>9, <1>10, <1>11 DEF Next

\* Every reachable state is well typed, and no recorded time is ahead of the clock.
THEOREM TypeCorrect == Spec => []TypeOK
  BY TypeInit, TypeStep, PTL DEF Spec

(***************************************************************************)
(* Runs in the graph.                                                      *)
(***************************************************************************)
\* Whoever is in the graph holds the job's running row.
GraphHoldsRow ==
    \A c \in callbacks : c.stage = "graph" => latestRun[c.job].status = "running"
OverlapInv == RunsDoNotOverlap /\ GraphHoldsRow

\* A claim finds nobody in the graph for its job, and enters alone.
LEMMA ClaimKeepsRuns ==
    ASSUME TypeOK, OverlapInv, NEW p \in Procs, NEW j \in Jobs, NEW slot, NEW via,
           Claim(p, j, slot, via)
    PROVE  OverlapInv'
  <1> DEFINE new == [proc |-> p, job |-> j, slot |-> slot, via |-> via, stage |-> "graph"]
  <1>1. /\ latestRun[j].status # "running"
        /\ latestRun' = [latestRun EXCEPT ![j] = [status |-> "running", at |-> now]]
        /\ callbacks' = callbacks \cup {new}
    BY DEF Claim, CanClaim
  <1>2. \A c \in callbacks : c.stage = "graph" => c.job # j
    BY <1>1 DEF OverlapInv, GraphHoldsRow
  <1>3. \A c \in callbacks : c.job \in Jobs
    BY DEF TypeOK, Callbacks
  <1>4. RunsDoNotOverlap'
    BY <1>1, <1>2 DEF OverlapInv, RunsDoNotOverlap
  <1>5. GraphHoldsRow'
    BY <1>1, <1>2, <1>3 DEF OverlapInv, GraphHoldsRow, TypeOK
  <1> QED BY <1>4, <1>5 DEF OverlapInv

LEMMA OverlapStep ==
    ASSUME TypeOK, OverlapInv, [Next]_vars
    PROVE  OverlapInv'
  <1> USE DEF serviceVars, runVars, processVars
  <1>1. ASSUME NEW p \in Procs, NEW j \in Jobs, NEW slot \in timer[p][j], Timer(p, j, slot)
        PROVE  OverlapInv'
    <2>1. CASE TimerClaims(p, j, slot)
      BY <2>1, ClaimKeepsRuns DEF TimerClaims
    <2>2. CASE UNCHANGED runVars
      BY <2>2 DEF OverlapInv, RunsDoNotOverlap, GraphHoldsRow
    <2> QED BY <1>1, <2>1, <2>2 DEF Timer, TimerMisses, TimerOverlaps, TimerThrows
  <1>2. ASSUME NEW p \in Procs, Poll(p) PROVE OverlapInv'
    <2>1. ASSUME NEW j \in Jobs, PollClaims(p, j) PROVE OverlapInv'
      BY <2>1, ClaimKeepsRuns DEF PollClaims
    <2>2. CASE UNCHANGED runVars
      BY <2>2 DEF OverlapInv, RunsDoNotOverlap, GraphHoldsRow
    <2> QED BY <1>2, <2>1, <2>2 DEF Poll, PollStarts, PollPasses, PollFindsBusy, PollThrows,
         Skips, PollEnds
  <1>3. ASSUME NEW c \in callbacks, Settles(c) PROVE OverlapInv'
    <2>1. ASSUME NEW status \in {"succeeded", "failed"}, GraphSettles(c, status)
          PROVE  OverlapInv'
      <3>1. c.job \in Jobs /\ \A d \in callbacks : d.job \in Jobs
        BY DEF TypeOK, Callbacks
      <3>2. /\ c.stage = "graph"
            /\ callbacks' = (callbacks \ {c}) \cup {Reporting(c)}
            /\ latestRun' = [latestRun EXCEPT ![c.job] = [status |-> status, at |-> now]]
        BY <2>1 DEF GraphSettles
      <3>3. Reporting(c).stage # "graph"
        BY DEF Reporting
      <3>4. \A d \in callbacks' : d.stage = "graph" => d \in callbacks /\ d.job # c.job
        BY <3>2, <3>3 DEF OverlapInv, RunsDoNotOverlap
      <3>5. RunsDoNotOverlap'
        BY <3>4 DEF OverlapInv, RunsDoNotOverlap
      <3>6. GraphHoldsRow'
        BY <3>1, <3>2, <3>4 DEF OverlapInv, GraphHoldsRow, TypeOK
      <3> QED BY <3>5, <3>6 DEF OverlapInv
    <2>2. CASE callbacks' = callbacks \ {c} /\ UNCHANGED latestRun
      BY <2>2 DEF OverlapInv, RunsDoNotOverlap, GraphHoldsRow
    <2> QED BY <1>3, <2>1, <2>2 DEF Settles, CompletionThrows, ReportEnds
  <1>4. CASE callbacks' \subseteq callbacks /\ UNCHANGED latestRun
    BY <1>4 DEF OverlapInv, RunsDoNotOverlap, GraphHoldsRow
  <1>5. ASSUME NEW p \in Procs, NEW j \in Jobs, RemoveJob(p, j) \/ AddJob(p, j)
        PROVE  callbacks' \subseteq callbacks /\ UNCHANGED latestRun
    BY <1>5 DEF RemoveJob, AddJob
  <1>6. ASSUME NEW p \in Procs, Start(p) \/ Crash(p) \/ Recompile(p)
        PROVE  callbacks' \subseteq callbacks /\ UNCHANGED latestRun
    BY <1>6 DEF Start, Crash, Recompile
  <1>7. CASE Tick \/ UNCHANGED vars
    BY <1>4, <1>7 DEF Tick, vars
  <1> QED BY <1>1, <1>2, <1>3, <1>4, <1>5, <1>6, <1>7 DEF Next

\* cron_runs keeps one invocation of a job in the graph at a time, for any number of
\* processes, timers, polls, edits and crashes.
THEOREM RunsNeverOverlap == Spec => []RunsDoNotOverlap
  <1>1. Init => OverlapInv
    BY DEF Init, OverlapInv, RunsDoNotOverlap, GraphHoldsRow
  <1>2. OverlapInv => RunsDoNotOverlap
    BY DEF OverlapInv
  <1> QED BY <1>1, <1>2, TypeCorrect, OverlapStep, PTL DEF Spec

(***************************************************************************)
(* The invariant behind RestartDoesNotRefire.                              *)
(***************************************************************************)
\* A row of the ledger is never older than the slots begun, nor those than a floor.
Ordered ==
    \A j \in Jobs :
        /\ lastBegun[j] <= latestRun[j].at
        /\ \A p \in Procs : floor[p][j] <= lastBegun[j]

\* Only a running process holds the ledger or has callbacks.
Owned ==
    /\ \A p \in Procs : ledgerOpen[p] => up[p]
    /\ \A c \in callbacks : up[c.proc]

\* Timers are armed beyond the floor, and what runs is beyond it.
Ahead ==
    /\ \A p \in Procs, j \in Jobs : \A s \in timer[p][j] : s > floor[p][j]
    /\ \A c \in callbacks : c.slot > floor[c.proc][c.job]

\* While runs can begin, the marker of a scheduled job is at the floor or beyond.
Seeded ==
    \A p \in Procs : \A j \in activeJobs[p] :
        ledgerOpen[p] => caughtUpSlot[p][j] >= floor[p][j]

FloorInv == Ordered /\ Owned /\ Ahead /\ Seeded

\* None stands below every time.
LEMMA NoneIsLeast == ASSUME NEW t \in Nat \cup {None} PROVE None <= t /\ t >= None
  <1>1. CASE t \in Nat
    BY <1>1
  <1>2. CASE t = None
    BY <1>2
  <1> QED BY <1>1, <1>2

\* Everything compared is a number, and the floor is not ahead of the clock.
LEMMA Numbers ==
    ASSUME TypeOK, Ordered
    PROVE  /\ now \in Int
           /\ \A j \in Jobs : lastBegun[j] \in Int /\ latestRun[j].at \in Int
                              /\ latestRun[j].at <= now /\ lastBegun[j] <= now
           /\ \A p \in Procs, j \in Jobs : /\ floor[p][j] \in Int /\ caughtUpSlot[p][j] \in Int
                                           /\ floor[p][j] <= now
           /\ \A p \in Procs, j \in Jobs : \A s \in timer[p][j] : s \in Int
           /\ \A c \in callbacks : c.proc \in Procs /\ c.job \in Jobs /\ c.slot \in Int
  <1>1. now \in Int
    BY TimesAssumption DEF TypeOK
  <1>2. \A j \in Jobs : lastBegun[j] \in Int /\ latestRun[j].at \in Int /\ latestRun[j].at <= now
    BY DEF TypeOK
  <1>3. \A p \in Procs, j \in Jobs : floor[p][j] \in Int /\ caughtUpSlot[p][j] \in Int
    BY DEF TypeOK
  <1>4. ASSUME NEW j \in Jobs PROVE lastBegun[j] <= now
    <2>1. lastBegun[j] \in Int /\ latestRun[j].at \in Int /\ latestRun[j].at <= now
      BY <1>2
    <2>2. lastBegun[j] <= latestRun[j].at
      BY DEF Ordered
    <2> QED BY <1>1, <2>1, <2>2
  <1>5. ASSUME NEW p \in Procs, NEW j \in Jobs PROVE floor[p][j] <= now
    <2>1. lastBegun[j] \in Int /\ lastBegun[j] <= now
      BY <1>2, <1>4
    <2>2. floor[p][j] \in Int /\ floor[p][j] <= lastBegun[j]
      BY <1>3 DEF Ordered
    <2> QED BY <1>1, <2>1, <2>2
  <1>6. \A p \in Procs, j \in Jobs : \A s \in timer[p][j] : s \in Int
    BY DEF TypeOK
  <1>7. \A c \in callbacks : c.proc \in Procs /\ c.job \in Jobs /\ c.slot \in Int
    BY DEF TypeOK, Callbacks
  <1> QED BY <1>1, <1>2, <1>3, <1>4, <1>5, <1>6, <1>7

\* Whatever is armed now is beyond the floor.
LEMMA ArmedBeyondFloor ==
    ASSUME TypeOK, FloorInv, NEW p \in Procs, NEW j \in Jobs, NEW s \in NextSlots(j, now)
    PROVE  s > floor[p][j]
  <1>1. now \in Int /\ floor[p][j] \in Int /\ floor[p][j] <= now
    BY Numbers DEF FloorInv
  <1>2. s \in Int /\ s > now
    BY <1>1, SlotFacts
  <1> QED BY <1>1, <1>2

\* A timer's slot and a due slot are beyond the floor, of the process that runs them.
LEMMA DueBeyondFloor ==
    ASSUME TypeOK, FloorInv, NEW p \in Procs, NEW j \in Jobs
    PROVE  /\ \A s \in timer[p][j] : s > floor[p][j]
           /\ \A s \in DueSlots(p, j) :
                 j \in activeJobs[p] /\ ledgerOpen[p] => s > floor[p][j]
  <1>1. \A s \in timer[p][j] : s > floor[p][j]
    BY DEF FloorInv, Ahead
  <1>2. ASSUME NEW s \in DueSlots(p, j), j \in activeJobs[p], ledgerOpen[p]
        PROVE  s > floor[p][j]
    <2>1. pollNow[p] \in Int
      BY DEF TypeOK
    <2>2. s \in Int
      BY <2>1, SlotFacts DEF DueSlots
    <2>3. ~(caughtUpSlot[p][j] >= s)
      BY DEF DueSlots, AlreadyRanSlot
    <2>4. caughtUpSlot[p][j] >= floor[p][j]
      BY <1>2 DEF FloorInv, Seeded
    <2>5. floor[p][j] \in Int /\ caughtUpSlot[p][j] \in Int
      BY Numbers DEF FloorInv
    <2> QED BY <2>2, <2>3, <2>4, <2>5
  <1> QED BY <1>1, <1>2

\* A claim of a slot beyond the floor keeps the invariant.
LEMMA ClaimKeepsFloor ==
    ASSUME TypeOK, FloorInv, NEW p \in Procs, NEW j \in Jobs, NEW slot \in Int, NEW via,
           slot <= now, slot > floor[p][j], Claim(p, j, slot, via),
           UNCHANGED <<processVars, activeJobs, caughtUpSlot>>,
           \A q \in Procs, k \in Jobs : \A s \in timer'[q][k] : s > floor[q][k]
    PROVE  FloorInv'
  <1> USE DEF processVars
  <1>1. /\ ledgerOpen[p]
        /\ latestRun' = [latestRun EXCEPT ![j] = [status |-> "running", at |-> now]]
        /\ callbacks' = callbacks \cup
              {[proc |-> p, job |-> j, slot |-> slot, via |-> via, stage |-> "graph"]}
        /\ lastBegun' = [lastBegun EXCEPT ![j] = IF slot > @ THEN slot ELSE @]
    BY DEF Claim, CanClaim
  <1>2. lastBegun \in [Jobs -> Nat \cup {None}] /\ DOMAIN latestRun = Jobs
    BY DEF TypeOK
  <1>3. Ordered'
    <2>1. lastBegun'[j] \in Int /\ lastBegun'[j] >= lastBegun[j] /\ lastBegun'[j] <= now
      BY <1>1, <1>2, Numbers DEF FloorInv
    <2>2. latestRun'[j].at = now
      BY <1>1, <1>2
    <2>3. \A k \in Jobs : k # j => lastBegun'[k] = lastBegun[k] /\ latestRun'[k] = latestRun[k]
      BY <1>1, <1>2
    <2> QED BY <2>1, <2>2, <2>3, Numbers DEF FloorInv, Ordered
  <1>4. Owned'
    BY <1>1 DEF FloorInv, Owned
  <1>5. Ahead'
    BY <1>1 DEF FloorInv, Ahead
  <1>6. Seeded'
    BY DEF FloorInv, Seeded
  <1> QED BY <1>3, <1>4, <1>5, <1>6 DEF FloorInv

\* So does marking a slot that is at the floor or beyond.
LEMMA MarkKeepsSeeded ==
    ASSUME TypeOK, FloorInv, NEW p \in Procs, NEW j \in Jobs, NEW slot \in Int,
           ledgerOpen[p] => slot >= floor[p][j], Mark(p, j, slot),
           UNCHANGED <<processVars, activeJobs>>
    PROVE  Seeded'
  <1>1. caughtUpSlot \in [Procs -> [Jobs -> Nat \cup {None}]] /\ activeJobs \in [Procs -> SUBSET Jobs]
    BY DEF TypeOK
  <1>2. caughtUpSlot'[p][j] = slot
    BY <1>1 DEF Mark
  <1>3. \A q \in Procs, k \in Jobs : q # p \/ k # j => caughtUpSlot'[q][k] = caughtUpSlot[q][k]
    BY <1>1 DEF Mark
  <1>4. ASSUME NEW q \in Procs, NEW k \in activeJobs[q], ledgerOpen[q]
        PROVE  caughtUpSlot'[q][k] >= floor[q][k]
    BY <1>1, <1>2, <1>3, <1>4 DEF FloorInv, Seeded
  <1> QED BY <1>4 DEF Seeded, processVars

\* Arming a task keeps every timer beyond the floor.
LEMMA ArmKeepsAhead ==
    ASSUME TypeOK, FloorInv, NEW p \in Procs, NEW j \in Jobs, Arm(p, j, now)
    PROVE  \A q \in Procs, k \in Jobs : \A s \in timer'[q][k] : s > floor[q][k]
  <1>1. timer \in [Procs -> [Jobs -> SUBSET Nat]]
    BY DEF TypeOK
  <1>2. timer'[p][j] = NextSlots(j, now)
    BY <1>1 DEF Arm
  <1>3. \A q \in Procs, k \in Jobs : q # p \/ k # j => timer'[q][k] = timer[q][k]
    BY <1>1 DEF Arm
  <1>4. \A q \in Procs, k \in Jobs : \A s \in timer[q][k] : s > floor[q][k]
    BY DEF FloorInv, Ahead
  <1> QED BY <1>2, <1>3, <1>4, ArmedBeyondFloor

\* A start seeds markers, timers and the floor from the ledger.
LEMMA StartKeepsFloor ==
    ASSUME TypeOK, FloorInv, NEW p \in Procs, Start(p)
    PROVE  FloorInv'
  <1> USE DEF runVars
  <1>1. UNCHANGED <<now, callbacks, latestRun, lastBegun>> /\ ~up[p]
    BY DEF Start
  <1>2. /\ \A j \in Jobs : floor'[p][j] = lastBegun[j] /\ caughtUpSlot'[p][j] = latestRun[j].at
                           /\ timer'[p][j] = NextSlots(j, now)
        /\ \A q \in Procs : q # p => /\ floor'[q] = floor[q] /\ caughtUpSlot'[q] = caughtUpSlot[q]
                                     /\ timer'[q] = timer[q] /\ activeJobs'[q] = activeJobs[q]
                                     /\ ledgerOpen'[q] = ledgerOpen[q]
    BY DEF Start, TypeOK
  <1>3. \A c \in callbacks : c.proc # p /\ c.proc \in Procs
    BY <1>1 DEF FloorInv, Owned, TypeOK, Callbacks
  <1>4. Ordered'
    <2>1. \A j \in Jobs : lastBegun[j] <= lastBegun[j]
      BY Numbers DEF FloorInv
    <2> QED BY <1>1, <1>2, <2>1 DEF FloorInv, Ordered
  <1>5. Owned'
    BY <1>1 DEF Start, FloorInv, Owned, TypeOK
  <1>6. Ahead'
    <2>1. ASSUME NEW j \in Jobs, NEW s \in NextSlots(j, now) PROVE s > lastBegun[j]
      <3>1. now \in Int /\ lastBegun[j] \in Int /\ lastBegun[j] <= now
        BY Numbers DEF FloorInv
      <3>2. s \in Int /\ s > now
        BY <3>1, SlotFacts
      <3> QED BY <3>1, <3>2
    <2> QED BY <1>1, <1>2, <1>3, <2>1 DEF FloorInv, Ahead
  <1>7. Seeded'
    <2>1. \A j \in Jobs : latestRun[j].at >= lastBegun[j]
      BY Numbers DEF FloorInv, Ordered
    <2>2. activeJobs'[p] \subseteq Jobs /\ \A q \in Procs : activeJobs[q] \subseteq Jobs
      BY DEF Start, TypeOK
    <2>3. ASSUME NEW q \in Procs, NEW j \in activeJobs'[q], ledgerOpen'[q]
          PROVE  caughtUpSlot'[q][j] >= floor'[q][j]
      <3>1. CASE q = p
        BY <1>2, <2>1, <2>2, <3>1
      <3>2. CASE q # p
        BY <1>2, <2>3, <3>2 DEF FloorInv, Seeded
      <3> QED BY <3>1, <3>2
    <2> QED BY <2>3 DEF Seeded
  <1> QED BY <1>4, <1>5, <1>6, <1>7 DEF FloorInv

\* A crash leaves nothing of the process that could run.
LEMMA CrashKeepsFloor ==
    ASSUME TypeOK, FloorInv, NEW p \in Procs, Crash(p)
    PROVE  FloorInv'
  <1>1. /\ UNCHANGED <<now, latestRun, lastBegun>>
        /\ callbacks' = {c \in callbacks : c.proc # p}
    BY DEF Crash
  <1>2. /\ activeJobs'[p] = {} /\ \A j \in Jobs : timer'[p][j] = {} /\ floor'[p][j] = None
        /\ \A q \in Procs : q # p => /\ floor'[q] = floor[q] /\ caughtUpSlot'[q] = caughtUpSlot[q]
                                     /\ timer'[q] = timer[q] /\ activeJobs'[q] = activeJobs[q]
                                     /\ ledgerOpen'[q] = ledgerOpen[q] /\ up'[q] = up[q]
    BY DEF Crash, TypeOK
  <1>3. ~ledgerOpen'[p]
    BY DEF Crash, TypeOK
  <1>4. \A c \in callbacks : c.proc \in Procs
    BY DEF TypeOK, Callbacks
  <1>5. Ordered'
    <2>1. \A j \in Jobs : None <= lastBegun[j]
      <3>1. \A j \in Jobs : lastBegun[j] \in Nat \cup {None}
        BY DEF TypeOK
      <3> QED BY <3>1, NoneIsLeast
    <2>2. \A j \in Jobs, q \in Procs : floor'[q][j] <= lastBegun[j]
      BY <1>2, <2>1 DEF FloorInv, Ordered
    <2> QED BY <1>1, <2>2 DEF FloorInv, Ordered
  <1>6. Owned'
    BY <1>1, <1>2, <1>3, <1>4 DEF FloorInv, Owned
  <1>7. Ahead'
    BY <1>1, <1>2, <1>4 DEF FloorInv, Ahead
  <1>8. Seeded'
    BY <1>2 DEF FloorInv, Seeded
  <1> QED BY <1>5, <1>6, <1>7, <1>8 DEF FloorInv

\* A job added again has its marker seeded from the ledger while runs can begin.
LEMMA AddKeepsFloor ==
    ASSUME TypeOK, FloorInv, NEW p \in Procs, NEW j \in Jobs, AddJob(p, j)
    PROVE  FloorInv'
  <1> USE DEF runVars, processVars
  <1>1. /\ UNCHANGED <<now, callbacks, latestRun, lastBegun, ledgerOpen, floor, up>>
        /\ Arm(p, j, now)
    BY DEF AddJob
  <1>2. Ordered' /\ Owned'
    BY <1>1 DEF FloorInv, Ordered, Owned
  <1>3. Ahead'
    BY <1>1, ArmKeepsAhead DEF FloorInv, Ahead
  <1>4. Seeded'
    <2>1. /\ \A q \in Procs : activeJobs'[q] \subseteq activeJobs[q] \cup (IF q = p THEN {j} ELSE {})
          /\ \A q \in Procs, k \in Jobs :
                q # p \/ k # j => caughtUpSlot'[q][k] = caughtUpSlot[q][k]
          /\ \A q \in Procs : activeJobs[q] \subseteq Jobs
      BY DEF AddJob, TypeOK, Mark
    <2>2. ASSUME ledgerOpen[p] PROVE caughtUpSlot'[p][j] >= floor[p][j]
      <3>1. latestRun[j].at \in Int /\ floor[p][j] \in Int /\ lastBegun[j] \in Int
            /\ caughtUpSlot[p][j] \in Int
        BY Numbers DEF FloorInv
      <3>2. floor[p][j] <= lastBegun[j] /\ lastBegun[j] <= latestRun[j].at
        BY DEF FloorInv, Ordered
      <3>3. CASE latestRun[j].at # None
        <4>1. caughtUpSlot'[p][j] = latestRun[j].at
          BY <2>2, <3>3 DEF AddJob, Mark, TypeOK
        <4> QED BY <3>1, <3>2, <4>1
      <3>4. CASE latestRun[j].at = None
        <4>1. caughtUpSlot'[p][j] = caughtUpSlot[p][j] /\ caughtUpSlot[p][j] >= None
          <5>1. caughtUpSlot[p][j] \in Nat \cup {None}
            BY DEF TypeOK
          <5>2. UNCHANGED caughtUpSlot
            BY <3>4 DEF AddJob
          <5> QED BY <5>1, <5>2, NoneIsLeast
        <4>2. floor[p][j] <= None
          BY <3>1, <3>2, <3>4
        <4> QED BY <3>1, <4>1, <4>2
      <3> QED BY <3>3, <3>4
    <2>3. ASSUME NEW q \in Procs, NEW k \in activeJobs'[q], ledgerOpen[q]
          PROVE  caughtUpSlot'[q][k] >= floor[q][k]
      <3>1. CASE q = p /\ k = j
        BY <2>2, <2>3, <3>1
      <3>2. CASE ~(q = p /\ k = j)
        <4>1. k \in activeJobs[q] /\ k \in Jobs
          BY <2>1, <3>2
        <4> QED BY <2>1, <2>3, <3>2, <4>1 DEF FloorInv, Seeded
      <3> QED BY <3>1, <3>2
    <2> QED BY <1>1, <2>3 DEF Seeded
  <1> QED BY <1>2, <1>3, <1>4 DEF FloorInv

\* Steps that touch neither the runs, the processes nor the markers, and at most stop
\* tasks and forget jobs.
LEMMA QuietKeepsFloor ==
    ASSUME TypeOK, FloorInv, UNCHANGED <<runVars, up, floor>>,
           \A p \in Procs : ledgerOpen'[p] => ledgerOpen[p],
           \A p \in Procs, j \in Jobs : \A s \in timer'[p][j] : s > floor[p][j],
           \A p \in Procs : /\ activeJobs'[p] \subseteq activeJobs[p]
                            /\ \A j \in activeJobs'[p] : caughtUpSlot'[p][j] = caughtUpSlot[p][j]
    PROVE  FloorInv'
  <1> USE DEF runVars
  <1>1. Ordered' /\ Owned' /\ Ahead'
    BY DEF FloorInv, Ordered, Owned, Ahead
  <1>2. Seeded'
    BY DEF FloorInv, Seeded
  <1> QED BY <1>1, <1>2 DEF FloorInv

LEMMA TimerKeepsFloor ==
    ASSUME TypeOK, FloorInv, NEW p \in Procs, NEW j \in Jobs, NEW slot \in timer[p][j],
           Timer(p, j, slot)
    PROVE  FloorInv'
  <1> USE DEF runVars, processVars
  <1>1. /\ slot \in Int /\ slot <= now /\ slot > floor[p][j]
        /\ Arm(p, j, now)
    BY DueBeyondFloor, Numbers DEF FloorInv, Timer, TimerMisses, TimerClaims, TimerOverlaps,
       TimerThrows, TimerFires
  <1>2. \A q \in Procs, k \in Jobs : \A s \in timer'[q][k] : s > floor[q][k]
    BY <1>1, ArmKeepsAhead
  <1>3. CASE TimerClaims(p, j, slot)
    BY <1>1, <1>2, <1>3, ClaimKeepsFloor DEF TimerClaims
  <1>4. CASE TimerMisses(p, j, slot) \/ TimerThrows(p, j, slot)
    BY <1>2, <1>4, QuietKeepsFloor DEF TimerMisses, TimerThrows
  <1>5. CASE TimerOverlaps(p, j, slot)
    <2>1. /\ UNCHANGED <<activeJobs, runVars, processVars>>
          /\ Mark(p, j, slot)
      BY <1>5 DEF TimerOverlaps
    <2>2. slot >= floor[p][j]
      BY <1>1, Numbers DEF FloorInv
    <2>3. Seeded'
      BY <1>1, <2>1, <2>2, MarkKeepsSeeded
    <2>4. Ordered' /\ Owned' /\ Ahead'
      BY <1>2, <2>1 DEF FloorInv, Ordered, Owned, Ahead
    <2> QED BY <2>3, <2>4 DEF FloorInv
  <1> QED BY <1>3, <1>4, <1>5 DEF Timer

LEMMA PollKeepsFloor ==
    ASSUME TypeOK, FloorInv, NEW p \in Procs, Poll(p)
    PROVE  FloorInv'
  <1> USE DEF runVars, processVars
  <1>1. \A q \in Procs, k \in Jobs : \A s \in timer[q][k] : s > floor[q][k]
    BY DEF FloorInv, Ahead
  <1>2. CASE PollStarts(p) \/ PollEnds(p) \/ \E j \in Jobs : PollPasses(p, j)
    BY <1>1, <1>2, QuietKeepsFloor DEF PollStarts, PollEnds, PollPasses
  <1>3. ASSUME NEW j \in Jobs, NEW slot \in DueSlots(p, j), j \in activeJobs[p]
        PROVE  slot \in Int /\ slot <= now /\ (ledgerOpen[p] => slot > floor[p][j])
    <2>1. now \in Int /\ pollNow[p] \in Int /\ pollNow[p] <= now
      BY TimesAssumption DEF TypeOK
    <2>2. slot \in Int /\ slot <= pollNow[p]
      BY <2>1, SlotFacts DEF DueSlots
    <2> QED BY <1>3, <2>1, <2>2, DueBeyondFloor
  <1>4. ASSUME NEW j \in Jobs, PollClaims(p, j) PROVE FloorInv'
    <2>1. PICK slot \in DueSlots(p, j) : Claim(p, j, slot, "poll")
      BY <1>4 DEF PollClaims
    <2>2. j \in activeJobs[p] /\ ledgerOpen[p]
      BY <1>4, <2>1 DEF PollClaims, Visits, Claim, CanClaim
    <2>3. timer' = [timer EXCEPT ![p][j] = {}] /\ UNCHANGED <<activeJobs, caughtUpSlot, processVars>>
      BY <1>4 DEF PollClaims
    <2>4. \A q \in Procs, k \in Jobs : \A s \in timer'[q][k] : s > floor[q][k]
      BY <1>1, <2>3 DEF TypeOK
    <2> QED BY <1>3, <2>1, <2>2, <2>3, <2>4, ClaimKeepsFloor
  <1>5. ASSUME NEW j \in Jobs, Skips(p, j) PROVE FloorInv'
    <2>1. PICK slot \in DueSlots(p, j) : Mark(p, j, slot)
      BY <1>5 DEF Skips
    <2>2. j \in activeJobs[p] /\ Arm(p, j, now) /\ UNCHANGED <<activeJobs, runVars, processVars>>
      BY <1>5 DEF Skips, Visits
    <2>3. slot \in Int /\ (ledgerOpen[p] => slot >= floor[p][j])
      BY <1>3, <2>1, <2>2, Numbers DEF FloorInv
    <2>4. Seeded'
      BY <2>1, <2>2, <2>3, MarkKeepsSeeded
    <2>5. Ordered' /\ Owned' /\ Ahead'
      BY <2>2, ArmKeepsAhead DEF FloorInv, Ordered, Owned, Ahead
    <2> QED BY <2>4, <2>5 DEF FloorInv
  <1> QED BY <1>2, <1>4, <1>5 DEF Poll, PollFindsBusy, PollThrows

LEMMA SettleKeepsFloor ==
    ASSUME TypeOK, FloorInv, NEW c \in callbacks, Settles(c)
    PROVE  FloorInv'
  <1> USE DEF processVars
  <1>1. /\ c.proc \in Procs /\ c.job \in Jobs /\ c.slot \in Int
        /\ c.slot > floor[c.proc][c.job] /\ up[c.proc]
    BY Numbers DEF FloorInv, Ahead, Owned
  <1>2. ASSUME NEW status \in {"succeeded", "failed"}, GraphSettles(c, status) PROVE FloorInv'
    <2>1. /\ callbacks' = (callbacks \ {c}) \cup {Reporting(c)}
          /\ latestRun' = [latestRun EXCEPT ![c.job] = [status |-> status, at |-> now]]
          /\ UNCHANGED <<now, serviceVars, lastBegun, processVars>>
      BY <1>2 DEF GraphSettles
    <2>2. Reporting(c).proc = c.proc /\ Reporting(c).job = c.job /\ Reporting(c).slot = c.slot
      BY DEF Reporting
    <2>3. Ordered'
      <3>1. latestRun'[c.job].at = now /\ \A j \in Jobs : j # c.job => latestRun'[j] = latestRun[j]
        BY <1>1, <2>1 DEF TypeOK
      <3> QED BY <2>1, <3>1, Numbers DEF FloorInv, Ordered
    <2>4. Owned' /\ Ahead' /\ Seeded'
      BY <1>1, <2>1, <2>2 DEF FloorInv, Owned, Ahead, Seeded, serviceVars
    <2> QED BY <2>3, <2>4 DEF FloorInv
  <1>3. ASSUME Resume(c)
        PROVE  \A q \in Procs, k \in Jobs : \A s \in timer'[q][k] : s > floor[q][k]
    <2>1. \A q \in Procs, k \in Jobs : \A s \in timer[q][k] : s > floor[q][k]
      BY DEF FloorInv, Ahead
    <2>2. CASE timer' = timer
      BY <2>1, <2>2
    <2>3. CASE timer' = [timer EXCEPT ![c.proc][c.job] = NextSlots(c.job, now)]
      BY <1>1, <2>3, ArmKeepsAhead DEF Arm
    <2> QED BY <1>3, <2>2, <2>3 DEF Resume
  <1>4. CASE CompletionThrows(c) \/ ReportEnds(c)
    <2>1. /\ callbacks' = callbacks \ {c} /\ Resume(c)
          /\ UNCHANGED <<activeJobs, latestRun, lastBegun, processVars>>
      BY <1>4 DEF CompletionThrows, ReportEnds
    <2>2. Ordered' /\ Owned' /\ Ahead'
      BY <1>3, <2>1 DEF FloorInv, Ordered, Owned, Ahead
    <2>3. ASSUME UNCHANGED caughtUpSlot PROVE Seeded'
      BY <2>1, <2>3 DEF FloorInv, Seeded
    <2>4. ASSUME Mark(c.proc, c.job, c.slot) PROVE Seeded'
      <3>1. c.slot >= floor[c.proc][c.job]
        BY <1>1, Numbers DEF FloorInv
      <3> QED BY <1>1, <2>1, <2>4, <3>1, MarkKeepsSeeded
    <2>5. Seeded'
      BY <1>4, <2>3, <2>4 DEF CompletionThrows, ReportEnds
    <2> QED BY <2>2, <2>5 DEF FloorInv
  <1> QED BY <1>2, <1>4 DEF Settles

LEMMA FloorStep ==
    ASSUME TypeOK, FloorInv, [Next]_vars
    PROVE  FloorInv'
  <1> USE DEF serviceVars, runVars, processVars
  <1>1. \A q \in Procs, k \in Jobs : \A s \in timer[q][k] : s > floor[q][k]
    BY DEF FloorInv, Ahead
  <1>2. CASE Tick \/ UNCHANGED vars
    BY <1>1, <1>2, QuietKeepsFloor DEF Tick, vars
  <1>3. ASSUME NEW p \in Procs, Recompile(p) PROVE FloorInv'
    <2>1. ledgerOpen' = [ledgerOpen EXCEPT ![p] = FALSE]
          /\ UNCHANGED <<serviceVars, runVars, up, floor>>
      BY <1>3 DEF Recompile
    <2>2. \A q \in Procs : ledgerOpen'[q] => ledgerOpen[q]
      BY <2>1 DEF TypeOK
    <2> QED BY <1>1, <2>1, <2>2, QuietKeepsFloor
  <1>4. ASSUME NEW p \in Procs, NEW j \in Jobs, RemoveJob(p, j) PROVE FloorInv'
    <2>1. /\ timer' = [timer EXCEPT ![p][j] = {}]
          /\ caughtUpSlot' = [caughtUpSlot EXCEPT ![p][j] = None]
          /\ activeJobs' = [activeJobs EXCEPT ![p] = @ \ {j}]
          /\ UNCHANGED <<runVars, processVars>>
      BY <1>4 DEF RemoveJob, Mark
    <2>2. \A q \in Procs, k \in Jobs : \A s \in timer'[q][k] : s > floor[q][k]
      BY <1>1, <2>1 DEF TypeOK
    <2>3. \A q \in Procs : /\ activeJobs'[q] \subseteq activeJobs[q]
                           /\ \A k \in activeJobs'[q] : caughtUpSlot'[q][k] = caughtUpSlot[q][k]
      BY <2>1 DEF TypeOK
    <2> QED BY <2>1, <2>2, <2>3, QuietKeepsFloor
  <1> QED BY <1>2, <1>3, <1>4, StartKeepsFloor, CrashKeepsFloor, AddKeepsFloor, TimerKeepsFloor,
             PollKeepsFloor, SettleKeepsFloor DEF Next

LEMMA FloorInit == Init => FloorInv
  BY DEF Init, FloorInv, Ordered, Owned, Ahead, Seeded

LEMMA FloorInvHolds == Spec => []FloorInv
  BY FloorInit, TypeCorrect, FloorStep, PTL DEF Spec

(***************************************************************************)
(* The theorems.                                                           *)
(***************************************************************************)
\* A run begins only for a slot beyond the floor of the process that begins it.
LEMMA BeginsBeyondFloor ==
    ASSUME TypeOK, FloorInv, [Next]_vars, NEW c \in callbacks' \ callbacks, c.stage = "graph"
    PROVE  c.slot > floor[c.proc][c.job]
  <1> USE DEF serviceVars, runVars, processVars
  <1>1. ASSUME NEW p \in Procs, NEW j \in Jobs, NEW slot, NEW via, Claim(p, j, slot, via),
               slot > floor[p][j]
        PROVE  c.slot > floor[c.proc][c.job]
    BY <1>1 DEF Claim
  <1>2. ASSUME NEW p \in Procs, NEW j \in Jobs, NEW slot \in timer[p][j], Timer(p, j, slot)
        PROVE  c.slot > floor[c.proc][c.job]
    <2>1. TimerClaims(p, j, slot)
      BY <1>2 DEF Timer, TimerMisses, TimerOverlaps, TimerThrows
    <2> QED BY <1>1, <2>1, DueBeyondFloor DEF TimerClaims
  <1>3. ASSUME NEW p \in Procs, Poll(p) PROVE c.slot > floor[c.proc][c.job]
    <2>1. PICK j \in Jobs : PollClaims(p, j)
      BY <1>3 DEF Poll, PollStarts, PollPasses, PollFindsBusy, PollThrows,
         Skips, PollEnds
    <2>2. PICK slot \in DueSlots(p, j) : Claim(p, j, slot, "poll")
      BY <2>1 DEF PollClaims
    <2>3. j \in activeJobs[p] /\ ledgerOpen[p]
      BY <2>1, <2>2 DEF PollClaims, Visits, Claim, CanClaim
    <2> QED BY <1>1, <2>2, <2>3, DueBeyondFloor
  <1>4. ASSUME NEW d \in callbacks, Settles(d) PROVE c.slot > floor[c.proc][c.job]
    <2>1. Reporting(d).stage = "report"
      BY DEF Reporting
    <2>2. callbacks' \subseteq callbacks \cup {Reporting(d)}
      BY <1>4 DEF Settles, GraphSettles, CompletionThrows, ReportEnds
    <2> QED BY <2>1, <2>2
  <1>5. ASSUME callbacks' \subseteq callbacks PROVE FALSE
    BY <1>5
  <1>6. ~\E p \in Procs : Start(p) \/ Crash(p) \/ Recompile(p)
                          \/ \E j \in Jobs : RemoveJob(p, j) \/ AddJob(p, j)
    BY <1>5 DEF Start, Crash, Recompile, RemoveJob, AddJob
  <1>7. ~(Tick \/ UNCHANGED vars)
    BY <1>5 DEF Tick, vars
  <1> QED BY <1>2, <1>3, <1>4, <1>6, <1>7 DEF Next

\* The markers a start seeds from cron_runs keep the process, and the jobs added to it
\* later, from running again a slot a run began for before it started.
THEOREM RestartsDoNotRefire == Spec => RestartDoesNotRefire
  <1>1. TypeOK /\ FloorInv /\ [Next]_vars =>
           [\A c \in callbacks' \ callbacks :
              c.stage = "graph" => c.slot > floor[c.proc][c.job]]_vars
    BY BeginsBeyondFloor
  <1> QED BY <1>1, TypeCorrect, FloorInvHolds, PTL DEF Spec, RestartDoesNotRefire

(***************************************************************************)
(* Stopped tasks.                                                          *)
(***************************************************************************)
\* The schedules of cron expressions have no last slot.
EndlessSchedules == \A j \in Jobs, t \in Nat : NextSlots(j, t) # {}

LEMMA StoppedStep ==
    ASSUME TypeOK, NoTaskLeftStopped, EndlessSchedules, [Next]_vars
    PROVE  NoTaskLeftStopped'
  <1> USE DEF serviceVars, runVars, processVars
  <1> DEFINE CatchUp(p, j) == \E c \in callbacks : c.proc = p /\ c.job = j /\ c.via = "poll"
  <1>1. \A j \in Jobs : NextSlots(j, now) # {}
    BY TimesAssumption DEF TypeOK, EndlessSchedules
  <1>2. /\ timer \in [Procs -> [Jobs -> SUBSET Nat]]
        /\ activeJobs \in [Procs -> SUBSET Jobs]
    BY DEF TypeOK
  <1>3. CASE UNCHANGED <<activeJobs, timer>> /\ callbacks \subseteq callbacks'
    BY <1>3 DEF NoTaskLeftStopped
  <1>4. ASSUME NEW p \in Procs, NEW j \in Jobs, Arm(p, j, now), callbacks \subseteq callbacks',
               \A q \in Procs, k \in Jobs :
                  k \in activeJobs'[q] => k \in activeJobs[q] \/ (q = p /\ k = j)
        PROVE  NoTaskLeftStopped'
    <2>1. timer'[p][j] # {}
      BY <1>1, <1>2, <1>4 DEF Arm
    <2>2. \A q \in Procs, k \in Jobs : q # p \/ k # j => timer'[q][k] = timer[q][k]
      BY <1>2, <1>4 DEF Arm
    <2>3. activeJobs' \in [Procs -> SUBSET Jobs]
      BY TypeStep DEF TypeOK
    <2> QED BY <1>4, <2>1, <2>2, <2>3 DEF NoTaskLeftStopped
  <1>5. ASSUME NEW p \in Procs, Start(p) PROVE NoTaskLeftStopped'
    <2>1. /\ \A j \in Jobs : timer'[p][j] = NextSlots(j, now)
          /\ \A q \in Procs : q # p => timer'[q] = timer[q] /\ activeJobs'[q] = activeJobs[q]
          /\ activeJobs'[p] = Jobs
          /\ UNCHANGED callbacks
      BY <1>2, <1>5 DEF Start
    <2>2. \A q \in Procs, j \in Jobs :
             j \in activeJobs'[q] /\ timer'[q][j] = {} => j \in activeJobs[q] /\ timer[q][j] = {}
      BY <1>1, <2>1
    <2>3. \A q \in Procs : activeJobs'[q] \subseteq Jobs
      BY TypeStep DEF TypeOK
    <2> QED BY <2>1, <2>2, <2>3 DEF NoTaskLeftStopped
  <1>6. ASSUME NEW p \in Procs, Crash(p) PROVE NoTaskLeftStopped'
    <2>1. /\ activeJobs'[p] = {} /\ callbacks' = {c \in callbacks : c.proc # p}
          /\ \A q \in Procs : q # p => timer'[q] = timer[q] /\ activeJobs'[q] = activeJobs[q]
      BY <1>2, <1>6 DEF Crash
    <2>2. ASSUME NEW q \in Procs, NEW j \in activeJobs'[q], timer'[q][j] = {}
          PROVE  CatchUp(q, j)'
      <3>1. q # p /\ j \in activeJobs[q] /\ timer[q][j] = {}
        BY <2>1, <2>2
      <3>2. CatchUp(q, j)
        BY <3>1 DEF NoTaskLeftStopped
      <3> QED BY <2>1, <3>1, <3>2
    <2> QED BY <2>2 DEF NoTaskLeftStopped
  <1>7. ASSUME NEW p \in Procs, NEW j \in Jobs, RemoveJob(p, j) PROVE NoTaskLeftStopped'
    <2>1. UNCHANGED callbacks
      BY <1>7 DEF RemoveJob
    <2>2. \A q \in Procs, k \in Jobs :
             k \in activeJobs'[q] => k \in activeJobs[q] /\ timer'[q][k] = timer[q][k]
      BY <1>2, <1>7 DEF RemoveJob
    <2>3. \A q \in Procs : activeJobs'[q] \subseteq Jobs
      BY TypeStep DEF TypeOK
    <2> QED BY <2>1, <2>2, <2>3 DEF NoTaskLeftStopped
  <1>8. ASSUME NEW p \in Procs, NEW j \in Jobs, AddJob(p, j) PROVE NoTaskLeftStopped'
    <2>1. Arm(p, j, now) /\ UNCHANGED callbacks /\ activeJobs' = [activeJobs EXCEPT ![p] = @ \cup {j}]
      BY <1>8 DEF AddJob
    <2> QED BY <1>2, <1>4, <2>1
  <1>9. ASSUME NEW p \in Procs, NEW j \in Jobs, NEW slot \in timer[p][j], Timer(p, j, slot)
        PROVE  NoTaskLeftStopped'
    <2>1. Arm(p, j, now) /\ callbacks \subseteq callbacks' /\ UNCHANGED activeJobs
      BY <1>9 DEF Timer, TimerMisses, TimerClaims, TimerOverlaps, TimerThrows, TimerFires, Claim
    <2> QED BY <1>4, <2>1
  <1>10. ASSUME NEW p \in Procs, Poll(p) PROVE NoTaskLeftStopped'
    <2>1. CASE PollStarts(p) \/ PollEnds(p) \/ \E j \in Jobs : PollPasses(p, j)
      BY <1>3, <2>1 DEF PollStarts, PollEnds, PollPasses
    <2>2. ASSUME NEW j \in Jobs, PollClaims(p, j) PROVE NoTaskLeftStopped'
      <3>1. PICK slot \in DueSlots(p, j) : Claim(p, j, slot, "poll")
        BY <2>2 DEF PollClaims
      <3>2. callbacks \subseteq callbacks' /\ CatchUp(p, j)'
        <4> DEFINE new == [proc |-> p, job |-> j, slot |-> slot, via |-> "poll", stage |-> "graph"]
        <4>1. callbacks' = callbacks \cup {new}
          BY <3>1 DEF Claim
        <4>2. new.proc = p /\ new.job = j /\ new.via = "poll"
          OBVIOUS
        <4> HIDE DEF new
        <4> QED BY <4>1, <4>2
      <3>3. \A q \in Procs, k \in Jobs : q # p \/ k # j => timer'[q][k] = timer[q][k]
        BY <1>2, <2>2 DEF PollClaims
      <3>4. UNCHANGED activeJobs
        BY <2>2 DEF PollClaims
      <3>5. ASSUME NEW q \in Procs, NEW k \in activeJobs'[q], timer'[q][k] = {}
            PROVE  CatchUp(q, k)'
        <4>1. CASE q = p /\ k = j
          BY <3>2, <4>1
        <4>2. CASE ~(q = p /\ k = j)
          <5>1. k \in activeJobs[q] /\ timer[q][k] = {}
            BY <1>2, <3>3, <3>4, <3>5, <4>2
          <5> QED BY <3>2, <5>1 DEF NoTaskLeftStopped
        <4> QED BY <4>1, <4>2
      <3> QED BY <3>5 DEF NoTaskLeftStopped
    <2>3. ASSUME NEW j \in Jobs, Skips(p, j) PROVE NoTaskLeftStopped'
      BY <1>4, <2>3 DEF Skips
    <2> QED BY <1>10, <2>1, <2>2, <2>3 DEF Poll, PollFindsBusy, PollThrows
  <1>11. ASSUME NEW c \in callbacks, Settles(c) PROVE NoTaskLeftStopped'
    <2>1. c.proc \in Procs /\ c.job \in Jobs
      BY DEF TypeOK, Callbacks
    <2>2. ASSUME NEW status \in {"succeeded", "failed"}, GraphSettles(c, status)
          PROVE  NoTaskLeftStopped'
      <3>1. /\ callbacks' = (callbacks \ {c}) \cup {Reporting(c)}
            /\ UNCHANGED <<activeJobs, timer>>
        BY <2>2 DEF GraphSettles
      <3>2. Reporting(c).proc = c.proc /\ Reporting(c).job = c.job /\ Reporting(c).via = c.via
        BY DEF Reporting
      <3>3. ASSUME NEW p \in Procs, NEW j \in Jobs, CatchUp(p, j) PROVE CatchUp(p, j)'
        BY <3>1, <3>2, <3>3
      <3> QED BY <1>2, <3>1, <3>3 DEF NoTaskLeftStopped
    <2>3. CASE CompletionThrows(c) \/ ReportEnds(c)
      <3>1. callbacks' = callbacks \ {c} /\ Resume(c) /\ UNCHANGED activeJobs
        BY <2>3 DEF CompletionThrows, ReportEnds
      <3>2. \A p \in Procs, k \in Jobs :
               timer'[p][k] = {} => timer[p][k] = {}
        BY <1>1, <1>2, <2>1, <3>1 DEF Resume
      <3>3. c.via = "poll" /\ c.job \in activeJobs[c.proc] => timer'[c.proc][c.job] # {}
        BY <1>1, <1>2, <2>1, <3>1 DEF Resume
      <3>4. ASSUME NEW p \in Procs, NEW j \in activeJobs'[p], timer'[p][j] = {}
            PROVE  CatchUp(p, j)'
        <4>1. j \in activeJobs[p] /\ j \in Jobs /\ timer[p][j] = {}
          BY <1>2, <3>1, <3>2, <3>4
        <4>2. PICK d \in callbacks : d.proc = p /\ d.job = j /\ d.via = "poll"
          BY <4>1 DEF NoTaskLeftStopped
        <4>3. d # c
          BY <3>3, <3>4, <4>1, <4>2
        <4> QED BY <3>1, <4>2, <4>3
      <3> QED BY <3>4 DEF NoTaskLeftStopped
    <2> QED BY <1>11, <2>2, <2>3 DEF Settles
  <1>12. CASE Tick \/ (\E p \in Procs : Recompile(p)) \/ UNCHANGED vars
    BY <1>3, <1>12 DEF Tick, Recompile, vars
  <1> QED BY <1>5, <1>6, <1>7, <1>8, <1>9, <1>10, <1>11, <1>12 DEF Next

\* A catch-up re-arms the task it stopped, whatever failed meanwhile, if every schedule
\* has a next slot.
THEOREM NoTaskStaysStopped ==
    ASSUME EndlessSchedules
    PROVE  Spec => []NoTaskLeftStopped
  <1>1. Init => NoTaskLeftStopped
    BY DEF Init, NoTaskLeftStopped
  <1> QED BY <1>1, TypeCorrect, StoppedStep, PTL DEF Spec

(***************************************************************************)
(* Refinement: the steps of the scheduler are those of JobRuns.            *)
(***************************************************************************)
\* Tasks are armed for slots of their schedule.
OnSchedule == \A p \in Procs, j \in Jobs : timer[p][j] \subseteq Slots[j]

LEMMA ScheduleStep ==
    ASSUME TypeOK, OnSchedule, [Next]_vars
    PROVE  OnSchedule'
  <1> USE DEF serviceVars, runVars, processVars
  <1>1. \A j \in Jobs : NextSlots(j, now) \subseteq Slots[j]
    BY DEF NextSlots
  <1>2. timer \in [Procs -> [Jobs -> SUBSET Nat]]
    BY DEF TypeOK
  <1>3. CASE UNCHANGED timer
    BY <1>3 DEF OnSchedule
  <1>4. ASSUME NEW p \in Procs, NEW j \in Jobs, Arm(p, j, now) PROVE OnSchedule'
    BY <1>1, <1>2, <1>4 DEF Arm, OnSchedule
  <1>5. ASSUME NEW p \in Procs, NEW j \in Jobs, timer' = [timer EXCEPT ![p][j] = {}]
        PROVE  OnSchedule'
    BY <1>2, <1>5 DEF OnSchedule
  <1>6. ASSUME NEW p \in Procs, Start(p) \/ Crash(p) PROVE OnSchedule'
    BY <1>1, <1>2, <1>6 DEF Start, Crash, OnSchedule
  <1>7. ASSUME NEW p \in Procs, NEW j \in Jobs, RemoveJob(p, j) \/ AddJob(p, j) PROVE OnSchedule'
    BY <1>4, <1>5, <1>7 DEF RemoveJob, AddJob
  <1>8. ASSUME NEW p \in Procs, NEW j \in Jobs, NEW slot \in timer[p][j], Timer(p, j, slot)
        PROVE  OnSchedule'
    BY <1>4, <1>8 DEF Timer, TimerMisses, TimerClaims, TimerOverlaps, TimerThrows, TimerFires
  <1>9. ASSUME NEW p \in Procs, Poll(p) PROVE OnSchedule'
    BY <1>3, <1>4, <1>5, <1>9 DEF Poll, PollStarts, PollPasses, PollClaims, PollFindsBusy,
       PollThrows, Skips, PollEnds
  <1>10. ASSUME NEW c \in callbacks, Settles(c) PROVE OnSchedule'
    <2>1. c.proc \in Procs /\ c.job \in Jobs
      BY DEF TypeOK, Callbacks
    <2>2. CASE Resume(c)
      BY <1>3, <1>4, <2>1, <2>2 DEF Resume, Arm
    <2> QED BY <1>3, <1>10, <2>2 DEF Settles, GraphSettles, CompletionThrows, ReportEnds
  <1>11. CASE Tick \/ UNCHANGED vars \/ \E p \in Procs : Recompile(p)
    BY <1>3, <1>11 DEF Tick, vars, Recompile
  <1> QED BY <1>6, <1>7, <1>8, <1>9, <1>10, <1>11 DEF Next

RunsInv == OverlapInv /\ FloorInv /\ OnSchedule

LEMMA RunsInvHolds == Spec => []RunsInv
  <1>1. Init => RunsInv
    BY FloorInit DEF Init, RunsInv, OverlapInv, RunsDoNotOverlap, GraphHoldsRow, OnSchedule
  <1>2. TypeOK /\ RunsInv /\ [Next]_vars => RunsInv'
    BY OverlapStep, FloorStep, ScheduleStep DEF RunsInv
  <1> QED BY <1>1, <1>2, TypeCorrect, PTL DEF Spec

\* The variables of JobRuns.
RunOf(c)   == [proc |-> c.proc, slot |-> c.slot]
Running    == [j \in Jobs |-> {RunOf(c) : c \in InGraph(j)}]
Blocked    == {j \in Jobs : Orphaned(j)}
Process    == [p \in Procs |-> IF ledgerOpen[p] THEN "up" ELSE IF up[p] THEN "cut" ELSE "down"]

\* A job is blocked if its row is running and no run of it is in the graph.
LEMMA BlockedIs == \A j \in Jobs : j \in Blocked <=> latestRun[j].status = "running" /\ InGraph(j) = {}
  BY DEF Blocked, Orphaned, InGraph

\* A run in the graph is the only one of its job, and its job is not blocked.
LEMMA OnlyRun ==
    ASSUME TypeOK, OverlapInv, NEW c \in callbacks, c.stage = "graph"
    PROVE  /\ InGraph(c.job) = {c} /\ Running[c.job] = {RunOf(c)}
           /\ c.proc \in Procs /\ c.job \in Jobs
           /\ latestRun[c.job].status = "running"
  <1>1. c.proc \in Procs /\ c.job \in Jobs
    BY DEF TypeOK, Callbacks
  <1>2. InGraph(c.job) = {c}
    BY DEF OverlapInv, RunsDoNotOverlap, InGraph
  <1>3. Running[c.job] = {RunOf(c)}
    BY <1>1, <1>2 DEF Running
  <1> QED BY <1>1, <1>2, <1>3 DEF OverlapInv, GraphHoldsRow

\* What JobRuns does not see.
LEMMA Unseen ==
    ASSUME UNCHANGED <<now, up, ledgerOpen, latestRun, lastBegun, floor, faults>>,
           \A j \in Jobs : InGraph(j)' = InGraph(j)
    PROVE  UNCHANGED Runs!vars
  <1>1. UNCHANGED Process
    BY DEF Process
  <1>2. UNCHANGED Running
    BY DEF Running
  <1>3. UNCHANGED Blocked
    BY DEF Blocked, Orphaned, InGraph
  <1> QED BY <1>1, <1>2, <1>3 DEF Runs!vars, Process, Running, Blocked, RunOf

\* A claim begins a run.
LEMMA ClaimBegins ==
    ASSUME TypeOK, RunsInv, NEW p \in Procs, NEW j \in Jobs, NEW slot \in Slots[j], NEW via,
           slot > floor[p][j], slot <= now, Claim(p, j, slot, via),
           UNCHANGED <<now, processVars, faults>>
    PROVE  Runs!Begins(p, j, slot)
  <1> USE DEF processVars
  <1> DEFINE new == [proc |-> p, job |-> j, slot |-> slot, via |-> via, stage |-> "graph"]
  <1>1. /\ ledgerOpen[p] /\ latestRun[j].status # "running"
        /\ latestRun' = [latestRun EXCEPT ![j] = [status |-> "running", at |-> now]]
        /\ callbacks' = callbacks \cup {new}
        /\ lastBegun' = [lastBegun EXCEPT ![j] = IF slot > @ THEN slot ELSE @]
    BY DEF Claim, CanClaim
  <1>2. InGraph(j) = {} /\ InGraph(j)' = {new} /\ \A k \in Jobs : k # j => InGraph(k)' = InGraph(k)
    BY <1>1 DEF InGraph, RunsInv, OverlapInv, GraphHoldsRow
  <1>3. Running[j] = {} /\ j \notin Blocked /\ Process[p] = "up"
    BY <1>1, <1>2, BlockedIs DEF Running, Process
  <1>4. Running' = [Running EXCEPT ![j] = {[proc |-> p, slot |-> slot]}]
    <2>1. \A k \in Jobs : Running'[k] = IF k = j THEN {[proc |-> p, slot |-> slot]} ELSE Running[k]
      <3>1. RunOf(new) = [proc |-> p, slot |-> slot]
        BY DEF RunOf
      <3>2. Running'[j] = {RunOf(new)}
        BY <1>2 DEF Running
      <3>3. \A k \in Jobs : k # j => Running'[k] = Running[k]
        BY <1>2 DEF Running
      <3> QED BY <3>1, <3>2, <3>3
    <2>2. Running' = [k \in Jobs |-> Running'[k]]
      BY DEF Running
    <2> QED BY <2>1, <2>2 DEF Running
  <1>5. Blocked' = Blocked
    <2>1. \A k \in Jobs : k # j => latestRun'[k] = latestRun[k]
      BY <1>1 DEF TypeOK
    <2>2. \A k \in Jobs : Orphaned(k)' <=> Orphaned(k)
      BY <1>1, <1>2, <2>1 DEF Orphaned, InGraph
    <2> QED BY <2>2 DEF Blocked
  <1>6. UNCHANGED <<now, Process, floor>>
    BY DEF Process
  <1> QED BY <1>1, <1>3, <1>4, <1>5, <1>6 DEF Runs!Begins, Process, Running, Blocked, RunOf

\* A refused write is all that JobRuns sees of a claim that throws on an open ledger.
LEMMA ClaimIsRefused ==
    ASSUME NEW p \in Procs, LedgerThrows(p),
           UNCHANGED <<now, up, ledgerOpen, callbacks, latestRun, lastBegun, floor>>
    PROVE  Runs!Next \/ UNCHANGED Runs!vars
  <1>1. \A j \in Jobs : InGraph(j)' = InGraph(j)
    BY DEF InGraph
  <1>2. CASE UNCHANGED faults
    BY <1>1, <1>2, Unseen
  <1>3. CASE faults' = faults + 1
    <2>1. UNCHANGED Process
      BY DEF Process
    <2>2. UNCHANGED Running
      BY <1>1 DEF Running
    <2>3. UNCHANGED Blocked
      BY DEF Blocked, Orphaned
    <2>4. Runs!Refuses
      BY <1>3, <2>1, <2>2, <2>3 DEF Runs!Refuses, Process, Running, Blocked, RunOf
    <2> QED BY <2>4 DEF Runs!Next
  <1> QED BY <1>2, <1>3 DEF LedgerThrows, Fault

\* A graph that settles completes its run; if the row cannot be closed, it abandons it.
LEMMA SettleEnds ==
    ASSUME TypeOK, RunsInv, NEW c \in callbacks, Settles(c)
    PROVE  \/ UNCHANGED Runs!vars
           \/ Runs!Completes(c.proc, c.job) \/ Runs!Abandons(c.proc, c.job)
  <1> USE DEF processVars
  <1>1. CASE c.stage = "graph"
    <2>1. /\ InGraph(c.job) = {c} /\ Running[c.job] = {RunOf(c)} /\ latestRun[c.job].status = "running"
          /\ c.proc \in Procs /\ c.job \in Jobs
      BY <1>1, OnlyRun DEF RunsInv
    <2>2. /\ UNCHANGED <<now, up, ledgerOpen, lastBegun, floor>>
          /\ callbacks' = callbacks \ {c} \/ callbacks' = (callbacks \ {c}) \cup {Reporting(c)}
      BY <1>1 DEF Settles, GraphSettles, CompletionThrows, ReportEnds
    <2>3. InGraph(c.job)' = {} /\ \A j \in Jobs : j # c.job => InGraph(j)' = InGraph(j)
      BY <2>1, <2>2 DEF InGraph, Reporting
    <2>4. Running' = [Running EXCEPT ![c.job] = {}]
      <3>1. \A j \in Jobs : Running'[j] = IF j = c.job THEN {} ELSE Running[j]
        BY <2>3 DEF Running, RunOf
      <3>2. Running' = [j \in Jobs |-> Running'[j]]
        BY DEF Running
      <3> QED BY <3>1, <3>2 DEF Running
    <2>5. UNCHANGED <<now, Process, lastBegun, floor>>
      BY <2>2 DEF Process
    <2>6. up[c.proc] /\ \E r \in Running[c.job] : r.proc = c.proc
      BY <2>1 DEF RunsInv, FloorInv, Owned, RunOf
    <2>7. ASSUME NEW status \in {"succeeded", "failed"}, GraphSettles(c, status)
          PROVE  Runs!Completes(c.proc, c.job)
      <3>1. /\ latestRun' = [latestRun EXCEPT ![c.job] = [status |-> status, at |-> now]]
            /\ ledgerOpen[c.proc] /\ UNCHANGED faults
        BY <2>7 DEF GraphSettles
      <3>2. \A j \in Jobs : latestRun'[j].status = IF j = c.job THEN status ELSE latestRun[j].status
        BY <3>1 DEF TypeOK
      <3>3. \A j \in Jobs : Orphaned(j)' <=> Orphaned(j)
        BY <2>1, <2>3, <3>2 DEF Orphaned, InGraph
      <3>4. Blocked' = Blocked /\ Process[c.proc] = "up"
        BY <2>1, <3>1, <3>3 DEF Blocked, Process
      <3> QED BY <2>4, <2>5, <2>6, <3>1, <3>4 DEF Runs!Completes, Runs!RunBy, Process, Running, Blocked, RunOf
    <2>8. CASE CompletionThrows(c)
      <3>1. /\ UNCHANGED latestRun
            /\ \/ ~ledgerOpen[c.proc] /\ UNCHANGED faults
               \/ ledgerOpen[c.proc] /\ faults' = faults + 1
        BY <2>8 DEF CompletionThrows, LedgerThrows, Fault
      <3>2. \A j \in Jobs : Orphaned(j)' <=> Orphaned(j) \/ j = c.job
        BY <2>1, <2>3, <3>1 DEF Orphaned, InGraph
      <3>3. Blocked' = Blocked \cup {c.job}
        BY <2>1, <3>2 DEF Blocked
      <3>4. \/ Process[c.proc] = "cut" /\ UNCHANGED faults
            \/ Process[c.proc] = "up" /\ faults' = faults + 1
        BY <2>1, <2>6, <3>1 DEF Process
      <3> QED BY <2>4, <2>5, <2>6, <3>3, <3>4 DEF Runs!Abandons, Runs!RunBy, Process, Running, Blocked, RunOf
    <2> QED BY <1>1, <2>7, <2>8 DEF Settles, ReportEnds
  <1>2. CASE c.stage # "graph"
    <2>1. /\ callbacks' = callbacks \ {c}
          /\ UNCHANGED <<now, up, ledgerOpen, latestRun, lastBegun, floor, faults>>
      BY <1>2 DEF Settles, GraphSettles, CompletionThrows, ReportEnds
    <2>2. \A j \in Jobs : InGraph(j)' = InGraph(j)
      BY <1>2, <2>1 DEF InGraph
    <2> QED BY <2>1, <2>2, Unseen
  <1> QED BY <1>1, <1>2

\* A crash stops the process, and blocks the jobs it was running.
LEMMA CrashStops ==
    ASSUME TypeOK, RunsInv, NEW p \in Procs, Crash(p)
    PROVE  Runs!Stops(p)
  <1>1. /\ up[p] /\ callbacks' = {c \in callbacks : c.proc # p}
        /\ UNCHANGED <<now, latestRun, lastBegun>>
        /\ floor' = [floor EXCEPT ![p] = [j \in Jobs |-> -1]]
        /\ faults' = faults + 1
    BY DEF Crash, Fault
  <1>2. Process[p] # "down" /\ Process' = [Process EXCEPT ![p] = "down"]
    BY DEF Crash, Process, TypeOK
  <1>3. \A j \in Jobs : InGraph(j)' = {c \in InGraph(j) : c.proc # p}
    BY <1>1 DEF InGraph
  <1>4. Running' = [j \in Jobs |-> {r \in Running[j] : r.proc # p}]
    <2>1. \A j \in Jobs : {RunOf(c) : c \in InGraph(j)'} = {r \in {RunOf(c) : c \in InGraph(j)} : r.proc # p}
      BY <1>3 DEF RunOf
    <2> QED BY <2>1 DEF Running, RunOf
  <1>5. \A j \in Jobs : j \in Blocked' <=> j \in Blocked \/ \E r \in Running[j] : r.proc = p
    <2>1. \A j \in Jobs : \A c \in InGraph(j) : InGraph(j) = {c} /\ Running[j] = {RunOf(c)} /\ latestRun[j].status = "running"
      BY OnlyRun DEF InGraph, RunsInv
    <2>2. \A j \in Jobs : InGraph(j) = {} => Running[j] = {}
      BY DEF Running
    <2>3. \A j \in Jobs : j \in Blocked' <=> latestRun[j].status = "running" /\ InGraph(j)' = {}
      BY <1>1 DEF Blocked, Orphaned, InGraph
    <2>4. ASSUME NEW j \in Jobs, NEW c \in InGraph(j)
          PROVE  (\E r \in Running[j] : r.proc = p) <=> InGraph(j)' = {}
      <3>0. Running[j] = {RunOf(c)} /\ RunOf(c).proc = c.proc
        BY <2>1, <2>4 DEF RunOf
      <3>1. (\E r \in Running[j] : r.proc = p) <=> c.proc = p
        BY <3>0
      <3>2. InGraph(j)' = {} <=> c.proc = p
        BY <1>3, <2>1, <2>4
      <3> QED BY <3>1, <3>2
    <2> QED BY <1>3, <2>1, <2>2, <2>3, <2>4, BlockedIs
  <1>6. Blocked' = Blocked \cup {j \in Jobs : \E r \in Running[j] : r.proc = p}
    BY <1>5 DEF Blocked
  <1> QED BY <1>1, <1>2, <1>4, <1>6
          DEF Runs!Stops, Runs!RunBy, Runs!Unknown, Process, Running, Blocked, RunOf

LEMMA RunsInit == Init => Runs!Init
  BY DEF Init, Runs!Init, Runs!Unknown, InGraph, Orphaned

\* Every step is one of JobRuns or none.
LEMMA RunsNext == TypeOK /\ RunsInv /\ [Next]_vars => [Runs!Next]_(Runs!vars)
  <1> SUFFICES ASSUME TypeOK, RunsInv, [Next]_vars PROVE Runs!Next \/ UNCHANGED Runs!vars
    OBVIOUS
  <1> USE DEF serviceVars, runVars, processVars
  <1>1. CASE UNCHANGED <<now, up, ledgerOpen, latestRun, lastBegun, floor, faults, callbacks>>
    BY <1>1, Unseen DEF InGraph
  <1>2. CASE Tick
    <2>1. now' = now + 1
          /\ UNCHANGED <<callbacks, latestRun, lastBegun, up, ledgerOpen, floor, faults>>
      BY <1>2 DEF Tick
    <2>2. UNCHANGED <<Process, Running, Blocked>>
      BY <2>1 DEF Process, Running, Blocked, RunOf, InGraph, Orphaned
    <2>3. Runs!Ticks
      BY <2>1, <2>2 DEF Runs!Ticks, Process, Running, Blocked, RunOf
    <2> QED BY <2>3 DEF Runs!Next
  <1>3. ASSUME NEW p \in Procs, Start(p) PROVE Runs!Next
    <2>1. /\ ~up[p] /\ ~ledgerOpen[p] /\ floor' = [floor EXCEPT ![p] = lastBegun]
          /\ UNCHANGED <<now, callbacks, latestRun, lastBegun, faults>>
      BY <1>3 DEF Start, RunsInv, FloorInv, Owned
    <2>2. Process[p] = "down" /\ Process' = [Process EXCEPT ![p] = "up"]
      BY <1>3, <2>1 DEF Start, Process, TypeOK
    <2>3. UNCHANGED <<Running, Blocked>>
      BY <2>1 DEF Running, Blocked, RunOf, InGraph, Orphaned
    <2>4. Runs!Starts(p)
      BY <2>1, <2>2, <2>3 DEF Runs!Starts, Process, Running, Blocked, RunOf
    <2> QED BY <2>4 DEF Runs!Next
  <1>4. ASSUME NEW p \in Procs, Crash(p) PROVE Runs!Next
    BY <1>4, CrashStops DEF Runs!Next
  <1>5. ASSUME NEW p \in Procs, Recompile(p) PROVE Runs!Next
    <2>1. /\ up[p] /\ ledgerOpen[p] /\ ledgerOpen' = [ledgerOpen EXCEPT ![p] = FALSE]
          /\ UNCHANGED <<now, up, callbacks, latestRun, lastBegun, floor>> /\ faults' = faults + 1
      BY <1>5 DEF Recompile, Fault
    <2>2. Process[p] = "up" /\ Process' = [Process EXCEPT ![p] = "cut"]
      BY <2>1 DEF Process, TypeOK
    <2>3. UNCHANGED <<Running, Blocked>>
      BY <2>1 DEF Running, Blocked, RunOf, InGraph, Orphaned
    <2>4. Runs!IsCut(p)
      BY <2>1, <2>2, <2>3 DEF Runs!IsCut, Process, Running, Blocked, RunOf
    <2> QED BY <2>4 DEF Runs!Next
  <1>6. ASSUME NEW p \in Procs, NEW j \in Jobs, RemoveJob(p, j) \/ AddJob(p, j)
        PROVE  UNCHANGED Runs!vars
    BY <1>1, <1>6, Unseen DEF RemoveJob, AddJob, InGraph
  <1>7. ASSUME NEW p \in Procs, NEW j \in Jobs, NEW slot \in timer[p][j], Timer(p, j, slot)
        PROVE  Runs!Next \/ UNCHANGED Runs!vars
    <2>1. CASE TimerClaims(p, j, slot)
      <3>1. /\ Claim(p, j, slot, "timer") /\ slot <= now
            /\ UNCHANGED <<now, processVars, faults>>
        BY <2>1 DEF TimerClaims, TimerFires
      <3>2. slot > floor[p][j] /\ slot \in Slots[j]
        BY DueBeyondFloor DEF RunsInv, OnSchedule
      <3> QED BY <3>1, <3>2, ClaimBegins DEF Runs!Next
    <2>2. CASE TimerMisses(p, j, slot) \/ TimerOverlaps(p, j, slot)
      BY <2>2, <1>1, Unseen DEF TimerMisses, TimerOverlaps, InGraph
    <2>3. CASE TimerThrows(p, j, slot)
      BY <2>3, ClaimIsRefused DEF TimerThrows
    <2> QED BY <1>7, <2>1, <2>2, <2>3 DEF Timer
  <1>8. ASSUME NEW p \in Procs, Poll(p) PROVE Runs!Next \/ UNCHANGED Runs!vars
    <2>1. ASSUME NEW j \in Jobs, PollClaims(p, j) PROVE Runs!Next
      <3>1. PICK slot \in DueSlots(p, j) : Claim(p, j, slot, "poll")
        BY <2>1 DEF PollClaims
      <3>2. j \in activeJobs[p] /\ ledgerOpen[p] /\ UNCHANGED <<now, processVars, faults>>
        BY <2>1, <3>1 DEF PollClaims, Visits, Claim, CanClaim
      <3>3. slot > floor[p][j]
        BY <3>2, DueBeyondFloor DEF RunsInv
      <3>4. slot \in LastSlots(j, pollNow[p]) /\ pollNow[p] \in Int /\ pollNow[p] <= now /\ now \in Int
        BY TimesAssumption DEF DueSlots, TypeOK
      <3>5. slot \in Slots[j] /\ slot \in Int /\ slot <= pollNow[p]
        BY <3>4, SlotFacts DEF LastSlots
      <3> QED BY <3>1, <3>2, <3>3, <3>4, <3>5, ClaimBegins DEF Runs!Next
    <2>2. CASE PollStarts(p) \/ PollEnds(p) \/ \E j \in Jobs : PollPasses(p, j) \/ PollFindsBusy(p, j)
      BY <2>2, <1>1 DEF PollStarts, PollEnds, PollPasses, PollFindsBusy, Skips
    <2>3. ASSUME NEW j \in Jobs, PollThrows(p, j) PROVE Runs!Next \/ UNCHANGED Runs!vars
      BY <2>3, ClaimIsRefused DEF PollThrows, Skips
    <2> QED BY <1>8, <2>1, <2>2, <2>3 DEF Poll
  <1>9. ASSUME NEW c \in callbacks, Settles(c) PROVE Runs!Next \/ UNCHANGED Runs!vars
    <2>1. c.proc \in Procs /\ c.job \in Jobs
      BY DEF TypeOK, Callbacks
    <2> QED BY <1>9, <2>1, SettleEnds DEF Runs!Next
  <1> QED BY <1>1, <1>2, <1>3, <1>4, <1>5, <1>6, <1>7, <1>8, <1>9 DEF Next, vars

\* cron-run-ledger.ts, cron-runner.ts, runtime-cron-service.ts: for any number of processes, jobs,
\* edits, recompiles, crashes and failing writes, the timers and the polls begin the runs of JobRuns and no others.
THEOREM SchedulerImplementsJobRuns == Spec => ImplementsJobRuns
  <1>1. Spec => Runs!Init /\ [][Runs!Next]_(Runs!vars)
    BY RunsInit, RunsNext, TypeCorrect, RunsInvHolds, PTL DEF Spec
  <1> QED BY <1>1 DEF ImplementsJobRuns, Runs!Spec

=============================================================================
