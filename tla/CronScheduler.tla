--------------------------- MODULE CronScheduler ---------------------------
(***************************************************************************)
(* Scheduled jobs: RuntimeCronService (framework/cron), the CronRunner it  *)
(* calls and the cron_runs ledger the runner claims its runs in.  Procs    *)
(* are scheduler processes that share the ledger; the singleton lock keeps *)
(* them to one most of the time, the ledger is the guard when it does not. *)
(*                                                                         *)
(* A slot is due twice over: node-cron's timer fires for it, however late  *)
(* when the host sleeps, and the wall-clock poll looks for the last slot   *)
(* the process has not marked as run.                                      *)
(*                                                                         *)
(* Abstracted data.  Time is counted in polls; a schedule is the set of    *)
(* its slots.  A graph invocation with its continuations is one step that  *)
(* settles with a status.  Markers and times are None when absent.         *)
(***************************************************************************)
EXTENDS Integers

CONSTANTS
    Procs,          \* scheduler processes
    Jobs,           \* names of the defined jobs
    Slots,          \* Slots[j]: the times job j's schedule matches
    Tolerance,      \* MISSED_EXECUTION_TOLERANCE_MS
    MaxTime,        \* bound: the clock
    MaxFaults,      \* bound: ends of a process, soft recompiles and failing writes
    MaxEdits        \* bound: removals of a job by the reconciler

ASSUME ScheduleAssumption == Slots \in [Jobs -> SUBSET Nat]
ASSUME TimesAssumption    == Tolerance \in Nat \ {0} /\ MaxTime \in Nat
ASSUME FaultsAssumption   == MaxFaults \in Nat /\ MaxEdits \in Nat

VARIABLES
    now,           \* the wall clock
    up,            \* up[p]: process p runs
    activeJobs,    \* activeJobs[p]: the jobs scheduled in p
    timer,         \* timer[p][j]: the slot j's task is armed for, as a set; {} when stopped
    caughtUpSlot,  \* caughtUpSlot[p][j]: caughtUpSlotMs, the last slot marked as run
    pollNow,       \* pollNow[p]: the time p's reconcile loop read; None when idle
    visited,       \* visited[p]: the jobs that loop is done with
    callbacks,     \* the runner calls in flight
    latestRun,     \* latestRun[j]: the job's latest row of cron_runs
    ledgerOpen,    \* ledgerOpen[p]: the connection of the ledger p captured at start
    faults, edits, \* the bounded counters
    lastBegun,     \* history: the highest slot of j a run began for
    floor,         \* history: lastBegun when p started
    givenUp        \* history: givenUp[p][j]: the last slot whose claim threw in a poll of p

serviceVars == <<activeJobs, timer, caughtUpSlot, givenUp, pollNow, visited>>
runVars     == <<callbacks, latestRun, lastBegun>>
processVars == <<up, ledgerOpen, floor>>
vars == <<now, serviceVars, runVars, processVars, faults, edits>>

None == -1

Callbacks ==
    [proc : Procs, job : Jobs, slot : Nat, via : {"timer", "poll"}, stage : {"graph", "report"}]

(***************************************************************************)
(* cron-clock-jump.ts                                                      *)
(***************************************************************************)
\* findLastMatchingSlot: at most one.
LastSlots(j, t) ==
    {s \in Slots[j] : s <= t /\ t <= s + Tolerance /\ \A u \in Slots[j] : u <= t => u <= s}

\* The first slot after t, if any: findNextMatchingSlot, and what node-cron arms.
NextSlots(j, t) == {s \in Slots[j] : s > t /\ \A u \in Slots[j] : u > t => s <= u}

ShouldCatchUp(slot, nextRuns, t) ==
    /\ t - slot > 0
    /\ t - slot < Tolerance
    /\ \A n \in nextRuns : n <= slot \/ n <= t \/ t - slot < n - slot

AlreadyRanSlot(ranAt, slot) == ranAt >= slot

(***************************************************************************)
(* The ledger.                                                             *)
(***************************************************************************)
\* tryBeginRun: the unique index admits one running row per job.
CanClaim_AnyTime(p, j) == ledgerOpen[p]
CanClaim(p, j)         == ledgerOpen[p] /\ latestRun[j].status # "running"

Claim(p, j, slot, via) ==
    /\ CanClaim(p, j)
    /\ latestRun' = [latestRun EXCEPT ![j] = [status |-> "running", at |-> now]]
    /\ callbacks' = callbacks \cup
          {[proc |-> p, job |-> j, slot |-> slot, via |-> via, stage |-> "graph"]}
    /\ lastBegun' = [lastBegun EXCEPT ![j] = IF slot > @ THEN slot ELSE @]

Mark(p, j, slot) == caughtUpSlot' = [caughtUpSlot EXCEPT ![p][j] = slot]
Arm(p, j, t)     == timer' = [timer EXCEPT ![p][j] = NextSlots(j, t)]

\* Crashes, recompiles and failing writes are counted together.
Fault == faults < MaxFaults /\ faults' = faults + 1

\* A write throws on a closed connection, and on an open one when the file is busy
\* (the checkpoints and the other process write to it too) or cannot be written.
LedgerThrows(p) ==
    \/ ~ledgerOpen[p] /\ UNCHANGED faults
    \/ ledgerOpen[p] /\ Fault

(***************************************************************************)
(* The process.                                                            *)
(***************************************************************************)
Init ==
    /\ now = 0
    /\ up = [p \in Procs |-> FALSE]
    /\ activeJobs = [p \in Procs |-> {}]
    /\ timer = [p \in Procs |-> [j \in Jobs |-> {}]]
    /\ caughtUpSlot = [p \in Procs |-> [j \in Jobs |-> None]]
    /\ pollNow = [p \in Procs |-> None]
    /\ visited = [p \in Procs |-> {}]
    /\ callbacks = {}
    /\ latestRun = [j \in Jobs |-> [status |-> "none", at |-> None]]
    /\ ledgerOpen = [p \in Procs |-> FALSE]
    /\ faults = 0 /\ edits = 0
    /\ lastBegun = [j \in Jobs |-> None]
    /\ floor = [p \in Procs |-> [j \in Jobs |-> None]]
    /\ givenUp = [p \in Procs |-> [j \in Jobs |-> None]]

\* startSchedulerRuntime: the ledger is captured, every job added, and its marker
\* seeded by getLastRunAt.
Start(p) ==
    /\ ~up[p]
    /\ up' = [up EXCEPT ![p] = TRUE]
    /\ ledgerOpen' = [ledgerOpen EXCEPT ![p] = TRUE]
    /\ activeJobs' = [activeJobs EXCEPT ![p] = Jobs]
    /\ timer' = [timer EXCEPT ![p] = [j \in Jobs |-> NextSlots(j, now)]]
    /\ caughtUpSlot' = [caughtUpSlot EXCEPT ![p] = [j \in Jobs |-> latestRun[j].at]]
    /\ floor' = [floor EXCEPT ![p] = lastBegun]
    /\ UNCHANGED <<now, givenUp, pollNow, visited, runVars, faults, edits>>

\* A crash, or a shutdown: the process exits without waiting for its callbacks.
Crash(p) ==
    /\ up[p]
    /\ Fault
    /\ up' = [up EXCEPT ![p] = FALSE]
    /\ ledgerOpen' = [ledgerOpen EXCEPT ![p] = FALSE]
    /\ activeJobs' = [activeJobs EXCEPT ![p] = {}]
    /\ timer' = [timer EXCEPT ![p] = [j \in Jobs |-> {}]]
    /\ caughtUpSlot' = [caughtUpSlot EXCEPT ![p] = [j \in Jobs |-> None]]
    /\ pollNow' = [pollNow EXCEPT ![p] = None]
    /\ visited' = [visited EXCEPT ![p] = {}]
    /\ callbacks' = {c \in callbacks : c.proc # p}
    /\ floor' = [floor EXCEPT ![p] = [j \in Jobs |-> None]]
    /\ givenUp' = [givenUp EXCEPT ![p] = [j \in Jobs |-> None]]
    /\ UNCHANGED <<now, latestRun, lastBegun, edits>>

\* onBeforeRecompile closes the adapters, the ledger's connection with them, and
\* the runner keeps the ledger it captured.
Recompile(p) ==
    /\ up[p] /\ ledgerOpen[p]
    /\ Fault
    /\ ledgerOpen' = [ledgerOpen EXCEPT ![p] = FALSE]
    /\ UNCHANGED <<now, serviceVars, runVars, up, floor, edits>>

Tick ==
    /\ now < MaxTime
    /\ now' = now + 1
    /\ UNCHANGED <<serviceVars, runVars, processVars, faults, edits>>

(***************************************************************************)
(* addJob and removeJob, which the reconciler calls on an edit of          *)
(* cron-jobs.json.                                                         *)
(***************************************************************************)
RemoveJob(p, j) ==
    /\ j \in activeJobs[p]
    /\ edits < MaxEdits
    /\ edits' = edits + 1
    /\ activeJobs' = [activeJobs EXCEPT ![p] = @ \ {j}]
    /\ timer' = [timer EXCEPT ![p][j] = {}]
    /\ Mark(p, j, None)
    /\ visited' = [visited EXCEPT ![p] = @ \ {j}]
    /\ UNCHANGED <<now, givenUp, pollNow, runVars, processVars, faults>>

AddJob_Unseeded(p, j) ==
    /\ up[p] /\ j \notin activeJobs[p]
    /\ activeJobs' = [activeJobs EXCEPT ![p] = @ \cup {j}]
    /\ Arm(p, j, now)
    /\ UNCHANGED <<now, caughtUpSlot, givenUp, pollNow, visited, runVars, processVars,
                   faults, edits>>

\* getLastRunAt throws on a closed ledger, when the job is already scheduled.  Reading
\* an open one is taken to succeed: readers do not wait for the file's writers.
AddJob(p, j) ==
    /\ up[p] /\ j \notin activeJobs[p]
    /\ activeJobs' = [activeJobs EXCEPT ![p] = @ \cup {j}]
    /\ Arm(p, j, now)
    /\ IF ledgerOpen[p] /\ latestRun[j].at # None
       THEN Mark(p, j, latestRun[j].at) ELSE UNCHANGED caughtUpSlot
    /\ UNCHANGED <<now, givenUp, pollNow, visited, runVars, processVars, faults, edits>>

(***************************************************************************)
(* node-cron's timer, and the callback of cron.schedule.                   *)
(***************************************************************************)
\* A late timer runs its slot within the tolerance, if the next is not due yet.
OnTime(j, slot) == now - slot < Tolerance /\ \A n \in NextSlots(j, slot) : now < n

TimerFires_Early(p, j, slot) ==
    /\ slot \in timer[p][j]
    /\ slot <= now + 1
    /\ Arm(p, j, now)

TimerFires(p, j, slot) ==
    /\ slot \in timer[p][j]
    /\ slot <= now
    /\ Arm(p, j, now)

TimerMisses(p, j, slot) ==
    /\ TimerFires(p, j, slot) /\ ~OnTime(j, slot)
    /\ UNCHANGED <<now, activeJobs, caughtUpSlot, givenUp, pollNow, visited, runVars,
                   processVars, faults, edits>>

TimerClaims(p, j, slot) ==
    /\ TimerFires(p, j, slot) /\ OnTime(j, slot)
    /\ Claim(p, j, slot, "timer")
    /\ UNCHANGED <<now, activeJobs, caughtUpSlot, givenUp, pollNow, visited,
                   processVars, faults, edits>>

\* An overlapping run is skipped, and its slot marked all the same.
TimerOverlaps(p, j, slot) ==
    /\ TimerFires(p, j, slot) /\ OnTime(j, slot)
    /\ ledgerOpen[p] /\ ~CanClaim(p, j)
    /\ Mark(p, j, slot)
    /\ UNCHANGED <<now, activeJobs, givenUp, pollNow, visited, runVars, processVars,
                   faults, edits>>

\* tryBeginRun throws: the callback logs it before it marks the slot.
TimerThrows(p, j, slot) ==
    /\ TimerFires(p, j, slot) /\ OnTime(j, slot)
    /\ LedgerThrows(p)
    /\ UNCHANGED <<now, activeJobs, caughtUpSlot, givenUp, pollNow, visited, runVars,
                   processVars, edits>>

Timer(p, j, slot) ==
    \/ TimerMisses(p, j, slot)
    \/ TimerClaims(p, j, slot)
    \/ TimerOverlaps(p, j, slot)
    \/ TimerThrows(p, j, slot)

(***************************************************************************)
(* reconcileDueJobs: one loop at a time (catchUpInFlight), which awaits    *)
(* each run it starts.                                                     *)
(***************************************************************************)
Executing(p) == \E c \in callbacks : c.proc = p /\ c.via = "poll"

PollStarts(p) ==
    /\ up[p] /\ pollNow[p] = None
    /\ pollNow' = [pollNow EXCEPT ![p] = now]
    /\ UNCHANGED <<now, activeJobs, timer, caughtUpSlot, givenUp, visited, runVars,
                   processVars, faults, edits>>

Visits(p, j) ==
    /\ pollNow[p] # None
    /\ ~Executing(p)
    /\ j \in activeJobs[p] \ visited[p]
    /\ visited' = [visited EXCEPT ![p] = @ \cup {j}]

DueSlots(p, j) ==
    {s \in LastSlots(j, pollNow[p]) :
        /\ ~AlreadyRanSlot(caughtUpSlot[p][j], s)
        /\ ShouldCatchUp(s, NextSlots(j, s), pollNow[p])}

PollPasses(p, j) ==
    /\ Visits(p, j)
    /\ DueSlots(p, j) = {}
    /\ UNCHANGED <<now, activeJobs, timer, caughtUpSlot, givenUp, pollNow, runVars,
                   processVars, faults, edits>>

\* The task is stopped while its slot executes.
PollClaims(p, j) ==
    /\ Visits(p, j)
    /\ \E slot \in DueSlots(p, j) : Claim(p, j, slot, "poll")
    /\ timer' = [timer EXCEPT ![p][j] = {}]
    /\ UNCHANGED <<now, activeJobs, caughtUpSlot, givenUp, pollNow, processVars, faults, edits>>

\* execute() that begins nothing returns all the same, and the slot counts as run.
Skips(p, j) ==
    /\ Visits(p, j)
    /\ \E slot \in DueSlots(p, j) : Mark(p, j, slot)
    /\ Arm(p, j, now)
    /\ UNCHANGED <<now, activeJobs, pollNow, runVars, processVars, edits>>

\* The runner skips an overlapping run.
PollFindsBusy(p, j) ==
    /\ Skips(p, j)
    /\ ledgerOpen[p] /\ ~CanClaim(p, j)
    /\ UNCHANGED <<givenUp, faults>>

\* tryBeginRun throws, and the task's callback swallows it.
PollThrows(p, j) ==
    /\ Skips(p, j)
    /\ LedgerThrows(p)
    /\ givenUp' = [givenUp EXCEPT ![p][j] = caughtUpSlot'[p][j]]

PollEnds_AllVisited(p) ==
    /\ pollNow[p] # None
    /\ ~Executing(p)
    /\ Jobs \subseteq visited[p]
    /\ pollNow' = [pollNow EXCEPT ![p] = None]
    /\ visited' = [visited EXCEPT ![p] = {}]
    /\ UNCHANGED <<now, activeJobs, timer, caughtUpSlot, givenUp, runVars, processVars,
                   faults, edits>>

PollEnds(p) ==
    /\ pollNow[p] # None
    /\ ~Executing(p)
    /\ activeJobs[p] \subseteq visited[p]
    /\ pollNow' = [pollNow EXCEPT ![p] = None]
    /\ visited' = [visited EXCEPT ![p] = {}]
    /\ UNCHANGED <<now, activeJobs, timer, caughtUpSlot, givenUp, runVars, processVars,
                   faults, edits>>

Poll(p) ==
    \/ PollStarts(p)
    \/ \E j \in Jobs :
          PollPasses(p, j) \/ PollClaims(p, j) \/ PollFindsBusy(p, j) \/ PollThrows(p, j)
    \/ PollEnds(p)

(***************************************************************************)
(* CronRunner.run after the claim.                                         *)
(***************************************************************************)
Reporting(c) == [proc |-> c.proc, job |-> c.job, slot |-> c.slot, via |-> c.via, stage |-> "report"]

\* The graph settles: completeRun closes the row before the report is sent.  If it throws
\* for a run that succeeded, the catch clause closes the row as failed.
GraphSettles(c, status) ==
    /\ c.stage = "graph" /\ ledgerOpen[c.proc]
    /\ latestRun' = [latestRun EXCEPT ![c.job] = [status |-> status, at |-> now]]
    /\ callbacks' = (callbacks \ {c}) \cup {Reporting(c)}
    /\ UNCHANGED <<now, serviceVars, lastBegun, processVars, faults, edits>>

\* finally { task.start() }; the task of a job removed meanwhile is destroyed, and
\* one added again has a task of its own.
Resume_OnReport(c) ==
    timer' = IF c.via = "poll" /\ c.stage = "report" /\ c.job \in activeJobs[c.proc]
                /\ timer[c.proc][c.job] = {}
             THEN [timer EXCEPT ![c.proc][c.job] = NextSlots(c.job, now)] ELSE timer

Resume(c) ==
    timer' = IF c.via = "poll" /\ c.job \in activeJobs[c.proc] /\ timer[c.proc][c.job] = {}
             THEN [timer EXCEPT ![c.proc][c.job] = NextSlots(c.job, now)] ELSE timer

\* completeRun throws in the catch clause: the row stays open, there is no report, and
\* a poll marks the slot, whose run it takes for done.
CompletionThrows(c) ==
    /\ c.stage = "graph" /\ LedgerThrows(c.proc)
    /\ callbacks' = callbacks \ {c}
    /\ IF c.via = "poll" THEN Mark(c.proc, c.job, c.slot) ELSE UNCHANGED caughtUpSlot
    /\ Resume(c)
    /\ UNCHANGED <<now, activeJobs, givenUp, pollNow, visited, latestRun, lastBegun,
                   processVars, edits>>

\* The reporter's errors are swallowed; only then does the callback mark the slot.
ReportEnds(c) ==
    /\ c.stage = "report"
    /\ callbacks' = callbacks \ {c}
    /\ Mark(c.proc, c.job, c.slot)
    /\ Resume(c)
    /\ UNCHANGED <<now, activeJobs, givenUp, pollNow, visited, latestRun, lastBegun,
                   processVars, faults, edits>>

Settles(c) ==
    \/ \E status \in {"succeeded", "failed"} : GraphSettles(c, status)
    \/ CompletionThrows(c)
    \/ ReportEnds(c)

Next ==
    \/ Tick
    \/ \E p \in Procs :
          \/ Start(p) \/ Crash(p) \/ Recompile(p)
          \/ \E j \in Jobs : RemoveJob(p, j) \/ AddJob(p, j)
          \/ \E j \in Jobs : \E slot \in timer[p][j] : Timer(p, j, slot)
          \/ Poll(p)
    \/ \E c \in callbacks : Settles(c)

Spec == Init /\ [][Next]_vars

\* The clock advances, setInterval keeps polling, and the graph's and Telegram's
\* calls settle.  No timer is assumed to fire: a frozen host delays them at will.
FairSpec ==
    /\ Spec
    /\ WF_vars(Tick)
    /\ \A p \in Procs : WF_vars(Poll(p))
    /\ WF_vars(\E c \in callbacks : Settles(c))

(***************************************************************************)
(* Properties.                                                             *)
(***************************************************************************)
\* Every variable has its type, and times do not run ahead of the clock.
TypeOK ==
    /\ now \in 0..MaxTime
    /\ up \in [Procs -> BOOLEAN] /\ ledgerOpen \in [Procs -> BOOLEAN]
    /\ activeJobs \in [Procs -> SUBSET Jobs] /\ visited \in [Procs -> SUBSET Jobs]
    /\ timer \in [Procs -> [Jobs -> SUBSET Nat]]
    /\ caughtUpSlot \in [Procs -> [Jobs -> Nat \cup {None}]]
    /\ pollNow \in [Procs -> Nat \cup {None}]
    /\ callbacks \subseteq Callbacks
    /\ latestRun \in [Jobs -> [status : {"none", "running", "succeeded", "failed"},
                               at : Nat \cup {None}]]
    /\ lastBegun \in [Jobs -> Nat \cup {None}]
    /\ floor \in [Procs -> [Jobs -> Nat \cup {None}]]
    /\ givenUp \in [Procs -> [Jobs -> Nat \cup {None}]]
    /\ faults \in 0..MaxFaults /\ edits \in 0..MaxEdits
    /\ \A p \in Procs : pollNow[p] <= now
    /\ \A j \in Jobs : latestRun[j].at <= now
    /\ \A c \in callbacks : c.slot <= now

\* cron_runs is the overlap guard: whatever fires, in whichever process, one
\* invocation of a job is in the graph at a time.
RunsDoNotOverlap ==
    \A c, d \in callbacks :
        c.stage = "graph" /\ d.stage = "graph" /\ c.job = d.job => c = d

\* A catch-up re-arms the task it stopped, whether the run, the ledger or the report
\* failed and whatever was edited meanwhile.
NoTaskLeftStopped ==
    \A p \in Procs : \A j \in activeJobs[p] :
        timer[p][j] = {} => \E c \in callbacks : c.proc = p /\ c.job = j /\ c.via = "poll"

\* runtime-cron-service.ts: the seeded markers keep a restarted process from firing
\* again a slot, or an older one, that a run began for before it started.  ImplementsJobRuns
\* implies it; it is proved by itself.
RestartDoesNotRefire ==
    [][\A c \in callbacks' \ callbacks :
          c.stage = "graph" => c.slot > floor[c.proc][c.job]]_vars

\* Every slot of an active job is served while it is within the tolerance, though no
\* timer may fire: a run starts or ends at or after it, unless the job is removed,
\* its row was left open by a crash or by a ledger that threw when the run was over, the
\* process lost its ledger, or the ledger threw when a poll claimed the slot.  A claim
\* that throws in a timer's callback is made good by the poll.
Overdue(p, j, s) == up[p] /\ j \in activeJobs[p] /\ s < now
Orphaned(j) ==
    latestRun[j].status = "running" /\ ~\E c \in callbacks : c.job = j /\ c.stage = "graph"
Served(p, j, s) ==
    \/ latestRun[j].at >= s
    \/ Orphaned(j)
    \/ ~ledgerOpen[p]
    \/ givenUp[p][j] >= s
    \/ j \notin activeJobs[p]
    \/ now - s >= Tolerance
DueSlotsAreServed ==
    \A p \in Procs, j \in Jobs : \A s \in 0..MaxTime :
        s \in Slots[j] => (Overdue(p, j, s) ~> Served(p, j, s))

(***************************************************************************)
(* What all this is to amount to.                                          *)
(***************************************************************************)
InGraph(j) == {c \in callbacks : c.job = j /\ c.stage = "graph"}

Runs == INSTANCE JobRuns WITH
    clock   <- now,
    process <- [p \in Procs |-> IF ledgerOpen[p] THEN "up" ELSE IF up[p] THEN "cut" ELSE "down"],
    running <- [j \in Jobs |-> {[proc |-> c.proc, slot |-> c.slot] : c \in InGraph(j)}],
    blocked <- {j \in Jobs : Orphaned(j)},
    begun   <- lastBegun,
    since   <- floor,
    faults  <- faults

\* Timers, polls, the runner and cron_runs implement the sequences of runs: however they
\* interleave, a run begins only alone, on its schedule, when due and beyond what the ledger knew
\* at the start, and is closed by nobody but its own process; a row stays open after its run only
\* through a crash, a lost ledger or a write that failed, and each such write costs one run.
ImplementsJobRuns == Runs!Spec

\* README.md: the poll "checks for a due slot within 24h and runs it once".
SlotsRunOnce ==
    [][\A c \in callbacks' \ callbacks :
          c.stage = "graph" => c.slot # lastBegun[c.job]]_vars

\* README.md: the poll does not "recover jobs missed because the scheduler process
\* restarted"; ARCHITECTURE.md: a restart "starts from the next future fire only".
Down == \A p \in Procs : ~up[p]
NoRestartBackfill ==
    \A j \in Jobs : \A s \in 0..MaxTime :
        [](Down /\ faults > 0 /\ s < now => [](\A c \in callbacks : ~(c.job = j /\ c.slot = s)))
=============================================================================
