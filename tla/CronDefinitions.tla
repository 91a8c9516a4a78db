---------------------------- MODULE CronDefinitions ----------------------------
(***************************************************************************)
(* The file of cron jobs, which tools of the configuration agent change in *)
(* the bot's process, and the schedule that the scheduler's process keeps  *)
(* after it (cron-job-repository.ts, cron-job-watcher.ts and               *)
(* reconcile-runtime-cron.ts).                                             *)
(*                                                                         *)
(* A call of the bot reads and replaces the file under the file's write    *)
(* lock, and nobody else writes it, so a call is one step.  A change       *)
(* starts the watcher's timer.  Each time the timer runs out a reconcile   *)
(* reads the file and then brings the schedule in line with what it has    *)
(* read.  Nothing orders reconciles in flight: they read one after the     *)
(* other and may be applied the other way round.  To apply is one step:    *)
(* what it awaits does no input or output.                                 *)
(*                                                                         *)
(* Both processes check the targets of all jobs against the specialists    *)
(* they have at the moment, which change when they recompile.  A recompile *)
(* of the scheduler also closes the ledger that addJob reads, after it has *)
(* put the job on the schedule.                                            *)
(***************************************************************************)
EXTENDS Sequences, Naturals, SequencesExt

CONSTANTS
    Jobs,           \* names
    Agents,         \* targets
    Schedules,
    Valid,          \* the schedules that cron.schedule takes
    Blank,          \* those of white space only
    MaxEdits,       \* calls that change the file (bound)
    MaxReconciles,  \* reconciles in flight (bound)
    MaxStarts       \* starts of the scheduler's process (bound)

ASSUME ValidAssumption == Valid \subseteq Schedules /\ Blank \subseteq Schedules \ Valid

Defs == [schedule : Schedules, target : Agents, on : BOOLEAN]

VARIABLES
    jobs,       \* jobs[j]: the definition of job j in the file, as a set
    edits,      \* calls that have changed it
    botAllow,   \* the targets the bot allows
    phase,      \* the scheduler's process: "down", "start", "boot" when it has read the file,
                \* "up" when it watches the file, "half" when the bootstrap has thrown
    starts,
    allow,      \* the targets the scheduler allows
    ledger,     \* the ledger can be read
    active,     \* active[j]: the definition of job j on the schedule, as a set
    timer,      \* the watcher's timer is running
    started,    \* reconciles that have not read the file yet
    reads,      \* what the others have read, the latest last
    stale,      \* the last reconcile was applied after one that had read the file later
    threw,      \* the last reconcile threw
    missed      \* the file has changed between bootstrap's read and the watcher's start

bot == <<jobs, edits, botAllow>>
process == <<phase, starts, allow, ledger>>
watcher == <<timer, started, reads>>
vars == <<bot, process, watcher, active, stale, threw, missed>>

Listings == [Jobs -> {{}} \cup {{d} : d \in Defs}]
NoJobs == [j \in Jobs |-> {}]

Init ==
    /\ jobs \in Listings /\ edits = 0 /\ botAllow = Agents
    /\ phase = "down" /\ starts = 0 /\ allow = Agents /\ ledger = TRUE
    /\ active = NoJobs
    /\ timer = FALSE /\ started = 0 /\ reads = <<>>
    /\ stale = FALSE /\ threw = FALSE /\ missed = FALSE

\* parseCronJobs: one job that is not allowed rejects them all, those not enabled included.
Parses(l, targets) == \A j \in Jobs : \A d \in l[j] : d.target \in targets

\* persistJobs; the rename is what the watcher sees.
Persist(l) ==
    /\ edits < MaxEdits /\ edits' = edits + 1
    /\ Parses(jobs, botAllow) /\ Parses(l, botAllow)
    /\ jobs' = l
    /\ timer' = (timer \/ phase = "up")
    /\ missed' = (missed \/ phase = "boot")
    /\ UNCHANGED <<botAllow, process, started, reads, active, stale, threw>>

\* create_cron_job does not look at the schedule, and creates jobs that are enabled.
CreateJob ==
    \E j \in Jobs, s \in Schedules, a \in Agents :
        jobs[j] = {} /\ Persist([jobs EXCEPT ![j] = {[schedule |-> s, target |-> a, on |-> TRUE]}])

DeleteJob == \E j \in Jobs : jobs[j] # {} /\ Persist([jobs EXCEPT ![j] = {}])

\* The bot recompiles its graph.
BotRecompiles ==
    /\ botAllow' \in SUBSET Agents
    /\ UNCHANGED <<jobs, edits, process, watcher, active, stale, threw, missed>>

\* createSchedulerApp: the graph, then the bootstrap of the jobs.
Start ==
    /\ phase = "down" /\ starts < MaxStarts
    /\ phase' = "start" /\ starts' = starts + 1
    /\ allow' \in SUBSET Agents /\ ledger' = TRUE
    /\ UNCHANGED <<bot, watcher, active, stale, threw, missed>>

BootReads ==
    /\ phase = "start" /\ phase' = "boot" /\ missed' = FALSE
    /\ reads' = <<[jobs |-> jobs, passed |-> FALSE]>>
    /\ UNCHANGED <<bot, starts, allow, ledger, timer, started, active, stale, threw>>

\* The jobs to be scheduled.
Wanted(l) == [j \in Jobs |-> {d \in l[j] : d.on}]

\* addJob: cron.schedule may throw; getLastRunAt throws when the job is already active.
AddThrows(ds) == \E d \in ds : d.schedule \notin Valid \/ ~ledger
Added(ds) == {d \in ds : d.schedule \in Valid}

\* The active jobs that the first loop removes, some of them to add them anew.
Differing_Gone(want) == {j \in Jobs : active[j] # {} /\ want[j] = {}}
Differing(want) == {j \in Jobs : active[j] # {} /\ active[j] # want[j]}
Missing(want) == {j \in Jobs : active[j] = {} /\ want[j] # {}}

\* The loops have handled the jobs of done, and thrown at the jobs of cut.
After(want, done, cut) ==
    [j \in Jobs |-> IF j \in done THEN want[j] ELSE IF j \in cut THEN Added(want[j]) ELSE active[j]]

\* The two loops of reconcileRuntimeCron, in whatever order they meet the jobs.
Reconciled(want) ==
    LET throwing == {j \in Jobs : AddThrows(want[j])}
        first    == Differing(want)
        second   == Missing(want) \ throwing
        atFirst  == first \cap throwing
        atSecond == Missing(want) \cap throwing
    IN IF atFirst # {}
       THEN \E k \in atFirst, done \in SUBSET (first \ throwing) :
               active' = After(want, done, {k}) /\ threw' = TRUE
       ELSE IF atSecond # {}
       THEN \E k \in atSecond, done \in SUBSET second :
               active' = After(want, first \cup done, {k}) /\ threw' = TRUE
       ELSE active' = After(want, first \cup second, {}) /\ threw' = FALSE

\* validateCronJobs, of all jobs.
Validates(l) == \A j \in Jobs : \A d \in l[j] : d.target \in allow /\ d.schedule \notin Blank

\* startCronBootstrap, then the watcher's start.  What the bootstrap throws does not end
\* the process: main sets its exit code, and what is open keeps it, with the jobs added.
BootAdds ==
    /\ phase = "boot" /\ reads' = <<>>
    /\ LET l == reads[1].jobs IN
       IF Parses(l, allow) /\ Validates(l) THEN Reconciled(Wanted(l)) ELSE threw' = TRUE /\ UNCHANGED active
    /\ phase' = IF threw' THEN "half" ELSE "up"
    /\ UNCHANGED <<bot, starts, allow, ledger, timer, started, stale, missed>>

\* The scheduler recompiles its graph, which triggers no reconcile.
Recompiles ==
    /\ phase = "up"
    /\ allow' \in SUBSET Agents /\ ledger' = FALSE
    /\ UNCHANGED <<bot, phase, starts, watcher, active, stale, threw, missed>>

\* The timer's callback.
TimerAfter_Retries == threw
TimerAfter == FALSE

Fire ==
    /\ timer /\ started + Len(reads) < MaxReconciles
    /\ timer' = TimerAfter /\ started' = started + 1
    /\ UNCHANGED <<bot, process, reads, active, stale, threw, missed>>

ReadJobs ==
    /\ started > 0 /\ started' = started - 1
    /\ reads' = Append(reads, [jobs |-> jobs, passed |-> FALSE])
    /\ missed' = FALSE
    /\ UNCHANGED <<bot, process, timer, active, stale, threw>>

\* loadJobs is done: it throws, or the loops run.
Apply(i) ==
    /\ phase = "up"
    /\ LET l == reads[i].jobs IN
       IF Parses(l, allow) THEN Reconciled(Wanted(l)) ELSE threw' = TRUE /\ UNCHANGED active
    /\ stale' = reads[i].passed
    /\ reads' = RemoveAt([n \in DOMAIN reads |-> [reads[n] EXCEPT !.passed = @ \/ n < i]], i)
    /\ UNCHANGED <<bot, process, timer, started, missed>>

\* The process stops or crashes.
Stop ==
    /\ phase # "down" /\ phase' = "down" /\ active' = NoJobs
    /\ timer' = FALSE /\ started' = 0 /\ reads' = <<>>
    /\ stale' = FALSE /\ threw' = FALSE /\ missed' = FALSE
    /\ UNCHANGED <<bot, starts, allow, ledger>>

SchedulerStep == BootReads \/ BootAdds \/ Fire \/ ReadJobs \/ \E i \in DOMAIN reads : Apply(i)

Next == CreateJob \/ DeleteJob \/ BotRecompiles \/ Start \/ SchedulerStep \/ Recompiles \/ Stop

Spec == Init /\ [][Next]_vars /\ WF_vars(SchedulerStep)

(***************************************************************************)
(* Properties.                                                             *)
(***************************************************************************)
Quiet == phase = "up" /\ ~timer /\ started = 0 /\ reads = <<>>

\* When nothing is under way the schedule is that of the file, however the calls and
\* the reconciles have interleaved, across restarts, unless the last reconcile threw,
\* was overtaken, or the file changed before the watcher started.
ScheduleFollowsFile == Quiet /\ ~stale /\ ~threw /\ ~missed => active = Wanted(jobs)

\* No reconcile, applied or rejected, keeps the scheduler from coming to rest.
Settles == <>[](Quiet \/ phase \in {"down", "half"})
=============================================================================
