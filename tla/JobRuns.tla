------------------------------ MODULE JobRuns ------------------------------
(***************************************************************************)
(* What the scheduler promises of its jobs, whichever of its processes'    *)
(* timers and polls fires: a job is a sequence of runs that do not         *)
(* overlap, each for a slot of its schedule that is due and that no run    *)
(* had begun for when the process started; a run is closed by its own      *)
(* process; and a run cut off by a crash, a lost ledger or a write of the  *)
(* ledger that fails blocks the job.                                       *)
(***************************************************************************)
EXTENDS Integers

CONSTANTS
    Procs,      \* scheduler processes
    Jobs,       \* names of jobs
    Slots       \* Slots[j]: the times job j is to run at

VARIABLES
    clock,
    process,    \* process[p]: "down", "up", or "cut" off from the ledger
    running,    \* running[j]: the run of job j, as a set
    blocked,    \* the jobs whose last run nobody has closed
    begun,      \* begun[j]: the highest slot a run began for
    since,      \* since[p]: begun when p started
    faults      \* processes stopped or cut off, and writes the ledger has refused

vars == <<clock, process, running, blocked, begun, since, faults>>

Unknown == [j \in Jobs |-> -1]

Init ==
    /\ clock = 0
    /\ process = [p \in Procs |-> "down"]
    /\ running = [j \in Jobs |-> {}] /\ blocked = {}
    /\ begun = Unknown /\ since = [p \in Procs |-> Unknown] /\ faults = 0

Ticks ==
    /\ clock' = clock + 1
    /\ UNCHANGED <<process, running, blocked, begun, since, faults>>

(***************************************************************************)
(* Processes come and go, and may lose the ledger on the way.              *)
(***************************************************************************)
Starts(p) ==
    /\ process[p] = "down"
    /\ process' = [process EXCEPT ![p] = "up"]
    /\ since' = [since EXCEPT ![p] = begun]
    /\ UNCHANGED <<clock, running, blocked, begun, faults>>

IsCut(p) ==
    /\ process[p] = "up"
    /\ process' = [process EXCEPT ![p] = "cut"]
    /\ faults' = faults + 1
    /\ UNCHANGED <<clock, running, blocked, begun, since>>

RunBy(p, j) == \E r \in running[j] : r.proc = p

Stops(p) ==
    /\ process[p] # "down"
    /\ process' = [process EXCEPT ![p] = "down"]
    /\ running' = [j \in Jobs |-> {r \in running[j] : r.proc # p}]
    /\ blocked' = blocked \cup {j \in Jobs : RunBy(p, j)}
    /\ since' = [since EXCEPT ![p] = Unknown]
    /\ faults' = faults + 1
    /\ UNCHANGED <<clock, begun>>

(***************************************************************************)
(* Runs.                                                                   *)
(***************************************************************************)
Begins(p, j, s) ==
    /\ process[p] = "up"
    /\ running[j] = {} /\ j \notin blocked
    /\ since[p][j] < s /\ s <= clock
    /\ running' = [running EXCEPT ![j] = {[proc |-> p, slot |-> s]}]
    /\ begun' = [begun EXCEPT ![j] = IF s > @ THEN s ELSE @]
    /\ UNCHANGED <<clock, process, blocked, since, faults>>

Completes(p, j) ==
    /\ RunBy(p, j) /\ process[p] = "up"
    /\ running' = [running EXCEPT ![j] = {}]
    /\ UNCHANGED <<clock, process, blocked, begun, since, faults>>

\* Nobody can close the run: the ledger is lost to its process, or refuses the write.
Abandons(p, j) ==
    /\ RunBy(p, j)
    /\ \/ process[p] = "cut" /\ UNCHANGED faults
       \/ process[p] = "up" /\ faults' = faults + 1
    /\ running' = [running EXCEPT ![j] = {}]
    /\ blocked' = blocked \cup {j}
    /\ UNCHANGED <<clock, process, begun, since>>

\* The write that was to begin a run is refused.
Refuses ==
    /\ faults' = faults + 1
    /\ UNCHANGED <<clock, process, running, blocked, begun, since>>

Next ==
    \/ Ticks
    \/ Refuses
    \/ \E p \in Procs :
          \/ Starts(p) \/ IsCut(p) \/ Stops(p)
          \/ \E j \in Jobs :
                \/ \E s \in Slots[j] : Begins(p, j, s)
                \/ Completes(p, j) \/ Abandons(p, j)

Spec == Init /\ [][Next]_vars
=============================================================================
