------------------------ MODULE CronDefinitionsProofs ------------------------
(***************************************************************************)
(* The schedule of the scheduler's process follows the file of jobs, for   *)
(* any number of jobs, calls, starts and reconciles in flight.             *)
(*                                                                         *)
(* The argument: a change of the file that nobody has read since leaves a  *)
(* trace (Dirty).  Without it the reconcile that has read the file last    *)
(* has read what it says now.  Whichever is applied last is either that    *)
(* one, and the loops bring the schedule to what it has read, or has been  *)
(* overtaken by it (FollowInv).                                            *)
(***************************************************************************)
EXTENDS CronDefinitions, Integers, TLAPS

Read == [jobs : Listings, passed : BOOLEAN]

Typed ==
    /\ jobs \in Listings /\ reads \in Seq(Read) /\ started \in Nat
    /\ phase \in {"down", "start", "boot", "up", "half"}

\* Until the process watches the file there is no reconcile but the bootstrap.
ProcessInv ==
    /\ phase # "up" => ~timer /\ started = 0
    /\ phase \in {"down", "start", "half"} => reads = <<>>
    /\ phase = "boot" => Len(reads) = 1 /\ (missed \/ reads[1].jobs = jobs)

\* A change of the file that nobody has read.
Dirty == timer \/ started > 0 \/ missed

LastIsCurrent == LET last == reads[Len(reads)] IN last.passed \/ last.jobs = jobs
FollowInv ==
    phase = "up" /\ ~Dirty =>
        IF reads = <<>> THEN stale \/ threw \/ active = Wanted(jobs) ELSE LastIsCurrent

Inv == Typed /\ ProcessInv /\ FollowInv

(***************************************************************************)
(* Lemmas on the reconcile.                                                *)
(***************************************************************************)
\* reconcile-runtime-cron.ts: two loops that have not thrown leave the schedule as it is wanted.
LEMMA ReconciledFacts ==
    ASSUME NEW l \in Listings, Reconciled(Wanted(l))
    PROVE  threw' \in BOOLEAN /\ (threw' \/ active' = Wanted(l))
  <1> DEFINE want == Wanted(l)
             throwing == {j \in Jobs : AddThrows(want[j])}
  <1>1. CASE Differing(want) \cap throwing # {}
    BY <1>1 DEF Reconciled
  <1>2. CASE Differing(want) \cap throwing = {} /\ Missing(want) \cap throwing # {}
    BY <1>2 DEF Reconciled
  <1>3. CASE Differing(want) \cap throwing = {} /\ Missing(want) \cap throwing = {}
    <2>1. Missing(want) \ throwing = Missing(want)
      BY <1>3
    <2>2. active' = After(want, Differing(want) \cup Missing(want), {}) /\ threw' = FALSE
      BY <1>3, <2>1 DEF Reconciled
    <2>3. ASSUME NEW j \in Jobs, j \notin Differing(want) \cup Missing(want) PROVE active[j] = want[j]
      BY <2>3 DEF Differing, Missing
    <2>4. \A j \in Jobs : After(want, Differing(want) \cup Missing(want), {})[j] = want[j]
      BY <2>3 DEF After
    <2> QED BY <2>2, <2>4 DEF After, Wanted
  <1> QED BY <1>1, <1>2, <1>3

\* What is left of the reads in flight when one of them has been applied.
LEMMA RemovedFacts ==
    ASSUME NEW s \in Seq(Read), NEW m \in Nat, Len(s) = m, NEW i \in 1..m
    PROVE  /\ RemoveAt(s, i) \in Seq(Read) /\ Len(RemoveAt(s, i)) = m - 1
           /\ i = m /\ m # 1 => RemoveAt(s, i)[m - 1] = s[m - 1]
           /\ i # m => RemoveAt(s, i)[m - 1] = s[m]
  <1> DEFINE before == SubSeq(s, 1, i - 1)
             behind == SubSeq(s, i + 1, m)
  <1>1. before \in Seq(Read) /\ Len(before) = i - 1 /\ \A n \in 1..(i - 1) : before[n] = s[n]
    OBVIOUS
  <1>2. behind \in Seq(Read) /\ Len(behind) = m - i /\ \A n \in 1..(m - i) : behind[n] = s[i + n]
    OBVIOUS
  <1>3. RemoveAt(s, i) = before \o behind
    BY DEF RemoveAt
  <1>4. i - 1 \in Nat /\ m - i \in Nat /\ (i - 1) + (m - i) = m - 1
    OBVIOUS
  <1> HIDE DEF before, behind
  <1>5. /\ before \o behind \in Seq(Read) /\ Len(before \o behind) = m - 1
        /\ \A n \in 1..(i - 1) : (before \o behind)[n] = before[n]
        /\ \A n \in 1..(m - i) : (before \o behind)[(i - 1) + n] = behind[n]
    <2>1. PICK k \in Nat, n \in Nat : k = i - 1 /\ n = m - i /\ k + n = m - 1
      BY <1>4
    <2>2. /\ before \o behind \in Seq(Read) /\ Len(before \o behind) = k + n
          /\ \A x \in 1..k : (before \o behind)[x] = before[x]
          /\ \A x \in 1..n : (before \o behind)[k + x] = behind[x]
      <3>1. before \in Seq(Read) /\ behind \in Seq(Read) /\ Len(before) = k /\ Len(behind) = n
        BY <1>1, <1>2, <2>1
      <3> QED BY <3>1
    <2> QED BY <2>1, <2>2
  <1>6. ASSUME i = m, m # 1 PROVE (before \o behind)[m - 1] = s[m - 1]
    <2>1. m - 1 \in 1..(i - 1)
      BY <1>6
    <2> QED BY <1>1, <1>5, <2>1
  <1>7. ASSUME i # m PROVE (before \o behind)[m - 1] = s[m]
    <2>1. m - i \in 1..(m - i) /\ (i - 1) + (m - i) = m - 1 /\ i + (m - i) = m
      BY <1>7
    <2> QED BY <1>2, <1>5, <2>1
  <1> QED BY <1>3, <1>5, <1>6, <1>7
(***************************************************************************)
(* The inductive invariant.                                                *)
(***************************************************************************)
\* A job that is created, or deleted, leaves a listing; what has been read is not touched.
LEMMA PersistKeeps ==
    ASSUME Inv, NEW l \in Listings, Persist(l)
    PROVE  Inv'
  <1>1. /\ jobs' = l /\ timer' = (timer \/ phase = "up") /\ missed' = (missed \/ phase = "boot")
        /\ UNCHANGED <<phase, started, reads>>
    BY DEF Persist, process
  <1>2. Typed'
    BY <1>1 DEF Inv, Typed
  <1>3. ProcessInv'
    BY <1>1 DEF Inv, ProcessInv
  <1>4. FollowInv'
    BY <1>1 DEF FollowInv, Dirty
  <1> QED BY <1>2, <1>3, <1>4 DEF Inv

\* The bootstrap has added the jobs that it has read.
LEMMA BootAddsKeeps == Inv /\ BootAdds => Inv'
  <1> SUFFICES ASSUME Inv, BootAdds PROVE Inv'
    OBVIOUS
  <1>1. /\ phase = "boot" /\ reads' = <<>> /\ phase' = (IF threw' THEN "half" ELSE "up")
        /\ UNCHANGED <<jobs, timer, started, missed>> /\ ~timer /\ started = 0
    BY DEF BootAdds, bot, Inv, ProcessInv
  <1>2. Len(reads) = 1 /\ (missed \/ reads[1].jobs = jobs) /\ reads[1].jobs \in Listings
    <2>1. Len(reads) = 1 /\ (missed \/ reads[1].jobs = jobs) /\ reads \in Seq(Read)
      BY <1>1 DEF Inv, Typed, ProcessInv
    <2>2. reads[1] \in Read
      BY <2>1
    <2> QED BY <2>1, <2>2 DEF Read
  <1>3. threw' \in BOOLEAN /\ (threw' \/ active' = Wanted(reads[1].jobs))
    BY <1>2, ReconciledFacts DEF BootAdds
  <1>4. <<>> \in Seq(Read)
    OBVIOUS
  <1>5. Typed'
    BY <1>1, <1>4 DEF Inv, Typed
  <1>6. ProcessInv'
    BY <1>1 DEF ProcessInv
  <1>7. FollowInv'
    <2>1. missed \/ threw' \/ active' = Wanted(jobs)
      BY <1>2, <1>3
    <2>2. Wanted(jobs)' = Wanted(jobs)
      BY <1>1 DEF Wanted
    <2> QED BY <1>1, <2>1, <2>2 DEF FollowInv, Dirty
  <1> QED BY <1>5, <1>6, <1>7 DEF Inv

\* A reconcile is applied: it is the one that read the file last, or one that was overtaken.
LEMMA ApplyKeeps ==
    ASSUME Inv, NEW i \in DOMAIN reads, Apply(i)
    PROVE  Inv'
  <1> DEFINE marked == [n \in DOMAIN reads |-> [reads[n] EXCEPT !.passed = @ \/ n < i]]
  <1>1. /\ phase = "up" /\ stale' = reads[i].passed /\ reads' = RemoveAt(marked, i)
        /\ UNCHANGED <<jobs, phase, timer, started, missed>>
    BY DEF Apply, bot, process
  <1>2. PICK m \in Nat : Len(reads) = m
    BY DEF Inv, Typed
  <1>3. i \in 1..m /\ DOMAIN reads = 1..m /\ \A n \in 1..m : reads[n] \in Read
    BY <1>2 DEF Inv, Typed
  <1>4. \A n \in 1..m : marked[n] \in Read /\ marked[n].jobs = reads[n].jobs
                         /\ marked[n].passed = (reads[n].passed \/ n < i)
    BY <1>3 DEF Read
  <1>5. marked \in Seq(Read) /\ Len(marked) = m
    <2>1. marked \in [1..m -> Read]
      BY <1>3, <1>4
    <2> QED BY <2>1
  <1> HIDE DEF marked
  <1>6. /\ reads' \in Seq(Read) /\ Len(reads') = m - 1
        /\ i = m /\ m # 1 => reads'[m - 1] = marked[m - 1]
        /\ i # m => reads'[m - 1] = marked[m]
    BY <1>1, <1>3, <1>5, RemovedFacts
  <1>7. threw' \in BOOLEAN /\ (threw' \/ active' = Wanted(reads[i].jobs))
    BY <1>3, ReconciledFacts DEF Apply, Read
  <1>8. Typed'
    BY <1>1, <1>6 DEF Inv, Typed
  <1>9. ProcessInv'
    BY <1>1 DEF ProcessInv
  <1>10. FollowInv'
    <2> SUFFICES ASSUME ~Dirty PROVE IF reads' = <<>> THEN (stale \/ threw \/ active = Wanted(jobs))' ELSE LastIsCurrent'
      BY <1>1 DEF FollowInv, Dirty
    <2>1. reads[m].passed \/ reads[m].jobs = jobs
      BY <1>1, <1>2, <1>3 DEF Inv, FollowInv, LastIsCurrent
    <2>2. CASE m = 1
      <3>1. i = m
        BY <1>3, <2>2
      <3> QED BY <1>1, <1>6, <1>7, <2>1, <2>2, <3>1 DEF Wanted
    <2>3. CASE m # 1 /\ i = m
      <3>1. m - 1 \in 1..m /\ m - 1 < i
        BY <1>3, <2>3
      <3>2. marked[m - 1].passed
        BY <1>4, <3>1
      <3>3. reads'[m - 1].passed
        BY <1>6, <2>3, <3>2
      <3> QED BY <1>6, <2>3, <3>3 DEF LastIsCurrent
    <2>4. CASE m # 1 /\ i # m
      <3>1. reads'[m - 1] = marked[m] /\ m \in 1..m
        BY <1>3, <1>6, <2>4
      <3>2. marked[m].jobs = reads[m].jobs /\ (reads[m].passed => marked[m].passed)
        BY <1>4, <3>1
      <3> QED BY <1>1, <1>6, <2>1, <2>4, <3>1, <3>2 DEF LastIsCurrent
    <2> QED BY <2>2, <2>3, <2>4
  <1> QED BY <1>8, <1>9, <1>10 DEF Inv

\* The invariant is inductive.
LEMMA InvNext == Inv /\ [Next]_vars => Inv'
  <1> SUFFICES ASSUME Inv, [Next]_vars PROVE Inv'
    OBVIOUS
  <1>0. jobs \in [Jobs -> {{}} \cup {{d} : d \in Defs}]
    BY DEF Inv, Typed, Listings
  <1>1. CASE CreateJob
    <2>1. PICK j \in Jobs, s \in Schedules, a \in Agents :
              Persist([jobs EXCEPT ![j] = {[schedule |-> s, target |-> a, on |-> TRUE]}])
      BY <1>1 DEF CreateJob
    <2>2. [schedule |-> s, target |-> a, on |-> TRUE] \in Defs
      BY DEF Defs
    <2>3. [jobs EXCEPT ![j] = {[schedule |-> s, target |-> a, on |-> TRUE]}] \in Listings
      BY <1>0, <2>2 DEF Listings
    <2> QED BY <2>1, <2>3, PersistKeeps
  <1>2. CASE DeleteJob
    <2>1. PICK j \in Jobs : Persist([jobs EXCEPT ![j] = {}])
      BY <1>2 DEF DeleteJob
    <2>2. [jobs EXCEPT ![j] = {}] \in Listings
      BY <1>0 DEF Listings
    <2> QED BY <2>1, <2>2, PersistKeeps
  <1>3. CASE BotRecompiles \/ Recompiles \/ UNCHANGED vars
    <2>1. UNCHANGED <<jobs, phase, watcher, active, stale, threw, missed>>
      BY <1>3 DEF BotRecompiles, Recompiles, vars, bot, process
    <2>2. UNCHANGED <<timer, started, reads>>
      BY <2>1 DEF watcher
    <2> QED BY <2>1, <2>2 DEF Inv, Typed, ProcessInv, FollowInv, Dirty, LastIsCurrent, Wanted
  <1>4. CASE Start
    <2>1. phase = "down" /\ phase' = "start" /\ UNCHANGED <<jobs, timer, started, reads>>
      BY <1>4 DEF Start, bot, watcher
    <2> QED BY <2>1 DEF Inv, Typed, ProcessInv, FollowInv
  <1>5. CASE BootReads
    <2>1. /\ phase = "start" /\ phase' = "boot" /\ reads' = <<[jobs |-> jobs, passed |-> FALSE]>>
          /\ UNCHANGED <<jobs, timer, started>>
      BY <1>5 DEF BootReads, bot
    <2>2. [jobs |-> jobs, passed |-> FALSE] \in Read
      BY DEF Inv, Typed, Read
    <2>3. reads' \in Seq(Read) /\ Len(reads') = 1 /\ reads'[1].jobs = jobs
      BY <2>1, <2>2
    <2> QED BY <2>1, <2>3 DEF Inv, Typed, ProcessInv, FollowInv
  <1>6. CASE BootAdds
    BY <1>6, BootAddsKeeps
  <1>7. CASE Fire
    <2>1. /\ timer /\ started' = started + 1 /\ started + 1 \in Nat /\ started + 1 > 0
          /\ UNCHANGED <<jobs, phase, reads, missed>>
      BY <1>7 DEF Fire, bot, process, Inv, Typed
    <2> QED BY <2>1 DEF Inv, Typed, ProcessInv, FollowInv, Dirty
  <1>8. CASE ReadJobs
    <2>1. /\ started > 0 /\ started' = started - 1 /\ started - 1 \in Nat /\ phase = "up"
          /\ reads' = Append(reads, [jobs |-> jobs, passed |-> FALSE]) /\ UNCHANGED <<jobs, phase>>
      BY <1>8 DEF ReadJobs, bot, process, Inv, Typed, ProcessInv
    <2>2. [jobs |-> jobs, passed |-> FALSE] \in Read /\ reads \in Seq(Read)
      BY DEF Inv, Typed, Read
    <2>3. reads' \in Seq(Read) /\ reads' # <<>> /\ reads'[Len(reads')] = [jobs |-> jobs, passed |-> FALSE]
      BY <2>1, <2>2
    <2> QED BY <2>1, <2>3 DEF Inv, Typed, ProcessInv, FollowInv, LastIsCurrent
  <1>9. ASSUME NEW i \in DOMAIN reads, Apply(i) PROVE Inv'
    BY <1>9, ApplyKeeps
  <1>10. CASE Stop
    <2>1. phase' = "down" /\ ~timer' /\ started' = 0 /\ reads' = <<>> /\ jobs' = jobs
      BY <1>10 DEF Stop, bot
    <2> QED BY <2>1 DEF Inv, Typed, ProcessInv, FollowInv
  <1> QED BY <1>1, <1>2, <1>3, <1>4, <1>5, <1>6, <1>7, <1>8, <1>9, <1>10 DEF Next, SchedulerStep

\* cron-job-watcher.ts, reconcile-runtime-cron.ts: when nothing is under way the schedule is that of
\* the file, for any number of jobs, calls, starts and reconciles applied in any order; the
\* exceptions are those that ScheduleFollowsFile names.
THEOREM SchedulesFollowFiles == Spec => []ScheduleFollowsFile
  <1>1. Init => Inv
    BY DEF Init, Inv, Typed, ProcessInv, FollowInv
  <1>2. Inv => ScheduleFollowsFile
    BY DEF Inv, FollowInv, Dirty, ScheduleFollowsFile, Quiet
  <1> QED BY <1>1, <1>2, InvNext, PTL DEF Spec
================================================================================
