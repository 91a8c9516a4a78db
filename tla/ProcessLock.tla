---------------------------- MODULE ProcessLock ----------------------------
(***************************************************************************)
(* The singleton lock of the scheduler (core/persistence/process-lock.ts): *)
(* a file on a shared volume, created exclusively, holding the host and    *)
(* the pid of its creator, which a later starter may judge stale.          *)
(*                                                                         *)
(* Every call to the file system is a step of its own.  A host is a        *)
(* hostname with its namespace of pids: a machine or a container.  Any     *)
(* other error of the file system ends the process as a crash does.        *)
(***************************************************************************)
EXTENDS Naturals

CONSTANTS
    Procs,        \* processes that run the scheduler's main, again and again
    Hosts,        \* hostnames
    Pids,
    MaxBoots      \* bound: starts of a process

ASSUME BoundsAssumption == MaxBoots \in Nat

VARIABLES
    stage,      \* stage[p]: where p is in acquireProcessLock or release
    host, pid,  \* of p's present incarnation
    attempt,    \* attempt[p]: the index of acquireProcessLock's loop
    seen,       \* seen[p]: the metadata p has read, as a set; {} when undefined
    file,       \* the lock file: its metadata, {} until written, and who has it open
    programs,   \* the pid another program uses, on every host, as a set
    boots,
    rivals      \* history: rivals[p]: who was acquiring while p was, in its latest start

vars == <<stage, host, pid, attempt, seen, file, programs, boots, rivals>>

Acquiring == {"open", "write", "read", "reread", "judge", "unlink"}
Keeping   == {"hold", "release"}
Metadata  == [host : Hosts, pid : Pids]
NoFile    == [exists |-> FALSE, metadata |-> {}, openBy |-> {}]

Self(p)    == [host |-> host[p], pid |-> pid[p]]
Running(p) == stage[p] # "down"

\* process.kill(pid, 0) in the namespace of host h.
IsProcessRunning(h, n) ==
    n \in programs \/ \E q \in Procs : Running(q) /\ host[q] = h /\ pid[q] = n

At(p, s)   == stage[p] = s
Goto(p, s) == stage' = [stage EXCEPT ![p] = s]

Init ==
    /\ stage = [p \in Procs |-> "down"]
    /\ host \in [Procs -> Hosts] /\ pid \in [Procs -> Pids]
    /\ attempt = [p \in Procs |-> 0]
    /\ seen = [p \in Procs |-> {}]
    /\ file = NoFile
    /\ programs = {}
    /\ boots = 0
    /\ rivals = [p \in Procs |-> {}]

Acquirers == {q \in Procs : stage[q] \in Acquiring}

\* The system gives a process a pid nobody on its host uses.  Nothing keeps it from
\* starting while others acquire the lock.
Boot(p) ==
    /\ At(p, "down") /\ boots < MaxBoots
    /\ boots' = boots + 1
    /\ \E h \in Hosts, n \in Pids :
          /\ ~IsProcessRunning(h, n)
          /\ host' = [host EXCEPT ![p] = h] /\ pid' = [pid EXCEPT ![p] = n]
    /\ attempt' = [attempt EXCEPT ![p] = 0]
    /\ seen' = [seen EXCEPT ![p] = {}]
    /\ Goto(p, "open")
    /\ rivals' = [q \in Procs |-> IF q = p THEN Acquirers
                                 ELSE IF q \in Acquirers THEN rivals[q] \cup {p} ELSE rivals[q]]
    /\ UNCHANGED <<file, programs>>

\* open(path, "wx"): the file is created empty, or EEXIST.
Open(p) ==
    /\ At(p, "open")
    /\ IF file.exists
       THEN Goto(p, "read") /\ UNCHANGED file
       ELSE Goto(p, "write") /\ file' = [exists |-> TRUE, metadata |-> {}, openBy |-> {p}]
    /\ UNCHANGED <<host, pid, attempt, seen, programs, boots, rivals>>

\* The handle writes to the file p created, which may have been unlinked since.
Write_LeavesOpen(p) ==
    /\ At(p, "write")
    /\ file' = IF p \in file.openBy THEN [file EXCEPT !.metadata = {Self(p)}] ELSE file
    /\ Goto(p, "hold")
    /\ UNCHANGED <<host, pid, attempt, seen, programs, boots, rivals>>

Write(p) ==
    /\ At(p, "write")
    /\ file' = IF p \in file.openBy
               THEN [exists |-> TRUE, metadata |-> {Self(p)}, openBy |-> {}] ELSE file
    /\ Goto(p, "hold")
    /\ UNCHANGED <<host, pid, attempt, seen, programs, boots, rivals>>

\* readLockMetadata: undefined when the file is missing or not written; then
\* removeStaleLockIfNeeded reads again.
Read(p) ==
    /\ At(p, "read")
    /\ seen' = [seen EXCEPT ![p] = file.metadata]
    /\ Goto(p, IF file.metadata = {} THEN "reread" ELSE "judge")
    /\ UNCHANGED <<host, pid, attempt, file, programs, boots, rivals>>

Reread(p) ==
    /\ At(p, "reread")
    /\ seen' = [seen EXCEPT ![p] = file.metadata]
    /\ Goto(p, IF file.metadata = {} THEN "unlink" ELSE "judge")
    /\ UNCHANGED <<host, pid, attempt, file, programs, boots, rivals>>

\* removeStaleLockIfNeeded: the lock is of another host, of an earlier incarnation
\* with this pid, or of a process that is gone.
Stale_AnyLock(p, m)    == TRUE
Stale_IgnoresOwn(p, m) == m.host # host[p] \/ ~IsProcessRunning(m.host, m.pid)
Stale(p, m) ==
    m.host # host[p] \/ m.pid = pid[p] \/ ~IsProcessRunning(m.host, m.pid)

Judge(p) ==
    /\ At(p, "judge")
    /\ Goto(p, IF \E m \in seen[p] : Stale(p, m) THEN "unlink" ELSE "refused")
    /\ UNCHANGED <<host, pid, attempt, seen, file, programs, boots, rivals>>

\* Whatever file is there now is removed; the loop retries once.
Unlink(p) ==
    /\ At(p, "unlink")
    /\ file' = NoFile
    /\ IF attempt[p] = 0
       THEN Goto(p, "open") /\ attempt' = [attempt EXCEPT ![p] = 1]
       ELSE Goto(p, "refused") /\ UNCHANGED attempt
    /\ UNCHANGED <<host, pid, seen, programs, boots, rivals>>

\* release at shutdown: the file is removed only if it is still p's.
Release(p) ==
    /\ At(p, "hold")
    /\ Goto(p, IF file.metadata = {Self(p)} THEN "release" ELSE "down")
    /\ UNCHANGED <<host, pid, attempt, seen, file, programs, boots, rivals>>

ReleaseUnlinks(p) ==
    /\ At(p, "release")
    /\ file' = NoFile
    /\ Goto(p, "down")
    /\ UNCHANGED <<host, pid, attempt, seen, programs, boots, rivals>>

\* process.exit(1) when refused, a crash anywhere else: the file is left as it is.
Exit(p) ==
    /\ Running(p)
    /\ Goto(p, "down")
    /\ file' = [file EXCEPT !.openBy = @ \ {p}]
    /\ UNCHANGED <<host, pid, attempt, seen, programs, boots, rivals>>

\* A pid that is free may be taken by a program of no concern here, one at a time.
ProgramStarts(n) ==
    /\ programs = {} /\ \A h \in Hosts : ~IsProcessRunning(h, n)
    /\ programs' = {n}
    /\ UNCHANGED <<stage, host, pid, attempt, seen, file, boots, rivals>>

ProgramEnds ==
    /\ programs # {} /\ programs' = {}
    /\ UNCHANGED <<stage, host, pid, attempt, seen, file, boots, rivals>>

Next ==
    \/ \E n \in Pids : ProgramStarts(n)
    \/ ProgramEnds
    \/ \E p \in Procs :
        \/ Boot(p) \/ Open(p) \/ Write(p) \/ Read(p) \/ Reread(p) \/ Judge(p) \/ Unlink(p)
        \/ Release(p) \/ ReleaseUnlinks(p) \/ Exit(p)

Spec == Init /\ [][Next]_vars

(***************************************************************************)
(* Properties.                                                             *)
(***************************************************************************)
\* Every variable has its type; the file is open only while it is being written.
TypeOK ==
    /\ stage \in [Procs -> {"down", "refused"} \cup Acquiring \cup Keeping]
    /\ host \in [Procs -> Hosts] /\ pid \in [Procs -> Pids]
    /\ attempt \in [Procs -> {0, 1}]
    /\ seen \in [Procs -> SUBSET Metadata]
    /\ file \in [exists : BOOLEAN, metadata : SUBSET Metadata, openBy : SUBSET Procs]
    /\ programs \subseteq Pids
    /\ boots \in 0..MaxBoots
    /\ rivals \in [Procs -> SUBSET Procs]
    /\ \A p \in file.openBy : stage[p] = "write"

\* A starter judges by what it has read, a step or more before it unlinks.  It takes the lock
\* from under a process of its host that is writing or keeping it only if the two were acquiring at
\* the same time: neither a crash at any step, nor a half-written or stale file, nor a pid used
\* again costs a process the lock it had when the other started.
IsLockOf(q) == q \in file.openBy \/ (stage[q] \in Keeping /\ file.metadata = {Self(q)})
TakenOnlyInARace ==
    [][\A p, q \in Procs :
          /\ p # q /\ host[p] = host[q] /\ IsLockOf(q)
          /\ stage[p] = "unlink" /\ ~file'.exists
          => q \in rivals[p]]_vars

\* A process is refused only for another that runs or was acquiring at the same time, or for a
\* program that took the pid of a dead one: no crash leaves a lock that refuses every later start.
RefusedForTheLiving ==
    [][\A p \in Procs :
          stage[p] # "refused" /\ stage'[p] = "refused" =>
             \/ \E q \in Procs \ {p} : Running(q) \/ q \in rivals[p]
             \/ \E m \in seen[p] : m.pid \in programs]_vars

\* ARCHITECTURE.md: "Second scheduler exits with an error"; of one host, at least.
OneHolder ==
    \A p, q \in Procs :
        stage[p] \in Keeping /\ stage[q] \in Keeping /\ host[p] = host[q] => p = q

\* README.md: "Only one scheduler instance may run at a time; a lock file ...
\* refuses a duplicate scheduler container".
DuplicateIsRefused ==
    \A p, q \in Procs : stage[p] \in Keeping /\ stage[q] \in Keeping => p = q
=============================================================================
