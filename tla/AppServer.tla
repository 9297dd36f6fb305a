----------------------------- MODULE AppServer -----------------------------
(***************************************************************************)
(* Who may run the Codex App Server of a project.  Daemons (serve) and     *)
(* repairs are operating-system processes that take turns through one lock *)
(* file and one runtime checkpoint in the store.  Each starts an App       *)
(* Server as a child, saves a checkpoint that names it, and stops, reaps   *)
(* and records it when the session fails or the process is asked to end.   *)
(* Any process may be killed between two steps; the kernel then releases   *)
(* its file lock first and signals its child (Pdeathsig) later, before its *)
(* pid disappears.                                                         *)
(*                                                                         *)
(* Inside a process the main goroutine (main) and the runtime's owner      *)
(* goroutine (own) run concurrently, and so does the goroutine that        *)
(* observes and reaps the child (Reaped).                                  *)
(***************************************************************************)
EXTENDS Integers, FiniteSets

CONSTANTS
    Procs,          \* operating-system processes: daemons and repairs
    Repairs,        \* those that run repair-thread
    NoProc,
    MaxGens,        \* bound: App Servers started, a generation each
    MaxFaults,      \* bound: failing calls and children that die by themselves
    MaxCrashes      \* bound: processes killed

ASSUME AppServerAssumption ==
    /\ Repairs \subseteq Procs /\ NoProc \notin Procs /\ MaxGens \in Nat
    /\ MaxFaults \in Nat /\ MaxCrashes \in Nat

VARIABLES
    flock,      \* the holder of the kernel's lock on the lock file
    record,     \* the process whose pid the lock file names
    ckpt,       \* runtime_checkpoints: the generation recorded as running
    main,       \* the main goroutine of each process
    own,        \* its owner goroutine: Runtime.Start and Runtime.run
    first,      \* it is in Runtime.Start, no session has been up yet
    why,        \* why the owner stops its child
    stop,       \* how far stopOwnedChild got
    kid,        \* the child of the current session
    child,      \* every App Server
    parent,     \* the process that started it
    lost,       \* App Servers given up neither recorded nor stopped
    strays,     \* signals sent to a pid that was reaped
    faults, crashes

Gens  == 1..MaxGens
NoGen == 0

lockVars  == <<flock, record>>
ownVars   == <<own, first, why, stop, kid>>
childVars == <<child, parent, lost, strays>>
vars == <<lockVars, ckpt, main, ownVars, childVars, faults, crashes>>

Works(g)     == child[g] = "alive"
Executing(d) == main[d] \notin {"off", "dying"}
Cancelled(d) == main[d] # "run"
DbOpen(d)    == main[d] \in {"check", "run", "closing"}

Exhausted == \A g \in Gens : child[g] # "none"     \* the bound is reached

Fault == faults < MaxFaults /\ faults' = faults + 1
Smooth == UNCHANGED faults

----------------------------------------------------------------------------
(* The lock file.                                                          *)

PidExists(d) == main[d] # "off"

MayLock_FlockOnly ==     \* mutant: the kernel's lock is taken as proof
    flock = NoProc
MayLock ==
    /\ flock = NoProc
    /\ \A d \in Procs : record = d => ~PidExists(d)

\* ValidateServe ends with acquireLock
Launch(d) ==
    /\ main[d] = "off" /\ MayLock /\ ~Exhausted
    /\ flock' = d /\ record' = d
    /\ main' = [main EXCEPT ![d] = "check"]
    /\ UNCHANGED <<ckpt, ownVars, childVars, faults, crashes>>

----------------------------------------------------------------------------
(* Supervisor.                                                             *)

\* Match: the process table knows the pid until its process is reaped
Match(g) ==
    CASE child[g] \in {"alive", "killed", "zombie"} -> "matches"
      [] child[g] = "reused" -> "mismatch"
      [] OTHER -> "absent"

MayStart == \A g \in Gens : ckpt = g => Match(g) = "absent"

\* LoadRecoveryImage and ReapPrevious, which never signals
ReapPrevious(d) ==
    /\ main[d] = "check"
    /\ \/ /\ MayStart /\ Smooth
          /\ main' = [main EXCEPT ![d] = "run"]
          /\ own' = [own EXCEPT ![d] = "version"]
          /\ first' = [first EXCEPT ![d] = TRUE]
       \/ /\ IF MayStart THEN Fault ELSE Smooth
          /\ main' = [main EXCEPT ![d] = "closing"]
          /\ UNCHANGED <<own, first>>
    /\ UNCHANGED <<lockVars, ckpt, why, stop, kid, childVars, crashes>>

\* what the owner does when Start fails with nothing left to clean up
AfterFailedStart(d) == IF first[d] \/ Cancelled(d) THEN "done" ELSE "backoff"
\* and when it cannot prove the child gone, or recorded as gone
Unproven(d) == IF first[d] \/ Cancelled(d) THEN "done" ELSE "stranded"

\* processes.Start: the next child, in a process group of its own
StartChild(d) ==
    \E g \in Gens :
        /\ child[g] = "none" /\ \A h \in 1..(g - 1) : child[h] # "none"
        /\ child' = [child EXCEPT ![g] = "alive"]
        /\ parent' = [parent EXCEPT ![g] = d]
        /\ kid' = [kid EXCEPT ![d] = g]

\* Version and processes.Start
Spawn(d) ==
    /\ own[d] = "version" /\ Executing(d)
    /\ \/ /\ ~Cancelled(d) /\ Smooth
          /\ StartChild(d)
          /\ own' = [own EXCEPT ![d] = "spawned"]
       \/ /\ IF Cancelled(d) THEN Smooth ELSE Fault
          /\ own' = [own EXCEPT ![d] = AfterFailedStart(d)]
          /\ UNCHANGED <<kid, child, parent>>
    /\ UNCHANGED <<lockVars, ckpt, main, first, why, stop, lost, strays, crashes>>

BeginStop(d, reason) ==
    /\ own' = [own EXCEPT ![d] = "stop"]
    /\ why' = [why EXCEPT ![d] = reason]
    /\ stop' = [stop EXCEPT ![d] = "eof"]

\* SaveRuntimeCheckpoint: the one row names one process, or none
SaveCheckpoint(g) == ckpt' = g

\* the sink saves the running checkpoint under the runtime's context
SaveRunning(d) ==
    /\ own[d] = "spawned" /\ Executing(d)
    /\ \/ /\ ~Cancelled(d) /\ Smooth
          /\ SaveCheckpoint(kid[d])
          /\ own' = [own EXCEPT ![d] = "initialize"]
          /\ UNCHANGED <<why, stop>>
       \/ /\ IF Cancelled(d) THEN Smooth ELSE Fault
          /\ BeginStop(d, "unsaved")
          /\ UNCHANGED ckpt
    /\ UNCHANGED <<lockVars, main, first, kid, childVars, crashes>>

\* Adapter.Initialize, ValidateUserAgent, installReplacement, runtime-ready
Initialize(d) ==
    /\ own[d] = "initialize" /\ Executing(d)
    /\ \/ /\ ~Cancelled(d) /\ Works(kid[d]) /\ Smooth
          /\ own' = [own EXCEPT ![d] = "up"]
          /\ first' = [first EXCEPT ![d] = FALSE]
          /\ UNCHANGED <<why, stop>>
       \/ /\ IF Cancelled(d) \/ ~Works(kid[d]) THEN Smooth ELSE Fault
          /\ BeginStop(d, "refused")
          /\ UNCHANGED first
    /\ UNCHANGED <<lockVars, ckpt, main, kid, childVars, crashes>>

\* Session.Done: the RPC loop or the child has ended
SessionFails(d) ==
    /\ own[d] = "up" /\ Executing(d) /\ d \notin Repairs
    /\ IF Works(kid[d]) THEN Fault ELSE Smooth
    /\ own' = [own EXCEPT ![d] = "draining"]
    /\ UNCHANGED <<lockVars, ckpt, main, first, why, stop, kid, childVars, crashes>>

\* drainFailedSession, and runtime-unavailable is published
Drained(d) ==
    /\ own[d] = "draining" /\ Executing(d)
    /\ BeginStop(d, IF Cancelled(d) THEN "ended" ELSE "failed")
    /\ UNCHANGED <<lockVars, ckpt, main, first, kid, childVars, faults, crashes>>

\* the runtime's context ends, or the repair has done its work
EndSession(d) ==
    /\ own[d] = "up" /\ Executing(d)
    /\ Cancelled(d) \/ d \in Repairs
    /\ BeginStop(d, "ended")
    /\ UNCHANGED <<lockVars, ckpt, main, first, kid, childVars, faults, crashes>>

----------------------------------------------------------------------------
(* stopOwnedChild and the goroutine that reaps.                            *)

Gone(g) == child[g] \in {"reaped", "reused"}

\* the owner holds the child's mutex between its look and its signal
Locked_Never(g) == FALSE     \* mutant: signal without the mutex
Locked(g) ==
    \E d \in Procs : /\ kid[d] = g /\ own[d] = "stop" /\ Executing(d)
                     /\ stop[d] \in {"terminating", "killing"}

\* signalOrReap: a grace period is over, the child is looked at
Observe(d) ==
    /\ own[d] = "stop" /\ Executing(d) /\ stop[d] \in {"eof", "term"}
    /\ LET seen == child[kid[d]] IN
       /\ stop' = [stop EXCEPT ![d] =
             IF @ = "eof" THEN IF seen \in {"alive", "killed"} THEN "terminating" ELSE "term"
             ELSE IF seen \in {"alive", "killed"} THEN "killing" ELSE "kill"]
       /\ child' = [child EXCEPT ![kid[d]] = IF @ = "zombie" THEN "reaped" ELSE @]
    /\ UNCHANGED <<lockVars, ckpt, main, own, first, why, kid, parent, lost,
                   strays, faults, crashes>>

\* and, in the same hold of the mutex, the signal goes to its process group
Signal(d) ==
    /\ own[d] = "stop" /\ Executing(d) /\ stop[d] \in {"terminating", "killing"}
    /\ stop' = [stop EXCEPT ![d] = IF @ = "terminating" THEN "term" ELSE "kill"]
    /\ child' = [child EXCEPT ![kid[d]] =
                    IF @ = "alive" /\ stop[d] = "killing" THEN "killed" ELSE @]
    /\ strays' = IF child[kid[d]] = "reused" THEN strays \cup {kid[d]} ELSE strays
    /\ UNCHANGED <<lockVars, ckpt, main, own, first, why, kid, parent, lost,
                   faults, crashes>>

\* the owner is done with its child
Leave(d, next) ==
    /\ own' = [own EXCEPT ![d] = next]
    /\ stop' = [stop EXCEPT ![d] = "none"]
    /\ kid' = [kid EXCEPT ![d] = NoGen]
    /\ why' = [why EXCEPT ![d] = IF next \in {"persist", "retry"} THEN @ ELSE "none"]

\* the child is reaped; the RPC loop and the stderr reader have ended too
StopDone(d) ==
    /\ own[d] = "stop" /\ Executing(d) /\ Gone(kid[d])
    /\ stop[d] \notin {"terminating", "killing"}
    /\ Leave(d, IF why[d] = "unsaved" THEN Unproven(d) ELSE "persist")
    /\ UNCHANGED <<lockVars, ckpt, main, first, childVars, faults, crashes>>

\* the current child is in no checkpoint
Unrecorded(d) == own[d] = "spawned" \/ (own[d] = "stop" /\ why[d] = "unsaved")

StopFailed_Restarts(d) ==     \* mutant: a failed cleanup is retried like a failed start
    AfterFailedStart(d)
StopFailed(d) == IF why[d] = "ended" THEN "done" ELSE Unproven(d)

\* the cleanup time is over, or a signal or an observation failed
StopFails(d) ==
    /\ own[d] = "stop" /\ Executing(d) /\ ~Gone(kid[d]) /\ Fault
    /\ stop[d] \notin {"terminating", "killing"}
    /\ Leave(d, StopFailed(d))
    /\ lost' = IF Unrecorded(d) THEN lost \cup {kid[d]} ELSE lost
    /\ UNCHANGED <<lockVars, ckpt, main, first, child, parent, strays, crashes>>

AfterPersist_Again(d) ==     \* mutant: the retry looks at the first result for ever
    IF why[d] = "failed" /\ ~Cancelled(d) THEN "persist" ELSE "done"
AfterPersist(d) ==
    IF why[d] = "ended" \/ Cancelled(d) THEN "done"
    ELSE IF why[d] = "failed" THEN "backoff" ELSE AfterFailedStart(d)
AfterFailedPersist(d) ==
    IF why[d] = "ended" \/ Cancelled(d) THEN "done"
    ELSE IF why[d] = "failed" THEN "retry" ELSE Unproven(d)

\* persistStopped, under a context of its own
Persist(d) ==
    /\ own[d] = "persist" /\ Executing(d)
    /\ \/ /\ DbOpen(d) /\ Smooth
          /\ SaveCheckpoint(NoGen)
          /\ Leave(d, AfterPersist(d))
       \/ /\ IF DbOpen(d) THEN Fault ELSE Smooth
          /\ Leave(d, AfterFailedPersist(d))
          /\ UNCHANGED ckpt
    /\ UNCHANGED <<lockVars, main, first, childVars, crashes>>

Interrupted_Never(d) == FALSE     \* mutant: the sleep ignores the context
Interrupted(d) == Cancelled(d)

\* the sleep before the next start or the next attempt to save, which is
\* interrupted when the runtime ends; and recoverWithoutStarting
Wake(d) ==
    /\ Executing(d)
    /\ \/ own[d] = "backoff" /\ UNCHANGED why
          /\ own' = [own EXCEPT ![d] = IF Interrupted(d) THEN "done" ELSE "version"]
       \/ own[d] = "retry"
          /\ own' = [own EXCEPT ![d] = IF Interrupted(d) THEN "done" ELSE "persist"]
          /\ why' = [why EXCEPT ![d] = IF Interrupted(d) THEN "none" ELSE @]
       \/ own[d] = "stranded" /\ Interrupted(d) /\ UNCHANGED why
          /\ own' = [own EXCEPT ![d] = "done"]
    /\ UNCHANGED <<lockVars, ckpt, main, first, stop, kid, childVars, faults, crashes>>

----------------------------------------------------------------------------
(* The main goroutine.                                                     *)

\* a request to end, a failed start, or an error of another part
Shutdown(d) ==
    /\ main[d] = "run"
    /\ main' = [main EXCEPT ![d] = "closing"]
    /\ UNCHANGED <<lockVars, ckpt, ownVars, childVars, faults, crashes>>

\* Runtime.Close ends, or the 15 s of the cleanup are over; a repair has no limit
CloseDb(d) ==
    /\ main[d] = "closing"
    /\ IF own[d] \in {"none", "done"} THEN Smooth ELSE d \notin Repairs /\ Fault
    /\ main' = [main EXCEPT ![d] = "dbclosed"]
    /\ lost' = IF Unrecorded(d) THEN lost \cup {kid[d]} ELSE lost
    /\ UNCHANGED <<lockVars, ckpt, ownVars, child, parent, strays, crashes>>

Unlock(d) ==
    /\ main[d] = "dbclosed"
    /\ flock' = NoProc /\ record' = NoProc
    /\ main' = [main EXCEPT ![d] = "unlocked"]
    /\ UNCHANGED <<ckpt, ownVars, childVars, faults, crashes>>

Exit(d) ==
    /\ main[d] = "unlocked"
    /\ main' = [main EXCEPT ![d] = "dying"]
    /\ UNCHANGED <<lockVars, ckpt, ownVars, childVars, faults, crashes>>

Crash(d) ==
    /\ Executing(d) /\ crashes < MaxCrashes /\ crashes' = crashes + 1
    /\ main' = [main EXCEPT ![d] = "dying"]
    /\ flock' = IF flock = d THEN NoProc ELSE flock
    /\ UNCHANGED <<record, ckpt, ownVars, childVars, faults>>

----------------------------------------------------------------------------
(* The kernel and the children.                                            *)

Orphaned(d) ==
    [g \in Gens |-> IF parent[g] = d /\ child[g] = "alive" THEN "killed" ELSE child[g]]

\* exit_notify: Pdeathsig reaches the child, then the pid goes
Vanish(d) ==
    /\ main[d] = "dying"
    /\ child' = Orphaned(d)
    /\ main' = [main EXCEPT ![d] = "off"]
    /\ own' = [own EXCEPT ![d] = "none"]
    /\ first' = [first EXCEPT ![d] = FALSE]
    /\ why' = [why EXCEPT ![d] = "none"]
    /\ stop' = [stop EXCEPT ![d] = "none"]
    /\ kid' = [kid EXCEPT ![d] = NoGen]
    /\ UNCHANGED <<lockVars, ckpt, parent, lost, strays, faults, crashes>>

\* a child is asked to end when its standard input is closed
Asked(g) == \E d \in Procs : kid[d] = g /\ parent[g] = d /\ own[d] = "stop"

ChildExits(g) ==
    /\ child[g] \in {"alive", "killed"}
    /\ IF child[g] = "killed" \/ Asked(g) THEN Smooth ELSE Fault
    /\ child' = [child EXCEPT ![g] = "zombie"]
    /\ UNCHANGED <<lockVars, ckpt, main, ownVars, parent, lost, strays, crashes>>

\* observeAndReap of its process, or init once that is gone
Reaped(g) ==
    /\ child[g] = "zombie" /\ ~Locked(g)
    /\ child' = [child EXCEPT ![g] = "reaped"]
    /\ UNCHANGED <<lockVars, ckpt, main, ownVars, parent, lost, strays, faults, crashes>>

\* the pid goes to a process of somebody else; told apart while anyone knows it
PidReused(g) ==
    /\ child[g] = "reaped"
    /\ ckpt = g \/ \E d \in Procs : kid[d] = g
    /\ child' = [child EXCEPT ![g] = "reused"]
    /\ UNCHANGED <<lockVars, ckpt, main, ownVars, parent, lost, strays, faults, crashes>>

----------------------------------------------------------------------------
OwnerStep(d) ==
    \/ Spawn(d) \/ SaveRunning(d) \/ Initialize(d) \/ Drained(d) \/ EndSession(d)
    \/ Observe(d) \/ Signal(d) \/ StopDone(d) \/ Persist(d) \/ Wake(d)
MainStep(d) == ReapPrevious(d) \/ CloseDb(d) \/ Unlock(d) \/ Exit(d) \/ Vanish(d)

Init ==
    /\ flock = NoProc /\ record = NoProc /\ ckpt = NoGen
    /\ main = [d \in Procs |-> "off"] /\ own = [d \in Procs |-> "none"]
    /\ first = [d \in Procs |-> FALSE] /\ why = [d \in Procs |-> "none"]
    /\ stop = [d \in Procs |-> "none"] /\ kid = [d \in Procs |-> NoGen]
    /\ child = [g \in Gens |-> "none"] /\ parent = [g \in Gens |-> NoProc]
    /\ lost = {} /\ strays = {} /\ faults = 0 /\ crashes = 0

Next ==
    \/ \E d \in Procs :
          \/ Launch(d) \/ OwnerStep(d) \/ MainStep(d)
          \/ SessionFails(d) \/ StopFails(d) \/ Shutdown(d) \/ Crash(d)
    \/ \E g \in Gens : ChildExits(g) \/ Reaped(g) \/ PidReused(g)

Spec == Init /\ [][Next]_vars

\* Processes that execute go on; the kernel finishes what it began.  Nobody
\* must be launched, asked to end or killed.
FairSpec ==
    /\ Spec
    /\ \A d \in Procs :
          /\ WF_vars(OwnerStep(d))
          /\ WF_vars(MainStep(d) \/ (own[d] = "done" /\ Shutdown(d)))
    /\ WF_vars(\E g \in Gens : Reaped(g) \/ (child[g] = "killed" /\ ChildExits(g)))

----------------------------------------------------------------------------
(* What the parts of the supervision achieve together.                     *)

\* The types of the variables.
TypeOK ==
    /\ flock \in Procs \cup {NoProc} /\ record \in Procs \cup {NoProc}
    /\ ckpt \in Gens \cup {NoGen}
    /\ main \in [Procs -> {"off", "check", "run", "closing", "dbclosed",
                           "unlocked", "dying"}]
    /\ own \in [Procs -> {"none", "version", "spawned", "initialize", "up",
                          "draining", "stop", "persist", "retry", "backoff", "stranded", "done"}]
    /\ first \in [Procs -> BOOLEAN]
    /\ why \in [Procs -> {"none", "unsaved", "refused", "failed", "ended"}]
    /\ stop \in [Procs -> {"none", "eof", "terminating", "term", "killing", "kill"}]
    /\ kid \in [Procs -> Gens \cup {NoGen}]
    /\ child \in [Gens -> {"none", "alive", "killed", "zombie", "reaped", "reused"}]
    /\ parent \in [Gens -> Procs \cup {NoProc}]
    /\ lost \subseteq Gens /\ strays \subseteq Gens
    /\ faults \in 0..MaxFaults /\ crashes \in 0..MaxCrashes

\* Two App Servers never work on the project at the same time, whatever was
\* killed in between: the lock file's record (lock.go:66), the checkpoint
\* (supervisor.go:192) and Pdeathsig (process_linux.go:53) close each other's
\* gaps.  Excepted is a server that could neither be recorded nor stopped.
OneServer ==
    \A g, h \in Gens \ lost : Works(g) /\ Works(h) => g = h

\* The durable checkpoint never hides a server: one that works is the one it
\* names, or its own process is still about to record or to stop it, or is
\* being taken down by the kernel with its lock record in place.
CheckpointNamesServer ==
    \A g \in Gens \ lost : Works(g) =>
        \/ ckpt = g
        \/ LET d == parent[g] IN
           /\ record = d \/ flock = d
           /\ \/ main[d] = "dying"
              \/ kid[d] = g /\ own[d] \in {"spawned", "stop"}

\* No signal reaches a process that is not the App Server: once the child is
\* reaped its pid and group may belong to anybody (process.go:323).
NoStraySignal == strays = {}

\* A failed session is followed by a new one, unless the process is ending or
\* the runtime gave up because it could not prove the old server gone
\* (runtime.go:199-266).  MaxFaults ends the failures.
SessionReturns ==
    \A d \in Procs \ Repairs : own[d] = "draining" ~>
        own[d] \in {"up", "stranded", "done", "none"} \/ Cancelled(d) \/ Exhausted

\* A process asked to end stops its server, releases the lock and goes,
\* whatever its runtime is doing (runtime.go:165, run.go:318), and does not need
\* the limit of 15 s for it: that is a fault, and faults are never relied on.
ShutdownEnds == \A d \in Procs : main[d] = "closing" ~> main[d] = "off"
=============================================================================
