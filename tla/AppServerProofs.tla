-------------------------- MODULE AppServerProofs --------------------------
(***************************************************************************)
(* For any number of daemons, repairs, App Servers and failures: no two    *)
(* App Servers work at the same time, the checkpoint never hides one and   *)
(* no signal goes astray.  The argument ties three pieces of state that    *)
(* are written by different steps: the lock file's record, the durable     *)
(* checkpoint and what each owner goroutine remembers of its child.        *)
(***************************************************************************)
EXTENDS AppServer, TLAPS

Holding  == {"check", "run", "closing", "dbclosed"}
HasChild == {"spawned", "initialize", "up", "draining", "stop"}

\* The lock: who is between acquireLock and its release is the kernel's holder
\* and the one the file names; who released it is not named any more.
LockInv ==
    \A d \in Procs : /\ main[d] \in Holding => flock = d /\ record = d
                     /\ main[d] = "unlocked" => record # d
                     /\ flock = d => main[d] \in Holding

\* The owner goroutine and its child: a session has a child of this process,
\* which was started, and there is no owner before the recovery check.
OwnerInv ==
    \A d \in Procs : /\ own[d] \in HasChild <=> kid[d] # NoGen
                     /\ kid[d] # NoGen => parent[kid[d]] = d /\ child[kid[d]] # "none"
                     /\ main[d] \in {"off", "check"} => own[d] = "none"

\* The owner signals only what it saw unreaped, under the child's mutex.
SignalInv ==
    \A d \in Procs :
        own[d] = "stop" /\ Executing(d) /\ stop[d] \in {"terminating", "killing"}
            => child[kid[d]] \in {"alive", "killed", "zombie"}

\* The checkpoint names no process that may still work.
CheckpointDead ==
    ckpt # NoGen => child[ckpt] \in {"reaped", "reused"}

\* The lock file names d and d has checked the previous App Server: until the
\* record changes nobody else starts one or writes the checkpoint.
InCharge(d) == record = d /\ main[d] \in {"run", "closing", "dbclosed", "dying"}

\* Who is in charge starts an App Server only over a dead checkpoint, and
\* keeps the checkpoint on its child from the save until the child is reaped.
ChargeInv ==
    /\ ckpt # NoGen => child[ckpt] # "none"
    /\ \A d \in Procs : InCharge(d) =>
          /\ own[d] \in {"version", "backoff", "persist", "retry"} \/ Unrecorded(d) => CheckpointDead
          /\ own[d] \in HasChild /\ ~Unrecorded(d) => ckpt = kid[d]

\* An App Server that works and is not in the checkpoint is the unrecorded
\* child of the process the lock file names.
HiddenInv ==
    \A g \in Gens \ lost : Works(g) /\ ckpt # g =>
        LET d == parent[g] IN
        /\ d \in Procs /\ record = d /\ main[d] \in {"run", "closing", "dying"}
        /\ kid[d] = g /\ Unrecorded(d)

\* The inductive invariant.
SupervisorInv ==
    /\ LockInv /\ OwnerInv /\ SignalInv /\ ChargeInv /\ HiddenInv
    /\ strays = {}

----------------------------------------------------------------------------
(* Types.                                                                  *)

OwnStates == {"none", "version", "spawned", "initialize", "up",
              "draining", "stop", "persist", "retry", "backoff", "stranded", "done"}

\* Where the owner goes after a failure or a stop is one of its states.
LEMMA NextOwnType ==
    ASSUME NEW d \in Procs
    PROVE  /\ AfterFailedStart(d) \in {"done", "backoff"}
           /\ Unproven(d) \in {"done", "stranded"}
           /\ StopFailed(d) \in {"done", "stranded"}
           /\ AfterPersist(d) \in {"done", "backoff"}
           /\ AfterFailedPersist(d) \in {"done", "retry", "stranded"}
  BY DEF AfterFailedStart, Unproven, StopFailed, AfterPersist, AfterFailedPersist

\* A counted failure stays within its bound.
LEMMA FaultType ==
    ASSUME TypeOK, Fault \/ Smooth
    PROVE  faults' \in 0..MaxFaults
  BY AppServerAssumption DEF Fault, Smooth, TypeOK

\* Stopping a child and leaving it keep the types of the owner's state.
LEMMA LeaveType ==
    ASSUME TypeOK, NEW d \in Procs, NEW next \in OwnStates, Leave(d, next)
    PROVE  /\ own' \in [Procs -> OwnStates]
           /\ stop' \in [Procs -> {"none", "eof", "terminating", "term", "killing", "kill"}]
           /\ kid' \in [Procs -> Gens \cup {NoGen}]
           /\ why' \in [Procs -> {"none", "unsaved", "refused", "failed", "ended"}]
  BY DEF Leave, TypeOK, OwnStates

LEMMA BeginStopType ==
    ASSUME TypeOK, NEW d \in Procs, NEW reason \in {"unsaved", "refused", "failed", "ended"},
           BeginStop(d, reason)
    PROVE  /\ own' \in [Procs -> OwnStates]
           /\ stop' \in [Procs -> {"none", "eof", "terminating", "term", "killing", "kill"}]
           /\ why' \in [Procs -> {"none", "unsaved", "refused", "failed", "ended"}]
  BY DEF BeginStop, TypeOK, OwnStates

\* The type invariant in parts.
OwnTypes ==
    /\ own \in [Procs -> OwnStates] /\ kid \in [Procs -> Gens \cup {NoGen}]
    /\ why \in [Procs -> {"none", "unsaved", "refused", "failed", "ended"}]
    /\ stop \in [Procs -> {"none", "eof", "terminating", "term", "killing", "kill"}]
ChildTypes ==
    /\ child \in [Gens -> {"none", "alive", "killed", "zombie", "reaped", "reused"}]
    /\ parent \in [Gens -> Procs \cup {NoProc}]
    /\ lost \subseteq Gens /\ strays \subseteq Gens
MainTypes ==
    /\ flock \in Procs \cup {NoProc} /\ record \in Procs \cup {NoProc}
    /\ ckpt \in Gens \cup {NoGen}
    /\ main \in [Procs -> {"off", "check", "run", "closing", "dbclosed",
                           "unlocked", "dying"}]
    /\ faults \in 0..MaxFaults /\ crashes \in 0..MaxCrashes

LEMMA TypeParts ==
    /\ TypeOK <=> OwnTypes /\ ChildTypes /\ MainTypes /\ first \in [Procs -> BOOLEAN]
    /\ TypeOK' <=> OwnTypes' /\ ChildTypes' /\ MainTypes' /\ first' \in [Procs -> BOOLEAN]
  BY Zenon DEF TypeOK, OwnTypes, ChildTypes, MainTypes, OwnStates

\* The owner's flag is only ever set, cleared or left alone.
LEMMA FirstType ==
    ASSUME TypeOK, NEW d \in Procs,
           \/ UNCHANGED first \/ first' = [first EXCEPT ![d] = TRUE]
           \/ first' = [first EXCEPT ![d] = FALSE]
    PROVE  first' \in [Procs -> BOOLEAN]
  BY DEF TypeOK

\* The owner's steps.
LEMMA OwnerType ==
    ASSUME TypeOK, OwnerInv, NEW d \in Procs,
           OwnerStep(d) \/ SessionFails(d) \/ StopFails(d)
    PROVE  TypeOK'
<1> USE TypeParts, NextOwnType, FaultType
<1>1. CASE Spawn(d)
  <2>1. OwnTypes' /\ ChildTypes'
    BY <1>1 DEF Spawn, StartChild, OwnTypes, ChildTypes, OwnStates
  <2> QED
    BY <1>1, <2>1 DEF Spawn, MainTypes, lockVars
<1>2. CASE SaveRunning(d)
  <2>1. OwnTypes' /\ MainTypes'
    BY <1>2, BeginStopType DEF SaveRunning, SaveCheckpoint, OwnTypes, MainTypes, OwnStates, lockVars
  <2> QED
    BY <1>2, <2>1 DEF SaveRunning, ChildTypes, childVars
<1>3. CASE Initialize(d)
  <2>1. OwnTypes' /\ MainTypes'
    BY <1>3, BeginStopType DEF Initialize, OwnTypes, MainTypes, OwnStates, lockVars
  <2>2. first' \in [Procs -> BOOLEAN]
    BY <1>3, FirstType DEF Initialize
  <2> QED
    BY <1>3, <2>1, <2>2 DEF Initialize, ChildTypes, childVars
<1>4. CASE Drained(d) \/ EndSession(d) \/ SessionFails(d)
  <2>1. OwnTypes' /\ MainTypes'
    BY <1>4, BeginStopType DEF Drained, EndSession, SessionFails, OwnTypes, MainTypes, OwnStates, lockVars
  <2> QED
    BY <1>4, <2>1 DEF Drained, EndSession, SessionFails, ChildTypes, childVars
<1>5. CASE Observe(d)
  BY <1>5 DEF Observe, OwnTypes, ChildTypes, MainTypes, lockVars
<1>6. CASE Signal(d)
  <2>1. kid[d] \in Gens
    BY <1>6 DEF Signal, OwnerInv, HasChild, OwnTypes
  <2> QED
    BY <1>6, <2>1 DEF Signal, OwnTypes, ChildTypes, MainTypes, lockVars
<1>7. CASE StopDone(d)
  <2>1. OwnTypes'
    BY <1>7, LeaveType DEF StopDone, OwnTypes, OwnStates
  <2> QED
    BY <1>7, <2>1 DEF StopDone, ChildTypes, MainTypes, lockVars, childVars
<1>8. CASE Persist(d)
  <2>1. OwnTypes'
    BY <1>8, LeaveType DEF Persist, OwnTypes, OwnStates
  <2>2. MainTypes'
    BY <1>8 DEF Persist, SaveCheckpoint, MainTypes, lockVars
  <2> QED
    BY <1>8, <2>1, <2>2 DEF Persist, ChildTypes, childVars
<1>9. CASE Wake(d)
  BY <1>9 DEF Wake, OwnTypes, OwnStates, ChildTypes, MainTypes, lockVars, childVars
<1>10. CASE StopFails(d)
  <2>1. kid[d] \in Gens
    BY <1>10 DEF StopFails, OwnerInv, HasChild, OwnTypes
  <2>2. OwnTypes'
    BY <1>10, LeaveType DEF StopFails, OwnTypes, OwnStates
  <2> QED
    BY <1>10, <2>1, <2>2 DEF StopFails, ChildTypes, MainTypes, lockVars
<1> QED
  BY <1>1, <1>2, <1>3, <1>4, <1>5, <1>6, <1>7, <1>8, <1>9, <1>10 DEF OwnerStep

\* The main goroutine's steps, the kernel's and the children's.
LEMMA MainType ==
    ASSUME TypeOK, OwnerInv,
           \/ \E d \in Procs : Launch(d) \/ MainStep(d) \/ Shutdown(d) \/ Crash(d)
           \/ \E g \in Gens : ChildExits(g) \/ Reaped(g) \/ PidReused(g)
           \/ UNCHANGED vars
    PROVE  TypeOK'
<1> USE TypeParts, FaultType
<1>1. ASSUME NEW d \in Procs, Launch(d) \/ Unlock(d) \/ Exit(d) \/ Shutdown(d) \/ Crash(d)
      PROVE  TypeOK'
  <2>1. MainTypes'
    BY <1>1, AppServerAssumption DEF Launch, Unlock, Exit, Shutdown, Crash, MainTypes, lockVars
  <2> QED
    BY <1>1, <2>1 DEF Launch, Unlock, Exit, Shutdown, Crash, OwnTypes, ChildTypes, ownVars, childVars
<1>2. ASSUME NEW d \in Procs, ReapPrevious(d) PROVE TypeOK'
  <2>1. MainTypes' /\ OwnTypes'
    BY <1>2 DEF ReapPrevious, MainTypes, OwnTypes, OwnStates, lockVars
  <2>2. first' \in [Procs -> BOOLEAN]
    BY <1>2, FirstType DEF ReapPrevious
  <2> QED
    BY <1>2, <2>1, <2>2 DEF ReapPrevious, ChildTypes, childVars
<1>3. ASSUME NEW d \in Procs, CloseDb(d) PROVE TypeOK'
  <2>1. Unrecorded(d) => kid[d] \in Gens
    BY DEF Unrecorded, OwnerInv, HasChild, OwnTypes
  <2>2. MainTypes' /\ ChildTypes'
    BY <1>3, <2>1 DEF CloseDb, MainTypes, ChildTypes, lockVars
  <2> QED
    BY <1>3, <2>2 DEF CloseDb, OwnTypes, ownVars
<1>4. ASSUME NEW d \in Procs, Vanish(d) PROVE TypeOK'
  <2>1. MainTypes' /\ ChildTypes' /\ OwnTypes'
    BY <1>4 DEF Vanish, Orphaned, MainTypes, ChildTypes, OwnTypes, OwnStates, lockVars
  <2>2. first' \in [Procs -> BOOLEAN]
    BY <1>4, FirstType DEF Vanish
  <2> QED
    BY <2>1, <2>2
<1>5. ASSUME NEW g \in Gens, ChildExits(g) \/ Reaped(g) \/ PidReused(g) PROVE TypeOK'
  <2>1. MainTypes' /\ ChildTypes'
    BY <1>5 DEF ChildExits, Reaped, PidReused, MainTypes, ChildTypes, lockVars
  <2> QED
    BY <1>5, <2>1 DEF ChildExits, Reaped, PidReused, OwnTypes, ownVars
<1>6. CASE UNCHANGED vars
  BY <1>6 DEF vars, lockVars, ownVars, childVars, MainTypes, ChildTypes, OwnTypes
<1> QED
  BY <1>1, <1>2, <1>3, <1>4, <1>5, <1>6 DEF MainStep

----------------------------------------------------------------------------
(* The invariant.                                                          *)

\* The actions of one process, and of the kernel and the children.
ProcAction(d) ==
    \/ Launch(d) \/ OwnerStep(d) \/ MainStep(d)
    \/ SessionFails(d) \/ StopFails(d) \/ Shutdown(d) \/ Crash(d)
ChildAction(g) == ChildExits(g) \/ Reaped(g) \/ PidReused(g)

\* One holder of the lock at most, and the file names it.
LEMMA LockStep ==
    ASSUME TypeOK, LockInv, [Next]_vars
    PROVE  LockInv'
<1> USE DEF LockInv, MainTypes, Holding
<1> USE TypeParts, AppServerAssumption
<1>1. ASSUME UNCHANGED <<flock, record, main>> PROVE LockInv'
  BY <1>1
<1>2. ASSUME NEW d \in Procs, Launch(d) PROVE LockInv'
  BY <1>2 DEF Launch, MayLock, PidExists
<1>3. ASSUME NEW d \in Procs, ReapPrevious(d) \/ CloseDb(d) \/ Shutdown(d) PROVE LockInv'
  BY <1>3 DEF ReapPrevious, CloseDb, Shutdown, lockVars
<1>4. ASSUME NEW d \in Procs, Unlock(d) \/ Exit(d) \/ Crash(d) \/ Vanish(d) PROVE LockInv'
  BY <1>4 DEF Unlock, Exit, Crash, Vanish, Executing, lockVars
<1>5. ASSUME NEW d \in Procs, OwnerStep(d) \/ SessionFails(d) \/ StopFails(d)
      PROVE  UNCHANGED <<flock, record, main>>
  BY <1>5 DEF OwnerStep, Spawn, SaveRunning, Initialize, Drained, EndSession, Observe,
     Signal, StopDone, Persist, Wake, SessionFails, StopFails, lockVars
<1>6. ASSUME NEW g \in Gens, ChildAction(g) PROVE UNCHANGED <<flock, record, main>>
  BY <1>6 DEF ChildAction, ChildExits, Reaped, PidReused, lockVars
<1>7. CASE UNCHANGED vars
  BY <1>7, <1>1 DEF vars, lockVars
<1> QED
  BY <1>1, <1>2, <1>3, <1>4, <1>5, <1>6, <1>7 DEF Next, MainStep, ChildAction

\* Every session has a child of its own process.
LEMMA OwnerInvStep ==
    ASSUME TypeOK, OwnerInv, [Next]_vars
    PROVE  OwnerInv'
<1> USE DEF OwnerInv, OwnTypes, MainTypes, ChildTypes, HasChild, NoGen, Gens
<1> USE TypeParts, NextOwnType, AppServerAssumption
<1>1. ASSUME NEW d \in Procs, Spawn(d) PROVE OwnerInv'
  BY <1>1, SMTT(30) DEF Spawn, StartChild, Executing
<1>2. ASSUME NEW d \in Procs, SaveRunning(d) \/ Initialize(d) \/ Drained(d) \/ EndSession(d)
      PROVE  OwnerInv'
  BY <1>2 DEF SaveRunning, Initialize, Drained, EndSession, BeginStop, childVars
<1>3. ASSUME NEW d \in Procs, Observe(d) \/ Signal(d) PROVE OwnerInv'
  BY <1>3 DEF Observe, Signal
<1>4. ASSUME NEW d \in Procs, StopDone(d) \/ StopFails(d) PROVE OwnerInv'
  <2>1. \E next \in {"done", "stranded", "persist"} : Leave(d, next)
    BY <1>4 DEF StopDone, StopFails
  <2> QED
    BY <1>4, <2>1 DEF StopDone, StopFails, Leave, childVars
<1>5. ASSUME NEW d \in Procs, Persist(d) PROVE OwnerInv'
  <2>1. \/ own' = [own EXCEPT ![d] = AfterPersist(d)]
        \/ own' = [own EXCEPT ![d] = AfterFailedPersist(d)]
    BY <1>5 DEF Persist, Leave
  <2>2. \E next \in {"done", "stranded", "retry", "backoff"} : own' = [own EXCEPT ![d] = next]
    BY <2>1
  <2>3. kid' = [kid EXCEPT ![d] = NoGen] /\ UNCHANGED <<main, child, parent>> /\ own[d] = "persist"
    BY <1>5 DEF Persist, Leave, childVars
  <2> QED
    BY <2>2, <2>3
<1>6. ASSUME NEW d \in Procs, Wake(d) \/ SessionFails(d) PROVE OwnerInv'
  <2>1. \/ /\ own[d] \in {"backoff", "retry", "stranded"}
           /\ \E to \in {"version", "persist", "done"} : own' = [own EXCEPT ![d] = to]
        \/ own[d] = "up" /\ own' = [own EXCEPT ![d] = "draining"]
    BY <1>6 DEF Wake, SessionFails
  <2>2. UNCHANGED <<main, kid, child, parent>>
    BY <1>6 DEF Wake, SessionFails, childVars
  <2> QED
    BY <2>1, <2>2
<1>7. ASSUME NEW d \in Procs, Launch(d) \/ ReapPrevious(d) \/ CloseDb(d) \/ Unlock(d) PROVE OwnerInv'
  BY <1>7 DEF Launch, ReapPrevious, CloseDb, Unlock, ownVars, childVars
<1>8. ASSUME NEW d \in Procs, Exit(d) \/ Shutdown(d) \/ Crash(d) PROVE OwnerInv'
  BY <1>8 DEF Exit, Shutdown, Crash, ownVars, childVars
<1>9. ASSUME NEW d \in Procs, Vanish(d) PROVE OwnerInv'
  BY <1>9 DEF Vanish, Orphaned
<1>10. ASSUME NEW g \in Gens, ChildAction(g) PROVE OwnerInv'
  BY <1>10 DEF ChildAction, ChildExits, Reaped, PidReused, ownVars
<1>11. CASE UNCHANGED vars
  BY <1>11 DEF vars, ownVars, childVars
<1> QED
  BY <1>1, <1>2, <1>3, <1>4, <1>5, <1>6, <1>7, <1>8, <1>9, <1>10, <1>11
     DEF Next, OwnerStep, MainStep, ChildAction

\* Between the look and the signal nobody reaps the child.
LEMMA SignalStep ==
    ASSUME TypeOK, OwnerInv, SignalInv, [Next]_vars
    PROVE  SignalInv'
<1> USE DEF SignalInv, OwnTypes, MainTypes, ChildTypes, Executing
<1> USE TypeParts, NextOwnType, AppServerAssumption
<1>1. ASSUME NEW d \in Procs, Spawn(d) PROVE SignalInv'
  BY <1>1 DEF Spawn, StartChild, OwnerInv, HasChild, NoGen
<1>2. ASSUME NEW d \in Procs, SaveRunning(d) \/ Initialize(d) \/ Drained(d) \/ EndSession(d)
      PROVE  SignalInv'
  BY <1>2 DEF SaveRunning, Initialize, Drained, EndSession, BeginStop, childVars
<1>3. ASSUME NEW d \in Procs, Observe(d) PROVE SignalInv'
  BY <1>3 DEF Observe, OwnerInv, HasChild, NoGen
<1>4. ASSUME NEW d \in Procs, Signal(d) PROVE SignalInv'
  BY <1>4 DEF Signal, OwnerInv, HasChild, NoGen
<1>5. ASSUME NEW d \in Procs, StopDone(d) \/ StopFails(d) \/ Persist(d) PROVE SignalInv'
  BY <1>5 DEF StopDone, StopFails, Persist, Leave, childVars
<1>6. ASSUME NEW d \in Procs, Wake(d) \/ SessionFails(d) PROVE SignalInv'
  BY <1>6 DEF Wake, SessionFails, childVars
<1>7. ASSUME NEW d \in Procs, Launch(d) \/ ReapPrevious(d) \/ CloseDb(d) \/ Unlock(d) PROVE SignalInv'
  BY <1>7 DEF Launch, ReapPrevious, CloseDb, Unlock, ownVars, childVars, OwnerInv
<1>8. ASSUME NEW d \in Procs, Exit(d) \/ Shutdown(d) \/ Crash(d) PROVE SignalInv'
  BY <1>8 DEF Exit, Shutdown, Crash, ownVars, childVars
<1>9. ASSUME NEW d \in Procs, Vanish(d) PROVE SignalInv'
  <2>1. \A e \in Procs : own'[e] = "stop" => /\ e # d /\ own[e] = "stop" /\ stop'[e] = stop[e]
                                            /\ kid'[e] = kid[e] /\ kid[e] \in Gens
                                            /\ main'[e] = main[e]
    BY <1>9 DEF Vanish, OwnerInv, HasChild, NoGen
  <2>2. \A g \in Gens : child[g] \in {"alive", "killed", "zombie"}
                            => child'[g] \in {"alive", "killed", "zombie"}
    BY <1>9 DEF Vanish, Orphaned
  <2> QED
    BY <2>1, <2>2
<1>10. ASSUME NEW g \in Gens, ChildAction(g) PROVE SignalInv'
  BY <1>10 DEF ChildAction, ChildExits, Reaped, PidReused, ownVars, Locked, OwnerInv, HasChild, NoGen
<1>11. CASE UNCHANGED vars
  BY <1>11 DEF vars, ownVars, childVars
<1> QED
  BY <1>1, <1>2, <1>3, <1>4, <1>5, <1>6, <1>7, <1>8, <1>9, <1>10, <1>11
     DEF Next, OwnerStep, MainStep, ChildAction

\* A child that is reaped stays reaped, one that does not exist is started,
\* and nothing starts to work but a new child.
LEMMA ChildrenGo ==
    ASSUME TypeOK, NEW g \in Gens, [Next]_vars,
           \A d \in Procs : ~Spawn(d)
    PROVE  /\ child[g] \in {"reaped", "reused"} => child'[g] \in {"reaped", "reused"}
           /\ child[g] # "none" <=> child'[g] # "none"
           /\ child'[g] = "alive" => child[g] = "alive"
           /\ UNCHANGED parent
<1> USE DEF ChildTypes
<1> USE TypeParts
<1>1. CASE \E d \in Procs : Observe(d) \/ Signal(d)
  BY <1>1 DEF Observe, Signal
<1>2. CASE \E d \in Procs : Vanish(d)
  BY <1>2 DEF Vanish, Orphaned
<1>3. CASE \E h \in Gens : ChildAction(h)
  BY <1>3 DEF ChildAction, ChildExits, Reaped, PidReused
<1>4. CASE UNCHANGED <<child, parent>>
  BY <1>4
<1>5. ASSUME NEW d \in Procs,
             \/ Launch(d) \/ SaveRunning(d) \/ Initialize(d) \/ Drained(d) \/ EndSession(d)
             \/ StopDone(d) \/ Persist(d) \/ Wake(d) \/ ReapPrevious(d) \/ CloseDb(d)
             \/ Unlock(d) \/ Exit(d) \/ SessionFails(d) \/ StopFails(d) \/ Shutdown(d) \/ Crash(d)
      PROVE  UNCHANGED <<child, parent>>
  BY <1>5 DEF Launch, SaveRunning, Initialize, Drained, EndSession, StopDone, Persist, Wake,
     ReapPrevious, CloseDb, Unlock, Exit, SessionFails, StopFails, Shutdown, Crash, childVars
<1>6. CASE UNCHANGED vars
  BY <1>6, <1>4 DEF vars, childVars
<1> QED
  BY <1>1, <1>2, <1>3, <1>4, <1>5, <1>6 DEF Next, OwnerStep, MainStep, ChildAction

\* A dead checkpoint that is not written stays dead.
LEMMA DeadStays ==
    ASSUME TypeOK, ChargeInv, [Next]_vars, UNCHANGED ckpt, \A d \in Procs : ~Spawn(d)
    PROVE  /\ CheckpointDead => CheckpointDead'
           /\ ckpt' # NoGen => child'[ckpt'] # "none"
  BY ChildrenGo, TypeParts DEF CheckpointDead, ChargeInv, MainTypes

\* A start moves its owner on: a step that does not is none.
LEMMA NoSpawn ==
    ASSUME TypeOK, NEW d \in Procs, own'[d] = own[d] \/ main[d] = "dying"
    PROVE  ~Spawn(d)
<1> SUFFICES ASSUME Spawn(d) PROVE FALSE
  OBVIOUS
<1>1. own[d] = "version" /\ main[d] # "dying" /\ own'[d] \in {"spawned", "done", "backoff"}
  BY NextOwnType, TypeParts DEF Spawn, Executing, OwnTypes
<1> QED
  BY <1>1

\* A step that does not write the checkpoint keeps ChargeInv if everyone's
\* charge is met by the checkpoint as it is.
LEMMA ChargeKept ==
    ASSUME TypeOK, ChargeInv, [Next]_vars, UNCHANGED ckpt, \A d \in Procs : ~Spawn(d),
           \A d \in Procs : InCharge(d)' =>
               /\ own'[d] \in {"version", "backoff", "persist", "retry"} \/ Unrecorded(d)' => CheckpointDead
               /\ own'[d] \in HasChild /\ ~Unrecorded(d)' => ckpt = kid'[d]
    PROVE  ChargeInv'
  BY DeadStays DEF ChargeInv

LEMMA ChargeStep ==
    ASSUME TypeOK, LockInv, OwnerInv, ChargeInv, [Next]_vars
    PROVE  ChargeInv'
<1> USE DEF OwnTypes, MainTypes, HasChild
<1> USE TypeParts
<1> DEFINE Same(d) == \A e \in Procs \ {d} : /\ main'[e] = main[e] /\ own'[e] = own[e]
                                             /\ kid'[e] = kid[e] /\ why'[e] = why[e]
<1>0. ASSUME NEW d \in Procs, ProcAction(d) PROVE Same(d)
  <2>1. CASE OwnerStep(d) \/ SessionFails(d) \/ StopFails(d)
    BY <2>1 DEF OwnerStep, Spawn, StartChild, SaveRunning, Initialize, Drained, EndSession,
       Observe, Signal, StopDone, Persist, Wake, SessionFails, StopFails, BeginStop, Leave
  <2>2. CASE Launch(d) \/ MainStep(d) \/ Shutdown(d) \/ Crash(d)
    BY <2>2 DEF Launch, MainStep, ReapPrevious, CloseDb, Unlock, Exit, Vanish, Shutdown,
       Crash, ownVars
  <2> QED
    BY <1>0, <2>1, <2>2 DEF ProcAction
<1> HIDE DEF Same
<1>1. ASSUME NEW d \in Procs, Spawn(d) PROVE ChargeInv'
  <2>1. Same(d) /\ UNCHANGED <<record, main, ckpt, why>> /\ own[d] = "version"
    BY <1>0, <1>1 DEF ProcAction, OwnerStep, Spawn, lockVars
  <2>2. \A g \in Gens : child[g] # "none" => child'[g] = child[g]
    BY <1>1 DEF Spawn, StartChild, ChildTypes
  <2>3. \A e \in Procs : InCharge(e)' => InCharge(e)
    BY <2>1 DEF InCharge
  <2>4. own'[d] \in {"spawned", "done", "backoff"}
    BY <1>1, NextOwnType DEF Spawn
  <2>5. (CheckpointDead => CheckpointDead') /\ (ckpt' # NoGen => child'[ckpt'] # "none")
    BY <2>1, <2>2 DEF CheckpointDead, ChargeInv
  <2>6. \A e \in Procs \ {d} : Unrecorded(e)' <=> Unrecorded(e)
    BY <2>1 DEF Unrecorded, Same
  <2> QED
    BY <2>1, <2>3, <2>4, <2>5, <2>6 DEF ChargeInv, Same, Unrecorded
<1>2. ASSUME NEW d \in Procs, SaveRunning(d) PROVE ChargeInv'
  <2>1. Same(d) /\ UNCHANGED <<record, main, kid, child>> /\ own[d] = "spawned"
    BY <1>0, <1>2 DEF ProcAction, OwnerStep, SaveRunning, lockVars, childVars
  <2>2. \A e \in Procs \ {d} : Unrecorded(e)' <=> Unrecorded(e)
    BY <2>1 DEF Unrecorded, Same
  <2>3. CASE ~Cancelled(d) /\ ckpt' = kid[d] /\ own' = [own EXCEPT ![d] = "initialize"]
    <3>1. record = d /\ \A e \in Procs : InCharge(e)' => e = d
      BY <2>1, <2>3 DEF Cancelled, LockInv, Holding, InCharge
    <3>2. ~Unrecorded(d)' /\ ckpt' # NoGen /\ child'[ckpt'] # "none"
      BY <2>1, <2>3 DEF Unrecorded, OwnerInv
    <3> QED
      BY <2>1, <2>3, <3>1, <3>2 DEF ChargeInv
  <2>4. CASE UNCHANGED ckpt /\ BeginStop(d, "unsaved")
    <3>1. Unrecorded(d) /\ Unrecorded(d)' /\ own'[d] = "stop"
      BY <2>1, <2>4 DEF Unrecorded, BeginStop
    <3> QED
      BY <2>1, <2>2, <2>4, <3>1 DEF ChargeInv, InCharge, Same, CheckpointDead
  <2> QED
    BY <1>2, <2>3, <2>4 DEF SaveRunning, SaveCheckpoint
<1>3. ASSUME NEW d \in Procs, Persist(d) PROVE ChargeInv'
  <2>1. Same(d) /\ UNCHANGED <<record, main, child>> /\ own[d] = "persist"
    BY <1>0, <1>3 DEF ProcAction, OwnerStep, Persist, lockVars, childVars
  <2>2. \A e \in Procs \ {d} : Unrecorded(e)' <=> Unrecorded(e)
    BY <2>1 DEF Unrecorded, Same
  <2>3. own'[d] \in {"done", "backoff", "retry", "stranded"}
    BY <1>3, NextOwnType DEF Persist, Leave
  <2>4. CASE DbOpen(d) /\ ckpt' = NoGen
    <3>1. record = d /\ \A e \in Procs : InCharge(e)' => e = d
      BY <2>1, <2>4 DEF DbOpen, LockInv, Holding, InCharge
    <3> QED
      BY <2>3, <2>4, <3>1 DEF ChargeInv, CheckpointDead
  <2>5. CASE UNCHANGED ckpt
    BY <2>1, <2>2, <2>3, <2>5 DEF ChargeInv, InCharge, Same, CheckpointDead
  <2> QED
    BY <1>3, <2>4, <2>5 DEF Persist, SaveCheckpoint
<1>4. ASSUME NEW d \in Procs, ReapPrevious(d) PROVE ChargeInv'
  <2>1. Same(d) /\ UNCHANGED <<record, ckpt, child, kid, why>> /\ own[d] = "none"
    BY <1>0, <1>4 DEF ProcAction, MainStep, ReapPrevious, lockVars, childVars, OwnerInv
  <2>2. \A e \in Procs \ {d} : Unrecorded(e)' <=> Unrecorded(e)
    BY <2>1 DEF Unrecorded, Same
  <2>3. MayStart => CheckpointDead
    BY DEF MayStart, Match, ChargeInv, CheckpointDead, ChildTypes
  <2>4. CASE MayStart /\ own' = [own EXCEPT ![d] = "version"]
    BY <2>1, <2>2, <2>3, <2>4 DEF ChargeInv, InCharge, Same, CheckpointDead, Unrecorded
  <2>5. CASE UNCHANGED own
    BY <2>1, <2>2, <2>5 DEF ChargeInv, InCharge, Same, CheckpointDead, Unrecorded
  <2> QED
    BY <1>4, <2>4, <2>5 DEF ReapPrevious
<1>5. ASSUME NEW d \in Procs, StopDone(d) \/ StopFails(d) PROVE ChargeInv'
  <2>1. Same(d) /\ UNCHANGED <<record, main, ckpt, child>> /\ own[d] = "stop"
    BY <1>0, <1>5 DEF ProcAction, OwnerStep, StopDone, StopFails, lockVars, childVars
  <2>2. \A e \in Procs \ {d} : Unrecorded(e)' <=> Unrecorded(e)
    BY <2>1 DEF Unrecorded, Same
  <2>3. /\ own'[d] \in {"done", "stranded", "persist"}
        /\ own'[d] = "persist" => Gone(kid[d]) /\ ~Unrecorded(d)
    BY <1>5, NextOwnType DEF StopDone, StopFails, Leave, Unrecorded
  <2> QED
    BY <2>1, <2>2, <2>3 DEF ChargeInv, InCharge, Same, CheckpointDead, Gone, Unrecorded
<1>6. ASSUME NEW d \in Procs,
             Initialize(d) \/ Drained(d) \/ EndSession(d) \/ SessionFails(d) PROVE ChargeInv'
  <2>1. Same(d) /\ UNCHANGED <<record, main, ckpt, child, kid>>
    BY <1>0, <1>6 DEF ProcAction, OwnerStep, Initialize, Drained, EndSession, SessionFails,
       lockVars, childVars
  <2>2. \A e \in Procs \ {d} : Unrecorded(e)' <=> Unrecorded(e)
    BY <2>1 DEF Unrecorded, Same
  <2>3. own[d] \in HasChild /\ ~Unrecorded(d) /\ own'[d] \in HasChild /\ ~Unrecorded(d)'
    BY <1>6 DEF Initialize, Drained, EndSession, SessionFails, BeginStop, Unrecorded
  <2> QED
    BY <2>1, <2>2, <2>3 DEF ChargeInv, InCharge, Same, CheckpointDead
<1>7. ASSUME NEW d \in Procs, Wake(d) PROVE ChargeInv'
  <2>1. Same(d) /\ UNCHANGED <<record, main, ckpt, child, kid>>
    BY <1>0, <1>7 DEF ProcAction, OwnerStep, Wake, lockVars, childVars
  <2>2. \A e \in Procs \ {d} : Unrecorded(e)' <=> Unrecorded(e)
    BY <2>1 DEF Unrecorded, Same
  <2>3. /\ own'[d] \in {"done", "version", "persist"} /\ ~Unrecorded(d)'
        /\ own'[d] # "done" => own[d] \in {"backoff", "retry"}
    BY <1>7 DEF Wake, Unrecorded
  <2> QED
    BY <2>1, <2>2, <2>3 DEF ChargeInv, InCharge, Same, CheckpointDead
<1>8. ASSUME \A d \in Procs : ~Spawn(d),
             UNCHANGED <<ckpt, own, why, kid>>,
             \A d \in Procs : InCharge(d)' => InCharge(d) \/ own[d] = "none"
      PROVE  ChargeInv'
  <2>1. \A d \in Procs : Unrecorded(d)' <=> Unrecorded(d)
    BY <1>8 DEF Unrecorded
  <2>2. \A d \in Procs : own[d] = "none" => ~Unrecorded(d)
    BY DEF Unrecorded
  <2> QED
    BY <1>8, <2>1, <2>2, ChargeKept DEF ChargeInv
<1>9. ASSUME NEW d \in Procs, Observe(d) \/ Signal(d) PROVE ChargeInv'
  <2>1. UNCHANGED <<ckpt, own, why, kid, record, main>> /\ \A e \in Procs : ~Spawn(e)
    BY <1>9, NoSpawn DEF Observe, Signal, lockVars
  <2> QED
    BY <1>8, <2>1 DEF InCharge
<1>10. ASSUME NEW d \in Procs,
              CloseDb(d) \/ Unlock(d) \/ Exit(d) \/ Shutdown(d) \/ Crash(d) \/ Launch(d)
       PROVE  ChargeInv'
  <2>1. UNCHANGED <<ckpt, own, why, kid>> /\ \A e \in Procs : ~Spawn(e)
    BY <1>10, NoSpawn DEF CloseDb, Unlock, Exit, Shutdown, Crash, Launch, ownVars
  <2>2. \A e \in Procs : InCharge(e)' => InCharge(e) \/ own[e] = "none"
    BY <1>10, AppServerAssumption DEF CloseDb, Unlock, Exit, Shutdown, Crash, Launch, InCharge,
       OwnerInv, LockInv, Holding, Executing, lockVars
  <2> QED
    BY <1>8, <2>1, <2>2
<1>11. ASSUME NEW d \in Procs, Vanish(d) PROVE ChargeInv'
  <2>1. Same(d) /\ UNCHANGED <<record, ckpt>> /\ \A e \in Procs : ~Spawn(e)
    <3>1. Same(d) /\ UNCHANGED <<record, ckpt>> /\ main[d] = "dying"
      BY <1>0, <1>11 DEF ProcAction, MainStep, Vanish, lockVars
    <3> QED
      BY <3>1, NoSpawn DEF Same
  <2>2. \A e \in Procs \ {d} : (Unrecorded(e)' <=> Unrecorded(e)) /\ (InCharge(e)' <=> InCharge(e))
    BY <2>1 DEF Unrecorded, InCharge, Same
  <2>3. ~InCharge(d)'
    BY <1>11 DEF Vanish, InCharge
  <2>4. \A e \in Procs : InCharge(e)' =>
            /\ own'[e] \in {"version", "backoff", "persist", "retry"} \/ Unrecorded(e)' => CheckpointDead
            /\ own'[e] \in HasChild /\ ~Unrecorded(e)' => ckpt = kid'[e]
    BY <2>1, <2>2, <2>3 DEF ChargeInv, Same
  <2> QED
    BY <2>1, <2>4, ChargeKept
<1>12. ASSUME NEW g \in Gens, ChildAction(g) PROVE ChargeInv'
  <2>1. UNCHANGED <<ckpt, own, why, kid, record, main>> /\ \A e \in Procs : ~Spawn(e)
    BY <1>12, NoSpawn DEF ChildAction, ChildExits, Reaped, PidReused, lockVars, ownVars
  <2> QED
    BY <1>8, <2>1 DEF InCharge
<1>13. CASE UNCHANGED vars
  BY <1>13 DEF vars, lockVars, ownVars, childVars, ChargeInv, InCharge, CheckpointDead, Unrecorded
<1> QED
  BY <1>1, <1>2, <1>3, <1>4, <1>5, <1>6, <1>7, <1>9, <1>10, <1>11, <1>12, <1>13
     DEF Next, OwnerStep, MainStep, ChildAction

\* App Servers given up are never taken back.
LEMMA LostGrows ==
    ASSUME [Next]_vars
    PROVE  lost \subseteq lost'
<1>1. ASSUME NEW d \in Procs, CloseDb(d) \/ StopFails(d) PROVE lost \subseteq lost'
  BY <1>1 DEF CloseDb, StopFails
<1>2. ASSUME NEW d \in Procs, OwnerStep(d) \/ SessionFails(d) PROVE lost' = lost
  BY <1>2 DEF OwnerStep, Spawn, SaveRunning, Initialize, Drained, EndSession, Observe,
     Signal, StopDone, Persist, Wake, SessionFails, childVars
<1>3. ASSUME NEW d \in Procs, Launch(d) \/ ReapPrevious(d) \/ Unlock(d) \/ Exit(d) \/ Vanish(d)
                              \/ Shutdown(d) \/ Crash(d)
      PROVE  lost' = lost
  BY <1>3 DEF Launch, ReapPrevious, Unlock, Exit, Vanish, Shutdown, Crash, childVars
<1>4. ASSUME NEW g \in Gens, ChildAction(g) PROVE lost' = lost
  BY <1>4 DEF ChildAction, ChildExits, Reaped, PidReused
<1>5. CASE UNCHANGED vars
  BY <1>5 DEF vars, childVars
<1> QED
  BY <1>1, <1>2, <1>3, <1>4, <1>5 DEF Next, MainStep, ChildAction

\* The unrecorded child g of the process in charge.
HiddenBy(g, d) ==
    /\ d \in Procs /\ record = d /\ main[d] \in {"run", "closing", "dying"}
    /\ kid[d] = g /\ Unrecorded(d)

\* It stays so, is given up, is reaped, or enters the checkpoint.
LEMMA HiddenStays ==
    ASSUME TypeOK, LockInv, OwnerInv, NEW g \in Gens, NEW p \in Procs,
           HiddenBy(g, p), parent[g] = p, [Next]_vars, Works(g)', g \notin lost', ckpt' # g
    PROVE  HiddenBy(g, p)'
<1> USE DEF OwnTypes, MainTypes, HiddenBy, Unrecorded, HasChild
<1> USE TypeParts, NextOwnType, AppServerAssumption
<1>1. ASSUME NEW d \in Procs, Spawn(d) \/ Persist(d) \/ Wake(d) PROVE HiddenBy(g, p)'
  <2>1. own[d] \notin HasChild /\ UNCHANGED <<record, main>>
    BY <1>1 DEF Spawn, Persist, Wake, lockVars
  <2>2. d # p /\ own'[p] = own[p] /\ kid'[p] = kid[p] /\ why'[p] = why[p]
    BY <1>1, <2>1 DEF Spawn, StartChild, Persist, Wake, Leave
  <2> QED
    BY <2>1, <2>2
<1>2. ASSUME NEW d \in Procs, SaveRunning(d) PROVE HiddenBy(g, p)'
  BY <1>2 DEF SaveRunning, SaveCheckpoint, BeginStop, lockVars
<1>3. ASSUME NEW d \in Procs, Initialize(d) \/ Drained(d) \/ EndSession(d) \/ SessionFails(d)
      PROVE  HiddenBy(g, p)'
  BY <1>3 DEF Initialize, Drained, EndSession, SessionFails, BeginStop, lockVars
<1>4. ASSUME NEW d \in Procs, StopDone(d) \/ StopFails(d) PROVE HiddenBy(g, p)'
  <2>1. d # p
    BY <1>4 DEF StopDone, StopFails, Gone, Works, childVars
  <2> QED
    BY <1>4, <2>1 DEF StopDone, StopFails, Leave, lockVars
<1>5. ASSUME NEW d \in Procs, Observe(d) \/ Signal(d) PROVE HiddenBy(g, p)'
  BY <1>5 DEF Observe, Signal, lockVars
<1>6. ASSUME NEW d \in Procs, Launch(d) \/ ReapPrevious(d) \/ Unlock(d) PROVE HiddenBy(g, p)'
  <2>1. record = d \/ (flock = NoProc /\ MayLock)
    BY <1>6 DEF Launch, MayLock, ReapPrevious, Unlock, LockInv, Holding
  <2> QED
    BY <1>6, <2>1 DEF Launch, MayLock, PidExists, ReapPrevious, Unlock, OwnerInv, ownVars, lockVars
<1>7. ASSUME NEW d \in Procs, CloseDb(d) PROVE HiddenBy(g, p)'
  BY <1>7 DEF CloseDb, ownVars, lockVars
<1>8. ASSUME NEW d \in Procs, Exit(d) \/ Shutdown(d) \/ Crash(d) PROVE HiddenBy(g, p)'
  BY <1>8 DEF Exit, Shutdown, Crash, ownVars, lockVars
<1>9. ASSUME NEW d \in Procs, Vanish(d) PROVE HiddenBy(g, p)'
  <2>1. d # p
    BY <1>9 DEF Vanish, Orphaned, Works
  <2> QED
    BY <1>9, <2>1 DEF Vanish, lockVars
<1>10. ASSUME NEW h \in Gens, ChildAction(h) PROVE HiddenBy(g, p)'
  BY <1>10 DEF ChildAction, ChildExits, Reaped, PidReused, ownVars, lockVars
<1>11. CASE UNCHANGED vars
  BY <1>11 DEF vars, ownVars, lockVars
<1> QED
  BY <1>1, <1>2, <1>3, <1>4, <1>5, <1>6, <1>7, <1>8, <1>9, <1>10, <1>11
     DEF Next, OwnerStep, MainStep, ChildAction

\* The checkpoint moves away from an App Server only when that is reaped.
LEMMA CheckpointLeaves ==
    ASSUME TypeOK, LockInv, OwnerInv, ChargeInv, [Next]_vars, ckpt # NoGen, ckpt' # ckpt
    PROVE  ~Works(ckpt)
<1>1. PICK d \in Procs : (SaveRunning(d) /\ ~Cancelled(d)) \/ (Persist(d) /\ DbOpen(d))
  <2>1. ASSUME NEW d \in Procs, OwnerStep(d) \/ SessionFails(d) \/ StopFails(d)
        PROVE  (SaveRunning(d) /\ ~Cancelled(d)) \/ (Persist(d) /\ DbOpen(d))
    BY <2>1 DEF OwnerStep, Spawn, SaveRunning, Initialize, Drained, EndSession, Observe,
       Signal, StopDone, Persist, Wake, SessionFails, StopFails
  <2>2. ASSUME NEW d \in Procs, Launch(d) \/ MainStep(d) \/ Shutdown(d) \/ Crash(d)
        PROVE  FALSE
    BY <2>2 DEF Launch, MainStep, ReapPrevious, CloseDb, Unlock, Exit, Vanish, Shutdown, Crash
  <2>3. ASSUME NEW g \in Gens, ChildAction(g) PROVE FALSE
    BY <2>3 DEF ChildAction, ChildExits, Reaped, PidReused
  <2> QED
    BY <2>1, <2>2, <2>3 DEF Next, ChildAction, vars
<1>2. InCharge(d) \/ main[d] = "check"
  BY <1>1 DEF LockInv, Holding, Cancelled, DbOpen, InCharge
<1>3. own[d] \in {"persist", "spawned"}
  BY <1>1 DEF SaveRunning, Persist
<1>4. CheckpointDead
  BY <1>2, <1>3 DEF ChargeInv, OwnerInv, Unrecorded
<1> QED
  BY <1>4 DEF CheckpointDead, Works

LEMMA HiddenStep ==
    ASSUME TypeOK, LockInv, OwnerInv, ChargeInv, HiddenInv, [Next]_vars
    PROVE  HiddenInv'
<1> SUFFICES ASSUME NEW g \in Gens, g \notin lost', Works(g)', ckpt' # g
             PROVE  HiddenBy(g, parent[g])'
  BY DEF HiddenInv, HiddenBy
<1>1. CASE Works(g)
  <2>1. ckpt # g
    BY <1>1, CheckpointLeaves DEF Gens, NoGen
  <2>2. HiddenBy(g, parent[g])
    BY <1>1, <2>1, LostGrows DEF HiddenInv, HiddenBy
  <2>3. parent'[g] = parent[g]
    <3>1. CASE \A d \in Procs : ~Spawn(d)
      BY <3>1, ChildrenGo
    <3>2. CASE \E d \in Procs : Spawn(d)
      BY <1>1, <3>2, TypeParts DEF Spawn, StartChild, Works, ChildTypes
    <3> QED
      BY <3>1, <3>2
  <2> QED
    BY <2>2, <2>3, HiddenStays DEF HiddenBy
<1>2. CASE ~Works(g)
  <2>1. PICK d \in Procs : Spawn(d)
    BY <1>2, ChildrenGo DEF Works
  <2>2. /\ ~Cancelled(d) /\ own' = [own EXCEPT ![d] = "spawned"] /\ main' = main
        /\ record' = record /\ kid' = [kid EXCEPT ![d] = g] /\ parent' = [parent EXCEPT ![g] = d]
    BY <1>2, <2>1, TypeParts DEF Spawn, StartChild, Works, ChildTypes, lockVars
  <2> QED
    BY <2>2, TypeParts DEF HiddenBy, Unrecorded, Cancelled, LockInv, Holding,
       OwnTypes, ChildTypes
<1> QED
  BY <1>1, <1>2

\* The signal goes to the child the owner saw, which is not reaped.
LEMMA StraysStep ==
    ASSUME TypeOK, SignalInv, strays = {}, [Next]_vars
    PROVE  strays' = {}
<1>1. ASSUME NEW d \in Procs, Signal(d) PROVE strays' = {}
  BY <1>1 DEF Signal, SignalInv
<1>2. ASSUME NEW d \in Procs, OwnerStep(d) \/ SessionFails(d) \/ StopFails(d), ~Signal(d)
      PROVE  strays' = strays
  BY <1>2 DEF OwnerStep, Spawn, SaveRunning, Initialize, Drained, EndSession, Observe,
     StopDone, Persist, Wake, SessionFails, StopFails, childVars
<1>3. ASSUME NEW d \in Procs, Launch(d) \/ MainStep(d) \/ Shutdown(d) \/ Crash(d)
      PROVE  strays' = strays
  BY <1>3 DEF Launch, MainStep, ReapPrevious, CloseDb, Unlock, Exit, Vanish, Shutdown, Crash,
     childVars
<1>4. ASSUME NEW g \in Gens, ChildAction(g) PROVE strays' = strays
  BY <1>4 DEF ChildAction, ChildExits, Reaped, PidReused
<1>5. CASE UNCHANGED vars
  BY <1>5 DEF vars, childVars
<1> QED
  BY <1>1, <1>2, <1>3, <1>4, <1>5 DEF Next, ChildAction

\* Types and invariant hold of every run.
LEMMA SupervisorInductive == Spec => [](TypeOK /\ SupervisorInv)
<1>1. Init => TypeOK
  BY AppServerAssumption DEF Init, TypeOK
<1>2. Init => SupervisorInv
  BY AppServerAssumption DEF Init, SupervisorInv, LockInv, OwnerInv, SignalInv, ChargeInv,
     HiddenInv, Holding, HasChild, InCharge, Works, Gens, NoGen
<1>3. TypeOK /\ SupervisorInv /\ [Next]_vars => TypeOK' /\ SupervisorInv'
  <2> SUFFICES ASSUME TypeOK, SupervisorInv, [Next]_vars PROVE TypeOK' /\ SupervisorInv'
    OBVIOUS
  <2>1. LockInv /\ OwnerInv /\ SignalInv /\ ChargeInv /\ HiddenInv /\ strays = {}
    BY DEF SupervisorInv
  <2>2. TypeOK'
    BY <2>1, OwnerType, MainType DEF Next
  <2> QED
    BY <2>1, <2>2, LockStep, OwnerInvStep, SignalStep, ChargeStep, HiddenStep, StraysStep
       DEF SupervisorInv
<1> QED
  BY <1>1, <1>2, <1>3, PTL DEF Spec

\* Type correctness of the supervision: every variable keeps its type, whatever
\* fails or is killed (supervisor.go:192, runtime.go:165).
THEOREM AppServerTypeCorrect == Spec => []TypeOK
  BY SupervisorInductive, PTL

\* At most one App Server works on the project, for any number of processes,
\* crashes and failures: the record in the lock file (lock.go:66) orders the
\* processes, the checkpoint (supervisor.go:192) what they left behind.
THEOREM OneServerAlways == Spec => []OneServer
<1>1. TypeOK /\ SupervisorInv => OneServer
  <2> SUFFICES ASSUME TypeOK, SupervisorInv, NEW g \in Gens \ lost, NEW h \in Gens \ lost,
                      Works(g), Works(h), ckpt # g
               PROVE  g = h
    BY DEF OneServer
  <2>1. HiddenBy(g, parent[g])
    BY DEF SupervisorInv, HiddenInv, HiddenBy
  <2>2. CASE ckpt = h
    <3>1. InCharge(parent[g])
      BY <2>1 DEF HiddenBy, InCharge
    <3>2. CheckpointDead
      BY <2>1, <3>1 DEF SupervisorInv, ChargeInv, HiddenBy
    <3> QED
      BY <2>2, <3>2 DEF CheckpointDead, Works, Gens, NoGen
  <2>3. CASE ckpt # h
    BY <2>1, <2>3 DEF SupervisorInv, HiddenInv, HiddenBy
  <2> QED
    BY <2>2, <2>3
<1> QED
  BY <1>1, SupervisorInductive, PTL

\* The durable checkpoint never hides a working App Server from the next
\* process (Supervisor.Start and ReapPrevious, supervisor.go:277, :192).
THEOREM CheckpointNamesServerAlways == Spec => []CheckpointNamesServer
<1>1. TypeOK /\ SupervisorInv => CheckpointNamesServer
  <2> SUFFICES ASSUME TypeOK, SupervisorInv, NEW g \in Gens \ lost, Works(g), ckpt # g
               PROVE  LET d == parent[g] IN
                      /\ record = d \/ flock = d
                      /\ \/ main[d] = "dying"
                         \/ kid[d] = g /\ own[d] \in {"spawned", "stop"}
    BY DEF CheckpointNamesServer
  <2>1. HiddenBy(g, parent[g])
    BY DEF SupervisorInv, HiddenInv, HiddenBy
  <2> QED
    BY <2>1 DEF HiddenBy, Unrecorded
<1> QED
  BY <1>1, SupervisorInductive, PTL

\* No signal of stopOwnedChild ever reaches a process that is not the App
\* Server: the mutex of the child spans the look and the signal
\* (process.go:323).
THEOREM NoStraySignalAlways == Spec => []NoStraySignal
<1>1. SupervisorInv => NoStraySignal
  BY DEF SupervisorInv, NoStraySignal
<1> QED
  BY <1>1, SupervisorInductive, PTL
=============================================================================
