----------------------------- MODULE Workgroup -----------------------------
(***************************************************************************)
(* The composite runtime: an assignment of the room becomes a journalled   *)
(* run whose steps are carried out one after the other, in the order of    *)
(* their dependencies, by the App Server of the host, by a process of the  *)
(* host or by an invited worker (RemoteWorkers).  While a run is active    *)
(* the events of the App Server are captured for it.                       *)
(*                                                                         *)
(* The journal's row of a run is its state and items.  The table of step   *)
(* receipts is written and never read; it is left out, its failing writes  *)
(* are not.                                                                *)
(***************************************************************************)
EXTENDS RemoteWorkers, Functions

CONSTANTS
    Steps,
    Plans,          \* steps, a sequence; deps; by, the provider; whether it is inferred
    NoPlan, NoStep,
    CaptureCap,     \* places of the capture channel
    MaxRuns         \* bound: assignments

VARIABLES
    room,       \* the coordinator: idle, busy, review
    runs,       \* assignments so far
    active,     \* Runtime.active, 0 for none
    cancelled,  \* the run's context
    state,      \* the journal: the state of each run
    saved,      \* and the items of the last one
    shown,      \* those emitted to the coordinator
    plan, order,    \* the authored plan, its steps in the order of execution
    pc,         \* where execute is: idle, planning, loop, work, finish
    at,         \* index into order
    late,       \* the step's context has timed out
    failure,    \* none, failed, interrupted, unknown
    codex,      \* the run whose turn the App Server works on, 0 for none
    model,      \* where runModel is: none, start, wait, stop
    out,        \* events of the App Server session
    hand,       \* the event forward holds, and the channel it sends it to
    capture     \* the capture channel of each run

journalVars == <<state, saved, shown>>
runVars     == <<active, cancelled, plan, order, pc, at, late, failure>>
agentVars   == <<codex, model, out, hand, capture>>
groupVars   == <<room, runs, runVars, journalVars, agentVars>>
vars        == <<groupVars, remoteVars>>

RunIds   == 1..MaxRuns
Terminal == {"completed", "failed", "interrupted"}
NoHand   == [event |-> <<"none", 0>>, to |-> 0]
Item(kind, s) == <<kind, s>>
JobOf(s) == <<active, s>>
Current  == order[at]
Late     == late \/ cancelled
Failed   == IF cancelled THEN "interrupted" ELSE "failed"

\* a plan is a sequence of steps; no job is called NoJob
ASSUME WorkgroupAssumption ==
    /\ MaxRuns \in Nat /\ NoStep \notin Steps /\ NoJob \notin RunIds \X Steps
    /\ \A p \in Plans : p.steps \in Seq(Steps)

----------------------------------------------------------------------------
(* Config.Plan.                                                            *)

Ready(p, taken, s) == p.deps[s] \subseteq taken

\* the first ready step of the authored plan comes next; NoStep on a cycle
NextStep(p, taken) ==
    LET open == {k \in 1..Len(p.steps) :
                    p.steps[k] \notin taken /\ Ready(p, taken, p.steps[k])}
    IN  IF open = {} THEN NoStep
        ELSE p.steps[CHOOSE k \in open : \A j \in open : k <= j]

Further(p, before) == Append(before, NextStep(p, Range(before)))
Taken(p) ==
    LET taken[n \in 0..Len(p.steps)] ==
            IF n = 0 THEN <<>> ELSE Further(p, taken[n - 1])
    IN  taken
Order(p) == Taken(p)[Len(p.steps)]

Cyclic(p) == NoStep \in Range(Order(p))

----------------------------------------------------------------------------
(* StartTurnFor and execute.                                               *)

\* the row is reserved first; a plan with a cycle is refused before it
StartTurnFor(p) ==
    /\ room = "idle" /\ active = 0 /\ runs < MaxRuns /\ ~Cyclic(p)
    /\ room' = "busy" /\ runs' = runs + 1 /\ active' = runs + 1
    /\ state' = [state EXCEPT ![runs + 1] = "running"]
    /\ plan' = p /\ order' = Order(p) /\ at' = 1 /\ failure' = "none"
    /\ cancelled' = FALSE /\ late' = FALSE
    /\ pc' = IF p.automatic THEN "planning" ELSE "loop"
    /\ saved' = {} /\ shown' = {}
    /\ UNCHANGED <<agentVars, remoteVars>>

Emit_Always(new) == shown' = shown \cup new      \* mutant: emitted first
Emit(new) == IF failure' = "unknown" THEN UNCHANGED shown ELSE shown' = shown \cup new

Record_DropsError(new, next) ==      \* mutant: the error of the write is dropped
    /\ \/ saved' = saved \cup new /\ UNCHANGED mishaps
       \/ Mishap /\ UNCHANGED saved
    /\ pc' = next /\ UNCHANGED failure
    /\ Emit(new)

\* items are saved, then emitted; a failing write ends the run as unknown
Record(new, next) ==
    /\ \/ /\ saved' = saved \cup new /\ pc' = next
          /\ UNCHANGED <<failure, mishaps>>
       \/ /\ Mishap /\ failure' = "unknown" /\ pc' = "finish"
          /\ UNCHANGED saved
    /\ Emit(new)

\* inferPlan: the planner answers with this plan, or with none
Planning ==
    /\ pc = "planning"
    /\ \/ /\ Record({Item("planning", NoStep), Item("plan", NoStep)}, "loop")
          /\ UNCHANGED order
       \/ /\ saved' = saved \cup {Item("planning", NoStep), Item("plan", NoStep)}
          /\ shown' = shown \cup {Item("planning", NoStep), Item("plan", NoStep)}
          /\ order' = <<>> /\ failure' \in {Failed, "unknown"} /\ pc' = "finish"
          /\ UNCHANGED mishaps
    /\ UNCHANGED <<room, runs, active, cancelled, state, plan, at, late, agentVars, remoteRest>>

\* the next step: its receipt and its start are saved before the provider runs
StepBegins ==
    /\ pc = "loop" /\ at <= Len(order) /\ ~cancelled
    /\ Record({Item("start", Current)}, "work")
    /\ late' = FALSE
    /\ model' = IF plan.by[Current] = "codex" THEN "start" ELSE "none"
    /\ UNCHANGED <<room, runs, active, cancelled, state, plan, order, at, codex, out,
                   hand, capture, remoteRest>>

StepsOver ==
    /\ pc = "loop" /\ (at > Len(order) \/ cancelled)
    /\ pc' = "finish"
    /\ failure' = IF at <= Len(order) THEN "interrupted" ELSE failure
    /\ UNCHANGED <<room, runs, active, cancelled, plan, order, at, late, journalVars,
                   agentVars, remoteVars>>

\* the provider returned; a result that comes after the deadline is a failure
StepEnds(result) ==
    /\ \/ /\ result = "ok" /\ ~Late
          /\ Record({Item("step", Current)}, "loop")
          /\ at' = at + 1
       \/ /\ ~(result = "ok" /\ ~Late)
          /\ failure' = IF result = "unknown" THEN "unknown" ELSE Failed
          /\ pc' = "finish"
          /\ UNCHANGED <<saved, shown, mishaps, at>>
    /\ UNCHANGED <<room, runs, active, cancelled, state, plan, order, late, out, hand,
                   capture>>

\* ExecProvider and NativeProvider: the process group is gone when Run returns
ProviderReturns ==
    /\ pc = "work" /\ plan.by[Current] = "exec"
    /\ \E result \in {"ok", "failed"} : StepEnds(result)
    /\ UNCHANGED <<codex, model, remoteRest>>

RemoteBegins ==
    /\ pc = "work" /\ plan.by[Current] = "remote"
    /\ RunBegins(JobOf(Current))
    /\ UNCHANGED groupVars

RemoteReturns ==
    /\ pc = "work" /\ plan.by[Current] = "remote" /\ answer # "none"
    /\ StepEnds(answer) /\ answer' = "none"
    /\ UNCHANGED <<codex, model, lease, healthy, job, done, run, runFor, workerVars>>

\* the last item, the state of the run, and the end; unknown keeps it running
Finish ==
    /\ pc = "finish"
    /\ \E write \in {"kept", "lost"} :
          /\ \/ write = "kept" /\ UNCHANGED mishaps
             \/ write = "lost" /\ Mishap
          /\ LET unknown == failure = "unknown" \/ write = "lost"
                 items == {Item("workflow", NoStep)}
             IN  /\ \/ write = "lost" /\ UNCHANGED <<saved, shown>>
                    \/ saved' = saved \cup items /\ shown' = shown \cup items
                 /\ state' = [state EXCEPT ![active] =
                        IF unknown THEN @
                        ELSE IF failure = "none" THEN "completed" ELSE failure]
                 /\ room' = IF unknown THEN "review" ELSE "idle"
    /\ active' = 0 /\ pc' = "idle" /\ plan' = NoPlan /\ order' = <<>> /\ at' = 1
    /\ failure' = "none" /\ cancelled' = FALSE /\ late' = FALSE /\ model' = "none"
    /\ UNCHANGED <<runs, codex, out, hand, capture, remoteRest>>

\* InterruptTurn of the active run
InterruptTurn ==
    /\ active # 0 /\ ~cancelled /\ cancelled' = TRUE
    /\ UNCHANGED <<room, runs, active, plan, order, pc, at, late, failure, journalVars,
                   agentVars, remoteVars>>

StepTimeout ==
    /\ pc = "work" /\ ~late /\ late' = TRUE
    /\ UNCHANGED <<room, runs, active, cancelled, plan, order, pc, at, failure,
                   journalVars, agentVars, remoteVars>>

----------------------------------------------------------------------------
(* runModel, forward and the App Server session.                           *)

\* StartThread and StartTurn; after a failing call the turn may be running
ModelStarts ==
    /\ pc = "work" /\ model = "start"
    /\ \/ /\ model' = "wait" /\ codex' = active
          /\ UNCHANGED <<room, runs, runVars, journalVars, out, hand, capture, mishaps>>
       \/ /\ Mishap /\ codex' \in {codex, active} /\ model' = "none"
          /\ failure' = "unknown" /\ pc' = "finish"
          /\ UNCHANGED <<room, runs, active, cancelled, plan, order, at, late, journalVars,
                         out, hand, capture>>
    /\ UNCHANGED remoteRest

\* the next captured event, or the end of the context
ModelReads ==
    /\ pc = "work" /\ model = "wait" /\ capture[active] # <<>>
    /\ LET event == Head(capture[active]) IN
          /\ capture' = [capture EXCEPT ![active] = Tail(@)]
          /\ \/ /\ event = <<"down", 0>>
                /\ failure' = "unknown" /\ pc' = "finish" /\ model' = "none"
                /\ UNCHANGED <<saved, shown, at, mishaps>>
             \/ /\ event = <<"end", active>> /\ model' = "none"
                /\ \/ /\ ~Late /\ Record({Item("step", Current)}, "loop") /\ at' = at + 1
                   \/ /\ failure' = Failed /\ pc' = "finish"
                      /\ UNCHANGED <<saved, shown, at, mishaps>>
             \/ /\ event \notin {<<"down", 0>>, <<"end", active>>}
                /\ UNCHANGED <<failure, pc, model, saved, shown, at, mishaps>>
    /\ UNCHANGED <<room, runs, active, cancelled, state, plan, order, late, codex, out,
                   hand, remoteRest>>

\* InterruptTurn of the model turn, and 10 s for its end
ModelStops ==
    /\ pc = "work" /\ Late
    /\ \/ /\ model = "wait" /\ model' = "stop" /\ UNCHANGED <<capture, failure, pc>>
       \/ /\ model = "stop" /\ capture[active] # <<>>
          /\ capture' = [capture EXCEPT ![active] = Tail(@)]
          /\ \/ /\ Head(capture[active]) = <<"end", active>>
                /\ failure' = Failed /\ pc' = "finish" /\ model' = "none"
             \/ /\ Head(capture[active]) # <<"end", active>>
                /\ UNCHANGED <<failure, pc, model>>
       \/ /\ model \in {"wait", "stop"}      \* the call fails, or the time is over
          /\ failure' = "unknown" /\ pc' = "finish" /\ model' = "none"
          /\ UNCHANGED capture
    /\ UNCHANGED <<room, runs, active, cancelled, plan, order, at, late, journalVars,
                   codex, out, hand, remoteVars>>

\* the App Server ends the turn; its session dies and comes back
TurnEnds ==
    /\ codex # 0 /\ codex' = 0 /\ out' = Append(out, <<"end", codex>>)
    /\ UNCHANGED <<room, runs, runVars, journalVars, model, hand, capture, remoteVars>>

SessionDies ==
    /\ Mishap
    /\ codex' = 0 /\ out' = out \o <<<<"down", 0>>, <<"up", 0>>>>
    /\ UNCHANGED <<room, runs, runVars, journalVars, model, hand, capture, remoteRest>>

\* forward takes an event and looks up the channel, then sends
Forward ==
    /\ \/ /\ hand = NoHand /\ out # <<>>
          /\ hand' = [event |-> Head(out), to |-> active] /\ out' = Tail(out)
          /\ UNCHANGED capture
       \/ /\ hand # NoHand /\ hand.to # 0 /\ Len(capture[hand.to]) < CaptureCap
          /\ capture' = [capture EXCEPT ![hand.to] = Append(@, hand.event)]
          /\ hand' = NoHand /\ UNCHANGED out
       \/ hand # NoHand /\ hand.to = 0 /\ hand' = NoHand /\ UNCHANGED <<capture, out>>
    /\ UNCHANGED <<room, runs, runVars, journalVars, codex, model, remoteVars>>

----------------------------------------------------------------------------
(* The room, and a restart.                                                *)

\* a human has looked at an unknown outcome (/recover)
Resolve ==
    /\ room = "review" /\ room' = "idle"
    /\ UNCHANGED <<runs, runVars, journalVars, agentVars, remoteVars>>

\* the daemon ends and starts again: the session of the App Server with it
Crash ==
    /\ Mishap
    /\ active' = 0 /\ pc' = "idle" /\ plan' = NoPlan /\ order' = <<>> /\ at' = 1
    /\ failure' = "none" /\ cancelled' = FALSE /\ late' = FALSE
    /\ codex' = 0 /\ model' = "none" /\ out' = <<>> /\ hand' = NoHand
    /\ capture' = [r \in RunIds |-> <<>>]
    /\ room' = IF room = "busy" THEN "review" ELSE room
    /\ Forgotten
    /\ UNCHANGED <<runs, journalVars, workerVars>>

----------------------------------------------------------------------------
Init ==
    /\ room = "idle" /\ runs = 0 /\ active = 0 /\ cancelled = FALSE
    /\ state = [r \in RunIds |-> "none"] /\ saved = {} /\ shown = {}
    /\ plan = NoPlan /\ order = <<>> /\ pc = "idle" /\ at = 1 /\ late = FALSE
    /\ failure = "none" /\ codex = 0 /\ model = "none" /\ out = <<>> /\ hand = NoHand
    /\ capture = [r \in RunIds |-> <<>>]
    /\ RemoteInit

ExecuteStep ==
    \/ Planning \/ StepBegins \/ StepsOver \/ ProviderReturns \/ RemoteBegins
    \/ RemoteReturns \/ ModelStarts \/ ModelReads \/ ModelStops \/ Finish
BrokerStep == RunStep(Late) /\ UNCHANGED groupVars

Next ==
    \/ \E p \in Plans : StartTurnFor(p)
    \/ ExecuteStep \/ BrokerStep \/ InterruptTurn \/ StepTimeout
    \/ TurnEnds \/ SessionDies \/ Forward \/ Resolve \/ Crash
    \/ (Invite \/ WorkerStep \/ Leaving \/ Tick \/ Lapse) /\ UNCHANGED groupVars

Spec == Init /\ [][Next]_vars

\* execute and Run go on and deadlines pass; nothing is assumed of the App
\* Server, of the connection, of the worker or of forward.
FairSpec ==
    Spec /\ WF_vars(ExecuteStep) /\ WF_vars(BrokerStep) /\ WF_vars(StepTimeout)

----------------------------------------------------------------------------
\* When the journal says that a run has ended, nothing of it still works on
\* the project: no turn of the App Server, no job at a worker, none that a
\* worker may still start.  What cannot be proved ended stays running in the
\* journal (runtime.go:374, remote.go:333, :349).
TerminalMeansQuiet ==
    \A r \in RunIds : state[r] \in Terminal =>
        codex # r /\ Over({<<r, s>> : s \in Steps})

\* Every item the room was shown is in the journal, so that a restart finds it
\* again (runtime.go:273, :329).
ShownIsJournalled == shown \subseteq saved

\* A step runs only when the results of all its dependencies are in the
\* journal, in whatever order the plan was written (plan.go:101).
DependencyOrder ==
    pc = "work" => \A d \in plan.deps[Current] : Item("step", d) \in saved

\* A result is credited to the job that was executed, also when the broker has
\* given up on a job its worker still executes, and a worker that is checking
\* itself is never handed a job it would drop (remote.go:186, :269).
HandoverIsExact ==
    /\ done # NoResult => done.of = job.id
    /\ loop = "check" => ~reply.assignment

\* Every run ends, whatever the App Server, the connection and the worker do:
\* the runtime becomes free for the next assignment (runtime.go:440,
\* remote.go:340).
RunEnds == active # 0 ~> active = 0
=============================================================================
