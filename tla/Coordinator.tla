---------------------------- MODULE Coordinator ----------------------------
(***************************************************************************)
(* room.Coordinator: the single goroutine that owns a room.  It takes one  *)
(* command or one agent event at a time and runs its handler to the end.   *)
(* A handler is a chain of store transactions and agent calls; every link  *)
(* of the chain is an action here and call.pc names the next one, so that  *)
(* the daemon can crash, the runtime can die and a transaction can fail    *)
(* between any two of them, while no second handler starts in between.     *)
(***************************************************************************)
EXTENDS AgentRuntime

CONSTANTS
    MaxCrashes,         \* bound: daemon crashes
    MaxStoreFailures,   \* bound: transactions that fail although not expired
    MaxRepairs          \* bound: attempts of the owner to repair or reset the thread

ASSUME CoordinatorAssumption ==
    /\ MaxCrashes \in Nat
    /\ MaxStoreFailures \in Nat
    /\ MaxRepairs \in Nat

VARIABLES
    \* coordinatorState
    status, threadID, active, activeState, activeTurn, pending, queue,
    \* the other fields of Coordinator
    fault,          \* activeFault # ""
    threadReady, readySeen, uncertain,
    question, questionTurn,
    \* the goroutine's control state
    call,           \* the handler being executed
    hist,           \* the thread history that recover has been told
    booted,         \* the startup Recover command was sent
    \* bookkeeping
    asked,          \* questions asked so far
    crashes, storeFailures,
    repairs         \* the owner's attempts to repair, and the one under way

stateVars  == <<status, threadID, active, activeState, activeTurn, pending, queue>>
flagVars   == <<fault, threadReady, readySeen, uncertain>>
questionVars == <<question, questionTurn>>
boundVars  == <<crashes, storeFailures, repairs>>
vars == <<storeVars, agentVars, stateVars, flagVars, questionVars,
          call, hist, booted, asked, boundVars>>

activeVars == <<active, activeState, activeTurn>>

----------------------------------------------------------------------------
(* Control state.                                                          *)

Idle == [pc |-> "idle", origin |-> "none", expired |-> FALSE,
         notSent |-> FALSE, msg |-> NoMsg, outcome |-> "none", turn |-> 0]
Exiting == [Idle EXCEPT !.pc = "exiting"]
Handler(pc, origin, m) ==
    [Idle EXCEPT !.pc = pc, !.origin = origin, !.msg = m]

At(l)   == call.pc = l
Goto(l) == call' = [call EXCEPT !.pc = l]

\* The coordinator waits for input; clients are served once Recover is done.
Serving == At("idle") /\ booted

\* A handler returns err.  Event handlers make the coordinator stop on a
\* store error; the daemon gives up when the startup Recover fails; a
\* dispatch that failed before this one hides the error of its successor.
Return(err) ==
    LET e == IF call.notSent THEN "notsent" ELSE err IN
    call' = IF \/ call.origin = "event" /\ e = "store"
               \/ call.origin = "startup" /\ e # "ok"
            THEN Exiting ELSE Idle

\* Client requests and startup carry a deadline; agent events do not.
HasDeadline == call.origin \in {"command", "startup"}

StoreOk == ~call.expired /\ UNCHANGED storeFailures
StoreFails ==
    /\ UNCHANGED storeVars
    /\ \/ call.expired /\ UNCHANGED storeFailures
       \/ /\ ~call.expired /\ storeFailures < MaxStoreFailures
          /\ storeFailures' = storeFailures + 1

NoPending == \A c \in Controls : pending[c] = "none"
NoActive  == active' = NoMsg /\ activeState' = "none" /\ activeTurn' = 0

----------------------------------------------------------------------------
(* Init, the daemon's life and the owner's offline repair.                 *)

ZeroMemory ==
    [status |-> "boot", pending |-> [c \in Controls |-> "none"],
     hist |-> [t \in Turns |-> {}]]

Init ==
    /\ StoreInit
    /\ AgentInit
    /\ status = ZeroMemory.status /\ threadID = 0
    /\ active = NoMsg /\ activeState = "none" /\ activeTurn = 0
    /\ pending = ZeroMemory.pending /\ queue = <<>>
    /\ fault = FALSE /\ threadReady = FALSE /\ readySeen = FALSE
    /\ uncertain = FALSE
    /\ question = NoMsg /\ questionTurn = 0
    /\ call = [Idle EXCEPT !.pc = "down"]
    /\ hist = ZeroMemory.hist
    /\ booted = FALSE
    /\ asked = {}
    /\ crashes = 0 /\ storeFailures = 0
    /\ repairs = [begun |-> 0, at |-> "none", thread |-> 0]

\* serve: the lock is free and the old App Server is gone (ReapPrevious)
StartDaemon ==
    /\ At("down") /\ repairs.at = "none"
    /\ call' = Idle
    /\ session' = "up"
    /\ UNCHANGED <<storeVars, events, late, nthread, turnVars, faultVars,
                   stateVars, flagVars, questionVars, hist, booted, asked, boundVars>>

\* serve: Recover is the first command, but agent events may precede it
StartupRecover ==
    /\ At("idle") /\ ~booted
    /\ booted' = TRUE
    /\ call' = Handler("recover", "startup", NoMsg)
    /\ UNCHANGED <<storeVars, agentVars, stateVars, flagVars, questionVars,
                   hist, asked, boundVars>>

\* everything that is not in the database is lost, App Server included
DaemonGone ==
    /\ status' = ZeroMemory.status /\ threadID' = 0 /\ NoActive
    /\ pending' = ZeroMemory.pending /\ queue' = <<>>
    /\ fault' = FALSE /\ threadReady' = FALSE /\ readySeen' = FALSE
    /\ uncertain' = FALSE
    /\ question' = NoMsg /\ questionTurn' = 0
    /\ call' = [Idle EXCEPT !.pc = "down"]
    /\ hist' = ZeroMemory.hist
    /\ booted' = FALSE
    /\ events' = <<>>
    /\ ProcessGone /\ UNCHANGED deaths
    /\ UNCHANGED <<storeVars, asked, storeFailures, repairs>>

Exit  == At("exiting") /\ DaemonGone /\ UNCHANGED crashes
Crash ==
    /\ ~At("down") /\ ~At("exiting") /\ crashes < MaxCrashes
    /\ crashes' = crashes + 1
    /\ DaemonGone

\* admin.repair and the startup reset hold the lock: no daemon until they end
Offline ==
    /\ At("down")
    /\ UNCHANGED <<stateVars, flagVars, questionVars, call, hist, booted, asked,
                   crashes, storeFailures>>

RepairBegins(link) ==
    /\ Offline
    /\ repairs.at = "none" /\ repairs.begun < MaxRepairs
    /\ repairs' = [repairs EXCEPT !.begun = @ + 1, !.at = link]

RepairEnds == repairs' = [repairs EXCEPT !.at = "none", !.thread = 0]

\* RepairCreate, 1: the room says that a repair is due
RepairMark ==
    /\ RepairBegins("start")
    /\ \/ MarkThreadNeedsRepair
       \/ dbStatus = "thread-needs-repair" /\ UNCHANGED storeVars
    /\ UNCHANGED agentVars

\* 2: thread/start, on an App Server of the command's own.  The call may fail,
\* its reply may be lost, and the command may die before or after it
RepairCreate ==
    /\ Offline /\ repairs.at = "start"
    /\ \/ nthread' = nthread /\ RepairEnds
       \/ /\ nthread < MaxThreads /\ nthread' = nthread + 1
          /\ \/ RepairEnds
             \/ repairs' = [repairs EXCEPT !.at = "bind", !.thread = nthread']
    /\ UNCHANGED <<storeVars, session, events, late, turnVars, faultVars>>

\* 3: the thread is bound, unless its directory is another one, the
\* transaction fails or the command dies
RepairBind ==
    /\ Offline /\ repairs.at = "bind"
    /\ RepairThread(repairs.thread) \/ UNCHANGED storeVars
    /\ RepairEnds
    /\ UNCHANGED agentVars

RepairUse ==
    /\ RepairBegins("none")
    /\ \E th \in 1..nthread : RepairThread(th)
    /\ UNCHANGED agentVars

\* the App Server says the bound thread does not exist
ResetAtStartup ==
    /\ RepairBegins("none")
    /\ ResetUnusedThread
    /\ UNCHANGED agentVars

----------------------------------------------------------------------------
(* handleSubmit, AppendNote and dispatchNext.                              *)

Submit(m) ==
    /\ Serving
    /\ AcceptMessage(m)
    /\ queue' = Append(queue, m)
    /\ call' = Handler("dispatch", "command", NoMsg)
    /\ UNCHANGED <<agentVars, status, threadID, activeVars, pending, flagVars,
                   questionVars, hist, booted, asked, boundVars>>

Note(n) ==
    /\ Serving
    /\ AppendNote(n)
    /\ UNCHANGED <<agentVars, stateVars, flagVars, questionVars, call, hist,
                   booted, asked, boundVars>>

CanDispatch_IgnoresActive ==     \* mutant: active != nil is not checked
    question = NoMsg /\ status = "ready" /\ NoPending /\ queue # <<>>
CanDispatch_IgnoresControls ==   \* mutant: pendingControls is not checked
    question = NoMsg /\ status = "ready" /\ active = NoMsg /\ queue # <<>>
CanDispatch_IgnoresQuestion ==     \* mutant: question != nil is not checked
    status = "ready" /\ active = NoMsg /\ NoPending /\ queue # <<>>
CanDispatch ==
    /\ question = NoMsg
    /\ status = "ready"
    /\ active = NoMsg
    /\ NoPending
    /\ queue # <<>>

\* queue = queue[1:]
Dequeue_Forgotten == UNCHANGED queue     \* mutant
Dequeue == queue' = Tail(queue)

DispatchNext ==
    /\ At("dispatch")
    /\ \/ /\ ~CanDispatch
          /\ Return("ok")
          /\ UNCHANGED <<storeVars, storeFailures, activeVars>>
       \/ /\ CanDispatch /\ StoreOk
          /\ BeginDispatch(Head(queue))
          /\ active' = Head(queue)
          /\ activeState' = "dispatching" /\ activeTurn' = 0
          /\ Goto("startTurn")
       \/ /\ CanDispatch /\ StoreFails
          /\ Return("store")
          /\ UNCHANGED activeVars
    /\ UNCHANGED <<agentVars, status, threadID, pending, queue, flagVars,
                   questionVars, hist, booted, asked, crashes, repairs>>

StartTurn ==
    /\ At("startTurn")
    /\ \/ /\ TurnStarted(active, threadID)
          /\ call' = [call EXCEPT !.pc = "bindTurn", !.turn = nturn']
          /\ UNCHANGED status
       \/ /\ CallNotSent
          /\ Goto("failDispatch")
          /\ UNCHANGED status
       \/ /\ HasDeadline /\ session = "up" /\ CallNotSent     \* no time to write
          /\ call' = [call EXCEPT !.pc = "failDispatch", !.expired = TRUE]
          /\ UNCHANGED status
       \/ /\ CallUnknown \/ TurnStartLost(active, threadID)
          /\ status' = "recovering"
          /\ Goto("review")
       \/ /\ HasDeadline
          /\ CallTimedOut \/ TurnStartTimedOut(active, threadID)
          /\ status' = "recovering"
          /\ call' = [call EXCEPT !.pc = "review", !.expired = TRUE]
    /\ UNCHANGED <<storeVars, threadID, activeVars, pending, queue, flagVars,
                   questionVars, hist, booted, asked, boundVars>>

BindTurn ==
    /\ At("bindTurn")
    /\ \/ /\ StoreOk
          /\ BindRunningTurn(active, call.turn)
          /\ Dequeue
          /\ activeState' = "running" /\ activeTurn' = call.turn
          /\ Return("ok")
          /\ UNCHANGED status
       \/ /\ StoreFails
          /\ status' = "recovering"
          /\ Return("store")
          /\ UNCHANGED <<queue, activeState, activeTurn>>
    /\ UNCHANGED <<agentVars, threadID, active, pending, flagVars, questionVars,
                   hist, booted, asked, crashes, repairs>>

\* not sent: fail the prompt and try the next one
FailTurn ==
    /\ At("failDispatch")
    /\ \/ /\ StoreOk
          /\ FailDispatch(active)
          /\ Dequeue
          /\ NoActive
          /\ call' = [call EXCEPT !.pc = "dispatch", !.notSent = TRUE]
       \/ /\ StoreFails
          /\ Return("store")
          /\ UNCHANGED <<queue, activeVars>>
    /\ UNCHANGED <<agentVars, status, threadID, pending, flagVars, questionVars,
                   hist, booted, asked, crashes, repairs>>

\* delivery unknown: freeze the room on this prompt
ReviewTurn ==
    /\ At("review")
    /\ \/ /\ StoreOk
          /\ MarkNeedsReview(active)
          /\ activeState' = "needs-review"
          /\ Dequeue
          /\ Goto("reviewStatus")
       \/ /\ StoreFails
          /\ Return("store")
          /\ UNCHANGED <<activeState, queue>>
    /\ UNCHANGED <<agentVars, status, threadID, active, activeTurn, pending,
                   flagVars, questionVars, hist, booted, asked, crashes, repairs>>

ReviewStatus ==
    /\ At("reviewStatus")
    /\ \/ StoreOk /\ SetRoomStatus("recovering") /\ Return("unknown")
       \/ StoreFails /\ Return("store")
    /\ UNCHANGED <<agentVars, stateVars, flagVars, questionVars, hist, booted,
                   asked, crashes, repairs>>

----------------------------------------------------------------------------
(* handleControl and finishControl.                                        *)

\* the sender's turn is the one that runs here and now
CurrentTurn(t) == active # NoMsg /\ activeState = "running" /\ activeTurn = t

Control(c, t) ==
    /\ Serving
    /\ AcceptControl(c, t)
    /\ pending' = [pending EXCEPT ![c] = "dispatching"]
    /\ call' = IF status = "ready" /\ CurrentTurn(t)
               THEN Handler("control", "command", c)
               ELSE [Handler("finishControl", "command", c)
                        EXCEPT !.outcome = "failed"]
    /\ UNCHANGED <<agentVars, status, threadID, activeVars, queue, flagVars,
                   questionVars, hist, booted, asked, boundVars>>

\* what a turn/steer or turn/interrupt call came to
ControlCall(next) ==
    \/ CallDone /\ call' = [call EXCEPT !.pc = next, !.outcome = "completed"]
    \/ CallNotSent /\ call' = [call EXCEPT !.pc = next, !.outcome = "failed"]
    \/ /\ session = "up" /\ CallNotSent
       /\ call' = [call EXCEPT !.pc = next, !.expired = TRUE, !.outcome = "failed"]
    \/ CallUnknown /\ call' = [call EXCEPT !.pc = next, !.outcome = "needs-review"]
    \/ CallTimedOut /\ call' = [call EXCEPT !.pc = next, !.expired = TRUE,
                                            !.outcome = "needs-review"]

SendControl ==
    /\ At("control")
    /\ ControlCall("finishControl")
    /\ status' = IF call'.outcome = "needs-review" THEN "recovering" ELSE status
    /\ UNCHANGED <<storeVars, threadID, activeVars, pending, queue, flagVars,
                   questionVars, hist, booted, asked, boundVars>>

EndControl ==
    /\ At("finishControl")
    /\ \/ /\ StoreOk
          /\ FinishControl(call.msg, call.outcome)
          /\ pending' = [pending EXCEPT ![call.msg] =
                IF call.outcome = "needs-review" THEN "needs-review" ELSE "none"]
          /\ IF call.outcome = "needs-review" THEN Goto("reviewStatus")
                                              ELSE Return("ok")
          /\ UNCHANGED status
       \/ /\ StoreFails
          /\ status' = "recovering"
          /\ Return("store")
          /\ UNCHANGED pending
    /\ UNCHANGED <<agentVars, threadID, activeVars, queue, flagVars,
                   questionVars, hist, booted, asked, crashes, repairs>>

----------------------------------------------------------------------------
(* resolve: a /recover decision.                                           *)

\* loadRecovery copies the image; the room stays frozen
LoadImage ==
    /\ threadID' = dbThread
    /\ \E m \in FirstAccepted(LiveWork) :
          /\ active' = m
          /\ activeState' = IF m = NoMsg THEN "none" ELSE mstate[m]
          /\ activeTurn' = IF m = NoMsg THEN 0 ELSE mturn[m]
    /\ pending' = [c \in Controls |->
                      IF PendingControl(c) THEN mstate[c] ELSE "none"]
    /\ queue' \in InAcceptedOrder(QueuedWork)

\* ~threadReady: the decision is durable, recover will act on it
AfterDecision(c) ==
    call' = IF threadReady THEN Handler("resolveLoad", "command", c) ELSE Idle

\* the faulty turn may still be running: no decision yet
MayResolve_IgnoresFault == Serving     \* mutant
MayResolve == Serving /\ ~fault

Resolve(r) ==
    /\ MayResolve
    /\ \/ \E m \in Work : RetryPrompt(r, m) /\ AfterDecision(NoMsg)
       \/ \E c \in Controls : RetryControl(r, c) /\ AfterDecision(c)
       \/ \E m \in Work \cup Controls : SkipReviewed(r, m) /\ AfterDecision(NoMsg)
       \/ \E m \in Work \cup Controls, p \in Replacements :
             ContinueReviewed(r, m, p) /\ AfterDecision(NoMsg)
    /\ status' = "recovering"
    /\ UNCHANGED <<agentVars, threadID, activeVars, pending, queue, flagVars,
                   questionVars, hist, booted, asked, boundVars>>

ResolveLoad ==
    /\ At("resolveLoad")
    /\ \/ /\ StoreOk
          /\ LoadImage
          /\ IF dbStatus = "thread-needs-repair" \/ uncertain
             THEN status' = "thread-needs-repair" /\ Return("unknown")
             ELSE /\ status' = "recovering"
                  /\ Goto(IF call.msg = NoMsg THEN "resolveReady" ELSE "retry")
          /\ UNCHANGED storeVars
       \/ /\ StoreFails
          /\ Return("store")
          /\ UNCHANGED stateVars
    /\ UNCHANGED <<agentVars, flagVars, questionVars, hist, booted, asked,
                   crashes, repairs>>

\* a retried control goes to the agent only if its turn still runs
RetryCall ==
    /\ At("retry")
    /\ IF CurrentTurn(mturn[call.msg]) /\ threadID # 0
       THEN ControlCall("retryFinish")
       ELSE /\ call' = [call EXCEPT !.pc = "retryFinish", !.outcome = "failed"]
            /\ UNCHANGED agentVars
    /\ UNCHANGED <<storeVars, stateVars, flagVars, questionVars, hist, booted,
                   asked, boundVars>>

RetryFinish ==
    /\ At("retryFinish")
    /\ \/ StoreOk /\ FinishControl(call.msg, call.outcome) /\ Goto("resolveReload")
       \/ StoreFails /\ Return("store")
    /\ UNCHANGED <<agentVars, stateVars, flagVars, questionVars, hist, booted,
                   asked, crashes, repairs>>

ResolveReload ==
    /\ At("resolveReload")
    /\ \/ StoreOk /\ LoadImage /\ status' = "recovering" /\ Goto("resolveReady")
          /\ UNCHANGED storeVars
       \/ StoreFails /\ Return("store") /\ UNCHANGED stateVars
    /\ UNCHANGED <<agentVars, flagVars, questionVars, hist, booted, asked,
                   crashes, repairs>>

ResolveReady ==
    /\ At("resolveReady")
    /\ LET settled == NoPending /\ activeState \in {"none", "running"} IN
       \/ /\ ~settled
          /\ Return("ok")
          /\ UNCHANGED <<storeVars, storeFailures, status>>
       \/ /\ settled /\ StoreOk
          /\ SetRoomStatus("ready")
          /\ status' = "ready"
          /\ Goto("dispatch")
       \/ /\ settled /\ StoreFails
          /\ Return("store")
          /\ UNCHANGED status
    /\ UNCHANGED <<agentVars, threadID, activeVars, pending, queue, flagVars,
                   questionVars, hist, booted, asked, crashes, repairs>>

----------------------------------------------------------------------------
(* recover.  (It refuses to run while a question is open; runtime-         *)
(* unavailable has closed the question before runtime-ready can arrive.)   *)

\* a process may have died between thread/start and the binding commit
ThreadMayBeLost_TrustsStatus ==     \* mutant: rooms.status is not looked at
    dbThread = 0 /\ (LiveWork # {} \/ \E c \in Controls : PendingControl(c))
ThreadMayBeLost ==
    /\ dbThread = 0
    /\ \/ dbStatus = "recovering"
       \/ LiveWork # {}
       \/ \E c \in Controls : PendingControl(c)

RecoverLoad ==
    /\ At("recover")
    /\ threadReady' = FALSE
    /\ \/ /\ uncertain
          /\ status' = "thread-needs-repair"
          /\ Return("unknown")
          /\ UNCHANGED <<threadID, activeVars, pending, queue, storeFailures, storeVars>>
       \/ /\ ~uncertain /\ StoreFails
          /\ status' = "recovering"
          /\ Return("store")
          /\ UNCHANGED <<threadID, activeVars, pending, queue>>
       \/ /\ ~uncertain /\ StoreOk
          /\ LoadImage
          /\ UNCHANGED storeVars
          /\ IF dbStatus = "thread-needs-repair"
             THEN status' = "thread-needs-repair" /\ Return("unknown")
             ELSE /\ status' = "recovering"
                  /\ Goto(IF ThreadMayBeLost THEN "markRepair" ELSE "setRecovering")
    /\ UNCHANGED <<agentVars, fault, readySeen, uncertain, questionVars, hist,
                   booted, asked, crashes, repairs>>

\* markThreadRepair: its own store error is ignored
MarkRepair ==
    /\ At("markRepair")
    /\ uncertain' = TRUE
    /\ status' = "thread-needs-repair"
    /\ \/ StoreOk /\ MarkThreadNeedsRepair
       \/ StoreFails
    /\ Return("unknown")
    /\ hist' = ZeroMemory.hist
    /\ UNCHANGED <<agentVars, threadID, activeVars, pending, queue, fault,
                   threadReady, readySeen, questionVars, booted, asked,
                   crashes, repairs>>

SetRecovering ==
    /\ At("setRecovering")
    /\ \/ /\ StoreOk
          /\ SetRoomStatus("recovering")
          /\ Goto(IF threadID = 0 THEN "startThread" ELSE "readThread")
       \/ /\ StoreFails
          /\ Return("store")
    /\ UNCHANGED <<agentVars, stateVars, flagVars, questionVars, hist, booted,
                   asked, crashes, repairs>>

StartThread ==
    /\ At("startThread")
    /\ \/ /\ ThreadStarted
          /\ call' = [call EXCEPT !.pc = "bindThread", !.turn = nthread']
          /\ UNCHANGED <<storeVars, storeFailures>>
       \/ /\ CallNotSent
          /\ \/ StoreOk /\ SetRoomStatus("ready")
             \/ StoreFails
          /\ Return("notsent")
       \/ /\ CallUnknown \/ ThreadStartLost
          /\ Goto("markRepair")
          /\ UNCHANGED <<storeVars, storeFailures>>
       \/ /\ HasDeadline
          /\ CallTimedOut \/ ThreadStartTimedOut
          /\ call' = [call EXCEPT !.pc = "markRepair", !.expired = TRUE]
          /\ UNCHANGED <<storeVars, storeFailures>>
    /\ UNCHANGED <<stateVars, flagVars, questionVars, hist, booted, asked,
                   crashes, repairs>>

BindNewThread ==
    /\ At("bindThread")
    /\ \/ /\ StoreOk
          /\ BindThread(call.turn)
          /\ threadID' = call.turn
          /\ Goto("controls")
       \/ /\ StoreFails
          /\ Goto("markRepair")
          /\ UNCHANGED threadID
    /\ UNCHANGED <<agentVars, status, activeVars, pending, queue, flagVars,
                   questionVars, hist, booted, asked, crashes, repairs>>

\* what one thread/read or thread/resume reply adds to hist
Told == [t \in Turns |->
            IF t \in History(threadID)
            THEN hist[t] \cup {tstate[t]} \cup (IF titem[t] THEN {"item"} ELSE {})
            ELSE hist[t]]

ReadThread ==
    /\ At("readThread")
    /\ \/ CallDone /\ hist' = Told /\ Goto("resumeThread")
       \/ CallNotSent /\ Goto("markRepair") /\ UNCHANGED hist
       \/ /\ HasDeadline /\ CallTimedOut
          /\ call' = [call EXCEPT !.pc = "markRepair", !.expired = TRUE]
          /\ UNCHANGED hist
    /\ UNCHANGED <<storeVars, stateVars, flagVars, questionVars, booted, asked,
                   boundVars>>

ResumeThread ==
    /\ At("resumeThread")
    /\ \/ CallDone /\ hist' = Told /\ Goto("private")
       \/ CallNotSent /\ Return("unknown") /\ hist' = ZeroMemory.hist
       \/ CallUnknown /\ Goto("markRepair") /\ UNCHANGED hist
    /\ UNCHANGED <<storeVars, stateVars, flagVars, questionVars, booted, asked,
                   boundVars>>

\* reconcileHistory, 1: the journal of private turns
InHistory == {t \in Turns : hist[t] # {}}
SeenRunning == {t \in Turns : "running" \in hist[t]}

ReconcilePrivate ==
    /\ At("private")
    /\ \/ /\ StoreOk
          /\ ClosePrivateTurns(threadID, InHistory, SeenRunning)
          /\ Goto("items")
          /\ UNCHANGED hist
       \/ /\ Unexplained(threadID, InHistory) \cap SeenRunning # {}
          /\ Return("unknown")
          /\ hist' = ZeroMemory.hist
          /\ UNCHANGED <<storeVars, storeFailures>>
       \/ /\ StoreFails
          /\ Return("store")
          /\ hist' = ZeroMemory.hist
    /\ UNCHANGED <<agentVars, stateVars, flagVars, questionVars, booted, asked,
                   crashes, repairs>>

\* reconcileHistory, 2: record the items of the other turns, in turn order
MissingItems_ShowsPrivate ==     \* mutant: hidden turns are not skipped
    {t \in Turns : "item" \in hist[t]} \ recorded
MissingItems == {t \in Turns : "item" \in hist[t]} \ (hidden \cup recorded)

ReconcileItems ==
    /\ At("items")
    /\ \/ /\ MissingItems = {}
          /\ Goto("settle")
          /\ UNCHANGED <<storeVars, storeFailures, hist>>
       \/ \E t \in MissingItems :
             /\ \A u \in MissingItems : t <= u
             /\ StoreOk
             /\ RecordCompletedItem(t)
             /\ UNCHANGED <<call, hist>>
       \/ /\ MissingItems # {} /\ StoreFails
          /\ Return("store")
          /\ hist' = ZeroMemory.hist
    /\ UNCHANGED <<agentVars, stateVars, flagVars, questionVars, booted, asked,
                   crashes, repairs>>

\* reconcileHistory, 3: the active turn is over, or its outcome is unproven
ProvenEnd_IfSeen ==     \* mutant: a turn that is in history counts as over
    IF activeTurn = 0 \/ hist[activeTurn] = {} THEN {} ELSE {"completed"}
ProvenEnd == IF activeTurn = 0 THEN {} ELSE hist[activeTurn] \cap Terminal

SettleActive ==
    /\ At("settle")
    /\ \/ /\ active = NoMsg \/ (ProvenEnd = {} /\ activeState = "needs-review")
          /\ Goto("controls")
          /\ hist' = ZeroMemory.hist
          /\ UNCHANGED <<storeVars, storeFailures, activeVars, faultVars>>
       \/ /\ active # NoMsg /\ StoreOk
          /\ \E s \in ProvenEnd : FinishTurn(activeTurn, s)
          /\ NoActive
          /\ Goto("controls")
          /\ hist' = ZeroMemory.hist
          /\ UNCHANGED faultVars
       \/ /\ active # NoMsg /\ ProvenEnd # {}
          /\ Glitch     \* the two replies disagree: thread-terminal-conflict
          /\ Goto("markRepair")
          /\ UNCHANGED <<storeVars, storeFailures, activeVars, hist>>
       \/ /\ active # NoMsg /\ ProvenEnd = {} /\ activeState # "needs-review"
          /\ StoreOk
          /\ MarkNeedsReview(active)
          /\ activeState' = "needs-review"
          /\ Goto("controls")
          /\ hist' = ZeroMemory.hist
          /\ UNCHANGED <<active, activeTurn, faultVars>>
       \/ /\ active # NoMsg /\ ~(ProvenEnd = {} /\ activeState = "needs-review")
          /\ StoreFails
          /\ Return("store")
          /\ hist' = ZeroMemory.hist
          /\ UNCHANGED <<activeVars, faultVars>>
    /\ UNCHANGED <<session, events, late, nthread, turnVars, status, threadID,
                   pending, queue, flagVars, questionVars, booted, asked,
                   crashes, repairs>>

\* controls in doubt wait for a decision too
ReconcileControls ==
    /\ At("controls")
    /\ \/ \E c \in Controls :
             /\ pending[c] = "dispatching"
             /\ StoreOk
             /\ MarkNeedsReview(c)
             /\ pending' = [pending EXCEPT ![c] = "needs-review"]
             /\ UNCHANGED <<call, threadReady>>
       \/ /\ \E c \in Controls : pending[c] = "dispatching"
          /\ StoreFails
          /\ Return("store")
          /\ UNCHANGED <<pending, threadReady>>
       \/ /\ \A c \in Controls : pending[c] # "dispatching"
          /\ threadReady' = TRUE
          /\ IF active = NoMsg /\ NoPending THEN Goto("recovered") ELSE Return("ok")
          /\ UNCHANGED <<storeVars, storeFailures, pending>>
    /\ UNCHANGED <<agentVars, status, threadID, activeVars, queue, fault,
                   readySeen, uncertain, questionVars, hist, booted, asked,
                   crashes, repairs>>

Recovered_MemoryFirst ==     \* mutant: the field is set before the row
    /\ At("recovered")
    /\ status' = "ready"
    /\ \/ StoreOk /\ SetRoomStatus("ready") /\ Goto("dispatch")
       \/ StoreFails /\ Return("store")
    /\ UNCHANGED <<agentVars, threadID, activeVars, pending, queue, flagVars,
                   questionVars, hist, booted, asked, crashes, repairs>>
Recovered ==
    /\ At("recovered")
    /\ \/ StoreOk /\ SetRoomStatus("ready") /\ status' = "ready" /\ Goto("dispatch")
       \/ StoreFails /\ Return("store") /\ UNCHANGED status
    /\ UNCHANGED <<agentVars, threadID, activeVars, pending, queue, flagVars,
                   questionVars, hist, booted, asked, crashes, repairs>>

----------------------------------------------------------------------------
(* startQuestion.                                                          *)

\* the frontier is durable before the private turn can exist
Ask(q) ==
    /\ Serving
    /\ q \notin asked
    /\ question = NoMsg /\ active = NoMsg /\ queue = <<>> /\ NoPending
    /\ status = "ready" /\ threadReady
    /\ session = "up" /\ RunningIn(threadID) = {}
    /\ BeginPrivateTurn(threadID, History(threadID))
    /\ asked' = asked \cup {q}
    /\ call' = Handler("askTurn", "command", q)
    /\ UNCHANGED <<agentVars, stateVars, flagVars, questionVars, hist, booted,
                   boundVars>>

AskTurn ==
    /\ At("askTurn")
    /\ \/ /\ TurnStarted(call.msg, threadID)
          /\ question' = call.msg /\ questionTurn' = nturn'
          /\ call' = Idle
          /\ UNCHANGED status
       \/ /\ CallNotSent
          /\ Goto("askUndo")
          /\ UNCHANGED <<status, questionVars>>
       \/ /\ \/ CallUnknown
             \/ CallTimedOut
             \/ TurnStartLost(call.msg, threadID)
             \/ TurnStartTimedOut(call.msg, threadID)
          /\ status' = "recovering"
          /\ call' = Idle
          /\ UNCHANGED questionVars
    /\ UNCHANGED <<storeVars, threadID, activeVars, pending, queue, flagVars,
                   hist, booted, asked, boundVars>>

AskUndo ==
    /\ At("askUndo")
    /\ \/ StoreOk /\ EndPrivateTurn(threadID, {}) /\ UNCHANGED status
       \/ StoreFails /\ status' = "recovering"
    /\ call' = Idle
    /\ UNCHANGED <<agentVars, threadID, activeVars, pending, queue, flagVars,
                   questionVars, hist, booted, asked, crashes, repairs>>

----------------------------------------------------------------------------
(* handleAgentEvent and questionEvent.                                     *)

\* the select of Run, when an event is there
Received == IF At("idle") /\ events # <<>> THEN {Head(events)} ELSE {}

Taken ==
    /\ events' = Tail(events)
    /\ UNCHANGED <<session, late, nthread, turnVars, faultVars>>

\* the event belongs to the open question
ForQuestion(e) == question # NoMsg /\ e.turn \in {0, questionTurn}

\* the event belongs to the turn the room is working on
ForActive(e) ==
    /\ active # NoMsg
    /\ \/ activeState = "running"
       \/ fault /\ activeState = "needs-review"
    /\ activeTurn = e.turn

FaultApplies(e) == ~fault /\ e.turn \in {0, activeTurn}

Ignored(e) ==
    CASE e.kind = "unavailable" -> FALSE
      [] e.kind = "ready" -> status = "ready" \/ readySeen
      [] e.kind = "item" -> ForQuestion(e) \/ ~ForActive(e)
      [] e.kind = "fault" -> ForQuestion(e) \/ (active # NoMsg /\ ~FaultApplies(e))
      [] OTHER -> ~ForQuestion(e) /\ ~ForActive(e)

OnIgnored ==
    /\ \E e \in Received : Taken /\ Ignored(e)
    /\ UNCHANGED <<storeVars, stateVars, flagVars, questionVars, call, hist,
                   booted, asked, boundVars>>

OnItem ==
    /\ \E e \in Received :
          /\ Taken /\ e.kind = "item" /\ ~Ignored(e)
          /\ \/ StoreOk /\ RecordCompletedItem(e.turn) /\ UNCHANGED call
             \/ StoreFails /\ call' = Exiting
    /\ UNCHANGED <<stateVars, flagVars, questionVars, hist, booted, asked,
                   crashes, repairs>>

\* what follows a finished turn
AfterTurn_Waits ==     \* mutant: nobody looks at the queue
    IF fault THEN Handler("faultReady", "event", NoMsg) ELSE Idle
AfterTurn_StaysFrozen ==     \* mutant: a faulty turn does not end the freeze
    Handler("dispatch", "event", NoMsg)
AfterTurn == Handler(IF fault THEN "faultReady" ELSE "dispatch", "event", NoMsg)

\* an unsupported turn is failed however it ends
OnTurnEnd ==
    /\ \E e \in Received :
          /\ Taken /\ e.kind \in Terminal
          /\ ~ForQuestion(e) /\ ForActive(e)
          /\ \/ /\ StoreOk
                /\ FinishTurn(e.turn, IF fault THEN "failed" ELSE e.kind)
                /\ NoActive
                /\ call' = AfterTurn
             \/ /\ StoreFails
                /\ call' = Exiting
                /\ UNCHANGED activeVars
    /\ UNCHANGED <<status, threadID, pending, queue, flagVars, questionVars,
                   hist, booted, asked, crashes, repairs>>

FaultReady ==
    /\ At("faultReady")
    /\ fault' = FALSE
    /\ \/ StoreOk /\ SetRoomStatus("ready") /\ status' = "ready" /\ Goto("dispatch")
       \/ StoreFails /\ call' = Exiting /\ UNCHANGED status
    /\ UNCHANGED <<agentVars, threadID, activeVars, pending, queue, threadReady,
                   readySeen, uncertain, questionVars, hist, booted, asked,
                   crashes, repairs>>

\* unsupported-server-request and protocol-error
OnFault ==
    /\ \E e \in Received :
          /\ Taken /\ e.kind = "fault" /\ ~Ignored(e)
          /\ \/ /\ active = NoMsg
                /\ call' = Exiting
                /\ UNCHANGED <<storeVars, storeFailures, status, activeState, fault>>
             \/ /\ active # NoMsg /\ StoreOk
                /\ MarkNeedsReview(active)
                /\ status' = "recovering" /\ fault' = TRUE
                /\ activeState' = "needs-review"
                /\ call' = Handler("faultStatus", "event", NoMsg)
             \/ /\ active # NoMsg
                /\ \/ StoreFails
                   \/ /\ mstate[active] \notin {"dispatching", "running"}
                      /\ UNCHANGED <<storeVars, storeFailures>>
                /\ status' = "recovering" /\ fault' = TRUE
                /\ call' = Exiting
                /\ UNCHANGED activeState
    /\ UNCHANGED <<threadID, active, activeTurn, pending, queue, threadReady,
                   readySeen, uncertain, questionVars, hist, booted, asked,
                   crashes, repairs>>

\* then turn/interrupt is sent and its answer ignored
FaultStatus ==
    /\ At("faultStatus")
    /\ \/ StoreOk /\ SetRoomStatus("recovering") /\ call' = Idle
       \/ StoreFails /\ call' = Exiting
    /\ UNCHANGED <<agentVars, stateVars, flagVars, questionVars, hist, booted,
                   asked, crashes, repairs>>

OnQuestionEnd ==
    /\ \E e \in Received :
          /\ Taken /\ e.kind \in Terminal /\ ForQuestion(e)
          /\ \/ StoreOk /\ EndPrivateTurn(threadID, {questionTurn}) /\ UNCHANGED status
             \/ StoreFails /\ status' = "recovering"
    /\ question' = NoMsg /\ questionTurn' = 0
    /\ call' = Handler("dispatch", "event", NoMsg)
    /\ UNCHANGED <<threadID, activeVars, pending, queue, flagVars, hist, booted,
                   asked, crashes, repairs>>

OnUnavailable ==
    /\ \E e \in Received : Taken /\ e.kind = "unavailable"
    /\ question' = NoMsg /\ questionTurn' = 0
    /\ fault' = FALSE /\ threadReady' = FALSE /\ readySeen' = FALSE
    /\ status' = "recovering"
    /\ \/ /\ status = "recovering"
          /\ UNCHANGED <<storeVars, storeFailures, call>>
       \/ /\ status # "recovering"
          /\ \/ StoreOk /\ SetRoomStatus("recovering")
             \/ StoreFails
          /\ call' = IF active # NoMsg /\ activeState # "needs-review"
                     THEN Handler("lostTurn", "event", NoMsg) ELSE Idle
    /\ UNCHANGED <<threadID, activeVars, pending, queue, uncertain, hist,
                   booted, asked, crashes, repairs>>

\* the outcome of the running turn is unknown; a store error is ignored
LostTurn ==
    /\ At("lostTurn")
    /\ \/ StoreOk /\ MarkNeedsReview(active) /\ activeState' = "needs-review"
       \/ StoreFails /\ UNCHANGED activeState
    /\ call' = Idle
    /\ UNCHANGED <<agentVars, status, threadID, active, activeTurn, pending,
                   queue, flagVars, questionVars, hist, booted, asked,
                   crashes, repairs>>

OnReady ==
    /\ \E e \in Received : Taken /\ e.kind = "ready" /\ ~Ignored(e)
    /\ readySeen' = TRUE
    /\ call' = Handler("recover", "ready", NoMsg)
    /\ UNCHANGED <<storeVars, stateVars, fault, threadReady, uncertain,
                   questionVars, hist, booted, asked, boundVars>>

----------------------------------------------------------------------------

Client ==
    \/ \E m \in Prompts : Submit(m)
    \/ \E n \in Notes : Note(n)
    \/ \E c \in Controls, t \in 1..nturn : Control(c, t)
    \/ \E r \in Recovers : Resolve(r)
    \/ \E q \in Questions : Ask(q)

Owner == RepairMark \/ RepairCreate \/ RepairBind \/ RepairUse \/ ResetAtStartup

\* the links of the handler under way
Continue ==
    \/ DispatchNext \/ StartTurn \/ BindTurn \/ FailTurn
    \/ ReviewTurn \/ ReviewStatus
    \/ SendControl \/ EndControl
    \/ ResolveLoad \/ RetryCall \/ RetryFinish \/ ResolveReload \/ ResolveReady
    \/ RecoverLoad \/ MarkRepair \/ SetRecovering \/ StartThread \/ BindNewThread
    \/ ReadThread \/ ResumeThread \/ ReconcilePrivate \/ ReconcileItems
    \/ SettleActive \/ ReconcileControls \/ Recovered
    \/ AskTurn \/ AskUndo
    \/ FaultReady \/ FaultStatus \/ LostTurn

HandleEvent ==
    \/ OnIgnored \/ OnItem \/ OnTurnEnd \/ OnFault \/ OnQuestionEnd
    \/ OnUnavailable \/ OnReady

AppServer ==
    /\ \/ \E t \in alive : ItemCompletes(t)
       \/ \E t \in alive, how \in Endings : TurnEnds(t, how)
       \/ \E t \in alive \cup {0} : AgentFault(t)
       \/ SessionDies
       \/ ~At("down") /\ SessionReplaced
    /\ UNCHANGED <<storeVars, stateVars, flagVars, questionVars, call, hist,
                   booted, asked, boundVars>>

Next ==
    \/ Client \/ Owner \/ Continue \/ HandleEvent \/ AppServer
    \/ StartDaemon \/ StartupRecover \/ Exit \/ Crash

Spec == Init /\ [][Next]_vars

\* The goroutine runs while it has work, the supervisor keeps starting App
\* Servers (Runtime.run), the service manager restarts a daemon that exited,
\* and every turn ends.  Clients, faults and deaths may never come.
AgentStep(A) ==
    /\ A
    /\ UNCHANGED <<storeVars, stateVars, flagVars, questionVars, call, hist,
                   booted, asked, boundVars>>

Fairness ==
    /\ WF_vars(Continue) /\ WF_vars(HandleEvent)
    /\ WF_vars(StartDaemon) /\ WF_vars(StartupRecover) /\ WF_vars(Exit)
    /\ WF_vars(AgentStep(~At("down") /\ SessionReplaced))
    /\ WF_vars(AgentStep(late /\ SessionDies))
    /\ \A t \in Turns :
          WF_vars(AgentStep(\E how \in Endings : TurnEnds(t, how)))

FairSpec == Spec /\ Fairness

----------------------------------------------------------------------------
(* Properties.                                                             *)

Labels ==
    {"down", "exiting", "idle", "dispatch", "startTurn", "bindTurn",
     "failDispatch", "review", "reviewStatus", "control", "finishControl",
     "resolveLoad", "retry", "retryFinish", "resolveReload", "resolveReady",
     "recover", "markRepair", "setRecovering", "startThread", "bindThread",
     "readThread", "resumeThread", "private", "items", "settle", "controls",
     "recovered", "askTurn", "askUndo", "faultReady", "faultStatus", "lostTurn"}
Origins == {"none", "command", "startup", "event", "ready"}
Outcomes == {"none", "failed", "completed", "needs-review"}
HistoryMarks == {"none", "running", "item"} \cup Terminal

CallRecords ==
    [pc : Labels, origin : Origins, expired : BOOLEAN, notSent : BOOLEAN,
     msg : Msgs \cup Questions \cup {NoMsg}, outcome : Outcomes, turn : Nat]

\* Every variable has the type of the Go field or SQL column it stands for.
MemoryTypeOK ==
    /\ status \in RoomStates \cup {"boot"}
    /\ threadID \in 0..MaxThreads
    /\ active \in Work \cup {NoMsg}
    /\ activeState \in LiveStates \cup {"none"}
    /\ activeTurn \in 0..MaxTurns
    /\ pending \in [Controls -> {"none", "dispatching", "needs-review"}]
    /\ queue \in Seq(Work)
    /\ fault \in BOOLEAN /\ threadReady \in BOOLEAN /\ readySeen \in BOOLEAN
    /\ uncertain \in BOOLEAN
    /\ question \in Questions \cup {NoMsg}
    /\ questionTurn \in 0..MaxTurns

\* ... and the handler under way finds what it needs at each of its links.
HandlerTypeOK ==
    /\ call \in CallRecords
    /\ At("bindTurn") => call.turn \in Turns
    /\ At("bindThread") => call.turn \in Threads
    /\ At("finishControl") \/ At("retryFinish") => call.outcome # "none"
    /\ At("askTurn") => call.msg \in Questions
    /\ call.pc \in {"startTurn", "bindTurn", "failDispatch", "review"} => queue # <<>>
    /\ hist \in [Turns -> SUBSET HistoryMarks]
    /\ booted \in BOOLEAN
    /\ asked \subseteq Questions
    /\ crashes \in Nat /\ storeFailures \in Nat
    /\ repairs \in [begun : Nat, at : {"none", "start", "bind"}, thread : 0..MaxThreads]
    /\ repairs.at = "bind" => repairs.thread \in Threads

TypeOK == StoreTypeOK /\ AgentTypeOK /\ MemoryTypeOK /\ HandlerTypeOK

\* At most one prompt is dispatching, running or awaiting review, through
\* every crash, lost reply, failed transaction and restart: LoadRecoveryImage
\* reads that one row and nothing else remembers a second.
SingleActive == \A m, n \in LiveWork : m = n

\* A room the coordinator calls ready is ready in the database too, so a
\* crash at any moment is recovered from a status that says no less.
ReadyIsDurable == status = "ready" => dbStatus = "ready"

\* The end of a faulty turn declares the room ready without reading the rows
\* (coordinator.go:412).  If a control was decided on meanwhile and the rows
\* have not been read since, its old state stands in memory, and a replacement
\* for it is missing.  (This exception is wider: any fault, and any decision
\* about a control.)
DecisionUnread == faults > 0 /\ \E r \in Recovers : rtarget[r] \in Controls

\* Whenever a ready coordinator waits for input, its memory is what
\* LoadRecoveryImage would read: the active prompt has its durable state, and,
\* except after DecisionUnread, no accepted prompt is missing from the queue,
\* none is there twice, and every control has its durable state.
MemoryMatchesStore ==
    At("idle") /\ status = "ready" =>
        /\ LiveWork = {active} \ {NoMsg}
        /\ active # NoMsg => /\ mstate[active] = activeState
                             /\ mturn[active] = activeTurn
        /\ ~DecisionUnread =>
              /\ \A c \in Controls :
                    pending[c] = (IF PendingControl(c) THEN mstate[c] ELSE "none")
              /\ \E q \in InAcceptedOrder(QueuedWork) :
                    queue = (IF activeState = "dispatching" THEN <<active>> ELSE <<>>) \o q

\* Ambiguous dispatch is never retried by itself: a prompt has at most one
\* turn more than there are retry decisions about it.
Retries(m) == {r \in Recovers : raction[r] = "retry" /\ rtarget[r] = m}
NoResend ==
    \A m \in Work :
        Cardinality({t \in 1..nturn : towner[t] = m}) <= 1 + Cardinality(Retries(m))

\* When turn/start is about to be sent, nothing else awaits a review or an
\* answer: every other prompt and control is settled or queued, and the room is
\* durably ready on the thread that the coordinator has in mind.
DispatchFrozen ==
    At("startTurn") =>
        /\ \A m \in (Work \cup Controls) \ {active} :
              mstate[m] \in {"absent", "queued"} \cup Terminal
        /\ dbStatus = "ready" /\ threadID = dbThread

\* When turn/start is about to be sent, every question ever put to this thread
\* is accounted for: its frontier is closed, and its turn is known to be private,
\* or went down with its process, whatever failed around the question.
QuestionsSettled ==
    At("startTurn") =>
        /\ frontier # threadID
        /\ \A t \in 1..nturn :
              towner[t] \in Questions /\ tthread[t] = threadID
                 => t \in hidden \/ tstate[t] = "lost"

\* The App Server runs two turns at once only if a call went wrong or its
\* process died on the way, and someone then decided about the prompt of one
\* of them: a turn that is known to run is always waited for.  (A death is
\* enough: a prompt can be dispatched to the new process while the coordinator
\* has not yet been told that the old one is gone, and is then given up with
\* it, coordinator.go: handleAgentEvent.)
OneTurnAtATime ==
    \A t, u \in alive :
        t # u => /\ glitches + deaths > 0
                 /\ \E r \in Recovers : rtarget[r] \in {towner[t], towner[u]}

\* A prompt is reported completed or interrupted only if the history of its
\* turn says so, and then the turn's output has been recorded.
OutcomeIsProven ==
    \A m \in Work : mstate[m] \in {"completed", "interrupted"} =>
        /\ mturn[m] # 0
        /\ tstate[mturn[m]] = mstate[m]
        /\ titem[mturn[m]] => mturn[m] \in recorded

\* Nothing a private question produced reaches the room's event log, even
\* when the daemon or the App Server dies around the question.
PrivateHidden == \A t \in recorded : towner[t] \notin Questions

\* No thread is created silently: after the first one each takes an attempt of
\* the owner to repair or reset, whether that attempt succeeded or not.
NoSilentThread == nthread <= 1 + repairs.begun

\* A ready room that waits for input with nothing under way has no backlog
\* (where no transaction has failed).
NoIdleBacklog ==
    (/\ At("idle") /\ status = "ready" /\ storeFailures = 0
     /\ active = NoMsg /\ NoPending /\ question = NoMsg) => queue = <<>>

\* Every accepted prompt is settled in the end, unless the room stops for a
\* decision only people can take.
Stopped ==
    \/ \E m \in Work \cup Controls : mstate[m] = "needs-review"
    \/ dbStatus = "thread-needs-repair"
EverySubmitSettles ==
    \A m \in Work : mstate[m] = "queued" ~> (mstate[m] \in Terminal \/ Stopped)

\* The room keeps the promise of WorkQueue, step by step.
Promise == INSTANCE WorkQueue WITH
              phase <- [m \in Work |-> mstate[m]], seq <- mseq
ImplementsWorkQueue == Promise!Spec

\* Design: dispatch stays frozen in thread-needs-repair until the execution
\* owner repairs the thread offline.  (With a thread bound, the status is all
\* that keeps the next recover from going on with that thread.)
RepairOnlyOffline ==
    [][dbStatus = "thread-needs-repair" /\ dbThread # 0 /\ ~At("down")
          => dbStatus' = "thread-needs-repair"]_vars

\* Design: messages accepted while the App Server is down remain queued.
QueuedWhileDown ==
    [][\A m \in Work : session = "down" /\ mstate[m] \in {"queued", "dispatching"}
          => mstate'[m] # "failed"]_vars
=============================================================================
