------------------------- MODULE CoordinatorSafety -------------------------
(***************************************************************************)
(* The safety of the room, each part by an inductive invariant of its own: *)
(*   SingleActive         one row for LoadRecoveryImage to find;           *)
(*   ReadyIsDurable       memory is not ahead of the database;             *)
(*   DispatchFrozen       nothing is sent while anything is in doubt;      *)
(*   NoSilentThread       no thread but those the owner asked for;         *)
(*   PrivateHidden        a private turn stays out of the event log;       *)
(*   ImplementsWorkQueue  the rows of the prompts keep the promise;        *)
(*   NoResend             one turn for each time a prompt is queued;       *)
(*   NoIdleBacklog        a ready, idle room has an empty queue.           *)
(***************************************************************************)
EXTENDS CoordinatorProofs

\* Where the program counter is after each form of a handler's link.
LEMMA PcAfter ==
    ASSUME TypeOK
    PROVE  /\ \A err : Return(err) => call'.pc \in {"idle", "exiting"}
           /\ \A l \in Labels : Goto(l) => call'.pc = l
           /\ \A l \in Labels, o \in Origins, m \in Owners : Handler(l, o, m).pc = l
           /\ Idle.pc = "idle" /\ Exiting.pc = "exiting"
<1>1. CallOK
  BY HandlerTypeSplit DEF TypeOK
<1>2. Idle.pc = "idle" /\ Exiting.pc = "exiting"
  BY HandlerIsCall DEF Labels, Origins, Owners
<1>3. \A err : Return(err) => call'.pc \in {"idle", "exiting"}
  BY <1>2 DEF Return
<1>4. \A l \in Labels : Goto(l) => call'.pc = l
  BY <1>1, GotoFields
<1> QED
  BY <1>2, <1>3, <1>4, HandlerIsCall

\* The labels are different.
LEMMA LabelsType ==
    /\ "dispatch" \in Labels /\ "startTurn" \in Labels /\ "bindTurn" \in Labels
    /\ "failDispatch" \in Labels /\ "review" \in Labels /\ "reviewStatus" \in Labels
    /\ "control" \in Labels /\ "finishControl" \in Labels /\ "resolveLoad" \in Labels
    /\ "retry" \in Labels /\ "retryFinish" \in Labels /\ "resolveReload" \in Labels
    /\ "resolveReady" \in Labels /\ "recover" \in Labels /\ "markRepair" \in Labels
    /\ "setRecovering" \in Labels /\ "startThread" \in Labels /\ "bindThread" \in Labels
    /\ "readThread" \in Labels /\ "resumeThread" \in Labels /\ "private" \in Labels
    /\ "items" \in Labels /\ "settle" \in Labels /\ "controls" \in Labels
    /\ "recovered" \in Labels /\ "askTurn" \in Labels /\ "askUndo" \in Labels
    /\ "faultReady" \in Labels /\ "faultStatus" \in Labels /\ "lostTurn" \in Labels
    /\ {"command", "startup", "event", "ready"} \subseteq Origins
    /\ NoMsg \in Owners /\ Controls \subseteq Owners /\ Questions \subseteq Owners
  BY DEF Labels, Origins, Owners, Msgs

----------------------------------------------------------------------------
\* SingleActive.

\* The links at which the handler has read the image and relies on active.
LoadedLabels ==
    {"startTurn", "bindTurn", "failDispatch", "review", "retry", "retryFinish",
     "resolveReady", "setRecovering", "startThread", "bindThread", "readThread",
     "resumeThread", "private", "items", "settle", "controls", "recovered", "faultReady"}

\* The memory says which prompt is in progress.
Loaded == status = "ready" \/ active # NoMsg \/ call.pc \in LoadedLabels

\* SingleActive is not inductive: a ready room without an active prompt would
\* dispatch beside one it does not know of.  So no such prompt exists.
ActiveInv == SingleActive /\ (Loaded => LiveWork \subseteq {active})

\* A step that neither puts a prompt in progress nor forgets the active one.
KeepsActive ==
    /\ UNCHANGED active
    /\ status' = "ready" => Loaded
    /\ call'.pc \in LoadedLabels => Loaded

\* Such a step keeps the invariant.
LEMMA KeepsActiveInv ==
    ASSUME ActiveInv, LiveShrinks, KeepsActive PROVE ActiveInv'
<1>1. SingleActive'
  BY DEF ActiveInv, SingleActive, LiveShrinks
<1>2. Loaded' => Loaded
  BY DEF KeepsActive, Loaded
<1> QED
  BY <1>1, <1>2 DEF ActiveInv, LiveShrinks, KeepsActive

\* The one active prompt is settled and nothing is active any more.
LEMMA SettledInv ==
    ASSUME ActiveInv, Loaded, LiveShrinks, NEW m \in LiveWork, m \notin LiveWork'
    PROVE  ActiveInv'
<1>1. LiveWork' = {}
  BY DEF ActiveInv, LiveShrinks
<1> QED
  BY <1>1 DEF ActiveInv, SingleActive

\* loadRecovery finds the one prompt in progress, if there is one.
LEMMA LoadImageInv ==
    ASSUME ActiveInv, LoadImage, UNCHANGED storeVars PROVE ActiveInv'
<1>1. LiveWork' = LiveWork
  BY DEF storeVars, messageRows, LiveWork
<1>2. LiveWork \subseteq {active'}
  BY DEF LoadImage, FirstAccepted, ActiveInv, SingleActive
<1> QED
  BY <1>1, <1>2 DEF ActiveInv, SingleActive

\* A dispatch takes a free room.
LEMMA DispatchInv == ASSUME TypeOK, ActiveInv, DispatchNext PROVE ActiveInv'
<1>0. StoreTypeOK
  BY DEF TypeOK
<1>1. CASE /\ CanDispatch /\ BeginDispatch(Head(queue)) /\ Head(queue) \in Work
           /\ active' = Head(queue)
  <2>1. LiveWork \subseteq {NoMsg}
    BY <1>1 DEF CanDispatch, ActiveInv, Loaded
  <2>2. LiveWork = {}
    BY <2>1, StoreAssumption DEF LiveWork, Msgs
  <2>3. LiveWork' \subseteq {active'}
    BY <1>0, <1>1, <2>2, BeginDispatchType
  <2> QED
    BY <2>3 DEF ActiveInv, SingleActive
<1>2. CASE StoreStep(Owners) /\ UNCHANGED active
  <2>1. LiveShrinks
    BY <1>0, <1>2, StoreStepType
  <2>2. KeepsActive
    BY <1>2, PcAfter DEF DispatchNext, KeepsActive, Loaded, LoadedLabels, CanDispatch
  <2> QED
    BY <2>1, <2>2, KeepsActiveInv
<1> QED
  BY <1>1, <1>2, DispatchStoreStep

\* Commands and agent events, apart from the end of a turn.
LEMMA InputKeeps ==
    ASSUME TypeOK,
           \/ Client \/ Owner \/ AppServer \/ StartDaemon \/ StartupRecover
           \/ OnIgnored \/ OnItem \/ OnFault \/ OnQuestionEnd \/ OnUnavailable \/ OnReady
           \/ UNCHANGED vars
    PROVE  KeepsActive
<1> USE PcAfter, LabelsType DEF KeepsActive, Loaded, LoadedLabels
<1>1. CASE Owner \/ AppServer \/ StartDaemon \/ StartupRecover \/ UNCHANGED vars
  BY <1>1 DEF Owner, Offline, RepairMark, RepairCreate, RepairBind, RepairBegins, RepairUse, ResetAtStartup,
     AppServer, StartDaemon, StartupRecover, vars, stateVars
<1>2. CASE \E m \in Prompts : Submit(m)
  BY <1>2 DEF Submit, activeVars
<1>3. CASE \E n \in Notes : Note(n)
  BY <1>3 DEF Note, stateVars
<1>4. ASSUME NEW c \in Controls, NEW t, Control(c, t) PROVE KeepsActive
  <2>1. call' = [Handler("finishControl", "command", c) EXCEPT !.outcome = "failed"]
           => call'.pc = "finishControl"
    <3>1. Handler("finishControl", "command", c) \in CallRecords
          /\ Handler("finishControl", "command", c).pc = "finishControl"
      BY HandlerIsCall
    <3> QED
      BY <3>1 DEF CallRecords
  <2>2. call'.pc \in {"control", "finishControl"}
    BY <1>4, <2>1 DEF Control
  <2> QED
    BY <1>4, <2>2 DEF Control, activeVars
<1>5. ASSUME NEW r \in Recovers, Resolve(r) PROVE KeepsActive
  <2>1. \E c \in Controls \cup {NoMsg} : AfterDecision(c)
    BY <1>5 DEF Resolve
  <2>2. call'.pc \in {"resolveLoad", "idle"}
    BY <2>1, SMTT(20) DEF AfterDecision
  <2>3. status' = "recovering" /\ UNCHANGED active
    BY <1>5 DEF Resolve, activeVars
  <2> QED
    BY <2>2, <2>3
<1>6. CASE \E q \in Questions : Ask(q)
  BY <1>6 DEF Ask, stateVars
<1>7. CASE OnIgnored \/ OnItem
  BY <1>7 DEF OnIgnored, OnItem, stateVars
<1>8. CASE OnFault
  BY <1>8 DEF OnFault
<1>9. CASE OnQuestionEnd \/ OnUnavailable \/ OnReady
  BY <1>9 DEF OnQuestionEnd, OnUnavailable, OnReady, activeVars, stateVars
<1> QED
  BY <1>1, <1>2, <1>3, <1>4, <1>5, <1>6, <1>7, <1>8, <1>9 DEF Client

\* The links of dispatch, control and question handlers that keep active.
LEMMA TurnKeeps ==
    ASSUME TypeOK,
           \/ StartTurn \/ BindTurn \/ ReviewTurn \/ ReviewStatus
           \/ SendControl \/ EndControl \/ RetryCall \/ RetryFinish \/ ResolveReady
           \/ AskTurn \/ AskUndo \/ FaultReady \/ FaultStatus \/ LostTurn
    PROVE  KeepsActive
<1> USE PcAfter, LabelsType DEF KeepsActive, Loaded, LoadedLabels, At
<1>1. CASE StartTurn
  BY <1>1 DEF StartTurn, activeVars
<1>2. CASE BindTurn \/ ReviewTurn \/ ReviewStatus
  BY <1>2 DEF BindTurn, ReviewTurn, ReviewStatus, stateVars
<1>3. CASE SendControl
  <2>1. call'.pc = "finishControl"
    BY <1>3, ControlCallType, HandlerTypeSplit DEF SendControl, TypeOK
  <2> QED
    BY <1>3, <2>1 DEF SendControl, activeVars
<1>4. CASE EndControl
  BY <1>4 DEF EndControl, activeVars
<1>5. CASE RetryCall \/ RetryFinish
  BY <1>5 DEF RetryCall, RetryFinish, stateVars
<1>6. CASE ResolveReady
  BY <1>6 DEF ResolveReady, activeVars
<1>7. CASE AskTurn \/ AskUndo
  BY <1>7 DEF AskTurn, AskUndo, activeVars
<1>8. CASE FaultReady \/ FaultStatus \/ LostTurn
  BY <1>8 DEF FaultReady, FaultStatus, LostTurn, activeVars, stateVars
<1> QED
  BY <1>1, <1>2, <1>3, <1>4, <1>5, <1>6, <1>7, <1>8

\* The links of recover that keep active.
LEMMA RecoverKeeps ==
    ASSUME TypeOK,
           \/ MarkRepair \/ SetRecovering \/ StartThread \/ BindNewThread \/ ReadThread
           \/ ResumeThread \/ ReconcilePrivate \/ ReconcileItems \/ ReconcileControls
           \/ Recovered
    PROVE  KeepsActive
<1> USE PcAfter, LabelsType DEF KeepsActive, Loaded, LoadedLabels, At
<1>1. CASE MarkRepair
  BY <1>1 DEF MarkRepair, activeVars
<1>2. CASE SetRecovering \/ StartThread \/ ReadThread \/ ResumeThread
  BY <1>2 DEF SetRecovering, StartThread, ReadThread, ResumeThread, stateVars
<1>3. CASE BindNewThread
  BY <1>3 DEF BindNewThread, activeVars
<1>4. CASE ReconcilePrivate \/ ReconcileItems
  BY <1>4 DEF ReconcilePrivate, ReconcileItems, stateVars
<1>5. CASE ReconcileControls \/ Recovered
  BY <1>5 DEF ReconcileControls, Recovered, activeVars
<1> QED
  BY <1>1, <1>2, <1>3, <1>4, <1>5

\* FailDispatch settles the prompt it is about.
LEMMA FailDispatchSettles ==
    ASSUME StoreTypeOK, active \in Work, FailDispatch(active)
    PROVE  active \in LiveWork /\ active \notin LiveWork'
  BY DEF FailDispatch, MoveMessage, LiveWork, LiveStates, StoreTypeOK, Msgs

\* The steps that settle the active prompt.
LEMMA SettleInv ==
    ASSUME TypeOK, ActiveInv, LiveShrinks, FailTurn \/ SettleActive \/ OnTurnEnd
    PROVE  ActiveInv'
<1> USE PcAfter, LabelsType
<1>0. StoreTypeOK
  BY DEF TypeOK
<1>1. CASE FailTurn
  <2>0. Loaded
    BY <1>1 DEF FailTurn, At, Loaded, LoadedLabels
  <2>1. CASE FailDispatch(active)
    <3>1. active \in Msgs \/ active = NoMsg
      BY DEF TypeOK, MemoryTypeOK, Msgs
    <3>2. CASE active \in Work
      BY <1>0, <2>0, <2>1, <3>2, FailDispatchSettles, SettledInv
    <3>3. CASE active = NoMsg
      <4>1. LiveWork = {}
        BY <2>0, <3>3, StoreAssumption DEF ActiveInv, LiveWork, Msgs
      <4> QED
        BY <4>1 DEF ActiveInv, SingleActive, LiveShrinks
    <3> QED
      BY <3>2, <3>3 DEF TypeOK, MemoryTypeOK
  <2>2. CASE UNCHANGED activeVars /\ UNCHANGED status /\ \E e : Return(e)
    BY <2>2, KeepsActiveInv DEF KeepsActive, Loaded, LoadedLabels, activeVars
  <2> QED
    BY <1>1, <2>1, <2>2 DEF FailTurn
<1>2. CASE SettleActive
  <2>0. Loaded
    BY <1>2 DEF SettleActive, At, Loaded, LoadedLabels
  <2>1. ASSUME NEW s \in ProvenEnd, FinishTurn(activeTurn, s) PROVE ActiveInv'
    <3>1. s \in Terminal
      BY DEF ProvenEnd
    <3> QED
      BY <1>0, <2>0, <2>1, <3>1, FinishTurnType, SettledInv
  <2>2. CASE UNCHANGED <<active, status>>
    BY <2>0, <2>2, KeepsActiveInv DEF KeepsActive, Loaded
  <2> QED
    BY <1>2, <2>1, <2>2 DEF SettleActive, activeVars
<1>3. CASE OnTurnEnd
  <2>1. PICK e \in Received :
           /\ e.kind \in Terminal /\ ForActive(e)
           /\ \/ FinishTurn(e.turn, IF fault THEN "failed" ELSE e.kind)
              \/ call' = Exiting /\ UNCHANGED activeVars
    BY <1>3 DEF OnTurnEnd
  <2>2. Loaded
    BY <2>1 DEF ForActive, Loaded
  <2>3. CASE FinishTurn(e.turn, IF fault THEN "failed" ELSE e.kind)
    <3>1. (IF fault THEN "failed" ELSE e.kind) \in Terminal
      BY <2>1 DEF Terminal
    <3> QED
      BY <1>0, <2>2, <2>3, <3>1, FinishTurnType, SettledInv
  <2>4. CASE UNCHANGED activeVars
    BY <2>2, <2>4, KeepsActiveInv DEF KeepsActive, activeVars
  <2> QED
    BY <2>1, <2>3, <2>4
<1> QED
  BY <1>1, <1>2, <1>3

\* A daemon that is gone has loaded nothing.
LEMMA GoneInv == ASSUME ActiveInv, LiveShrinks, DaemonGone PROVE ActiveInv'
<1>1. status' = "boot" /\ active' = NoMsg
  BY DEF DaemonGone, ZeroMemory, NoActive
<1>2. call'.pc = "down"
  BY DEF DaemonGone, Idle
<1> QED
  BY <1>1, <1>2 DEF ActiveInv, SingleActive, LiveShrinks, Loaded, LoadedLabels

\* The steps that read the image.
LEMMA LoadInv ==
    ASSUME TypeOK, ActiveInv, LiveShrinks, ResolveLoad \/ ResolveReload \/ RecoverLoad
    PROVE  ActiveInv'
<1>1. CASE LoadImage /\ UNCHANGED storeVars
  BY <1>1, LoadImageInv
<1>2. CASE /\ UNCHANGED active /\ status' \in {status, "recovering", "thread-needs-repair"}
           /\ \E e : Return(e)
  BY <1>2, PcAfter, KeepsActiveInv DEF KeepsActive, Loaded, LoadedLabels
<1> QED
  BY <1>1, <1>2 DEF ResolveLoad, ResolveReload, RecoverLoad, stateVars, activeVars

\* Every step keeps at most one prompt in progress, and the memory knows it.
LEMMA ActiveStep == ASSUME TypeOK, ActiveInv, [Next]_vars PROVE ActiveInv'
<1>1. CASE DispatchNext
  BY <1>1, DispatchInv
<1>2. CASE StoreStep(Owners)
  <2>1. LiveShrinks
    BY <1>2, StoreStepType DEF TypeOK
  <2> QED
    BY <1>1, <2>1, InputKeeps, TurnKeeps, RecoverKeeps, KeepsActiveInv, SettleInv, LoadInv,
       GoneInv DEF Next, Continue, HandleEvent, Exit, Crash
<1> QED
  BY <1>1, <1>2, NextStoreStep

\* The invariant holds throughout.
LEMMA ActiveAlways == Spec => []ActiveInv
<1>1. Init => ActiveInv
  BY DEF Init, StoreInit, ActiveInv, SingleActive, LiveWork, LiveStates, Msgs
<1>2. TypeOK /\ ActiveInv /\ [Next]_vars => ActiveInv'
  BY ActiveStep
<1> QED
  BY <1>1, <1>2, TypeCorrect, PTL DEF Spec

\* In every room, with any number of prompts, crashes, lost calls and failed
\* transactions: at most one prompt is dispatching, running or in review.
THEOREM SingleActiveAlways == Spec => []SingleActive
<1>1. ActiveInv => SingleActive
  BY DEF ActiveInv
<1> QED
  BY <1>1, ActiveAlways, PTL

----------------------------------------------------------------------------
\* ReadyIsDurable.

\* The links that may take "ready" away from the database.
NotReadyLabels == {"down", "review", "reviewStatus", "faultStatus", "setRecovering"}

\* Wherever the row may still lose "ready", the field has lost it already.
DurableInv ==
    /\ ReadyIsDurable
    /\ call.pc \in NotReadyLabels => status # "ready"
    /\ At("finishControl") /\ call.outcome = "needs-review" => status # "ready"

\* A step that does not make the room ready, does not touch its row, and does
\* not reach one of those links.
KeepsReady ==
    /\ status' = "ready" => status = "ready"
    /\ UNCHANGED dbStatus
    /\ call'.pc \notin NotReadyLabels \cup {"finishControl"}

\* Such a step keeps the invariant.
LEMMA KeepsReadyInv == ASSUME DurableInv, KeepsReady PROVE DurableInv'
  BY DEF DurableInv, KeepsReady, ReadyIsDurable, At

\* So does any step after which the room is not ready.
LEMMA NotReadyInv == ASSUME status' # "ready" PROVE DurableInv'
  BY DEF DurableInv, ReadyIsDurable

\* A room that becomes ready in the database and then in memory.
LEMMA BothReadyInv ==
    ASSUME TypeOK, SetRoomStatus("ready"), Goto("dispatch") PROVE DurableInv'
  BY PcAfter, LabelsType DEF SetRoomStatus, DurableInv, ReadyIsDurable, NotReadyLabels, At

\* The transactions that leave the room row alone.
LEMMA RowUnchanged ==
    ASSUME \/ UNCHANGED storeVars \/ StoreFails
           \/ \E m : \/ AcceptMessage(m) \/ AppendNote(m) \/ BeginDispatch(m)
                     \/ FailDispatch(m) \/ MarkNeedsReview(m) \/ RecordCompletedItem(m)
           \/ \E c, x : \/ AcceptControl(c, x) \/ FinishControl(c, x)
                        \/ BindRunningTurn(c, x) \/ FinishTurn(c, x)
                        \/ BeginPrivateTurn(c, x) \/ EndPrivateTurn(c, x)
                        \/ RetryPrompt(c, x) \/ RetryControl(c, x) \/ SkipReviewed(c, x)
           \/ \E c, x, y : ClosePrivateTurns(c, x, y) \/ ContinueReviewed(c, x, y)
           \/ \E th : BindThread(th)
    PROVE  UNCHANGED dbStatus
<1>1. UNCHANGED storeVars => UNCHANGED dbStatus
  BY DEF storeVars, roomRow
<1>2. \A c, x : EndPrivateTurn(c, x) => UNCHANGED dbStatus
  BY DEF EndPrivateTurn, roomRow
<1>3. \A m, f, t : MoveMessage(m, f, t) => UNCHANGED dbStatus
  BY DEF MoveMessage, roomRow
<1>4. \A r, m, a : Decided(r, m, a) => UNCHANGED dbStatus
  BY DEF Decided, roomRow
<1> QED
  BY <1>1, <1>2, <1>3, <1>4 DEF StoreFails, AcceptMessage, AppendNote, BeginDispatch,
     FailDispatch, MarkNeedsReview, RecordCompletedItem, AcceptControl, FinishControl,
     BindRunningTurn, FinishTurn, BeginPrivateTurn, RetryPrompt, RetryControl,
     SkipReviewed, ClosePrivateTurns, ContinueReviewed, BindThread, roomRow

\* Commands of clients.
LEMMA ClientDurable == ASSUME TypeOK, DurableInv, Client PROVE DurableInv'
<1> USE PcAfter, LabelsType, RowUnchanged
<1>1. CASE \E m \in Prompts : Submit(m)
  BY <1>1, KeepsReadyInv DEF Submit, KeepsReady, NotReadyLabels
<1>2. ASSUME NEW n \in Notes, Note(n) PROVE DurableInv'
  <2>1. UNCHANGED <<dbStatus, status, call>>
    BY <1>2 DEF Note, stateVars
  <2> QED
    BY <2>1 DEF DurableInv, ReadyIsDurable, At
<1>3. ASSUME NEW c \in Controls, NEW t, Control(c, t) PROVE DurableInv'
  <2>1. Handler("finishControl", "command", c) \in CallRecords
        /\ Handler("finishControl", "command", c).pc = "finishControl"
    BY HandlerIsCall
  <2>2. call' = [Handler("finishControl", "command", c) EXCEPT !.outcome = "failed"]
           => call'.pc = "finishControl" /\ call'.outcome = "failed"
    BY <2>1 DEF CallRecords
  <2>3. \/ call'.pc = "control"
        \/ call'.pc = "finishControl" /\ call'.outcome = "failed"
    BY <1>3, <2>2 DEF Control
  <2>4. UNCHANGED <<dbStatus, status>>
    BY <1>3 DEF Control
  <2> QED
    BY <2>3, <2>4 DEF DurableInv, ReadyIsDurable, NotReadyLabels, At
<1>4. CASE \E r \in Recovers : Resolve(r)
  BY <1>4, NotReadyInv DEF Resolve
<1>5. ASSUME NEW q \in Questions, Ask(q) PROVE DurableInv'
  <2>1. UNCHANGED <<dbStatus, status>>
    BY <1>5 DEF Ask, stateVars
  <2>2. call'.pc = "askTurn"
    BY <1>5 DEF Ask
  <2> QED
    BY <2>1, <2>2, KeepsReadyInv DEF KeepsReady, NotReadyLabels
<1> QED
  BY <1>1, <1>2, <1>3, <1>4, <1>5 DEF Client

\* The links of dispatch and control handlers.
LEMMA TurnDurable ==
    ASSUME TypeOK, DurableInv,
           \/ DispatchNext \/ StartTurn \/ BindTurn \/ FailTurn \/ ReviewTurn
           \/ ReviewStatus \/ SendControl \/ EndControl
    PROVE  DurableInv'
<1> USE PcAfter, LabelsType, RowUnchanged, KeepsReadyInv, NotReadyInv
<1>0. call \in CallRecords
  BY DEF TypeOK, HandlerTypeOK
<1>1. CASE DispatchNext
  BY <1>1 DEF DispatchNext, KeepsReady, NotReadyLabels
<1>2. CASE StartTurn
  <2>1. CASE UNCHANGED status /\ call' = [call EXCEPT !.pc = "bindTurn", !.turn = nturn']
    <3>1. call'.pc = "bindTurn"
      BY <1>0, <2>1 DEF CallRecords
    <3> QED
      BY <1>2, <2>1, <3>1 DEF StartTurn, KeepsReady, NotReadyLabels
  <2>2. CASE UNCHANGED status /\ Goto("failDispatch")
    BY <1>2, <2>2 DEF StartTurn, KeepsReady, NotReadyLabels
  <2>3. CASE UNCHANGED status /\ call' = [call EXCEPT !.pc = "failDispatch", !.expired = TRUE]
    <3>1. call'.pc = "failDispatch"
      BY <1>0, <2>3 DEF CallRecords
    <3> QED
      BY <1>2, <2>3, <3>1 DEF StartTurn, KeepsReady, NotReadyLabels
  <2> QED
    BY <1>2, <2>1, <2>2, <2>3 DEF StartTurn
<1>3. CASE BindTurn
  BY <1>3 DEF BindTurn, KeepsReady, NotReadyLabels
<1>4. CASE FailTurn
  <2>1. CASE call' = [call EXCEPT !.pc = "dispatch", !.notSent = TRUE]
    <3>1. call'.pc = "dispatch"
      BY <1>0, <2>1 DEF CallRecords
    <3> QED
      BY <1>4, <3>1 DEF FailTurn, KeepsReady, NotReadyLabels
  <2> QED
    BY <1>4, <2>1 DEF FailTurn, KeepsReady, NotReadyLabels
<1>5. CASE ReviewTurn \/ ReviewStatus
  BY <1>5 DEF ReviewTurn, ReviewStatus, DurableInv, NotReadyLabels, At, stateVars
<1>6. CASE SendControl
  <2>1. call'.pc = "finishControl"
    BY <1>6, ControlCallType, HandlerTypeSplit DEF SendControl, TypeOK
  <2>2. UNCHANGED dbStatus /\ status' \in {status, "recovering"}
    BY <1>6 DEF SendControl
  <2>3. call'.outcome = "needs-review" => status' # "ready"
    BY <1>6 DEF SendControl
  <2> QED
    BY <2>1, <2>2, <2>3 DEF DurableInv, ReadyIsDurable, NotReadyLabels, At
<1>7. CASE EndControl
  <2>1. CASE call.outcome = "needs-review"
    BY <1>7, <2>1 DEF EndControl, DurableInv, At
  <2>2. CASE call.outcome # "needs-review"
    BY <1>7, <2>2 DEF EndControl, KeepsReady, NotReadyLabels
  <2> QED
    BY <2>1, <2>2
<1> QED
  BY <1>1, <1>2, <1>3, <1>4, <1>5, <1>6, <1>7

\* The links of resolve and startQuestion.
LEMMA ResolveDurable ==
    ASSUME TypeOK, DurableInv,
           \/ ResolveLoad \/ RetryCall \/ RetryFinish \/ ResolveReload \/ ResolveReady
           \/ AskTurn \/ AskUndo
    PROVE  DurableInv'
<1> USE PcAfter, LabelsType, RowUnchanged, KeepsReadyInv, NotReadyInv
<1>1. CASE ResolveLoad \/ ResolveReload
  BY <1>1 DEF ResolveLoad, ResolveReload, KeepsReady, NotReadyLabels, stateVars
<1>2. CASE RetryCall
  <2>1. call \in CallRecords
    BY DEF TypeOK, HandlerTypeOK
  <2>2. call' = [call EXCEPT !.pc = "retryFinish", !.outcome = "failed"]
           => call'.pc = "retryFinish"
    BY <2>1 DEF CallRecords
  <2>3. call'.pc = "retryFinish"
    BY <1>2, <2>2, ControlCallType, HandlerTypeSplit DEF RetryCall, TypeOK
  <2> QED
    BY <1>2, <2>3 DEF RetryCall, KeepsReady, NotReadyLabels, stateVars
<1>3. CASE RetryFinish
  BY <1>3 DEF RetryFinish, KeepsReady, NotReadyLabels, stateVars
<1>4. CASE ResolveReady
  BY <1>4, BothReadyInv DEF ResolveReady, KeepsReady, NotReadyLabels
<1>5. CASE AskTurn \/ AskUndo
  BY <1>5 DEF AskTurn, AskUndo, KeepsReady, NotReadyLabels
<1> QED
  BY <1>1, <1>2, <1>3, <1>4, <1>5

\* The links of recover.
LEMMA RecoverDurable ==
    ASSUME TypeOK, DurableInv,
           \/ RecoverLoad \/ MarkRepair \/ SetRecovering \/ StartThread \/ BindNewThread
           \/ ReadThread \/ ResumeThread \/ ReconcilePrivate \/ ReconcileItems
           \/ SettleActive \/ ReconcileControls \/ Recovered
    PROVE  DurableInv'
<1> USE PcAfter, LabelsType, RowUnchanged, KeepsReadyInv, NotReadyInv
<1>0. call \in CallRecords
  BY DEF TypeOK, HandlerTypeOK
<1>1. CASE RecoverLoad \/ MarkRepair
  BY <1>1 DEF RecoverLoad, MarkRepair
<1>2. CASE SetRecovering
  BY <1>2 DEF SetRecovering, DurableInv, NotReadyLabels, At, stateVars
<1>3. CASE StartThread
  <2>0. call' = [call EXCEPT !.pc = "bindThread", !.turn = nthread']
           => call'.pc = "bindThread"
    BY <1>0 DEF CallRecords
  <2>1. call' = [call EXCEPT !.pc = "markRepair", !.expired = TRUE]
           => call'.pc = "markRepair"
    BY <1>0 DEF CallRecords
  <2>2. call'.pc \notin NotReadyLabels \cup {"finishControl"} /\ UNCHANGED status
    BY <1>3, <2>0, <2>1 DEF StartThread, NotReadyLabels, stateVars
  <2>3. UNCHANGED dbStatus \/ dbStatus' = "ready"
    BY <1>3 DEF StartThread, SetRoomStatus
  <2> QED
    BY <2>2, <2>3 DEF DurableInv, ReadyIsDurable, At
<1>4. CASE BindNewThread
  BY <1>4 DEF BindNewThread, KeepsReady, NotReadyLabels
<1>5. CASE ReadThread
  <2>1. call' = [call EXCEPT !.pc = "markRepair", !.expired = TRUE]
           => call'.pc = "markRepair"
    BY <1>0 DEF CallRecords
  <2> QED
    BY <1>5, <2>1 DEF ReadThread, KeepsReady, NotReadyLabels, stateVars
<1>6. CASE ResumeThread
  BY <1>6 DEF ResumeThread, KeepsReady, NotReadyLabels, stateVars
<1>7. CASE ReconcilePrivate
  BY <1>7 DEF ReconcilePrivate, KeepsReady, NotReadyLabels, stateVars
<1>8. CASE ReconcileItems
  BY <1>8 DEF ReconcileItems, KeepsReady, NotReadyLabels, stateVars, At
<1>9. CASE SettleActive
  BY <1>9 DEF SettleActive, KeepsReady, NotReadyLabels
<1>10. CASE ReconcileControls
  BY <1>10 DEF ReconcileControls, KeepsReady, NotReadyLabels, At
<1>11. CASE Recovered
  BY <1>11, BothReadyInv DEF Recovered, KeepsReady, NotReadyLabels
<1> QED
  BY <1>1, <1>2, <1>3, <1>4, <1>5, <1>6, <1>7, <1>8, <1>9, <1>10, <1>11

\* The handlers of agent events.
LEMMA EventDurable ==
    ASSUME TypeOK, DurableInv, HandleEvent \/ FaultReady \/ FaultStatus \/ LostTurn
    PROVE  DurableInv'
<1> USE PcAfter, LabelsType, RowUnchanged, KeepsReadyInv, NotReadyInv
<1>1. CASE OnIgnored \/ OnItem
  <2>1. UNCHANGED <<dbStatus, status>> /\ (UNCHANGED call \/ call' = Exiting)
    BY <1>1 DEF OnIgnored, OnItem, stateVars
  <2> QED
    BY <2>1 DEF DurableInv, ReadyIsDurable, NotReadyLabels, At
<1>2. CASE OnTurnEnd
  BY <1>2 DEF OnTurnEnd, AfterTurn, KeepsReady, NotReadyLabels
<1>3. CASE OnFault
  BY <1>3 DEF OnFault, KeepsReady, NotReadyLabels
<1>4. CASE OnQuestionEnd
  BY <1>4 DEF OnQuestionEnd, KeepsReady, NotReadyLabels
<1>5. CASE OnUnavailable
  BY <1>5 DEF OnUnavailable
<1>6. CASE OnReady
  BY <1>6 DEF OnReady, KeepsReady, NotReadyLabels, stateVars
<1>7. CASE FaultReady
  BY <1>7, BothReadyInv DEF FaultReady, KeepsReady, NotReadyLabels
<1>8. CASE FaultStatus
  BY <1>8 DEF FaultStatus, DurableInv, NotReadyLabels, At, stateVars
<1>9. CASE LostTurn
  BY <1>9 DEF LostTurn, KeepsReady, NotReadyLabels
<1> QED
  BY <1>1, <1>2, <1>3, <1>4, <1>5, <1>6, <1>7, <1>8, <1>9 DEF HandleEvent

\* The daemon's life, the owner's repairs and the App Server.
LEMMA LifeDurable ==
    ASSUME TypeOK, DurableInv,
           \/ Owner \/ AppServer \/ StartDaemon \/ StartupRecover \/ Exit \/ Crash
           \/ UNCHANGED vars
    PROVE  DurableInv'
<1> USE PcAfter, LabelsType, RowUnchanged, KeepsReadyInv, NotReadyInv
<1>1. CASE Owner
  BY <1>1 DEF Owner, Offline, RepairMark, RepairCreate, RepairBind, RepairBegins, RepairUse, ResetAtStartup,
     DurableInv, NotReadyLabels, At, stateVars
<1>2. CASE StartDaemon \/ StartupRecover
  BY <1>2 DEF StartDaemon, StartupRecover, KeepsReady, NotReadyLabels, stateVars
<1>3. CASE Exit \/ Crash
  BY <1>3 DEF Exit, Crash, DaemonGone, ZeroMemory
<1>4. CASE AppServer \/ UNCHANGED vars
  <2>1. UNCHANGED <<status, call>> /\ UNCHANGED dbStatus
    BY <1>4 DEF AppServer, vars, stateVars
  <2> QED
    BY <2>1 DEF DurableInv, ReadyIsDurable, At
<1> QED
  BY <1>1, <1>2, <1>3, <1>4

\* The invariant holds throughout.
LEMMA DurableAlways == Spec => []DurableInv
<1>1. Init => DurableInv
  BY NotReadyInv DEF Init, ZeroMemory, DurableInv, ReadyIsDurable
<1>2. TypeOK /\ DurableInv /\ [Next]_vars => DurableInv'
  BY ClientDurable, TurnDurable, ResolveDurable, RecoverDurable, EventDurable, LifeDurable
     DEF Next, Continue
<1> QED
  BY <1>1, <1>2, TypeCorrect, PTL DEF Spec

\* In every room: what the coordinator calls ready is ready in the database.
THEOREM ReadyIsDurableAlways == Spec => []ReadyIsDurable
<1>1. DurableInv => ReadyIsDurable
  BY DEF DurableInv
<1> QED
  BY <1>1, DurableAlways, PTL

----------------------------------------------------------------------------
\* How a handler moves from one link to the next.

\* The program counter stays, is at rest, or has come along one of these arrows.
Flow ==
    \/ /\ UNCHANGED call
       /\ \/ Client \/ HandleEvent \/ Owner \/ AppServer
          \/ ReconcileItems \/ ReconcileControls \/ UNCHANGED vars
    \/ call'.pc \in {"idle", "exiting"}
    \/ (Exit \/ Crash) /\ call'.pc = "down"
    \/ Client /\ call'.pc \in {"dispatch", "control", "finishControl", "resolveLoad", "askTurn"}
    \/ HandleEvent /\ call'.pc \in {"dispatch", "faultReady", "faultStatus", "lostTurn", "recover"}
    \/ StartupRecover /\ call'.pc = "recover"
    \/ DispatchNext /\ call'.pc = "startTurn"
    \/ StartTurn /\ call'.pc \in {"bindTurn", "failDispatch", "review"}
    \/ (FailTurn \/ ResolveReady \/ Recovered \/ FaultReady) /\ call'.pc = "dispatch"
    \/ (ReviewTurn \/ EndControl) /\ call'.pc = "reviewStatus"
    \/ SendControl /\ call'.pc = "finishControl"
    \/ ResolveLoad /\ call'.pc \in {"resolveReady", "retry"}
    \/ RetryCall /\ call'.pc = "retryFinish"
    \/ RetryFinish /\ call'.pc = "resolveReload"
    \/ ResolveReload /\ call'.pc = "resolveReady"
    \/ RecoverLoad /\ call'.pc \in {"markRepair", "setRecovering"}
    \/ SetRecovering /\ call'.pc \in {"startThread", "readThread"}
    \/ StartThread /\ call'.pc \in {"bindThread", "markRepair"}
    \/ BindNewThread /\ call'.pc \in {"controls", "markRepair"}
    \/ ReadThread /\ call'.pc \in {"resumeThread", "markRepair"}
    \/ ResumeThread /\ call'.pc \in {"private", "markRepair"}
    \/ ReconcilePrivate /\ call'.pc = "items"
    \/ ReconcileItems /\ call'.pc = "settle"
    \/ SettleActive /\ call'.pc \in {"controls", "markRepair"}
    \/ ReconcileControls /\ call'.pc = "recovered"
    \/ AskTurn /\ call'.pc = "askUndo"

\* Commands and events start a handler.
LEMMA InputFlow == ASSUME TypeOK, Client \/ HandleEvent PROVE Flow
<1> USE PcAfter, LabelsType
<1>1. ASSUME NEW c \in Controls, NEW t, Control(c, t)
      PROVE  call'.pc \in {"control", "finishControl"}
  <2>1. Handler("finishControl", "command", c) \in CallRecords
        /\ Handler("finishControl", "command", c).pc = "finishControl"
    BY HandlerIsCall
  <2>2. call' = [Handler("finishControl", "command", c) EXCEPT !.outcome = "failed"]
           => call'.pc = "finishControl"
    BY <2>1 DEF CallRecords
  <2> QED
    BY <1>1, <2>2 DEF Control
<1>2. ASSUME NEW r \in Recovers, Resolve(r) PROVE call'.pc \in {"resolveLoad", "idle"}
  <2>1. \E c \in Controls \cup {NoMsg} : AfterDecision(c)
    BY <1>2 DEF Resolve
  <2> QED
    BY <2>1, SMTT(40) DEF AfterDecision
<1>3. CASE Client
  BY <1>1, <1>2, <1>3, SMTT(40) DEF Flow, Client, Submit, Note, Ask
<1>4. CASE HandleEvent
  <2>1. CASE OnIgnored \/ OnItem \/ OnUnavailable
    BY <1>4, <2>1 DEF Flow, OnIgnored, OnItem, OnUnavailable
  <2>2. CASE OnTurnEnd
    BY <1>4, <2>2 DEF Flow, OnTurnEnd, AfterTurn
  <2>3. CASE OnFault
    BY <1>4, <2>3 DEF Flow, OnFault
  <2>4. CASE OnQuestionEnd \/ OnReady
    BY <1>4, <2>4 DEF Flow, OnQuestionEnd, OnReady
  <2> QED
    BY <1>4, <2>1, <2>2, <2>3, <2>4 DEF HandleEvent
<1> QED
  BY <1>3, <1>4

\* The links of dispatch, control and resolve handlers.
LEMMA TurnFlow ==
    ASSUME TypeOK,
           \/ DispatchNext \/ StartTurn \/ BindTurn \/ FailTurn \/ ReviewTurn \/ ReviewStatus
           \/ SendControl \/ EndControl
           \/ ResolveLoad \/ RetryCall \/ RetryFinish \/ ResolveReload \/ ResolveReady
    PROVE  Flow
<1> USE PcAfter, LabelsType
<1>0. call \in CallRecords
  BY DEF TypeOK, HandlerTypeOK
<1>1. CASE DispatchNext
  BY <1>1 DEF Flow, DispatchNext
<1>2. CASE StartTurn
  <2>1. call'.pc \in {"bindTurn", "failDispatch", "review"}
    <3>1. CASE call' = [call EXCEPT !.pc = "bindTurn", !.turn = nturn']
      BY <1>0, <3>1 DEF CallRecords
    <3>2. CASE call' = [call EXCEPT !.pc = "failDispatch", !.expired = TRUE]
      BY <1>0, <3>2 DEF CallRecords
    <3>3. CASE call' = [call EXCEPT !.pc = "review", !.expired = TRUE]
      BY <1>0, <3>3 DEF CallRecords
    <3> QED
      BY <1>2, <3>1, <3>2, <3>3 DEF StartTurn
  <2> QED
    BY <1>2, <2>1 DEF Flow
<1>3. CASE BindTurn \/ ReviewTurn \/ ReviewStatus
  BY <1>3 DEF Flow, BindTurn, ReviewTurn, ReviewStatus
<1>4. CASE FailTurn
  <2>1. CASE call' = [call EXCEPT !.pc = "dispatch", !.notSent = TRUE]
    <3>1. call'.pc = "dispatch"
      BY <1>0, <2>1 DEF CallRecords
    <3> QED
      BY <1>4, <3>1 DEF Flow
  <2> QED
    BY <1>4, <2>1 DEF Flow, FailTurn
<1>5. CASE SendControl
  <2>1. call'.pc = "finishControl"
    BY <1>5, ControlCallType, HandlerTypeSplit DEF SendControl, TypeOK
  <2> QED
    BY <1>5, <2>1 DEF Flow
<1>6. CASE EndControl
  BY <1>6 DEF Flow, EndControl
<1>7. CASE ResolveLoad \/ ResolveReload \/ RetryFinish \/ ResolveReady
  BY <1>7 DEF Flow, ResolveLoad, ResolveReload, RetryFinish, ResolveReady
<1>8. CASE RetryCall
  <2>2. call' = [call EXCEPT !.pc = "retryFinish", !.outcome = "failed"]
           => call'.pc = "retryFinish"
    BY <1>0 DEF CallRecords
  <2>3. call'.pc = "retryFinish"
    BY <1>8, <2>2, ControlCallType, HandlerTypeSplit DEF RetryCall, TypeOK
  <2> QED
    BY <1>8, <2>3 DEF Flow
<1> QED
  BY <1>1, <1>2, <1>3, <1>4, <1>5, <1>6, <1>7, <1>8

\* The links of recover and of the other handlers.
LEMMA RecoverFlow ==
    ASSUME TypeOK,
           \/ RecoverLoad \/ MarkRepair \/ SetRecovering \/ StartThread \/ BindNewThread
           \/ ReadThread \/ ResumeThread \/ ReconcilePrivate \/ ReconcileItems
           \/ SettleActive \/ ReconcileControls \/ Recovered
           \/ AskTurn \/ AskUndo \/ FaultReady \/ FaultStatus \/ LostTurn
    PROVE  Flow
<1> USE PcAfter, LabelsType
<1>0. call \in CallRecords
  BY DEF TypeOK, HandlerTypeOK
<1>1. call' = [call EXCEPT !.pc = "markRepair", !.expired = TRUE] => call'.pc = "markRepair"
  BY <1>0 DEF CallRecords
<1>2. call' = [call EXCEPT !.pc = "bindThread", !.turn = nthread'] => call'.pc = "bindThread"
  BY <1>0 DEF CallRecords
<1>3. CASE RecoverLoad \/ MarkRepair \/ SetRecovering \/ BindNewThread \/ ResumeThread
  BY <1>3 DEF Flow, RecoverLoad, MarkRepair, SetRecovering, BindNewThread, ResumeThread
<1>4. CASE StartThread \/ ReadThread
  BY <1>1, <1>2, <1>4 DEF Flow, StartThread, ReadThread
<1>5. CASE ReconcilePrivate \/ ReconcileItems \/ SettleActive
  BY <1>5 DEF Flow, ReconcilePrivate, ReconcileItems, SettleActive
<1>6. CASE ReconcileControls \/ Recovered
  BY <1>6 DEF Flow, ReconcileControls, Recovered
<1>7. CASE AskTurn \/ AskUndo
  BY <1>7 DEF Flow, AskTurn, AskUndo
<1>8. CASE FaultReady \/ FaultStatus \/ LostTurn
  BY <1>8 DEF Flow, FaultReady, FaultStatus, LostTurn
<1> QED
  BY <1>3, <1>4, <1>5, <1>6, <1>7, <1>8

\* No step moves the program counter in any other way.
LEMMA NextFlow == ASSUME TypeOK, [Next]_vars PROVE Flow
<1> USE PcAfter, LabelsType
<1>1. CASE Owner \/ AppServer \/ UNCHANGED vars
  BY <1>1 DEF Flow, Owner, Offline, RepairMark, RepairCreate, RepairBind, RepairBegins, RepairUse, ResetAtStartup,
     AppServer, vars
<1>2. CASE StartDaemon \/ StartupRecover
  BY <1>2 DEF Flow, StartDaemon, StartupRecover
<1>3. CASE Exit \/ Crash
  <2>1. call'.pc = "down"
    BY <1>3 DEF Exit, Crash, DaemonGone, Idle
  <2> QED
    BY <1>3, <2>1 DEF Flow
<1> QED
  BY <1>1, <1>2, <1>3, InputFlow, TurnFlow, RecoverFlow DEF Next, Continue

\* Commands and events find the coordinator idle, repairs find it down.
LEMMA InputAtIdle ==
    /\ Client \/ HandleEvent \/ StartupRecover => call.pc = "idle"
    /\ Owner \/ StartDaemon => call.pc = "down"
<1>1. \A e \in Received : call.pc = "idle"
  BY DEF Received, At
<1> QED
  BY <1>1 DEF Client, Submit, Note, Control, Resolve, Ask, MayResolve, Serving, At, HandleEvent,
     OnIgnored, OnItem, OnTurnEnd, OnFault, OnQuestionEnd, OnUnavailable, OnReady, StartupRecover,
     Owner, Offline, RepairMark, RepairCreate, RepairBind, RepairBegins, RepairUse, ResetAtStartup, StartDaemon

----------------------------------------------------------------------------
\* DispatchFrozen.

\* DispatchFrozen is not inductive: the guard of dispatchNext is about fields.
\* A loaded memory names the thread and knows every control in doubt, and a
\* daemon that is down has loaded nothing.
ImageInv ==
    /\ Loaded => threadID = dbThread
    /\ Loaded => \A c \in Controls : PendingControl(c) => pending[c] # "none"
    /\ \A c \in Controls : mstate[c] # "running"
    /\ At("startTurn") => status = "ready" /\ NoPending
    /\ At("down") => ~Loaded

\* The transactions that leave the thread of the room alone.
LEMMA ThreadRowUnchanged ==
    ASSUME \/ UNCHANGED storeVars \/ StoreFails
           \/ \E m : \/ AcceptMessage(m) \/ AppendNote(m) \/ BeginDispatch(m)
                     \/ FailDispatch(m) \/ MarkNeedsReview(m) \/ RecordCompletedItem(m)
                     \/ SetRoomStatus(m)
           \/ \E c, x : \/ AcceptControl(c, x) \/ FinishControl(c, x)
                        \/ BindRunningTurn(c, x) \/ FinishTurn(c, x)
                        \/ BeginPrivateTurn(c, x) \/ EndPrivateTurn(c, x)
                        \/ RetryPrompt(c, x) \/ RetryControl(c, x) \/ SkipReviewed(c, x)
           \/ \E c, x, y : ClosePrivateTurns(c, x, y) \/ ContinueReviewed(c, x, y)
           \/ MarkThreadNeedsRepair
    PROVE  UNCHANGED dbThread
<1>1. UNCHANGED storeVars => UNCHANGED dbThread
  BY DEF storeVars, roomRow
<1>2. \A c, x : EndPrivateTurn(c, x) => UNCHANGED dbThread
  BY DEF EndPrivateTurn, roomRow
<1>3. \A m, f, t : MoveMessage(m, f, t) => UNCHANGED dbThread
  BY DEF MoveMessage, roomRow
<1>4. \A r, m, a : Decided(r, m, a) => UNCHANGED dbThread
  BY DEF Decided, roomRow
<1> QED
  BY <1>1, <1>2, <1>3, <1>4 DEF StoreFails, AcceptMessage, AppendNote, BeginDispatch,
     FailDispatch, MarkNeedsReview, RecordCompletedItem, AcceptControl, FinishControl,
     BindRunningTurn, FinishTurn, BeginPrivateTurn, RetryPrompt, RetryControl,
     SkipReviewed, ClosePrivateTurns, ContinueReviewed, SetRoomStatus,
     MarkThreadNeedsRepair, roomRow

\* loadRecovery, without a write.
ReadsImage == LoadImage /\ UNCHANGED storeVars

\* Only loadRecovery makes a memory loaded.
LEMMA LoadedStep == ASSUME TypeOK, [Next]_vars PROVE ReadsImage \/ (Loaded' => Loaded)
<1> USE PcAfter, LabelsType
<1>1. CASE KeepsActive
  BY <1>1 DEF KeepsActive, Loaded
<1>2. CASE FailTurn \/ SettleActive
  BY <1>2 DEF FailTurn, SettleActive, At, Loaded, LoadedLabels
<1>3. CASE OnTurnEnd
  BY <1>3 DEF OnTurnEnd, ForActive, Loaded
<1>4. CASE DispatchNext
  BY <1>4 DEF DispatchNext, CanDispatch, Loaded, LoadedLabels, activeVars
<1>5. CASE ResolveLoad \/ ResolveReload \/ RecoverLoad
  <2>1. CASE LoadImage
    BY <1>5, <2>1 DEF ResolveLoad, ResolveReload, RecoverLoad, ReadsImage, StoreFails
  <2>2. CASE /\ UNCHANGED active /\ status' \in {status, "recovering", "thread-needs-repair"}
             /\ \E e : Return(e)
    BY <2>2 DEF Loaded, LoadedLabels
  <2> QED
    BY <1>5, <2>1, <2>2 DEF ResolveLoad, ResolveReload, RecoverLoad, stateVars, activeVars
<1>6. CASE Exit \/ Crash
  <2>1. status' = "boot" /\ active' = NoMsg /\ call'.pc = "down"
    BY <1>6 DEF Exit, Crash, DaemonGone, ZeroMemory, NoActive, Idle
  <2> QED
    BY <2>1 DEF Loaded, LoadedLabels
<1> QED
  BY <1>1, <1>2, <1>3, <1>4, <1>5, <1>6, InputKeeps, TurnKeeps, RecoverKeeps
     DEF Next, Continue, HandleEvent

\* No control comes in doubt.
ControlsKept ==
    \A c \in Controls :
        /\ mstate'[c] = "running" => mstate[c] = "running"
        /\ PendingControl(c)' => PendingControl(c) \/ mstate[c] = "running"

\* The transactions that put no control in doubt: all but AcceptControl.
LEMMA ControlRowsKept ==
    ASSUME StoreTypeOK,
           \/ UNCHANGED storeVars \/ StoreFails
           \/ \E m : /\ m \notin Controls
                     /\ (AcceptMessage(m) \/ BeginDispatch(m) \/ \E t : BindRunningTurn(m, t))
           \/ \E m : \/ AppendNote(m) \/ FailDispatch(m) \/ MarkNeedsReview(m)
                     \/ RecordCompletedItem(m) \/ SetRoomStatus(m) \/ BindThread(m)
                     \/ RepairThread(m)
           \/ \E c : \E o \in {"failed", "completed", "needs-review"} : FinishControl(c, o)
           \/ \E t : \E o \in Terminal : FinishTurn(t, o)
           \/ \E c, x : \/ BeginPrivateTurn(c, x) \/ EndPrivateTurn(c, x)
                        \/ RetryControl(c, x) \/ SkipReviewed(c, x) \/ RetryPrompt(c, x)
           \/ \E c, x, y : ClosePrivateTurns(c, x, y)
           \/ \E c, x : \E p \in Replacements : ContinueReviewed(c, x, p)
           \/ MarkThreadNeedsRepair \/ ResetUnusedThread
    PROVE  ControlsKept
<1> USE DEF ControlsKept, PendingControl
<1>0. /\ mstate \in [Msgs -> RequestStates]
      /\ Controls \subseteq Msgs /\ Work \subseteq Msgs /\ Work \cap Controls = {}
  BY StoreAssumption DEF StoreTypeOK, Msgs
<1>1. UNCHANGED mstate => ControlsKept
  OBVIOUS
<1>2. UNCHANGED storeVars \/ StoreFails => UNCHANGED mstate
  BY DEF storeVars, messageRows, StoreFails
<1>3. ASSUME NEW m, NEW s, mstate' = [mstate EXCEPT ![m] = s],
             \/ m \notin Controls
             \/ s \notin {"running", "dispatching", "needs-review"}
             \/ s # "running" /\ mstate[m] \in {"running", "dispatching", "needs-review"}
      PROVE  ControlsKept
  BY <1>0, <1>3
<1>4. CASE \E m : /\ m \notin Controls
                 /\ (AcceptMessage(m) \/ BeginDispatch(m) \/ \E t : BindRunningTurn(m, t))
  <2>1. PICK m : /\ m \notin Controls
                 /\ \E s : mstate' = [mstate EXCEPT ![m] = s]
    BY <1>4 DEF AcceptMessage, BeginDispatch, BindRunningTurn, MoveMessage
  <2> QED
    BY <1>3, <2>1
<1>5. CASE \E m : AppendNote(m) \/ FailDispatch(m) \/ MarkNeedsReview(m)
  BY <1>3, <1>5 DEF AppendNote, FailDispatch, MarkNeedsReview, MoveMessage
<1>6. CASE \E c : \E o \in {"failed", "completed", "needs-review"} : FinishControl(c, o)
  BY <1>3, <1>6 DEF FinishControl, MoveMessage
<1>7. CASE \E t : \E o \in Terminal : FinishTurn(t, o)
  <2>1. PICK m \in Work : \E s : mstate' = [mstate EXCEPT ![m] = s]
    BY <1>7 DEF FinishTurn, MoveMessage
  <2> QED
    BY <1>0, <1>3, <2>1
<1>8. CASE \E r, m : RetryControl(r, m) \/ SkipReviewed(r, m) \/ RetryPrompt(r, m)
  <2>1. PICK m : /\ mstate[m] = "needs-review"
                 /\ \E s \in {"dispatching", "failed", "queued"} :
                       mstate' = [mstate EXCEPT ![m] = s]
    BY <1>8 DEF RetryControl, SkipReviewed, RetryPrompt, Decided
  <2> QED
    BY <1>3, <2>1
<1>9. ASSUME NEW r, NEW m, NEW p \in Replacements, ContinueReviewed(r, m, p) PROVE ControlsKept
  <2>1. mstate' = [mstate EXCEPT ![m] = "failed", ![p] = "queued"] /\ p \in Work
    BY <1>9 DEF ContinueReviewed, Work
  <2> QED
    BY <1>0, <2>1
<1>10. CASE \/ \E m : \/ RecordCompletedItem(m) \/ SetRoomStatus(m) \/ BindThread(m)
                      \/ RepairThread(m)
            \/ MarkThreadNeedsRepair \/ ResetUnusedThread
  BY <1>1, <1>10 DEF RecordCompletedItem, SetRoomStatus, BindThread, RepairThread,
     MarkThreadNeedsRepair, ResetUnusedThread, messageRows
<1>11. CASE \E c, x : BeginPrivateTurn(c, x) \/ EndPrivateTurn(c, x)
  BY <1>1, <1>11 DEF BeginPrivateTurn, EndPrivateTurn, messageRows
<1>12. CASE \E c, x, y : ClosePrivateTurns(c, x, y)
  BY <1>1, <1>2, <1>11, <1>12 DEF ClosePrivateTurns
<1> QED
  BY <1>1, <1>2, <1>4, <1>5, <1>6, <1>7, <1>8, <1>9, <1>10, <1>11, <1>12

\* A step that leaves alone what the image says of threads and controls.
ImageKept == UNCHANGED <<threadID, dbThread, pending>> /\ ControlsKept

\* The commands but Control, and agent events.
LEMMA InputImage ==
    ASSUME TypeOK,
           \/ \E m \in Prompts : Submit(m)
           \/ \E n \in Notes : Note(n)
           \/ \E r \in Recovers : Resolve(r)
           \/ \E q \in Questions : Ask(q)
           \/ HandleEvent \/ AppServer \/ StartDaemon \/ StartupRecover \/ UNCHANGED vars
    PROVE  ImageKept
<1> USE ThreadRowUnchanged, ControlRowsKept DEF ImageKept
<1>0. StoreTypeOK /\ Work \cap Controls = {} /\ Prompts \subseteq Work
  BY StoreAssumption DEF TypeOK, Work
<1>1. CASE (\E m \in Prompts : Submit(m)) \/ \E n \in Notes : Note(n)
  BY <1>0, <1>1 DEF Submit, Note, stateVars
<1>2. ASSUME NEW r \in Recovers, Resolve(r) PROVE ImageKept
  <2>1. UNCHANGED <<threadID, pending>>
    BY <1>2 DEF Resolve
  <2>2. \/ \E m : RetryPrompt(r, m) \/ RetryControl(r, m) \/ SkipReviewed(r, m)
        \/ \E m : \E p \in Replacements : ContinueReviewed(r, m, p)
    BY <1>2 DEF Resolve
  <2> QED
    BY <1>0, <2>1, <2>2
<1>3. CASE \E q \in Questions : Ask(q)
  BY <1>0, <1>3 DEF Ask, stateVars
<1>4. CASE OnIgnored \/ OnItem \/ OnFault
  BY <1>0, <1>4 DEF OnIgnored, OnItem, OnFault, stateVars
<1>5. CASE OnTurnEnd
  <2>1. UNCHANGED <<threadID, pending>>
    BY <1>5 DEF OnTurnEnd
  <2>2. StoreFails \/ \E t : \E o \in Terminal : FinishTurn(t, o)
    BY <1>5 DEF OnTurnEnd, Terminal
  <2> QED
    BY <1>0, <2>1, <2>2
<1>6. CASE OnQuestionEnd \/ OnUnavailable \/ OnReady
  BY <1>0, <1>6 DEF OnQuestionEnd, OnUnavailable, OnReady, stateVars
<1>7. CASE AppServer \/ StartDaemon \/ StartupRecover \/ UNCHANGED vars
  BY <1>0, <1>7 DEF AppServer, StartDaemon, StartupRecover, vars, stateVars
<1> QED
  BY <1>1, <1>2, <1>3, <1>4, <1>5, <1>6, <1>7 DEF HandleEvent

\* The links of dispatch, control and question handlers.
LEMMA TurnImage ==
    ASSUME TypeOK,
           \/ DispatchNext \/ StartTurn \/ BindTurn \/ FailTurn \/ ReviewTurn \/ ReviewStatus
           \/ SendControl \/ RetryCall \/ RetryFinish \/ ResolveReady
           \/ AskTurn \/ AskUndo \/ FaultReady \/ FaultStatus \/ LostTurn
    PROVE  ImageKept
<1> USE ThreadRowUnchanged, ControlRowsKept DEF ImageKept
<1>0. StoreTypeOK /\ Work \cap Controls = {} /\ active \notin Controls
  BY StoreAssumption DEF TypeOK, MemoryTypeOK, Msgs
<1>1. CASE DispatchNext
  <2>1. UNCHANGED <<threadID, pending>>
    BY <1>1 DEF DispatchNext
  <2>2. UNCHANGED storeVars \/ StoreFails \/ (BeginDispatch(Head(queue)) /\ CanDispatch)
    BY <1>1 DEF DispatchNext
  <2>3. CanDispatch => Head(queue) \in Work
    BY HeadTailProperties DEF CanDispatch, TypeOK, MemoryTypeOK
  <2> QED
    BY <1>0, <2>1, <2>2, <2>3
<1>2. CASE StartTurn \/ BindTurn
  BY <1>0, <1>2 DEF StartTurn, BindTurn
<1>3. CASE FailTurn \/ ReviewTurn \/ ReviewStatus
  BY <1>0, <1>3 DEF FailTurn, ReviewTurn, ReviewStatus, stateVars
<1>4. CASE SendControl \/ RetryCall
  BY <1>0, <1>4 DEF SendControl, RetryCall, stateVars
<1>5. CASE RetryFinish
  <2>1. call.outcome \in {"failed", "completed", "needs-review"}
    BY <1>5, CallFields DEF RetryFinish, TypeOK, HandlerTypeOK, Outcomes
  <2> QED
    BY <1>0, <1>5, <2>1 DEF RetryFinish, stateVars
<1>6. CASE ResolveReady \/ AskTurn \/ AskUndo
  BY <1>0, <1>6 DEF ResolveReady, AskTurn, AskUndo
<1>7. CASE FaultReady \/ FaultStatus \/ LostTurn
  BY <1>0, <1>7 DEF FaultReady, FaultStatus, LostTurn, stateVars
<1> QED
  BY <1>1, <1>2, <1>3, <1>4, <1>5, <1>6, <1>7

\* The links of recover that neither read the image nor bind a thread.
LEMMA RecoverImage ==
    ASSUME TypeOK,
           \/ MarkRepair \/ SetRecovering \/ StartThread \/ ReadThread \/ ResumeThread
           \/ ReconcilePrivate \/ ReconcileItems \/ SettleActive \/ Recovered
    PROVE  ImageKept
<1> USE ThreadRowUnchanged, ControlRowsKept DEF ImageKept
<1>0. StoreTypeOK
  BY DEF TypeOK
<1>1. CASE MarkRepair \/ SetRecovering
  BY <1>0, <1>1 DEF MarkRepair, SetRecovering, stateVars
<1>2. CASE StartThread \/ ReadThread \/ ResumeThread
  BY <1>0, <1>2 DEF StartThread, ReadThread, ResumeThread, stateVars
<1>3. CASE ReconcilePrivate \/ ReconcileItems
  BY <1>0, <1>3 DEF ReconcilePrivate, ReconcileItems, stateVars
<1>4. CASE SettleActive
  <2>1. UNCHANGED <<threadID, pending>>
    BY <1>4 DEF SettleActive
  <2>2. UNCHANGED storeVars \/ StoreFails \/ MarkNeedsReview(active)
        \/ \E t : \E o \in Terminal : FinishTurn(t, o)
    BY <1>4 DEF SettleActive, ProvenEnd
  <2> QED
    BY <1>0, <2>1, <2>2
<1>5. CASE Recovered
  BY <1>0, <1>5 DEF Recovered
<1> QED
  BY <1>1, <1>2, <1>3, <1>4, <1>5

\* turn/start is sent next only where dispatchNext has found the room free.
LEMMA StartTurnLink ==
    ASSUME TypeOK, ImageInv, [Next]_vars
    PROVE  (At("startTurn") => status = "ready" /\ NoPending)'
<1> SUFFICES ASSUME call'.pc = "startTurn" PROVE status' = "ready" /\ NoPending'
  BY DEF At
<1>1. \/ DispatchNext
      \/ UNCHANGED call /\ (AppServer \/ UNCHANGED vars)
  BY NextFlow, InputAtIdle DEF Flow, ReconcileItems, ReconcileControls, At
<1>2. CASE DispatchNext
  BY <1>2, PcAfter DEF DispatchNext, CanDispatch, NoPending
<1>3. CASE UNCHANGED call /\ (AppServer \/ UNCHANGED vars)
  BY <1>3 DEF ImageInv, At, AppServer, vars, stateVars, NoPending
<1> QED
  BY <1>1, <1>2, <1>3

\* A daemon that is down has loaded nothing.
LEMMA DownLink == ASSUME TypeOK, ImageInv, [Next]_vars PROVE (At("down") => ~Loaded)'
<1> SUFFICES ASSUME call'.pc = "down" PROVE ~Loaded'
  BY DEF At
<1>1. \/ Exit \/ Crash
      \/ UNCHANGED call /\ (Owner \/ AppServer \/ UNCHANGED vars)
  BY NextFlow, InputAtIdle DEF Flow, ReconcileItems, ReconcileControls, At
<1>2. CASE Exit \/ Crash
  <2>1. status' = "boot" /\ active' = NoMsg
    BY <1>2 DEF Exit, Crash, DaemonGone, ZeroMemory, NoActive
  <2> QED
    BY <2>1 DEF Loaded, LoadedLabels
<1>3. CASE UNCHANGED call /\ (Owner \/ AppServer \/ UNCHANGED vars)
  <2>1. UNCHANGED <<status, active>>
    BY <1>3 DEF Owner, Offline, RepairMark, RepairCreate, RepairBind, RepairBegins, RepairUse, ResetAtStartup, AppServer,
       vars, stateVars
  <2> QED
    BY <1>3, <2>1 DEF ImageInv, At, Loaded
<1> QED
  BY <1>1, <1>2, <1>3

\* What the image says of threads and controls.
ImageRows ==
    /\ Loaded => threadID = dbThread
    /\ Loaded => \A c \in Controls : PendingControl(c) => pending[c] # "none"
    /\ \A c \in Controls : mstate[c] # "running"

LEMMA ImageKeptRows ==
    ASSUME ImageRows, ImageKept, Loaded' => Loaded PROVE ImageRows'
  BY DEF ImageRows, ImageKept, ControlsKept, PendingControl

LEMMA ReadsImageRows == ASSUME ImageRows, ReadsImage PROVE ImageRows'
<1>1. UNCHANGED <<mstate, dbThread>>
  BY DEF ReadsImage, storeVars, messageRows, roomRow
<1>2. threadID' = dbThread
      /\ pending' = [c \in Controls |-> IF PendingControl(c) THEN mstate[c] ELSE "none"]
  BY DEF ReadsImage, LoadImage
<1> QED
  BY <1>1, <1>2 DEF ImageRows, PendingControl

\* The handlers that write the fields and the rows of controls together.
LEMMA ControlImage ==
    ASSUME TypeOK, ImageRows, Loaded' => Loaded,
           \/ \E c \in Controls, t \in 1..nturn : Control(c, t)
           \/ EndControl \/ ReconcileControls
    PROVE  ImageRows'
<1> USE ThreadRowUnchanged, ControlRowsKept
<1>0. StoreTypeOK /\ pending \in [Controls -> {"none", "dispatching", "needs-review"}]
      /\ mstate \in [Msgs -> RequestStates] /\ Controls \subseteq Msgs
  BY DEF TypeOK, MemoryTypeOK, StoreTypeOK, Msgs
<1>1. ASSUME NEW c \in Controls, NEW t \in 1..nturn, Control(c, t) PROVE ImageRows'
  <2>1. UNCHANGED <<threadID, dbThread>>
    BY <1>1 DEF Control
  <2>2. mstate' = [mstate EXCEPT ![c] = "dispatching"]
        /\ pending' = [pending EXCEPT ![c] = "dispatching"]
    BY <1>1 DEF Control, AcceptControl
  <2> QED
    BY <1>0, <2>1, <2>2 DEF ImageRows, PendingControl
<1>2. CASE EndControl
  <2>1. call.outcome \in {"failed", "completed", "needs-review"}
    BY <1>2, CallFields DEF EndControl, TypeOK, HandlerTypeOK, Outcomes
  <2>2. CASE StoreFails /\ UNCHANGED <<pending, threadID>>
    BY <1>0, <2>2, ImageKeptRows DEF ImageKept
  <2>3. CASE FinishControl(call.msg, call.outcome)
    <3>1. ControlsKept /\ UNCHANGED <<threadID, dbThread>>
      BY <1>0, <1>2, <2>1, <2>3 DEF EndControl
    <3>2. /\ mstate' = [mstate EXCEPT ![call.msg] = call.outcome]
          /\ \/ pending' = [pending EXCEPT ![call.msg] =
                   IF call.outcome = "needs-review" THEN "needs-review" ELSE "none"]
             \/ StoreFails /\ UNCHANGED pending
      BY <1>2, <2>3 DEF EndControl, FinishControl, MoveMessage
    <3> QED
      BY <1>0, <2>1, <3>1, <3>2, ImageKeptRows
         DEF ImageRows, ImageKept, ControlsKept, PendingControl
  <2> QED
    BY <1>2, <2>2, <2>3 DEF EndControl
<1>3. CASE ReconcileControls
  <2>1. ASSUME NEW c \in Controls, MarkNeedsReview(c),
               pending' = [pending EXCEPT ![c] = "needs-review"]
        PROVE  ImageRows'
    <3>1. ControlsKept /\ UNCHANGED <<threadID, dbThread>>
      BY <1>0, <1>3, <2>1 DEF ReconcileControls
    <3> QED
      BY <1>0, <2>1, <3>1 DEF ImageRows, ControlsKept, PendingControl
  <2>2. CASE UNCHANGED <<pending, threadID>> /\ (StoreFails \/ UNCHANGED storeVars)
    BY <1>0, <2>2, ImageKeptRows DEF ImageKept
  <2> QED
    BY <1>3, <2>1, <2>2 DEF ReconcileControls
<1> QED
  BY <1>1, <1>2, <1>3

\* Every step keeps the image true.
LEMMA ImageStep == ASSUME TypeOK, ImageInv, [Next]_vars PROVE ImageInv'
<1> USE ThreadRowUnchanged, ControlRowsKept
<1>0. StoreTypeOK /\ ImageRows
  BY DEF TypeOK, ImageInv, ImageRows
<1>1. ASSUME ReadsImage PROVE ImageRows'
  BY <1>0, <1>1, ReadsImageRows
<1>2. ASSUME Loaded' => Loaded PROVE ImageRows'
  <2>1. CASE ImageKept
    BY <1>0, <1>2, <2>1, ImageKeptRows
  <2>2. CASE (\E c \in Controls, t \in 1..nturn : Control(c, t)) \/ EndControl \/ ReconcileControls
    BY <1>0, <1>2, <2>2, ControlImage
  <2>3. CASE BindNewThread
    <3>1. ControlsKept /\ UNCHANGED pending
      BY <1>0, <2>3 DEF BindNewThread
    <3>2. UNCHANGED <<threadID, dbThread>> \/ threadID' = dbThread'
      BY <2>3 DEF BindNewThread, BindThread
    <3> QED
      BY <1>0, <1>2, <3>1, <3>2 DEF ImageRows, ControlsKept, PendingControl
  <2>4. CASE Owner \/ Exit \/ Crash
    <3>1. call'.pc = "down"
      BY <2>4, InputAtIdle DEF Owner, Offline, RepairMark, RepairCreate, RepairBind, RepairBegins, RepairUse,
         ResetAtStartup, Exit, Crash, DaemonGone, Idle
    <3>2. ~Loaded'
      BY <3>1, DownLink DEF At
    <3>3. ControlsKept
      BY <1>0, <2>4 DEF Owner, RepairMark, RepairCreate, RepairBind, RepairBegins, RepairUse, ResetAtStartup, Exit, Crash,
         DaemonGone
    <3> QED
      BY <1>0, <3>2, <3>3 DEF ImageRows, ControlsKept
  <2>5. CASE ResolveLoad \/ ResolveReload \/ RecoverLoad
    <3>1. ReadsImage \/ (UNCHANGED <<threadID, pending>> /\ (StoreFails \/ UNCHANGED storeVars))
      BY <2>5 DEF ResolveLoad, ResolveReload, RecoverLoad, ReadsImage, StoreFails, stateVars
    <3> QED
      BY <1>0, <1>1, <1>2, <3>1, ImageKeptRows DEF ImageKept
  <2> QED
    BY <2>1, <2>2, <2>3, <2>4, <2>5, InputImage, TurnImage, RecoverImage
       DEF Next, Client, Continue
<1>3. ImageRows'
  BY <1>1, <1>2, LoadedStep
<1> QED
  BY <1>3, StartTurnLink, DownLink DEF ImageInv, ImageRows

\* The invariant holds throughout.
LEMMA ImageAlways == Spec => []ImageInv
<1>1. Init => ImageInv
  BY DEF Init, StoreInit, ZeroMemory, ImageInv, Loaded, LoadedLabels, At, Idle, PendingControl, Msgs
<1>2. TypeOK /\ ImageInv /\ [Next]_vars => ImageInv'
  BY ImageStep
<1> QED
  BY <1>1, <1>2, TypeCorrect, PTL DEF Spec

\* In every room, whatever was lost, failed or decided before: when a prompt is
\* about to be sent to the agent, no other prompt or control is in doubt, and
\* the database says ready and names the thread the prompt goes to.
THEOREM DispatchFrozenAlways == Spec => []DispatchFrozen
<1>1. TypeOK /\ ActiveInv /\ DurableInv /\ ImageInv => DispatchFrozen
  <2> SUFFICES ASSUME TypeOK, ActiveInv, DurableInv, ImageInv, At("startTurn")
               PROVE  /\ \A m \in (Work \cup Controls) \ {active} :
                            mstate[m] \in {"absent", "queued"} \cup Terminal
                      /\ dbStatus = "ready" /\ threadID = dbThread
    BY DEF DispatchFrozen
  <2>1. status = "ready" /\ NoPending /\ Loaded
    BY DEF ImageInv, Loaded
  <2>2. dbStatus = "ready" /\ threadID = dbThread
    BY <2>1 DEF DurableInv, ReadyIsDurable, ImageInv
  <2>3. \A m \in Work \cup Controls : mstate[m] \in RequestStates
    BY DEF TypeOK, StoreTypeOK, Msgs
  <2>4. \A m \in Work : m # active => mstate[m] \notin LiveStates
    BY <2>1 DEF ActiveInv, LiveWork
  <2>5. \A c \in Controls : mstate[c] \notin LiveStates
    BY <2>1 DEF ImageInv, NoPending, PendingControl, LiveStates
  <2> QED
    BY <2>2, <2>3, <2>4, <2>5 DEF RequestStates
<1> QED
  BY <1>1, TypeCorrect, ActiveAlways, DurableAlways, ImageAlways, PTL

----------------------------------------------------------------------------
\* NoSilentThread.

\* The links at which a thread is bound to the room.
BoundLabels ==
    {"readThread", "resumeThread", "private", "items", "settle", "controls", "recovered",
     "resolveLoad", "retry", "retryFinish", "resolveReload", "resolveReady", "faultReady"}
MustBeBound == status = "ready" \/ threadReady \/ LiveWork # {} \/ call.pc \in BoundLabels

\* NoSilentThread is not inductive: recover creates a thread when none is
\* bound, so it must be known that an unbound room that does not say
\* "recovering" has a thread still to its credit, that a thread which may exist
\* is never offered to recover as an unused room, and that no path but the
\* binding of a thread makes the room ready.
ThreadInv ==
    /\ NoSilentThread
    /\ dbThread = 0 /\ (dbStatus = "ready" \/ call.pc \in {"setRecovering", "startThread"})
          => nthread <= repairs.begun
    /\ At("startThread") => dbThread = 0 /\ dbStatus # "ready"
    /\ MustBeBound => dbThread # 0
    /\ At("down") => ~threadReady

\* A repair under way has marked the room, keeps the daemon from starting, and
\* the thread that it is about to create is accounted for by its beginning.
RepairInv ==
    /\ repairs.at # "none" => At("down") /\ dbStatus = "thread-needs-repair"
    /\ repairs.at = "start" => nthread <= repairs.begun

\* A step that binds no thread, creates none and makes nothing ready.
Quiet ==
    /\ UNCHANGED <<nthread, repairs, dbThread>>
    /\ dbStatus' = "ready" => dbStatus = "ready"
    /\ status' = "ready" => status = "ready"
    /\ threadReady' => threadReady

\* Prompts come in progress in a ready room only.
LiveOnlyReady == LiveWork' \subseteq LiveWork \/ status = "ready"

LEMMA LiveStep == ASSUME TypeOK, [Next]_vars PROVE LiveOnlyReady
<1>0. StoreTypeOK
  BY DEF TypeOK
<1>1. CASE StoreStep(Owners)
  <2>1. LiveShrinks
    BY <1>0, <1>1, StoreStepType
  <2> QED
    BY <2>1 DEF LiveShrinks, LiveOnlyReady
<1>2. CASE DispatchNext
  BY <1>1, <1>2, DispatchStoreStep DEF CanDispatch, LiveOnlyReady
<1> QED
  BY <1>1, <1>2, NextStoreStep

\* A quiet step keeps the invariant if it reaches the links of a bound thread
\* in a bound room, and does not reach the links that create one.
LEMMA QuietInv ==
    ASSUME ThreadInv, Quiet, LiveOnlyReady,
           call'.pc \in BoundLabels => dbThread # 0,
           call'.pc \in {"setRecovering", "startThread"} => UNCHANGED call,
           call'.pc = "down" => UNCHANGED call \/ ~threadReady'
    PROVE  ThreadInv'
<1>1. NoSilentThread'
  BY DEF ThreadInv, Quiet, NoSilentThread
<1>2. MustBeBound' => dbThread # 0
  BY DEF MustBeBound, ThreadInv, Quiet, LiveOnlyReady
<1>3. (dbThread = 0 /\ (dbStatus = "ready" \/ call.pc \in {"setRecovering", "startThread"})
          => nthread <= repairs.begun)'
  BY DEF ThreadInv, Quiet
<1>4. (At("startThread") => dbThread = 0 /\ dbStatus # "ready")' /\ (At("down") => ~threadReady)'
  BY DEF ThreadInv, Quiet, At
<1> QED
  BY <1>1, <1>2, <1>3, <1>4 DEF ThreadInv, Quiet

\* The calls that create no thread.
LEMMA CallCreatesNoThread ==
    ASSUME \/ UNCHANGED agentVars \/ Taken
           \/ CallNotSent \/ CallDone \/ CallUnknown \/ CallTimedOut
           \/ \E o, th : TurnStarted(o, th) \/ TurnStartLost(o, th) \/ TurnStartTimedOut(o, th)
           \/ \E l : ControlCall(l)
           \/ ProcessGone \/ SessionDies \/ SessionReplaced
           \/ \E t : ItemCompletes(t) \/ AgentFault(t)
           \/ \E t, how : TurnEnds(t, how)
    PROVE  UNCHANGED nthread
<1>1. CallNotSent \/ CallDone \/ CallUnknown \/ CallTimedOut => UNCHANGED nthread
  BY DEF CallNotSent, CallDone, CallUnknown, CallTimedOut, agentVars
<1>2. ProcessGone => UNCHANGED nthread
  BY DEF ProcessGone
<1> QED
  BY <1>1, <1>2 DEF agentVars, Taken, TurnStarted, TurnStartLost, TurnStartTimedOut,
     ControlCall, SessionDies, SessionReplaced, ItemCompletes, AgentFault, TurnEnds

\* Commands and events are quiet.
LEMMA InputQuiet == ASSUME Client \/ HandleEvent PROVE Quiet
<1> USE ThreadRowUnchanged, RowUnchanged, CallCreatesNoThread DEF Quiet
<1>1. CASE \/ \E m \in Prompts : Submit(m)
           \/ \E n \in Notes : Note(n)
           \/ \E c \in Controls, t \in 1..nturn : Control(c, t)
  BY <1>1 DEF Submit, Note, Control, stateVars, flagVars, boundVars
<1>2. CASE \/ \E r \in Recovers : Resolve(r)
           \/ \E q \in Questions : Ask(q)
  BY <1>2 DEF Resolve, Ask, stateVars, flagVars, boundVars
<1>3. CASE OnIgnored \/ OnItem \/ OnTurnEnd
  BY <1>3 DEF OnIgnored, OnItem, OnTurnEnd, stateVars, flagVars, boundVars
<1>4. CASE OnFault \/ OnQuestionEnd
  BY <1>4 DEF OnFault, OnQuestionEnd, flagVars
<1>5. CASE OnUnavailable
  BY <1>5 DEF OnUnavailable, SetRoomStatus
<1>6. CASE OnReady
  BY <1>6 DEF OnReady, stateVars, boundVars
<1> QED
  BY <1>1, <1>2, <1>3, <1>4, <1>5, <1>6 DEF Client, HandleEvent

\* So are the links of dispatch, control and resolve handlers.
LEMMA TurnQuiet ==
    ASSUME \/ DispatchNext \/ StartTurn \/ BindTurn \/ FailTurn \/ ReviewTurn \/ ReviewStatus
           \/ SendControl \/ EndControl
           \/ ResolveLoad \/ RetryCall \/ RetryFinish \/ ResolveReload
           \/ AskTurn \/ AskUndo \/ FaultStatus \/ LostTurn
    PROVE  Quiet
<1> USE ThreadRowUnchanged, RowUnchanged, CallCreatesNoThread DEF Quiet
<1>1. CASE DispatchNext \/ StartTurn
  BY <1>1 DEF DispatchNext, StartTurn, flagVars, boundVars
<1>2. CASE BindTurn \/ FailTurn \/ ReviewTurn
  BY <1>2 DEF BindTurn, FailTurn, ReviewTurn, flagVars
<1>3. CASE ReviewStatus \/ FaultStatus
  BY <1>3 DEF ReviewStatus, FaultStatus, SetRoomStatus, stateVars, flagVars
<1>4. CASE SendControl \/ EndControl
  BY <1>4 DEF SendControl, EndControl, flagVars, boundVars
<1>5. CASE ResolveLoad \/ ResolveReload
  BY <1>5 DEF ResolveLoad, ResolveReload, stateVars, flagVars
<1>6. CASE RetryCall \/ RetryFinish
  BY <1>6 DEF RetryCall, RetryFinish, stateVars, flagVars, boundVars
<1>7. CASE AskTurn \/ AskUndo \/ LostTurn
  BY <1>7 DEF AskTurn, AskUndo, LostTurn, flagVars, boundVars
<1> QED
  BY <1>1, <1>2, <1>3, <1>4, <1>5, <1>6, <1>7

\* And recover, where it neither creates nor binds a thread.
LEMMA RecoverQuiet ==
    ASSUME \/ RecoverLoad \/ MarkRepair \/ SetRecovering \/ ReadThread \/ ResumeThread
           \/ ReconcilePrivate \/ ReconcileItems \/ SettleActive
    PROVE  Quiet
<1> USE ThreadRowUnchanged, RowUnchanged, CallCreatesNoThread DEF Quiet
<1>1. CASE RecoverLoad
  BY <1>1 DEF RecoverLoad
<1>2. CASE MarkRepair \/ SetRecovering
  BY <1>2 DEF MarkRepair, MarkThreadNeedsRepair, SetRecovering, SetRoomStatus, stateVars, flagVars
<1>3. CASE ReadThread \/ ResumeThread
  BY <1>3 DEF ReadThread, ResumeThread, stateVars, flagVars, boundVars
<1>4. CASE ReconcilePrivate \/ ReconcileItems
  BY <1>4 DEF ReconcilePrivate, ReconcileItems, stateVars, flagVars
<1>5. CASE SettleActive
  BY <1>5 DEF SettleActive, flagVars
<1> QED
  BY <1>1, <1>2, <1>3, <1>4, <1>5

\* And the daemon's life and the App Server.
LEMMA LifeQuiet ==
    ASSUME AppServer \/ StartDaemon \/ StartupRecover \/ Exit \/ Crash \/ UNCHANGED vars
    PROVE  Quiet
<1> USE ThreadRowUnchanged, RowUnchanged, CallCreatesNoThread DEF Quiet
<1>1. CASE AppServer
  BY <1>1 DEF AppServer, stateVars, flagVars, boundVars
<1>2. CASE StartDaemon \/ StartupRecover
  BY <1>2 DEF StartDaemon, StartupRecover, stateVars, flagVars, boundVars, agentVars
<1>3. CASE Exit \/ Crash
  BY <1>3 DEF Exit, Crash, DaemonGone, ZeroMemory
<1>4. CASE UNCHANGED vars
  BY <1>4 DEF vars, stateVars, flagVars, boundVars
<1> QED
  BY <1>1, <1>2, <1>3, <1>4

\* The links of a bound thread are reached in a room that has one.
LEMMA BoundReached ==
    ASSUME TypeOK, ThreadInv, ImageInv, [Next]_vars, call'.pc \in BoundLabels
    PROVE  dbThread # 0 \/ BindNewThread
<1> USE DEF At
<1>1. call.pc \in BoundLabels => dbThread # 0
  BY DEF ThreadInv, MustBeBound
<1>2. CASE UNCHANGED call
  BY <1>1, <1>2
<1>3. ASSUME Client, call'.pc = "resolveLoad" PROVE dbThread # 0
  <2>1. PICK r \in Recovers : Resolve(r)
    <3>1. ASSUME NEW c \in Controls, NEW t, Control(c, t) PROVE FALSE
      <4>1. Handler("finishControl", "command", c) \in CallRecords
            /\ Handler("finishControl", "command", c).pc = "finishControl"
        BY HandlerIsCall, LabelsType
      <4>2. call' = [Handler("finishControl", "command", c) EXCEPT !.outcome = "failed"]
               => call'.pc = "finishControl"
        BY <4>1 DEF CallRecords
      <4> QED
        BY <1>3, <3>1, <4>2, PcAfter, LabelsType DEF Control
    <3> QED
      BY <1>3, <3>1, PcAfter, LabelsType, InputAtIdle DEF Client, Submit, Note, Ask
  <2>2. \E c : AfterDecision(c)
    BY <2>1 DEF Resolve
  <2>3. threadReady
    BY <1>3, <2>2, PcAfter DEF AfterDecision
  <2> QED
    BY <2>3 DEF ThreadInv, MustBeBound
<1>4. ASSUME HandleEvent, call'.pc = "faultReady" PROVE dbThread # 0
  <2>1. OnTurnEnd
    BY <1>4, PcAfter, LabelsType, InputAtIdle DEF HandleEvent, OnIgnored, OnItem, OnFault,
       OnQuestionEnd, OnUnavailable, OnReady
  <2>2. PICK t : \E o \in Terminal : FinishTurn(t, o)
    BY <1>4, <2>1, PcAfter DEF OnTurnEnd, Terminal
  <2>3. LiveWork # {}
    BY <2>2, FinishTurnType DEF TypeOK
  <2> QED
    BY <2>3 DEF ThreadInv, MustBeBound
<1>5. ASSUME SetRecovering, call'.pc = "readThread" PROVE dbThread # 0
  <2>1. threadID # 0 /\ At("setRecovering")
    BY <1>5, PcAfter, LabelsType DEF SetRecovering
  <2> QED
    BY <2>1 DEF ImageInv, Loaded, LoadedLabels
<1>6. CASE \/ ResolveLoad \/ RetryCall \/ RetryFinish \/ ResolveReload \/ ReadThread
           \/ ResumeThread \/ ReconcilePrivate \/ ReconcileItems \/ SettleActive
           \/ ReconcileControls
  BY <1>1, <1>6 DEF BoundLabels, ResolveLoad, RetryCall, RetryFinish, ResolveReload, ReadThread,
     ResumeThread, ReconcilePrivate, ReconcileItems, SettleActive, ReconcileControls
<1> QED
  BY <1>2, <1>3, <1>4, <1>5, <1>6, NextFlow DEF Flow, BoundLabels

\* The links of recover that create a thread, or are about to.
LEMMA CreateThread ==
    ASSUME TypeOK, ThreadInv, ImageInv, LiveOnlyReady,
           RecoverLoad \/ SetRecovering \/ StartThread \/ BindNewThread
    PROVE  ThreadInv'
<1> USE PcAfter, LabelsType DEF At
<1>0. /\ nthread \in Nat /\ repairs.begun \in Nat /\ dbStatus \in RoomStates /\ call \in CallRecords
      /\ MustBeBound => dbThread # 0
  BY DEF TypeOK, AgentTypeOK, StoreTypeOK, HandlerTypeOK, ThreadInv
<1>1. CASE RecoverLoad
  <2>0. Quiet /\ threadReady' = FALSE
    BY <1>1, RecoverQuiet DEF RecoverLoad
  <2>1. CASE call'.pc = "setRecovering"
    <3>1. ~ThreadMayBeLost /\ dbStatus # "thread-needs-repair" /\ UNCHANGED storeVars
      BY <1>1, <2>1 DEF RecoverLoad
    <3>2. dbThread = 0 => dbStatus = "ready"
      BY <1>0, <3>1 DEF ThreadMayBeLost, RoomStates
    <3>3. dbThread = 0 => nthread <= repairs.begun
      BY <3>2 DEF ThreadInv
    <3>4. MustBeBound' => dbThread # 0
      BY <1>0, <2>0, <2>1 DEF MustBeBound, BoundLabels, Quiet, LiveOnlyReady
    <3> QED
      BY <2>0, <2>1, <3>3, <3>4 DEF ThreadInv, NoSilentThread, Quiet
  <2>2. CASE call'.pc # "setRecovering"
    <3>1. call'.pc \in {"idle", "exiting", "markRepair"}
      BY <1>1, <2>2 DEF RecoverLoad
    <3> QED
      BY <2>0, <3>1, QuietInv DEF BoundLabels
  <2> QED
    BY <2>1, <2>2
<1>2. CASE SetRecovering
  <2>0. Quiet /\ UNCHANGED <<threadID, threadReady>>
    BY <1>2, RecoverQuiet DEF SetRecovering, stateVars, flagVars
  <2>1. threadID = dbThread /\ call.pc = "setRecovering"
    BY <1>2 DEF SetRecovering, ImageInv, Loaded, LoadedLabels
  <2>2. CASE SetRoomStatus("recovering") /\ Goto(IF threadID = 0 THEN "startThread" ELSE "readThread")
    <3>1. dbStatus' # "ready" /\ call'.pc = IF threadID = 0 THEN "startThread" ELSE "readThread"
      BY <2>2 DEF SetRoomStatus
    <3>2. dbThread = 0 => nthread <= repairs.begun
      BY <2>1 DEF ThreadInv
    <3>3. MustBeBound' => dbThread # 0
      BY <1>0, <2>0, <2>1, <3>1 DEF MustBeBound, BoundLabels, Quiet, LiveOnlyReady
    <3>4. call'.pc = "startThread" => dbThread = 0
      BY <2>1, <3>1
    <3>5. call'.pc # "down"
      BY <3>1
    <3> QED
      BY <2>0, <3>1, <3>2, <3>3, <3>4, <3>5 DEF ThreadInv, NoSilentThread, Quiet
  <2>3. CASE Return("store")
    BY <2>0, <2>3, QuietInv DEF BoundLabels
  <2> QED
    BY <1>2, <2>2, <2>3 DEF SetRecovering
<1>3. CASE StartThread
  <2>0. /\ dbThread = 0 /\ dbStatus # "ready" /\ nthread <= repairs.begun /\ call.pc = "startThread"
        /\ ~MustBeBound
    BY <1>0, <1>3 DEF StartThread, ThreadInv
  <2>1. UNCHANGED <<repairs, dbThread, status, threadReady>>
    BY <1>3, ThreadRowUnchanged DEF StartThread, stateVars, flagVars
  <2>2. call'.pc \in {"bindThread", "markRepair", "idle", "exiting"}
    <3>1. call' = [call EXCEPT !.pc = "markRepair", !.expired = TRUE] => call'.pc = "markRepair"
      BY <1>0 DEF CallRecords
    <3>2. call' = [call EXCEPT !.pc = "bindThread", !.turn = nthread'] => call'.pc = "bindThread"
      BY <1>0 DEF CallRecords
    <3> QED
      BY <1>3, <3>1, <3>2 DEF StartThread
  <2>3. \/ UNCHANGED nthread
        \/ nthread' = nthread + 1 /\ UNCHANGED dbStatus
    BY <1>3, CallCreatesNoThread, RowUnchanged DEF StartThread, ThreadStarted, ThreadStartLost,
       ThreadStartTimedOut
  <2>4. ~MustBeBound'
    BY <2>0, <2>1, <2>2 DEF MustBeBound, BoundLabels, LiveOnlyReady
  <2>5. NoSilentThread' /\ (dbStatus' = "ready" => nthread' <= repairs.begun')
    BY <1>0, <2>0, <2>1, <2>3 DEF NoSilentThread
  <2> QED
    BY <2>2, <2>4, <2>5 DEF ThreadInv
<1>4. CASE BindNewThread
  <2>0. UNCHANGED <<nthread, repairs, status, threadReady>> /\ call.pc = "bindThread"
    BY <1>4 DEF BindNewThread, agentVars, flagVars
  <2>1. CASE BindThread(call.turn) /\ Goto("controls")
    <3>1. dbThread' # 0
      BY <1>4, <2>1, StoreAssumption DEF BindNewThread, BindThread, TypeOK, HandlerTypeOK, Threads
    <3> QED
      BY <2>0, <2>1, <3>1 DEF ThreadInv, NoSilentThread
  <2>2. CASE StoreFails /\ Goto("markRepair")
    <3>1. Quiet
      BY <2>0, <2>2, ThreadRowUnchanged, RowUnchanged DEF Quiet
    <3> QED
      BY <2>2, <3>1, QuietInv DEF BoundLabels
  <2> QED
    BY <1>4, <2>1, <2>2 DEF BindNewThread
<1> QED
  BY <1>1, <1>2, <1>3, <1>4

\* The links that make the room ready, with a thread bound.
LEMMA ReadyThread ==
    ASSUME TypeOK, ThreadInv, ResolveReady \/ Recovered \/ FaultReady \/ ReconcileControls
    PROVE  ThreadInv'
<1> USE PcAfter, LabelsType DEF At
<1>1. dbThread # 0
  BY DEF ResolveReady, Recovered, FaultReady, ReconcileControls, ThreadInv, MustBeBound, BoundLabels
<1>2. UNCHANGED <<nthread, repairs, dbThread>>
  BY ThreadRowUnchanged DEF ResolveReady, Recovered, FaultReady, ReconcileControls, agentVars
<1>3. call'.pc \notin {"startThread", "down"}
  BY DEF ResolveReady, Recovered, FaultReady, ReconcileControls
<1> QED
  BY <1>1, <1>2, <1>3 DEF ThreadInv, NoSilentThread

\* The links of the owner's commands, as they move the account of repairs.
LEMMA OwnerRepairs ==
    ASSUME TypeOK, Owner
    PROVE  /\ RepairMark =>
                 /\ repairs'.begun = repairs.begun + 1 /\ repairs'.at = "start"
                 /\ dbStatus' = "thread-needs-repair" /\ UNCHANGED <<nthread, dbThread, mstate>>
           /\ RepairCreate =>
                 /\ repairs.at = "start" /\ repairs'.begun = repairs.begun
                 /\ repairs'.at \in {"none", "bind"} /\ nthread' \in {nthread, nthread + 1}
                 /\ UNCHANGED <<dbStatus, dbThread, mstate>>
           /\ RepairBind =>
                 /\ repairs.at = "bind" /\ repairs'.begun = repairs.begun /\ repairs'.at = "none"
                 /\ UNCHANGED nthread /\ dbThread' \in {dbThread, repairs.thread}
                 /\ UNCHANGED <<dbStatus, dbThread>> \/ (dbThread' # 0 /\ dbStatus' = "recovering")
                 /\ UNCHANGED mstate
           /\ RepairUse \/ ResetAtStartup =>
                 /\ repairs'.begun = repairs.begun + 1 /\ repairs'.at = "none" /\ UNCHANGED nthread
<1>0. /\ repairs.begun \in Nat
      /\ repairs = [begun |-> repairs.begun, at |-> repairs.at, thread |-> repairs.thread]
      /\ repairs.at = "bind" => repairs.thread # 0
  BY StoreAssumption DEF TypeOK, HandlerTypeOK, Threads
<1>1. ASSUME NEW l, RepairBegins(l)
      PROVE  repairs'.begun = repairs.begun + 1 /\ repairs'.at = l
  <2>1. repairs' = [begun |-> repairs.begun + 1, at |-> l, thread |-> repairs.thread]
    BY <1>0, <1>1 DEF RepairBegins
  <2> QED
    BY <2>1
<1>2. RepairEnds => repairs'.begun = repairs.begun /\ repairs'.at = "none"
  <2>1. RepairEnds => repairs' = [begun |-> repairs.begun, at |-> "none", thread |-> 0]
    BY <1>0 DEF RepairEnds
  <2> QED
    BY <2>1
<1>3. ASSUME RepairMark
      PROVE  /\ repairs'.begun = repairs.begun + 1 /\ repairs'.at = "start"
             /\ dbStatus' = "thread-needs-repair" /\ UNCHANGED <<nthread, dbThread, mstate>>
  <2>1. UNCHANGED <<nthread, dbThread, mstate>>
    BY <1>3 DEF RepairMark, MarkThreadNeedsRepair, SetRoomStatus, agentVars, storeVars, roomRow,
       messageRows
  <2>2. dbStatus' = "thread-needs-repair"
    BY <1>3 DEF RepairMark, MarkThreadNeedsRepair, SetRoomStatus, storeVars, roomRow
  <2> QED
    BY <1>1, <1>3, <2>1, <2>2 DEF RepairMark
<1>4. RepairCreate => /\ repairs'.begun = repairs.begun /\ repairs'.at \in {"none", "bind"}
                      /\ nthread' \in {nthread, nthread + 1}
  <2>1. ASSUME NEW th, repairs' = [repairs EXCEPT !.at = "bind", !.thread = th]
        PROVE  repairs'.begun = repairs.begun /\ repairs'.at = "bind"
    <3>1. repairs' = [begun |-> repairs.begun, at |-> "bind", thread |-> th]
      BY <1>0, <2>1
    <3> QED
      BY <3>1
  <2> QED
    BY <1>2, <2>1 DEF RepairCreate
<1>5. RepairCreate => repairs.at = "start" /\ UNCHANGED <<dbStatus, dbThread, mstate>>
  BY DEF RepairCreate, storeVars, roomRow, messageRows
<1>6. RepairBind => /\ repairs.at = "bind" /\ repairs'.begun = repairs.begun /\ repairs'.at = "none"
                    /\ UNCHANGED <<nthread, mstate>> /\ dbThread' \in {dbThread, repairs.thread}
                    /\ UNCHANGED <<dbStatus, dbThread>> \/ (dbThread' # 0 /\ dbStatus' = "recovering")
  BY <1>0, <1>2 DEF RepairBind, RepairThread, agentVars, storeVars, roomRow, messageRows
<1>7. RepairUse \/ ResetAtStartup => /\ repairs'.begun = repairs.begun + 1 /\ repairs'.at = "none"
                                      /\ UNCHANGED nthread
  BY <1>1 DEF RepairUse, ResetAtStartup, agentVars
<1> QED
  BY <1>3, <1>4, <1>5, <1>6, <1>7

\* No other step comes near a repair under way.
LEMMA RepairStep ==
    ASSUME TypeOK, NoSilentThread, RepairInv, [Next]_vars
    PROVE  RepairInv'
<1> USE DEF At
<1>0. nthread \in Nat /\ repairs.begun \in Nat
  BY DEF TypeOK, AgentTypeOK, HandlerTypeOK
<1>1. CASE Owner
  <2>1. call'.pc = "down"
    BY <1>1, InputAtIdle DEF Owner, Offline, RepairMark, RepairCreate, RepairBind, RepairBegins,
       RepairUse, ResetAtStartup
  <2>2. CASE RepairMark
    BY <1>0, <1>1, <2>1, <2>2, OwnerRepairs DEF RepairInv, NoSilentThread
  <2>3. CASE RepairCreate
    BY <1>1, <2>1, <2>3, OwnerRepairs DEF RepairInv
  <2>4. CASE RepairBind \/ RepairUse \/ ResetAtStartup
    BY <1>1, <2>4, OwnerRepairs DEF RepairInv
  <2> QED
    BY <1>1, <2>2, <2>3, <2>4 DEF Owner
<1>2. CASE ~Owner /\ repairs.at = "none"
  BY <1>2, RepairsKept DEF RepairInv
<1>3. CASE ~Owner /\ repairs.at # "none"
  <2>1. call.pc = "down" /\ UNCHANGED repairs
    BY <1>3, RepairsKept DEF RepairInv
  <2>2. ~Continue
    BY <2>1 DEF Continue, DispatchNext, StartTurn, BindTurn, FailTurn, ReviewTurn, ReviewStatus,
       SendControl, EndControl, ResolveLoad, RetryCall, RetryFinish, ResolveReload, ResolveReady,
       RecoverLoad, MarkRepair, SetRecovering, StartThread, BindNewThread, ReadThread,
       ResumeThread, ReconcilePrivate, ReconcileItems, SettleActive, ReconcileControls, Recovered,
       AskTurn, AskUndo, FaultReady, FaultStatus, LostTurn
  <2>3. ~Client /\ ~HandleEvent /\ ~StartupRecover /\ ~StartDaemon /\ ~Exit /\ ~Crash
    BY <1>3, <2>1, InputAtIdle DEF StartDaemon, Exit, Crash
  <2>4. UNCHANGED <<call, storeVars>> /\ UNCHANGED nthread
    BY <1>3, <2>2, <2>3, CallCreatesNoThread DEF Next, AppServer, vars, agentVars, ItemCompletes,
       TurnEnds, AgentFault, SessionDies, ProcessGone, SessionReplaced
  <2> QED
    BY <1>3, <2>1, <2>4 DEF RepairInv, storeVars, roomRow
<1> QED
  BY <1>1, <1>2, <1>3

\* The owner's offline work: every thread it makes possible is counted.
LEMMA OwnerThread ==
    ASSUME TypeOK, ThreadInv, RepairInv, ImageInv, LiveOnlyReady, Owner
    PROVE  ThreadInv'
<1> USE DEF At
<1>0. /\ nthread \in Nat /\ repairs.begun \in Nat /\ nthread <= 1 + repairs.begun
      /\ MustBeBound => dbThread # 0
  BY DEF TypeOK, AgentTypeOK, HandlerTypeOK, ThreadInv, NoSilentThread
<1>1. /\ UNCHANGED <<call, status, threadReady>> /\ call.pc = "down"
      /\ status # "ready" /\ ~threadReady
  BY InputAtIdle DEF Owner, Offline, RepairMark, RepairCreate, RepairBind, RepairBegins,
     RepairUse, ResetAtStartup, stateVars, flagVars, ImageInv, ThreadInv, Loaded
<1>2. dbThread' # 0 => (MustBeBound => dbThread # 0)'
  OBVIOUS
<1>3. UNCHANGED <<mstate, dbThread>> => (MustBeBound => dbThread # 0)'
  BY <1>0, <1>1 DEF MustBeBound, LiveWork
<1>4. CASE RepairMark
  BY <1>0, <1>1, <1>3, <1>4, OwnerRepairs DEF ThreadInv, NoSilentThread
<1>5. CASE RepairCreate
  <2>1. nthread <= repairs.begun /\ dbStatus = "thread-needs-repair"
    BY <1>5, OwnerRepairs DEF RepairInv
  <2> QED
    BY <1>0, <1>1, <1>3, <1>5, <2>1, OwnerRepairs DEF ThreadInv, NoSilentThread
<1>6. CASE RepairBind
  <2>1. dbStatus = "thread-needs-repair"
    BY <1>6, OwnerRepairs DEF RepairInv
  <2> QED
    BY <1>0, <1>1, <1>2, <1>3, <1>6, <2>1, OwnerRepairs DEF ThreadInv, NoSilentThread
<1>7. CASE RepairUse
  <2>1. dbThread' # 0
    BY <1>0, <1>7 DEF RepairUse, RepairThread
  <2> QED
    BY <1>0, <1>1, <1>7, <2>1, OwnerRepairs DEF ThreadInv, NoSilentThread
<1>8. CASE ResetAtStartup
  <2>1. nthread' <= repairs'.begun /\ nthread' <= 1 + repairs'.begun
    BY <1>0, <1>8, OwnerRepairs
  <2>2. LiveWork' = {}
    <3>1. UNCHANGED mstate /\ ~HasAgentActivity
      BY <1>8 DEF ResetAtStartup, ResetUnusedThread, messageRows
    <3> QED
      BY <3>1 DEF HasAgentActivity, LiveWork, LiveStates
  <2>3. ~MustBeBound'
    BY <1>1, <2>2 DEF MustBeBound, BoundLabels
  <2> QED
    BY <1>1, <2>1, <2>3 DEF ThreadInv, NoSilentThread
<1> QED
  BY <1>4, <1>5, <1>6, <1>7, <1>8 DEF Owner

\* Every step keeps account of the threads.
LEMMA ThreadStep ==
    ASSUME TypeOK, ThreadInv, RepairInv, ImageInv, [Next]_vars
    PROVE  ThreadInv'
<1>0. LiveOnlyReady
  BY LiveStep
<1>1. CASE RecoverLoad \/ SetRecovering \/ StartThread \/ BindNewThread
  BY <1>0, <1>1, CreateThread
<1>2. CASE ResolveReady \/ Recovered \/ FaultReady \/ ReconcileControls
  BY <1>2, ReadyThread
<1>3. CASE Owner
  BY <1>0, <1>3, OwnerThread
<1>4. CASE Quiet /\ ~(RecoverLoad \/ SetRecovering \/ StartThread \/ BindNewThread)
  <2>1. call'.pc \in BoundLabels => dbThread # 0
    BY <1>4, BoundReached
  <2>2. call'.pc \in {"setRecovering", "startThread"} => UNCHANGED call
    BY <1>4, NextFlow DEF Flow
  <2>3. call'.pc = "down" => UNCHANGED call \/ ~threadReady'
    BY NextFlow DEF Flow, Exit, Crash, DaemonGone
  <2> QED
    BY <1>0, <1>4, <2>1, <2>2, <2>3, QuietInv
<1> QED
  BY <1>1, <1>2, <1>3, <1>4, InputQuiet, TurnQuiet, RecoverQuiet, LifeQuiet DEF Next, Continue

\* The invariant holds throughout.
LEMMA ThreadAlways == Spec => [](ThreadInv /\ RepairInv)
<1>1. Init => ThreadInv /\ RepairInv
  BY DEF Init, StoreInit, AgentInit, ZeroMemory, ThreadInv, RepairInv, NoSilentThread, MustBeBound,
     BoundLabels, LiveWork, LiveStates, Msgs, At, Idle
<1>2. TypeOK /\ ImageInv /\ ThreadInv /\ RepairInv /\ [Next]_vars => (ThreadInv /\ RepairInv)'
  <2>1. ThreadInv => NoSilentThread
    BY DEF ThreadInv
  <2> QED
    BY <2>1, ThreadStep, RepairStep
<1> QED
  BY <1>1, <1>2, TypeCorrect, ImageAlways, PTL DEF Spec

\* In every room, through any number of crashes, lost replies, failed
\* transactions and repairs cut short: there are never more threads than the
\* first one and one for each attempt of the owner to repair or reset.
THEOREM NoSilentThreadAlways == Spec => []NoSilentThread
<1>1. ThreadInv => NoSilentThread
  BY DEF ThreadInv
<1> QED
  BY <1>1, ThreadAlways, PTL

----------------------------------------------------------------------------
\* PrivateHidden.

\* The turns of private questions, and those the room may show.
QuestionTurns == {t \in 1..nturn : towner[t] \in Questions}
RoomTurn(t) == t \in 1..nturn /\ towner[t] \notin Questions

\* The journal hides t, or will when the frontier of its thread is closed.
Guarded(t) == t \in hidden \/ (frontier = tthread[t] /\ t \notin baseline)
\* The turn is over for the journal: hidden, or in no history any more.
Closed(t) == t \in hidden \/ tstate[t] = "lost"

\* The links at which recover remembers history.
HistLabels == {"resumeThread", "private", "items", "settle", "markRepair"}

\* Every turn a row or a field names belongs to a prompt.
NamedTurns ==
    /\ \A t \in recorded : RoomTurn(t)
    /\ \A m \in Work : mturn[m] # 0 => RoomTurn(mturn[m])
    /\ activeTurn # 0 => RoomTurn(activeTurn)
    /\ At("bindTurn") => RoomTurn(call.turn)

\* What recover has been told is the history of the room's thread.
HistoryInv ==
    /\ call.pc \notin HistLabels => InHistory = {}
    /\ call.pc \in {"resumeThread", "private", "items"} =>
          \A t \in InHistory : t \in 1..nturn /\ tthread[t] = threadID
    /\ At("private") => History(threadID) \subseteq InHistory
    /\ \A t \in alive : tstate[t] # "lost"

\* The frontier is there before the private turn and leaves when it is hidden.
JournalInv ==
    /\ \A t \in QuestionTurns : tthread[t] # 0 /\ (Guarded(t) \/ tstate[t] = "lost")
    /\ \A t \in QuestionTurns \cap InHistory : Guarded(t)
    /\ At("items") => QuestionTurns \cap InHistory \subseteq hidden
    /\ baseline \subseteq 1..nturn
    /\ At("askTurn") => question = NoMsg /\ frontier = threadID /\ threadID # 0
    /\ call.pc \in {"askTurn", "askUndo"} => \A t \in QuestionTurns : Closed(t)
    /\ question # NoMsg => \A t \in QuestionTurns \ {questionTurn} : Closed(t)

\* What a transaction leaves alone.
PrivateKept == UNCHANGED <<frontier, baseline, hidden>>
TurnRowsKept == \A m \in Work : mturn'[m] \in {mturn[m], 0}
RowsKept == PrivateKept /\ UNCHANGED recorded /\ TurnRowsKept

\* The transactions on messages and on the room row.
LEMMA MessageRowsKept ==
    ASSUME StoreTypeOK,
           \/ UNCHANGED storeVars \/ StoreFails
           \/ \E m : \/ AcceptMessage(m) \/ AppendNote(m) \/ BeginDispatch(m)
                     \/ FailDispatch(m) \/ MarkNeedsReview(m) \/ SetRoomStatus(m)
                     \/ BindThread(m) \/ RepairThread(m)
           \/ \E c \in Controls : \E t : AcceptControl(c, t)
           \/ \E c, x : FinishControl(c, x) \/ FinishTurn(c, x) \/ RetryPrompt(c, x)
                        \/ RetryControl(c, x) \/ SkipReviewed(c, x)
           \/ \E c, x, y : ContinueReviewed(c, x, y)
           \/ MarkThreadNeedsRepair \/ ResetUnusedThread
    PROVE  RowsKept
<1> USE DEF RowsKept, PrivateKept
<1>0. mturn \in [Msgs -> 0..MaxTurns] /\ Work \subseteq Msgs /\ Work \cap Controls = {}
  BY StoreAssumption DEF StoreTypeOK, Msgs
<1>1. UNCHANGED mturn => TurnRowsKept
  BY DEF TurnRowsKept
<1>2. CASE UNCHANGED storeVars \/ StoreFails
  BY <1>1, <1>2 DEF storeVars, messageRows, privateRows, StoreFails
<1>3. CASE \E m : \/ AcceptMessage(m) \/ AppendNote(m) \/ BeginDispatch(m) \/ FailDispatch(m)
                  \/ MarkNeedsReview(m)
  BY <1>1, <1>3 DEF AcceptMessage, AppendNote, BeginDispatch, FailDispatch, MarkNeedsReview,
     MoveMessage, privateRows
<1>4. CASE \/ \E m : SetRoomStatus(m) \/ BindThread(m) \/ RepairThread(m)
           \/ MarkThreadNeedsRepair \/ ResetUnusedThread
  BY <1>1, <1>4 DEF SetRoomStatus, BindThread, RepairThread, MarkThreadNeedsRepair,
     ResetUnusedThread, messageRows, privateRows
<1>5. ASSUME NEW c \in Controls, NEW t, AcceptControl(c, t) PROVE RowsKept
  BY <1>0, <1>5 DEF AcceptControl, TurnRowsKept, privateRows
<1>6. CASE \E c, x : FinishControl(c, x) \/ FinishTurn(c, x)
  BY <1>1, <1>6 DEF FinishControl, FinishTurn, MoveMessage, privateRows
<1>7. ASSUME NEW r, NEW m, RetryPrompt(r, m) PROVE RowsKept
  BY <1>0, <1>7 DEF RetryPrompt, Decided, TurnRowsKept, privateRows
<1>8. CASE \E c, x : RetryControl(c, x) \/ SkipReviewed(c, x)
  BY <1>1, <1>8 DEF RetryControl, SkipReviewed, Decided, privateRows
<1>9. CASE \E c, x, y : ContinueReviewed(c, x, y)
  BY <1>1, <1>9 DEF ContinueReviewed, Decided, privateRows
<1> QED
  BY <1>2, <1>3, <1>4, <1>5, <1>6, <1>7, <1>8, <1>9

\* The other transactions.
LEMMA OtherRowsKept ==
    /\ \A m, t : BindRunningTurn(m, t) => PrivateKept /\ UNCHANGED recorded
    /\ \A t : RecordCompletedItem(t) => PrivateKept /\ TurnRowsKept
    /\ \A th, T : BeginPrivateTurn(th, T) \/ EndPrivateTurn(th, T)
                     => UNCHANGED recorded /\ TurnRowsKept
    /\ \A th, T, R : ClosePrivateTurns(th, T, R) => UNCHANGED recorded /\ TurnRowsKept
<1>1. \A m, t : BindRunningTurn(m, t) => PrivateKept /\ UNCHANGED recorded
  BY DEF BindRunningTurn, MoveMessage, PrivateKept, privateRows
<1>2. \A t : RecordCompletedItem(t) => PrivateKept /\ TurnRowsKept
  BY DEF RecordCompletedItem, PrivateKept, TurnRowsKept, messageRows, privateRows
<1>3. \A th, T : BeginPrivateTurn(th, T) \/ EndPrivateTurn(th, T)
                    => UNCHANGED recorded /\ TurnRowsKept
  BY DEF BeginPrivateTurn, EndPrivateTurn, TurnRowsKept, messageRows
<1>4. \A th, T, R : ClosePrivateTurns(th, T, R) => UNCHANGED recorded /\ TurnRowsKept
  BY <1>3 DEF ClosePrivateTurns, storeVars, messageRows, TurnRowsKept
<1> QED
  BY <1>1, <1>2, <1>3, <1>4

\* Which handlers bind a turn, record an item or write the journal.
RowsStep ==
    \/ RowsKept
    \/ BindTurn /\ PrivateKept /\ UNCHANGED recorded
    \/ (OnItem \/ ReconcileItems) /\ PrivateKept /\ TurnRowsKept
    \/ /\ (\E q \in Questions : Ask(q)) \/ AskUndo \/ OnQuestionEnd \/ ReconcilePrivate
       /\ UNCHANGED recorded /\ TurnRowsKept

LEMMA NextRows == ASSUME TypeOK, [Next]_vars PROVE RowsStep
<1> USE MessageRowsKept, OtherRowsKept DEF RowsStep
<1>0. StoreTypeOK
  BY DEF TypeOK
<1>1. CASE (\E m \in Prompts : Submit(m)) \/ \E n \in Notes : Note(n)
  BY <1>0, <1>1 DEF Submit, Note
<1>2. CASE (\E c \in Controls, t \in 1..nturn : Control(c, t)) \/ \E r \in Recovers : Resolve(r)
  BY <1>0, <1>2 DEF Control, Resolve
<1>3. CASE \E q \in Questions : Ask(q)
  BY <1>3 DEF Ask
<1>4. CASE OnIgnored \/ OnTurnEnd \/ OnFault \/ OnUnavailable \/ OnReady
  BY <1>0, <1>4 DEF OnIgnored, OnTurnEnd, OnFault, OnUnavailable, OnReady
<1>5. CASE OnItem \/ ReconcileItems
  BY <1>0, <1>5 DEF OnItem, ReconcileItems
<1>6. CASE OnQuestionEnd \/ AskUndo \/ ReconcilePrivate
  BY <1>0, <1>6 DEF OnQuestionEnd, AskUndo, ReconcilePrivate
<1>7. CASE BindTurn
  BY <1>0, <1>7 DEF BindTurn
<1>8. CASE \/ DispatchNext \/ StartTurn \/ FailTurn \/ ReviewTurn \/ ReviewStatus \/ SendControl
           \/ EndControl
  BY <1>0, <1>8 DEF DispatchNext, StartTurn, FailTurn, ReviewTurn, ReviewStatus, SendControl,
     EndControl
<1>9. CASE ResolveLoad \/ RetryCall \/ RetryFinish \/ ResolveReload \/ ResolveReady
  BY <1>0, <1>9 DEF ResolveLoad, RetryCall, RetryFinish, ResolveReload, ResolveReady
<1>10. CASE RecoverLoad \/ MarkRepair \/ SetRecovering \/ StartThread \/ BindNewThread
  BY <1>0, <1>10 DEF RecoverLoad, MarkRepair, SetRecovering, StartThread, BindNewThread
<1>11. CASE ReadThread \/ ResumeThread \/ SettleActive \/ ReconcileControls \/ Recovered
  BY <1>0, <1>11 DEF ReadThread, ResumeThread, SettleActive, ReconcileControls, Recovered
<1>12. CASE AskTurn \/ FaultReady \/ FaultStatus \/ LostTurn
  BY <1>0, <1>12 DEF AskTurn, FaultReady, FaultStatus, LostTurn
<1>13. CASE Owner
  BY <1>0, <1>13 DEF Owner, RepairMark, RepairCreate, RepairBind, RepairBegins, RepairUse, ResetAtStartup
<1>14. CASE AppServer \/ StartDaemon \/ StartupRecover \/ Exit \/ Crash \/ UNCHANGED vars
  BY <1>0, <1>14 DEF AppServer, StartDaemon, StartupRecover, Exit, Crash, DaemonGone, vars
<1> QED
  BY <1>1, <1>2, <1>3, <1>4, <1>5, <1>6, <1>7, <1>8, <1>9, <1>10, <1>11, <1>12, <1>13, <1>14
     DEF Next, Client, HandleEvent, Continue

\* How the App Server's turns move.
TurnsStep ==
    \/ UNCHANGED <<nturn, alive, tstate, towner, tthread>>
    \/ StartTurn /\ NewTurn(active, threadID)
    \/ AskTurn /\ NewTurn(call.msg, threadID)
    \/ AppServer /\ \E t \in alive, how \in Endings : TurnEnds(t, how)
    \/ (AppServer \/ Exit \/ Crash) /\ ProcessGone

\* The calls that leave the turns alone.
LEMMA CallKeepsTurns ==
    ASSUME \/ UNCHANGED agentVars \/ UNCHANGED turnVars \/ Taken
           \/ CallNotSent \/ CallDone \/ CallUnknown \/ CallTimedOut
           \/ ThreadStarted \/ ThreadStartLost \/ ThreadStartTimedOut
           \/ \E l : ControlCall(l)
           \/ SessionReplaced
           \/ \E t : ItemCompletes(t) \/ AgentFault(t)
    PROVE  UNCHANGED <<nturn, alive, tstate, towner, tthread>>
<1>1. CallNotSent \/ CallDone \/ CallUnknown \/ CallTimedOut => UNCHANGED turnVars
  BY DEF CallNotSent, CallDone, CallUnknown, CallTimedOut, agentVars
<1> QED
  BY <1>1 DEF agentVars, turnVars, Taken, ThreadStarted, ThreadStartLost, ThreadStartTimedOut,
     ControlCall, SessionReplaced, ItemCompletes, AgentFault

LEMMA NextTurns == ASSUME TypeOK, [Next]_vars PROVE TurnsStep
<1> USE CallKeepsTurns DEF TurnsStep
<1>1. CASE Client
  BY <1>1 DEF Client, Submit, Note, Control, Resolve, Ask
<1>2. CASE HandleEvent
  BY <1>2 DEF HandleEvent, OnIgnored, OnItem, OnTurnEnd, OnFault, OnQuestionEnd, OnUnavailable,
     OnReady
<1>3. CASE StartTurn
  BY <1>3 DEF StartTurn, TurnStarted, TurnStartLost, TurnStartTimedOut
<1>4. CASE AskTurn
  BY <1>4 DEF AskTurn, TurnStarted, TurnStartLost, TurnStartTimedOut
<1>5. CASE DispatchNext \/ BindTurn \/ FailTurn \/ ReviewTurn \/ ReviewStatus \/ SendControl \/ EndControl
  BY <1>5 DEF DispatchNext, BindTurn, FailTurn, ReviewTurn, ReviewStatus, SendControl, EndControl
<1>6. CASE ResolveLoad \/ RetryCall \/ RetryFinish \/ ResolveReload \/ ResolveReady
  BY <1>6 DEF ResolveLoad, RetryCall, RetryFinish, ResolveReload, ResolveReady
<1>7. CASE RecoverLoad \/ MarkRepair \/ SetRecovering \/ StartThread \/ BindNewThread
  BY <1>7 DEF RecoverLoad, MarkRepair, SetRecovering, StartThread, BindNewThread
<1>8. CASE ReadThread \/ ResumeThread \/ ReconcilePrivate \/ ReconcileItems
  BY <1>8 DEF ReadThread, ResumeThread, ReconcilePrivate, ReconcileItems
<1>9. CASE SettleActive \/ ReconcileControls \/ Recovered \/ AskUndo \/ FaultReady \/ FaultStatus \/ LostTurn
  BY <1>9 DEF SettleActive, ReconcileControls, Recovered, AskUndo, FaultReady, FaultStatus, LostTurn
<1>10. CASE Owner
  BY <1>10 DEF Owner, RepairMark, RepairCreate, RepairBind, RepairBegins, RepairUse, ResetAtStartup
<1>11. CASE AppServer
  BY <1>11 DEF AppServer, SessionDies
<1>12. CASE StartDaemon \/ StartupRecover \/ UNCHANGED vars
  BY <1>12 DEF StartDaemon, StartupRecover, vars
<1>13. CASE Exit \/ Crash
  BY <1>13 DEF Exit, Crash, DaemonGone
<1> QED
  BY <1>1, <1>2, <1>3, <1>4, <1>5, <1>6, <1>7, <1>8, <1>9, <1>10, <1>11, <1>12, <1>13
     DEF Next, Continue

\* How the fields move that name a turn, a question or a thread.
FieldsStep ==
    /\ \/ activeTurn' \in {activeTurn, 0}
       \/ ReadsImage
       \/ BindTurn /\ activeTurn' = call.turn
    /\ UNCHANGED questionVars \/ question' = NoMsg \/ AskTurn
    /\ UNCHANGED threadID \/ ReadsImage \/ BindNewThread \/ Exit \/ Crash

LEMMA NextFields == ASSUME [Next]_vars PROVE FieldsStep
<1> USE DEF FieldsStep, stateVars, activeVars, questionVars
<1>1. CASE Client
  BY <1>1 DEF Client, Submit, Note, Control, Resolve, Ask
<1>2. CASE Owner \/ AppServer \/ StartDaemon \/ StartupRecover \/ UNCHANGED vars
  BY <1>2 DEF Owner, Offline, RepairMark, RepairCreate, RepairBind, RepairBegins, RepairUse, ResetAtStartup, AppServer,
     StartDaemon, StartupRecover, vars
<1>3. CASE OnIgnored \/ OnItem \/ OnTurnEnd \/ OnFault
  BY <1>3 DEF OnIgnored, OnItem, OnTurnEnd, OnFault, NoActive
<1>4. CASE OnQuestionEnd \/ OnUnavailable \/ OnReady
  BY <1>4 DEF OnQuestionEnd, OnUnavailable, OnReady
<1>5. CASE DispatchNext \/ StartTurn \/ BindTurn
  BY <1>5 DEF DispatchNext, StartTurn, BindTurn
<1>6. CASE FailTurn \/ ReviewTurn \/ ReviewStatus \/ SendControl \/ EndControl
  BY <1>6 DEF FailTurn, ReviewTurn, ReviewStatus, SendControl, EndControl, NoActive
<1>7. CASE RetryCall \/ RetryFinish \/ ResolveReady
  BY <1>7 DEF RetryCall, RetryFinish, ResolveReady
<1>8. CASE ResolveLoad \/ ResolveReload \/ RecoverLoad
  BY <1>8 DEF ResolveLoad, ResolveReload, RecoverLoad, ReadsImage
<1>9. CASE MarkRepair \/ SetRecovering \/ StartThread \/ BindNewThread
  BY <1>9 DEF MarkRepair, SetRecovering, StartThread, BindNewThread
<1>10. CASE ReadThread \/ ResumeThread \/ ReconcilePrivate \/ ReconcileItems
  BY <1>10 DEF ReadThread, ResumeThread, ReconcilePrivate, ReconcileItems
<1>11. CASE SettleActive \/ ReconcileControls \/ Recovered
  BY <1>11 DEF SettleActive, ReconcileControls, Recovered, NoActive
<1>12. CASE AskTurn \/ AskUndo \/ FaultReady \/ FaultStatus \/ LostTurn
  BY <1>12 DEF AskTurn, AskUndo, FaultReady, FaultStatus, LostTurn
<1>13. CASE Exit \/ Crash
  BY <1>13 DEF Exit, Crash, DaemonGone, NoActive
<1> QED
  BY <1>1, <1>2, <1>3, <1>4, <1>5, <1>6, <1>7, <1>8, <1>9, <1>10, <1>11, <1>12, <1>13
     DEF Next, Continue, HandleEvent

\* recover forgets what it was told when it leaves its links.
HistStep ==
    \/ hist' = ZeroMemory.hist
    \/ /\ hist' = Told /\ CallDone
       /\ \/ ReadThread /\ call'.pc = "resumeThread"
          \/ ResumeThread /\ call'.pc = "private"
    \/ UNCHANGED hist /\ (call.pc \notin HistLabels \/ call'.pc \in HistLabels)

LEMMA NextHist == ASSUME TypeOK, [Next]_vars PROVE HistStep
<1> USE PcAfter, LabelsType DEF HistStep, HistLabels
<1>1. CASE Client \/ Owner \/ HandleEvent \/ StartDaemon \/ StartupRecover
  <2>1. UNCHANGED hist
    BY <1>1 DEF Client, Submit, Note, Control, Resolve, Ask, Owner, Offline, RepairMark,
       RepairCreate, RepairBind, RepairBegins, RepairUse, ResetAtStartup, HandleEvent, OnIgnored, OnItem, OnTurnEnd,
       OnFault, OnQuestionEnd, OnUnavailable, OnReady, StartDaemon, StartupRecover
  <2> QED
    BY <1>1, <2>1, InputAtIdle
<1>2. CASE AppServer \/ UNCHANGED vars
  BY <1>2 DEF AppServer, vars
<1>3. CASE \/ DispatchNext \/ StartTurn \/ BindTurn \/ FailTurn \/ ReviewTurn
           \/ ReviewStatus \/ SendControl \/ EndControl \/ ResolveLoad \/ RetryCall
           \/ RetryFinish \/ ResolveReload \/ ResolveReady
  BY <1>3 DEF At, DispatchNext, StartTurn, BindTurn, FailTurn, ReviewTurn, ReviewStatus,
     SendControl, EndControl, ResolveLoad, RetryCall, RetryFinish, ResolveReload,
     ResolveReady
<1>4. CASE RecoverLoad \/ SetRecovering \/ StartThread \/ BindNewThread
  BY <1>4 DEF At, RecoverLoad, SetRecovering, StartThread, BindNewThread
<1>5. CASE ReadThread \/ ResumeThread
  BY <1>5 DEF At, ReadThread, ResumeThread
<1>6. CASE MarkRepair \/ ReconcilePrivate \/ ReconcileItems \/ SettleActive
  BY <1>6 DEF At, MarkRepair, ReconcilePrivate, ReconcileItems, SettleActive
<1>7. CASE \/ ReconcileControls \/ Recovered \/ AskTurn \/ AskUndo \/ FaultReady
           \/ FaultStatus \/ LostTurn
  BY <1>7 DEF At, ReconcileControls, Recovered, AskTurn, AskUndo, FaultReady, FaultStatus, LostTurn
<1>8. CASE Exit \/ Crash
  BY <1>8 DEF Exit, Crash, DaemonGone
<1> QED
  BY <1>1, <1>2, <1>3, <1>4, <1>5, <1>6, <1>7, <1>8 DEF Next, Continue

\* Turns keep their owner and thread, and what is lost stays lost; the only new
\* private turn is the one startQuestion starts.
TurnsKept ==
    /\ nturn' \in Nat /\ nturn <= nturn'
    /\ \A t \in 1..nturn : /\ towner'[t] = towner[t] /\ tthread'[t] = tthread[t]
                           /\ tstate[t] = "lost" => tstate'[t] = "lost"
    /\ \/ QuestionTurns' = QuestionTurns
       \/ /\ AskTurn /\ nturn' = nturn + 1 /\ tthread'[nturn'] = threadID
          /\ QuestionTurns' = QuestionTurns \cup {nturn'}
    /\ \A t \in alive' : tstate'[t] # "lost"

LEMMA NextTurnsKept ==
    ASSUME TypeOK, \A t \in alive : tstate[t] # "lost", [Next]_vars PROVE TurnsKept
<1>0. /\ nturn \in Nat /\ MaxTurns \in Nat /\ nturn <= MaxTurns /\ alive \subseteq Turns
      /\ tstate \in [Turns -> TurnStates]
      /\ towner \in [Turns -> Msgs \cup Questions \cup {NoMsg}]
      /\ tthread \in [Turns -> 0..MaxThreads]
      /\ Turns = 1..MaxTurns
  BY StoreAssumption DEF TypeOK, AgentTypeOK, Turns
<1>1. CASE UNCHANGED <<nturn, alive, tstate, towner, tthread>>
  BY <1>0, <1>1 DEF TurnsKept, QuestionTurns
<1>2. ASSUME NEW o, NEW th, NewTurn(o, th)
      PROVE  /\ nturn' \in Nat /\ nturn' = nturn + 1 /\ nturn' \in Turns
             /\ \A t \in 1..nturn : /\ towner'[t] = towner[t] /\ tthread'[t] = tthread[t]
                                    /\ tstate'[t] = tstate[t]
             /\ towner'[nturn'] = o /\ tthread'[nturn'] = th
             /\ \A t \in alive' : tstate'[t] # "lost"
  <2>1. /\ nturn' = nturn + 1 /\ nturn' \in Turns /\ nturn' \in Nat
        /\ \A t \in 1..nturn : t \in Turns /\ t # nturn'
    BY <1>0, <1>2 DEF NewTurn
  <2>2. /\ towner' = [towner EXCEPT ![nturn'] = o] /\ tthread' = [tthread EXCEPT ![nturn'] = th]
        /\ tstate' = [tstate EXCEPT ![nturn'] = "running"] /\ alive' = alive \cup {nturn'}
    BY <1>2 DEF NewTurn
  <2>3. \A t \in alive' : tstate'[t] # "lost"
    BY <1>0, <2>1, <2>2
  <2> QED
    BY <1>0, <2>1, <2>2, <2>3
<1>3. CASE StartTurn /\ NewTurn(active, threadID)
  <2>1. active \notin Questions
    BY AgentAssumption DEF TypeOK, MemoryTypeOK, Msgs
  <2>2. QuestionTurns' = QuestionTurns
    BY <1>0, <1>2, <1>3, <2>1 DEF QuestionTurns
  <2> QED
    BY <1>0, <1>2, <1>3, <2>2 DEF TurnsKept
<1>4. CASE AskTurn /\ NewTurn(call.msg, threadID)
  <2>1. call.msg \in Questions
    BY <1>4 DEF AskTurn, TypeOK, HandlerTypeOK
  <2>2. QuestionTurns' = QuestionTurns \cup {nturn'}
    BY <1>0, <1>2, <1>4, <2>1 DEF QuestionTurns
  <2> QED
    BY <1>0, <1>2, <1>4, <2>2 DEF TurnsKept
<1>5. ASSUME NEW t \in alive, NEW how \in Endings, TurnEnds(t, how) PROVE TurnsKept
  <2>1. UNCHANGED <<nturn, towner, tthread>> /\ alive' = alive \ {t}
        /\ tstate' = [tstate EXCEPT ![t] = how]
    BY <1>5 DEF TurnEnds
  <2> QED
    BY <1>0, <2>1 DEF TurnsKept, QuestionTurns
<1>6. CASE ProcessGone
  <2>1. PICK f \in [alive -> Fates] :
           tstate' = [t \in Turns |-> IF t \in alive THEN f[t] ELSE tstate[t]]
    BY <1>6 DEF ProcessGone
  <2>2. UNCHANGED <<nturn, towner, tthread>> /\ alive' = {}
    BY <1>6 DEF ProcessGone
  <2> QED
    BY <1>0, <2>1, <2>2 DEF TurnsKept, QuestionTurns
<1> QED
  BY <1>1, <1>3, <1>4, <1>5, <1>6, NextTurns DEF TurnsStep

\* What a memory of history contains after each kind of step.
LEMMA InHistoryAfter ==
    ASSUME TypeOK, HistStep
    PROVE  /\ \/ InHistory' \subseteq InHistory
              \/ /\ hist' = Told /\ CallDone /\ (ReadThread \/ ResumeThread)
                 /\ InHistory' = InHistory \cup History(threadID)
           /\ hist' = ZeroMemory.hist => InHistory' = {}
<1>0. hist \in [Turns -> SUBSET HistoryMarks] /\ History(threadID) \subseteq Turns
  BY StoreAssumption DEF TypeOK, HandlerTypeOK, AgentTypeOK, History, Turns
<1>1. hist' = ZeroMemory.hist => InHistory' = {}
  BY DEF ZeroMemory, InHistory
<1>2. UNCHANGED hist => InHistory' = InHistory
  BY DEF InHistory
<1>3. hist' = Told => InHistory' = InHistory \cup History(threadID)
  BY <1>0 DEF Told, InHistory
<1> QED
  BY <1>1, <1>2, <1>3 DEF HistStep

\* recover's memory of history stays what it is.
LEMMA HistoryStep == ASSUME TypeOK, HistoryInv, [Next]_vars PROVE HistoryInv'
<1> USE DEF At
<1>0. HistStep /\ TurnsKept /\ Flow /\ FieldsStep
  BY NextHist, NextTurnsKept, NextFlow, NextFields DEF HistoryInv
<1>1. call'.pc \notin HistLabels => InHistory' = {}
  BY <1>0, InHistoryAfter DEF HistStep, HistoryInv, HistLabels, InHistory
<1>2. ASSUME call'.pc \in {"resumeThread", "private", "items"}
      PROVE  /\ \/ UNCHANGED call /\ (AppServer \/ ReconcileItems \/ UNCHANGED vars)
                \/ ReadThread \/ ResumeThread \/ ReconcilePrivate
             /\ UNCHANGED <<threadID, nturn>>
             /\ \A t \in 1..nturn : tthread'[t] = tthread[t]
  <2>1. \/ UNCHANGED call /\ (AppServer \/ ReconcileItems \/ UNCHANGED vars)
        \/ ReadThread \/ ResumeThread \/ ReconcilePrivate
    BY <1>0, <1>2, InputAtIdle DEF Flow, ReconcileControls
  <2>2. UNCHANGED threadID
    BY <2>1 DEF AppServer, ReconcileItems, vars, ReadThread, ResumeThread, ReconcilePrivate, stateVars
  <2>3. UNCHANGED nturn
    BY <1>2, <2>1, NextTurns DEF TurnsStep, StartTurn, AskTurn, TurnEnds, ProcessGone, ReadThread,
       ResumeThread, ReconcilePrivate
  <2> QED
    BY <1>0, <2>1, <2>2, <2>3 DEF TurnsKept
<1>3. ASSUME call'.pc \in {"resumeThread", "private", "items"}, NEW t \in InHistory'
      PROVE  t \in 1..nturn' /\ tthread'[t] = threadID'
  <2>1. t \in InHistory => t \in 1..nturn /\ tthread[t] = threadID
    BY <1>2, <1>3 DEF HistoryInv, HistLabels, ReadThread, ResumeThread, ReconcilePrivate
  <2>2. t \in History(threadID) => t \in 1..nturn /\ tthread[t] = threadID
    BY DEF History
  <2> QED
    BY <1>0, <1>2, <1>3, <2>1, <2>2, InHistoryAfter
<1>4. ASSUME call'.pc = "private" PROVE History(threadID)' \subseteq InHistory'
  <2>1. CASE ResumeThread
    <3>1. hist' = Told /\ CallDone
      BY <1>4, <2>1, PcAfter, LabelsType DEF ResumeThread
    <3>2. History(threadID)' = History(threadID)
      BY <1>4, <1>2, <3>1 DEF CallDone, agentVars, turnVars, History
    <3>3. InHistory' = InHistory \cup History(threadID)
      <4>1. hist \in [Turns -> SUBSET HistoryMarks] /\ History(threadID) \subseteq Turns
        BY StoreAssumption DEF TypeOK, HandlerTypeOK, AgentTypeOK, History, Turns
      <4> QED
        BY <3>1, <4>1 DEF Told, InHistory
    <3> QED
      BY <3>2, <3>3
  <2>2. CASE UNCHANGED call /\ (AppServer \/ UNCHANGED vars)
    <3>1. InHistory' = InHistory /\ History(threadID) \subseteq InHistory
      BY <1>4, <2>2 DEF HistoryInv, AppServer, vars, InHistory
    <3>2. \A u \in 1..nturn : tstate[u] = "lost" => tstate'[u] = "lost"
      BY <1>0 DEF TurnsKept
    <3>3. History(threadID)' \subseteq History(threadID)
      BY <1>2, <1>4, <3>2 DEF History
    <3> QED
      BY <3>1, <3>3
  <2> QED
    BY <1>2, <1>4, <2>1, <2>2, PcAfter, LabelsType, NextFlow
       DEF Flow, ReadThread, ReconcilePrivate, ReconcileItems
<1>5. \A t \in alive' : tstate'[t] # "lost"
  BY <1>0 DEF TurnsKept
<1> QED
  BY <1>1, <1>3, <1>4, <1>5 DEF HistoryInv

\* The turns that are named stay turns of prompts.
LEMMA NamedStep ==
    ASSUME TypeOK, NamedTurns, HistoryInv, JournalInv, [Next]_vars PROVE NamedTurns'
<1> USE DEF At
<1>0. TurnsKept /\ RowsStep /\ FieldsStep
  BY NextTurnsKept, NextRows, NextFields DEF HistoryInv
<1>1. \A t : RoomTurn(t) => RoomTurn(t)'
  <2>1. nturn \in Nat
    BY DEF TypeOK, AgentTypeOK
  <2> QED
    BY <1>0, <2>1 DEF RoomTurn, TurnsKept
<1>2. ASSUME NEW t \in recorded' PROVE RoomTurn(t)
  <2>1. CASE t \in recorded
    BY <2>1 DEF NamedTurns
  <2>2. ASSUME OnItem, RecordCompletedItem(activeTurn), activeTurn # 0 PROVE RoomTurn(t)
    BY <1>2, <2>1, <2>2 DEF NamedTurns, RecordCompletedItem
  <2>3. ASSUME OnItem PROVE RoomTurn(t)
    <3>1. PICK e \in Received :
             /\ e.kind = "item" /\ ~Ignored(e)
             /\ RecordCompletedItem(e.turn) \/ StoreFails
      BY <2>3 DEF OnItem
    <3>2. e.turn \in Turns
      BY <3>1, TurnEventType
    <3>3. e.turn = activeTurn /\ e.turn # 0
      BY <3>1, <3>2, StoreAssumption DEF Ignored, ForActive, Turns
    <3>4. StoreFails => UNCHANGED recorded
      BY DEF StoreFails, storeVars
    <3> QED
      BY <1>2, <2>1, <2>2, <2>3, <3>1, <3>3, <3>4
  <2>4. ASSUME ReconcileItems, t \notin recorded PROVE RoomTurn(t)
    <3>1. t \in MissingItems /\ call.pc = "items"
      <4>1. \/ UNCHANGED recorded
            \/ \E u \in MissingItems : recorded' = recorded \cup {u}
        BY <2>4 DEF ReconcileItems, RecordCompletedItem, StoreFails, storeVars
      <4> QED
        BY <1>2, <2>4, <4>1 DEF ReconcileItems
    <3>2. t \in InHistory /\ t \notin hidden
      BY <3>1 DEF MissingItems, InHistory
    <3> QED
      BY <3>1, <3>2 DEF HistoryInv, JournalInv, QuestionTurns, RoomTurn
  <2> QED
    BY <1>0, <1>2, <2>1, <2>3, <2>4 DEF RowsStep, RowsKept
<1>3. ASSUME NEW m \in Work, mturn'[m] # 0 PROVE RoomTurn(mturn'[m])
  <2>1. CASE TurnRowsKept
    BY <1>3, <2>1 DEF TurnRowsKept, NamedTurns
  <2>2. CASE BindTurn
    <3>1. mturn \in [Msgs -> 0..MaxTurns] /\ Work \subseteq Msgs
      BY DEF TypeOK, StoreTypeOK, Msgs
    <3>2. \/ mturn' = [mturn EXCEPT ![active] = call.turn]
          \/ UNCHANGED mturn
      BY <2>2 DEF BindTurn, BindRunningTurn, StoreFails, storeVars, messageRows
    <3> QED
      BY <1>3, <2>2, <3>1, <3>2 DEF BindTurn, NamedTurns
  <2> QED
    BY <1>0, <2>1, <2>2 DEF RowsStep, RowsKept
<1>4. ASSUME activeTurn' # 0 PROVE RoomTurn(activeTurn')
  <2>1. CASE ReadsImage
    <3>1. PICK m \in FirstAccepted(LiveWork) : activeTurn' = IF m = NoMsg THEN 0 ELSE mturn[m]
      BY <2>1 DEF ReadsImage, LoadImage
    <3>2. m # NoMsg => m \in Work
      BY <3>1 DEF FirstAccepted, LiveWork
    <3> QED
      BY <1>4, <3>1, <3>2 DEF NamedTurns
  <2>2. CASE BindTurn /\ activeTurn' = call.turn
    BY <2>2 DEF BindTurn, NamedTurns
  <2> QED
    BY <1>0, <1>4, <2>1, <2>2 DEF FieldsStep, NamedTurns
<1>5. ASSUME call'.pc = "bindTurn" PROVE RoomTurn(call.turn)'
  <2>1. \/ StartTurn
        \/ UNCHANGED call /\ (AppServer \/ UNCHANGED vars)
    BY <1>5, NextFlow, InputAtIdle DEF Flow, ReconcileItems, ReconcileControls
  <2>2. CASE UNCHANGED call
    BY <1>1, <1>5, <2>2 DEF NamedTurns
  <2>3. CASE StartTurn
    <3>0. call \in CallRecords
      BY DEF TypeOK, HandlerTypeOK
    <3>1. TurnStarted(active, threadID) /\ call' = [call EXCEPT !.pc = "bindTurn", !.turn = nturn']
      <4>1. call' # [call EXCEPT !.pc = "failDispatch", !.expired = TRUE]
        BY <1>5, <3>0 DEF CallRecords
      <4>2. call' # [call EXCEPT !.pc = "review", !.expired = TRUE]
        BY <1>5, <3>0 DEF CallRecords
      <4> QED
        BY <1>5, <2>3, <4>1, <4>2, PcAfter, LabelsType DEF StartTurn
    <3>2. call'.turn = nturn'
      BY <3>0, <3>1 DEF CallRecords
    <3>3. active \notin Questions
      BY AgentAssumption DEF TypeOK, MemoryTypeOK, Msgs
    <3>4. nturn' \in 1..nturn' /\ towner'[nturn'] = active
      <4>1. nturn \in 0..MaxTurns /\ towner \in [Turns -> Msgs \cup Questions \cup {NoMsg}]
        BY DEF TypeOK, AgentTypeOK
      <4>2. nturn' = nturn + 1 /\ nturn < MaxTurns /\ towner' = [towner EXCEPT ![nturn'] = active]
        BY <3>1 DEF TurnStarted, NewTurn
      <4> QED
        BY <4>1, <4>2, StoreAssumption DEF Turns
    <3> QED
      BY <3>2, <3>3, <3>4 DEF RoomTurn
  <2> QED
    BY <2>1, <2>2, <2>3
<1> QED
  BY <1>1, <1>2, <1>3, <1>4, <1>5 DEF NamedTurns, RoomTurn

\* The parts of JournalInv, for the proof that a step keeps them.
JournalRows ==
    /\ \A t \in QuestionTurns : tthread[t] # 0 /\ (Guarded(t) \/ tstate[t] = "lost")
    /\ \A t \in QuestionTurns \cap InHistory : Guarded(t)
    /\ baseline \subseteq 1..nturn
    /\ question # NoMsg => \A t \in QuestionTurns \ {questionTurn} : Closed(t)

\* Steps that leave the journal alone and start no private turn.
LEMMA KeptRows ==
    ASSUME TypeOK, JournalInv, PrivateKept, TurnsKept, HistStep, FieldsStep, ~AskTurn
    PROVE  JournalRows'
<1>0. /\ nturn \in Nat /\ nturn' \in Nat /\ nturn <= nturn'
      /\ QuestionTurns' = QuestionTurns /\ QuestionTurns \subseteq 1..nturn
      /\ \A t \in 1..nturn : tthread'[t] = tthread[t] /\ (tstate[t] = "lost" => tstate'[t] = "lost")
  BY DEF TurnsKept, TypeOK, AgentTypeOK, QuestionTurns
<1>1. \A t \in 1..nturn : (Guarded(t) => Guarded(t)') /\ (Closed(t) => Closed(t)')
  BY <1>0 DEF Guarded, Closed, PrivateKept
<1>2. \A t \in QuestionTurns : tthread'[t] # 0 /\ (Guarded(t)' \/ tstate'[t] = "lost")
  BY <1>0, <1>1 DEF JournalInv
<1>3. \A t \in QuestionTurns \cap InHistory' : Guarded(t)'
  <2>1. \A t \in QuestionTurns \cap History(threadID) : Guarded(t)
    BY DEF JournalInv, History
  <2> QED
    BY <1>0, <1>1, <2>1, InHistoryAfter DEF JournalInv
<1>4. baseline' \subseteq 1..nturn'
  BY <1>0 DEF JournalInv, PrivateKept
<1>5. question' # NoMsg => \A t \in QuestionTurns \ {questionTurn'} : Closed(t)'
  BY <1>0, <1>1 DEF FieldsStep, questionVars, JournalInv
<1> QED
  BY <1>0, <1>2, <1>3, <1>4, <1>5 DEF JournalRows

\* startQuestion has made the frontier durable before it starts the turn.
LEMMA AskTurnRows ==
    ASSUME TypeOK, HistoryInv, JournalInv, AskTurn, TurnsKept PROVE JournalRows'
<1>0. /\ nturn \in Nat /\ nturn' \in Nat /\ nturn <= nturn' /\ QuestionTurns \subseteq 1..nturn
      /\ \A t \in 1..nturn : tthread'[t] = tthread[t] /\ (tstate[t] = "lost" => tstate'[t] = "lost")
      /\ call.pc = "askTurn" /\ PrivateKept
  BY DEF TurnsKept, TypeOK, AgentTypeOK, QuestionTurns, AskTurn, At, PrivateKept, storeVars, privateRows
<1>1. \A t \in 1..nturn : (Guarded(t) => Guarded(t)') /\ (Closed(t) => Closed(t)')
  BY <1>0 DEF Guarded, Closed, PrivateKept
<1>2. InHistory' = {}
  BY <1>0 DEF HistoryInv, HistLabels, AskTurn, InHistory
<1>3. question = NoMsg /\ frontier = threadID /\ threadID # 0 /\ baseline \subseteq 1..nturn
      /\ \A t \in QuestionTurns : Closed(t)
  BY <1>0 DEF JournalInv, At
<1>4. \A t \in QuestionTurns : tthread'[t] # 0 /\ (Guarded(t)' \/ tstate'[t] = "lost")
  BY <1>0, <1>1 DEF JournalInv
<1>5. CASE QuestionTurns' = QuestionTurns
  <2>1. question' # NoMsg => \A t \in QuestionTurns : Closed(t)'
    BY <1>0, <1>1, <1>3
  <2> QED
    BY <1>0, <1>2, <1>3, <1>4, <1>5, <2>1 DEF JournalRows, PrivateKept
<1>6. CASE /\ nturn' = nturn + 1 /\ tthread'[nturn'] = threadID
           /\ QuestionTurns' = QuestionTurns \cup {nturn'}
  <2>1. tthread'[nturn'] # 0 /\ Guarded(nturn)'
    BY <1>0, <1>3, <1>6 DEF Guarded, PrivateKept
  <2>2. UNCHANGED questionVars \/ questionTurn' = nturn'
    BY DEF AskTurn
  <2>3. question' # NoMsg => \A t \in QuestionTurns' \ {questionTurn'} : Closed(t)'
    BY <1>0, <1>1, <1>3, <1>6, <2>2 DEF questionVars
  <2> QED
    BY <1>0, <1>2, <1>3, <1>4, <1>6, <2>1, <2>3 DEF JournalRows, PrivateKept
<1> QED
  BY <1>5, <1>6 DEF TurnsKept

\* Ask writes the frontier where every earlier private turn is accounted for.
LEMMA AskRows ==
    ASSUME TypeOK, ImageInv, ThreadInv, HistoryInv, JournalInv, NEW q \in Questions, Ask(q)
    PROVE  /\ JournalRows' /\ question' = NoMsg /\ frontier' = threadID' /\ threadID' # 0
           /\ \A t \in QuestionTurns' : Closed(t)'
<1>0. /\ UNCHANGED <<nturn, tstate, towner, tthread, threadID, question, questionTurn, hist, hidden>>
      /\ frontier = 0 /\ frontier' = threadID /\ baseline' = History(threadID)
      /\ question = NoMsg /\ status = "ready" /\ call.pc = "idle"
  BY DEF Ask, BeginPrivateTurn, agentVars, turnVars, stateVars, questionVars, Serving, At
<1>1. threadID # 0
  BY <1>0 DEF ThreadInv, MustBeBound, ImageInv, Loaded
<1>2. \A t \in QuestionTurns : tthread[t] # 0 /\ Closed(t)
  BY <1>0 DEF JournalInv, Guarded, Closed
<1>3. QuestionTurns' = QuestionTurns /\ \A t \in QuestionTurns : Closed(t)'
  BY <1>0, <1>2 DEF QuestionTurns, Closed
<1>4. InHistory' = {}
  BY <1>0 DEF HistoryInv, HistLabels, InHistory
<1>5. baseline' \subseteq 1..nturn'
  BY <1>0 DEF History
<1>6. \A t \in QuestionTurns : tthread'[t] # 0 /\ (Guarded(t)' \/ tstate'[t] = "lost")
  BY <1>0, <1>2, <1>3 DEF Closed, Guarded
<1> QED
  BY <1>0, <1>1, <1>3, <1>4, <1>5, <1>6 DEF JournalRows

\* When every private turn is closed the frontier may go.
LEMMA ClosedRows ==
    ASSUME JournalInv, UNCHANGED <<nturn, tstate, towner, tthread>>, InHistory' = {},
           \A t \in QuestionTurns : Closed(t)', baseline' \subseteq 1..nturn'
    PROVE  JournalRows'
<1>1. QuestionTurns' = QuestionTurns
  BY DEF QuestionTurns
<1>2. \A t \in QuestionTurns : tthread'[t] # 0 /\ (Guarded(t)' \/ tstate'[t] = "lost")
  BY DEF JournalInv, Closed, Guarded
<1> QED
  BY <1>1, <1>2 DEF JournalRows

\* The question is over: its turn was not started, or is hidden now.
LEMMA EndRows ==
    ASSUME TypeOK, HistoryInv, JournalInv, AskUndo \/ OnQuestionEnd
    PROVE  JournalRows' \/ PrivateKept
<1> SUFFICES ASSUME ~PrivateKept PROVE JournalRows'
  OBVIOUS
<1>1. PICK T : /\ EndPrivateTurn(threadID, T)
               /\ \A t \in QuestionTurns : Closed(t) \/ t \in T
  <2>1. CASE AskUndo
    <3>1. EndPrivateTurn(threadID, {}) /\ call.pc = "askUndo"
      BY <2>1 DEF AskUndo, At, StoreFails, storeVars, privateRows, PrivateKept
    <3> QED
      BY <3>1 DEF JournalInv
  <2>2. CASE OnQuestionEnd
    <3>1. EndPrivateTurn(threadID, {questionTurn})
      BY <2>2 DEF OnQuestionEnd, StoreFails, storeVars, privateRows, PrivateKept
    <3>2. question # NoMsg
      BY <2>2 DEF OnQuestionEnd, ForQuestion
    <3> QED
      BY <3>1, <3>2 DEF JournalInv
  <2> QED
    BY <2>1, <2>2
<1>2. UNCHANGED <<nturn, tstate, towner, tthread, hist>> /\ call.pc \in {"askUndo", "idle"}
  <2>1. HandleEvent => call.pc = "idle"
    BY InputAtIdle
  <2> QED
    BY <2>1 DEF AskUndo, OnQuestionEnd, HandleEvent, At, agentVars, turnVars, Taken
<1>3. InHistory' = {}
  BY <1>2 DEF HistoryInv, HistLabels, InHistory
<1>4. hidden' = hidden \cup T /\ baseline' \subseteq baseline
  BY <1>1 DEF EndPrivateTurn
<1>5. \A t \in QuestionTurns : Closed(t)'
  BY <1>1, <1>2, <1>4 DEF Closed
<1>6. baseline' \subseteq 1..nturn'
  BY <1>2, <1>4 DEF JournalInv
<1> QED
  BY <1>2, <1>3, <1>5, <1>6, ClosedRows

\* reconcileHistory hides what the journal cannot explain.
LEMMA ReconcileRows ==
    ASSUME TypeOK, HistoryInv, JournalInv, ReconcilePrivate, call'.pc = "items"
    PROVE  JournalRows' /\ QuestionTurns' \cap InHistory' \subseteq hidden'
<1>0. /\ ClosePrivateTurns(threadID, InHistory, SeenRunning)
      /\ UNCHANGED <<hist, nturn, tstate, towner, tthread, threadID, question, questionTurn>>
      /\ call.pc = "private"
  BY PcAfter, LabelsType DEF ReconcilePrivate, At, agentVars, turnVars, stateVars, questionVars
<1>1. QuestionTurns' = QuestionTurns /\ InHistory' = InHistory /\ QuestionTurns \subseteq 1..nturn
  BY <1>0 DEF QuestionTurns, InHistory
<1>2. History(threadID) \subseteq InHistory /\ \A t \in InHistory : tthread[t] = threadID
  BY <1>0 DEF HistoryInv, At
<1>3. CASE frontier = threadID
  <2>1. hidden' = hidden \cup (InHistory \ baseline) /\ frontier' = 0 /\ baseline' = {}
    BY <1>0, <1>3 DEF ClosePrivateTurns, EndPrivateTurn, Unexplained
  <2>2. \A t \in QuestionTurns : Guarded(t) => t \in hidden' \/ tstate[t] = "lost"
    BY <1>1, <1>2, <1>3, <2>1 DEF Guarded, History
  <2>3. \A t \in QuestionTurns \cap InHistory : t \in hidden'
    BY <1>3, <2>1 DEF JournalInv, Guarded
  <2>4. question' # NoMsg => \A t \in QuestionTurns \ {questionTurn'} : Closed(t)'
    BY <1>0, <2>1 DEF JournalInv, Closed
  <2>5. \A t \in QuestionTurns : tthread'[t] # 0 /\ (Guarded(t)' \/ tstate'[t] = "lost")
    BY <1>0, <2>2 DEF JournalInv, Guarded
  <2>6. \A t \in QuestionTurns \cap InHistory : Guarded(t)'
    BY <2>3 DEF Guarded
  <2> QED
    BY <1>1, <2>1, <2>3, <2>4, <2>5, <2>6 DEF JournalRows
<1>4. CASE frontier # threadID
  <2>1. UNCHANGED <<frontier, baseline, hidden>>
    BY <1>0, <1>4 DEF ClosePrivateTurns, storeVars, privateRows
  <2>2. \A t \in QuestionTurns \cap InHistory : t \in hidden
    BY <1>2, <1>4 DEF JournalInv, Guarded
  <2>3. \A t \in QuestionTurns : (Guarded(t)' <=> Guarded(t)) /\ (Closed(t)' <=> Closed(t))
    BY <1>0, <2>1 DEF Guarded, Closed
  <2>4. JournalRows'
    BY <1>0, <1>1, <2>1, <2>3 DEF JournalRows, JournalInv
  <2> QED
    BY <1>1, <2>1, <2>2, <2>4
<1> QED
  BY <1>3, <1>4

\* Every step keeps the journal ahead of the private turns.
LEMMA JournalStep ==
    ASSUME TypeOK, ImageInv, ThreadInv, HistoryInv, JournalInv, [Next]_vars PROVE JournalInv'
<1> USE DEF At
<1>0. TurnsKept /\ RowsStep /\ FieldsStep /\ HistStep /\ Flow
  BY NextTurnsKept, NextRows, NextFields, NextHist, NextFlow DEF HistoryInv
<1>1. CASE \E q \in Questions : Ask(q)
  <2>1. call'.pc = "askTurn"
    BY <1>1, PcAfter, LabelsType DEF Ask
  <2> QED
    BY <1>1, <2>1, AskRows DEF JournalInv, JournalRows
<1>2. CASE AskTurn
  <2>1. JournalRows'
    BY <1>0, <1>2, AskTurnRows
  <2>2. call'.pc \in {"idle", "askUndo"}
    BY <1>2, PcAfter, LabelsType DEF AskTurn
  <2>3. call'.pc = "askUndo" => \A t \in QuestionTurns' : Closed(t)'
    <3> SUFFICES ASSUME call'.pc = "askUndo" PROVE \A t \in QuestionTurns' : Closed(t)'
      OBVIOUS
    <3>1. CallNotSent
      BY <1>2, PcAfter DEF AskTurn
    <3>2. UNCHANGED <<nturn, tstate, towner, hidden>>
      BY <1>2, <3>1 DEF CallNotSent, turnVars, AskTurn, storeVars, privateRows
    <3>3. \A t \in QuestionTurns : Closed(t)
      BY <1>2 DEF JournalInv, AskTurn
    <3> QED
      BY <3>2, <3>3 DEF QuestionTurns, Closed
  <2> QED
    BY <2>1, <2>2, <2>3 DEF JournalInv, JournalRows
<1>3. CASE ReconcilePrivate /\ call'.pc = "items"
  BY <1>3, ReconcileRows DEF JournalInv, JournalRows
<1>4. CASE (AskUndo \/ OnQuestionEnd) /\ ~PrivateKept
  <2>1. JournalRows'
    BY <1>4, EndRows
  <2>2. call'.pc \in {"idle", "dispatch"}
    BY <1>4, PcAfter, LabelsType DEF AskUndo, OnQuestionEnd
  <2> QED
    BY <2>1, <2>2 DEF JournalInv, JournalRows
<1>5. ASSUME PrivateKept, ~AskTurn, ~(ReconcilePrivate /\ call'.pc = "items"),
             ~\E q \in Questions : Ask(q)
      PROVE  JournalInv'
  <2>1. JournalRows'
    BY <1>0, <1>5, KeptRows
  <2>2. QuestionTurns' = QuestionTurns
    BY <1>0, <1>5 DEF TurnsKept
  <2>3. ASSUME call'.pc \in {"items", "askTurn", "askUndo"}
        PROVE  UNCHANGED call /\ (AppServer \/ ReconcileItems \/ UNCHANGED vars)
    <3>1. Client /\ call'.pc = "askTurn" => \E q \in Questions : Ask(q)
      <4>1. ASSUME NEW c \in Controls, NEW t, Control(c, t) PROVE call'.pc # "askTurn"
        <5>1. Handler("finishControl", "command", c) \in CallRecords
              /\ Handler("finishControl", "command", c).pc = "finishControl"
          BY HandlerIsCall, LabelsType
        <5>2. call' = [Handler("finishControl", "command", c) EXCEPT !.outcome = "failed"]
                 => call'.pc = "finishControl"
          BY <5>1 DEF CallRecords
        <5> QED
          BY <4>1, <5>2, PcAfter, LabelsType DEF Control
      <4>2. ASSUME NEW r \in Recovers, Resolve(r) PROVE call'.pc # "askTurn"
        <5>1. \E c \in Controls \cup {NoMsg} : AfterDecision(c)
          BY <4>2 DEF Resolve
        <5> QED
          BY <5>1, PcAfter, LabelsType DEF AfterDecision
      <4> QED
        BY <4>1, <4>2, PcAfter, LabelsType, InputAtIdle DEF Client, Submit, Note
    <3> QED
      BY <1>0, <1>5, <2>3, <3>1, InputAtIdle DEF Flow, ReconcileControls
  <2>4. call'.pc = "items" => QuestionTurns' \cap InHistory' \subseteq hidden'
    <3>1. call'.pc = "items" => InHistory' \subseteq InHistory
      BY <1>0, <2>3 DEF HistStep, ZeroMemory, InHistory
    <3> QED
      BY <1>5, <2>2, <2>3, <3>1 DEF JournalInv, PrivateKept
  <2>5. call'.pc = "askTurn" => question' = NoMsg /\ frontier' = threadID' /\ threadID' # 0
    <3> SUFFICES ASSUME call'.pc = "askTurn"
                 PROVE  question' = NoMsg /\ frontier' = threadID' /\ threadID' # 0
      OBVIOUS
    <3>1. UNCHANGED <<question, threadID, call>>
      BY <2>3 DEF AppServer, ReconcileItems, vars, stateVars, questionVars
    <3> QED
      BY <1>5, <3>1 DEF JournalInv, PrivateKept
  <2>6. call'.pc \in {"askTurn", "askUndo"} => \A t \in QuestionTurns' : Closed(t)'
    <3>1. \A t \in QuestionTurns : Closed(t) => Closed(t)'
      BY <1>0, <1>5 DEF TurnsKept, PrivateKept, Closed, QuestionTurns
    <3> QED
      BY <2>2, <2>3, <3>1 DEF JournalInv
  <2> QED
    BY <2>1, <2>4, <2>5, <2>6 DEF JournalInv, JournalRows
<1>6. CASE ReconcilePrivate /\ call'.pc # "items"
  <2>1. PrivateKept
    BY <1>6, PcAfter, LabelsType DEF ReconcilePrivate, StoreFails, storeVars, privateRows, PrivateKept
  <2>2. ~AskTurn /\ ~\E q \in Questions : Ask(q)
    BY <1>6 DEF ReconcilePrivate, AskTurn, Ask, Serving
  <2> QED
    BY <1>5, <1>6, <2>1, <2>2
<1> QED
  BY <1>0, <1>1, <1>2, <1>3, <1>4, <1>5, <1>6 DEF RowsStep, RowsKept

\* The three parts are inductive together.
PrivateInv == NamedTurns /\ HistoryInv /\ JournalInv

LEMMA PrivateAlways == Spec => []PrivateInv
<1>1. Init => PrivateInv
  <2>1. Init => nturn = 0 /\ recorded = {} /\ call.pc = "down" /\ hidden = {} /\ frontier = 0
                /\ baseline = {} /\ activeTurn = 0 /\ question = NoMsg /\ alive = {}
                /\ mturn = [m \in Msgs |-> 0]
    BY DEF Init, StoreInit, AgentInit, Idle
  <2>2. Init => InHistory = {}
    BY DEF Init, ZeroMemory, InHistory
  <2>3. nturn = 0 => QuestionTurns = {}
    BY DEF QuestionTurns
  <2> QED
    BY <2>1, <2>2, <2>3 DEF PrivateInv, NamedTurns, HistoryInv, JournalInv, HistLabels, At, Msgs
<1>2. TypeOK /\ ImageInv /\ ThreadInv /\ PrivateInv /\ [Next]_vars => PrivateInv'
  BY NamedStep, HistoryStep, JournalStep DEF PrivateInv
<1> QED
  BY <1>1, <1>2, TypeCorrect, ImageAlways, ThreadAlways, PTL DEF Spec

\* In every room, wherever the daemon or the App Server dies around a private
\* question: no item of a question's turn is ever in the room's event log.
THEOREM PrivateHiddenAlways == Spec => []PrivateHidden
<1>1. PrivateInv => PrivateHidden
  BY DEF PrivateInv, NamedTurns, RoomTurn, PrivateHidden
<1> QED
  BY <1>1, PrivateAlways, PTL

----------------------------------------------------------------------------
\* ImplementsWorkQueue.

\* A decision has moved the row of the prompt or of a control that memory still
\* holds: nothing is dispatched before the rows are read again.
StaleActive == active # NoMsg /\ mstate[active] \notin LiveStates
StaleControl == \E c \in Controls : pending[c] # "none" /\ ~PendingControl(c)

\* The links at which the prompt at the head of the queue is being sent.
SendLabels == {"startTurn", "bindTurn", "failDispatch", "review"}

Accepted == {m \in Work : mstate[m] # "absent"}
InQueue(m) == \E i \in 1..Len(queue) : queue[i] = m

\* The control handlers are about controls.
MessageInv ==
    /\ call.pc \in {"control", "finishControl", "retry", "retryFinish"} => call.msg \in Controls
    /\ At("resolveLoad") => call.msg \in Controls \cup {NoMsg}

\* What a transaction does to the rows of prompts is a step of the promise.
PromiseStep == [Promise!Next]_(Promise!queueVars)
AbsentKept == \A m \in Msgs : mstate[m] # "absent" => mstate'[m] # "absent"

\* The promise counts as the room does.
LEMMA SameCardinality == \A S : Promise!Cardinality(S) = Cardinality(S)
  BY DEF Promise!Cardinality, Cardinality

\* Rows of prompts and rows of others.
LEMMA PhaseStutters ==
    ASSUME UNCHANGED mseq, \A m \in Work : mstate'[m] = mstate[m] PROVE PromiseStep
  BY DEF PromiseStep, Promise!queueVars

LEMMA MoveIsPromised ==
    ASSUME StoreTypeOK, NEW m, NEW from, NEW to, MoveMessage(m, from, to), to # "absent",
           \/ m \notin Work
           \/ from = {"queued"} /\ to = "dispatching" /\ Promise!Take(m)
           \/ from = {"dispatching"} /\ to \in {"running", "failed"}
           \/ from = {"dispatching", "running"} /\ to = "needs-review"
           \/ from = {"running", "needs-review"} /\ to \in Terminal
    PROVE  PromiseStep /\ AbsentKept
<1>0. /\ mstate \in [Msgs -> RequestStates] /\ Work \subseteq Msgs
      /\ mstate' = [mstate EXCEPT ![m] = to] /\ UNCHANGED mseq /\ mstate[m] \in from
  BY DEF MoveMessage, StoreTypeOK, Msgs
<1>1. AbsentKept
  BY <1>0 DEF AbsentKept
<1>2. CASE m \notin Work
  BY <1>0, <1>1, <1>2, PhaseStutters
<1>3. CASE m \in Work
  <2>1. [n \in Work |-> mstate'[n]] = [[n \in Work |-> mstate[n]] EXCEPT ![m] = to]
    BY <1>0, <1>3
  <2>2. [n \in Work |-> mstate[n]][m] \in from
    BY <1>0, <1>3
  <2>3. CASE Promise!Take(m)
    BY <1>1, <1>3, <2>3 DEF PromiseStep, Promise!Next
  <2>4. CASE from = {"dispatching"} /\ to \in {"running", "failed"}
    BY <1>0, <1>1, <1>3, <2>1, <2>2, <2>4 DEF PromiseStep, Promise!Next, Promise!Start, Promise!Move
  <2>5. CASE from = {"dispatching", "running"} /\ to = "needs-review"
    BY <1>0, <1>1, <1>3, <2>1, <2>2, <2>5 DEF PromiseStep, Promise!Next, Promise!Doubt, Promise!Move
  <2>6. CASE from = {"running", "needs-review"} /\ to \in Terminal
    BY <1>0, <1>1, <1>3, <2>1, <2>2, <2>6 DEF PromiseStep, Promise!Next, Promise!Finish, Promise!Move,
       Promise!Settled, Terminal
  <2> QED
    BY <1>3, <2>3, <2>4, <2>5, <2>6
<1> QED
  BY <1>2, <1>3

\* The decisions about a review.
LEMMA DecisionIsPromised ==
    ASSUME StoreTypeOK, NEW r, NEW m \in Work \cup Controls,
           \/ RetryPrompt(r, m) /\ m \in Work
           \/ RetryControl(r, m) /\ m \in Controls
           \/ SkipReviewed(r, m)
           \/ \E p \in Replacements : ContinueReviewed(r, m, p)
    PROVE  PromiseStep /\ AbsentKept
<1> USE DEF Promise!Next
<1>0. /\ mstate \in [Msgs -> RequestStates] /\ mseq \in [Work -> Nat]
      /\ Work \subseteq Msgs /\ Controls \subseteq Msgs
      /\ Work \cap Controls = {} /\ Replacements \subseteq Work
  BY StoreAssumption DEF StoreTypeOK, Msgs, Work
<1>1. CASE RetryPrompt(r, m) /\ m \in Work
  <2>1. mstate[m] = "needs-review" /\ mstate' = [mstate EXCEPT ![m] = "queued"] /\ UNCHANGED mseq
    BY <1>1 DEF RetryPrompt, Decided
  <2>2. [n \in Work |-> mstate'[n]] = [[n \in Work |-> mstate[n]] EXCEPT ![m] = "queued"]
    BY <1>0, <2>1
  <2>3. AbsentKept
    BY <1>0, <2>1 DEF AbsentKept
  <2> QED
    BY <1>0, <1>1, <2>1, <2>2, <2>3 DEF PromiseStep, Promise!Retry, Promise!Move
<1>2. CASE RetryControl(r, m) /\ m \in Controls
  <2>1. mstate' = [mstate EXCEPT ![m] = "dispatching"] /\ UNCHANGED mseq
    BY <1>2 DEF RetryControl
  <2>2. AbsentKept
    BY <1>0, <2>1 DEF AbsentKept
  <2>3. \A n \in Work : mstate'[n] = mstate[n]
    BY <1>0, <1>2, <2>1
  <2> QED
    BY <2>1, <2>2, <2>3, PhaseStutters
<1>3. CASE SkipReviewed(r, m)
  <2>1. mstate[m] = "needs-review" /\ mstate' = [mstate EXCEPT ![m] = "failed"] /\ UNCHANGED mseq
    BY <1>3 DEF SkipReviewed, Decided
  <2>2. AbsentKept
    BY <1>0, <2>1 DEF AbsentKept
  <2>3. CASE m \notin Work
    BY <1>0, <2>1, <2>2, <2>3, PhaseStutters
  <2>4. CASE m \in Work
    <3>1. [n \in Work |-> mstate'[n]] = [[n \in Work |-> mstate[n]] EXCEPT ![m] = "failed"]
      BY <1>0, <2>1, <2>4
    <3> QED
      BY <1>0, <2>1, <2>2, <2>4, <3>1
         DEF PromiseStep, Promise!Finish, Promise!Move, Promise!Settled
  <2> QED
    BY <2>3, <2>4
<1>4. ASSUME NEW p \in Replacements, ContinueReviewed(r, m, p) PROVE PromiseStep /\ AbsentKept
  <2>1. /\ mstate[m] = "needs-review" /\ mstate[p] = "absent" /\ m # p /\ p \in Work
        /\ mstate' = [mstate EXCEPT ![m] = "failed", ![p] = "queued"]
        /\ mseq' = [mseq EXCEPT ![p] = NextSeq]
    BY <1>0, <1>4 DEF ContinueReviewed, Decided
  <2>2. AbsentKept
    BY <1>0, <2>1 DEF AbsentKept
  <2>3. Promise!Enter(p)
    <3>1. {n \in Work : [k \in Work |-> mstate[k]][n] # "absent"} = {n \in Work : mstate[n] # "absent"}
      OBVIOUS
    <3> QED
      BY <1>0, <2>1, <3>1, SameCardinality DEF Promise!Enter, NextSeq
  <2>4. CASE m \in Work
    <3>1. [n \in Work |-> mstate'[n]]
             = [[n \in Work |-> mstate[n]] EXCEPT ![m] = "failed", ![p] = "queued"]
      BY <1>0, <2>1, <2>4
    <3> QED
      BY <1>0, <2>1, <2>2, <2>3, <2>4, <3>1 DEF PromiseStep, Promise!Replace
  <2>5. CASE m \notin Work
    <3>1. [n \in Work |-> mstate'[n]] = [[n \in Work |-> mstate[n]] EXCEPT ![p] = "queued"]
      BY <1>0, <2>1, <2>5
    <3> QED
      BY <1>0, <2>1, <2>2, <2>3, <3>1 DEF PromiseStep, Promise!Accept
  <2> QED
    BY <2>4, <2>5
<1> QED
  BY <1>1, <1>2, <1>3, <1>4

\* The transactions that neither accept nor dispatch a prompt nor decide on one.
Transacts ==
    \/ UNCHANGED storeVars \/ StoreFails
    \/ \E n \in Notes : AppendNote(n)
    \/ \E c \in Controls : \E t : AcceptControl(c, t)
    \/ FailTurn /\ FailDispatch(active)
    \/ \E m : MarkNeedsReview(m) \/ \E t : BindRunningTurn(m, t)
    \/ \E c \in Controls, o \in {"failed", "completed", "needs-review"} : FinishControl(c, o)
    \/ (OnTurnEnd \/ SettleActive) /\ \E t : \E o \in Terminal : FinishTurn(t, o)
    \/ \E x : RecordCompletedItem(x) \/ SetRoomStatus(x) \/ BindThread(x) \/ RepairThread(x)
    \/ \E x, y : BeginPrivateTurn(x, y) \/ EndPrivateTurn(x, y)
    \/ \E x, y, z : ClosePrivateTurns(x, y, z)
    \/ MarkThreadNeedsRepair \/ ResetUnusedThread

\* They keep the promise, and so does AcceptMessage.
LEMMA RowsArePromised ==
    ASSUME StoreTypeOK, Transacts \/ \E m \in Work : AcceptMessage(m)
    PROVE  PromiseStep /\ AbsentKept
<1>0. /\ mstate \in [Msgs -> RequestStates] /\ mseq \in [Work -> Nat]
      /\ Work \subseteq Msgs /\ Controls \subseteq Msgs /\ Notes \subseteq Msgs
      /\ Work \cap Controls = {} /\ Work \cap Notes = {}
  BY StoreAssumption DEF StoreTypeOK, Msgs
<1>1. UNCHANGED <<mstate, mseq>> => PromiseStep /\ AbsentKept
  BY PhaseStutters DEF AbsentKept
<1>2. CASE UNCHANGED storeVars \/ StoreFails
  BY <1>1, <1>2 DEF storeVars, messageRows, StoreFails
<1>3. ASSUME NEW m \in Work, AcceptMessage(m) PROVE PromiseStep /\ AbsentKept
  <2>1. /\ mstate[m] = "absent" /\ mstate' = [mstate EXCEPT ![m] = "queued"]
        /\ mseq' = [mseq EXCEPT ![m] = NextSeq]
    BY <1>3 DEF AcceptMessage
  <2>2. AbsentKept
    BY <1>0, <2>1 DEF AbsentKept
  <2>3. {n \in Work : [k \in Work |-> mstate[k]][n] # "absent"} = {n \in Work : mstate[n] # "absent"}
    OBVIOUS
  <2>4. [n \in Work |-> mstate'[n]] = [[n \in Work |-> mstate[n]] EXCEPT ![m] = "queued"]
    BY <1>0, <2>1
  <2>5. Promise!Enter(m)
    BY <1>0, <2>1, <2>3, SameCardinality DEF Promise!Enter, NextSeq
  <2> QED
    BY <1>0, <2>1, <2>2, <2>4, <2>5 DEF PromiseStep, Promise!Next, Promise!Accept
<1>4. ASSUME NEW x \in Controls \cup Notes, NEW s, s # "absent",
             mstate' = [mstate EXCEPT ![x] = s], UNCHANGED mseq
      PROVE  PromiseStep /\ AbsentKept
  <2>1. AbsentKept
    BY <1>0, <1>4 DEF AbsentKept
  <2>2. \A n \in Work : mstate'[n] = mstate[n]
    BY <1>0, <1>4
  <2> QED
    BY <1>4, <2>1, <2>2, PhaseStutters
<1>5. CASE (\E n \in Notes : AppendNote(n)) \/ \E c \in Controls : \E t : AcceptControl(c, t)
  BY <1>4, <1>5 DEF AppendNote, AcceptControl
<1>6. CASE \E m : FailDispatch(m) \/ MarkNeedsReview(m) \/ \E t : BindRunningTurn(m, t)
  BY <1>6, MoveIsPromised DEF FailDispatch, MarkNeedsReview, BindRunningTurn
<1>7. CASE \E c \in Controls, o \in {"failed", "completed", "needs-review"} : FinishControl(c, o)
  BY <1>4, <1>7 DEF FinishControl, MoveMessage
<1>8. CASE \E t : \E o \in Terminal : FinishTurn(t, o)
  BY <1>8, MoveIsPromised DEF FinishTurn, Terminal
<1>9. CASE \/ \E x : \/ RecordCompletedItem(x) \/ SetRoomStatus(x) \/ BindThread(x)
                     \/ RepairThread(x)
           \/ MarkThreadNeedsRepair \/ ResetUnusedThread
  BY <1>1, <1>9 DEF RecordCompletedItem, SetRoomStatus, BindThread, RepairThread,
     MarkThreadNeedsRepair, ResetUnusedThread, messageRows
<1>10. CASE \E x, y : BeginPrivateTurn(x, y) \/ EndPrivateTurn(x, y)
  BY <1>1, <1>10 DEF BeginPrivateTurn, EndPrivateTurn, messageRows
<1>11. CASE \E x, y, z : ClosePrivateTurns(x, y, z)
  BY <1>2, <1>10, <1>11 DEF ClosePrivateTurns
<1> QED
  BY <1>2, <1>3, <1>5, <1>6, <1>7, <1>8, <1>9, <1>10, <1>11 DEF Transacts

\* They put no prompt into the queue.
LEMMA QueuedShrinks == ASSUME StoreTypeOK, Transacts PROVE QueuedWork' \subseteq QueuedWork
<1>0. /\ mstate \in [Msgs -> RequestStates] /\ Work \subseteq Msgs
  BY DEF StoreTypeOK, Msgs
<1>1. ASSUME NEW m, NEW s, s # "queued", mstate' = [mstate EXCEPT ![m] = s]
      PROVE  QueuedWork' \subseteq QueuedWork
  BY <1>0, <1>1 DEF QueuedWork
<1>2. UNCHANGED mstate => QueuedWork' \subseteq QueuedWork
  BY DEF QueuedWork
<1>3. CASE UNCHANGED storeVars \/ StoreFails
  BY <1>2, <1>3 DEF storeVars, messageRows, StoreFails
<1>4. CASE (\E n \in Notes : AppendNote(n)) \/ \E c \in Controls : \E t : AcceptControl(c, t)
  BY <1>1, <1>4 DEF AppendNote, AcceptControl
<1>5. CASE \E m : FailDispatch(m) \/ MarkNeedsReview(m) \/ \E t : BindRunningTurn(m, t)
  BY <1>1, <1>5 DEF FailDispatch, MarkNeedsReview, BindRunningTurn, MoveMessage
<1>6. CASE \E c \in Controls, o \in {"failed", "completed", "needs-review"} : FinishControl(c, o)
  BY <1>1, <1>6 DEF FinishControl, MoveMessage
<1>7. CASE \E t : \E o \in Terminal : FinishTurn(t, o)
  BY <1>1, <1>7 DEF FinishTurn, MoveMessage, Terminal
<1>8. CASE \/ \E x : \/ RecordCompletedItem(x) \/ SetRoomStatus(x) \/ BindThread(x)
                     \/ RepairThread(x)
           \/ MarkThreadNeedsRepair \/ ResetUnusedThread
  BY <1>2, <1>8 DEF RecordCompletedItem, SetRoomStatus, BindThread, RepairThread,
     MarkThreadNeedsRepair, ResetUnusedThread, messageRows
<1>9. CASE \E x, y : BeginPrivateTurn(x, y) \/ EndPrivateTurn(x, y)
  BY <1>2, <1>9 DEF BeginPrivateTurn, EndPrivateTurn, messageRows
<1>10. CASE \E x, y, z : ClosePrivateTurns(x, y, z)
  BY <1>3, <1>9, <1>10 DEF ClosePrivateTurns
<1> QED
  BY <1>3, <1>4, <1>5, <1>6, <1>7, <1>8, <1>9, <1>10 DEF Transacts


\* handleControl and resolve start their handlers on what they were asked about.
LEMMA ControlHandler ==
    ASSUME NEW c \in Controls, NEW t, Control(c, t)
    PROVE  call'.pc \in {"control", "finishControl"} /\ call'.msg = c
<1> USE LabelsType
<1>1. /\ Handler("finishControl", "command", c) \in CallRecords
      /\ Handler("finishControl", "command", c).pc = "finishControl"
      /\ Handler("finishControl", "command", c).msg = c
      /\ Handler("control", "command", c).pc = "control"
      /\ Handler("control", "command", c).msg = c
  BY HandlerIsCall
<1>2. call' = [Handler("finishControl", "command", c) EXCEPT !.outcome = "failed"]
         => call'.pc = "finishControl" /\ call'.msg = c
  BY <1>1 DEF CallRecords
<1> QED
  BY <1>1, <1>2 DEF Control

LEMMA ResolveHandler ==
    ASSUME NEW r \in Recovers, Resolve(r), call'.pc = "resolveLoad"
    PROVE  call'.msg \in Controls \cup {NoMsg}
<1> USE LabelsType
<1>1. PICK c \in Controls \cup {NoMsg} : AfterDecision(c)
  BY DEF Resolve
<1>2. call' = Handler("resolveLoad", "command", c)
  BY <1>1, HandlerIsCall DEF AfterDecision
<1>3. Handler("resolveLoad", "command", c).msg = c
  BY HandlerIsCall
<1> QED
  BY <1>2, <1>3

\* A control's handler keeps to its control.
LEMMA MessageStep == ASSUME TypeOK, MessageInv, [Next]_vars PROVE MessageInv'
<1> USE LabelsType DEF At
<1>0. CallOK /\ call \in CallRecords
  BY HandlerTypeSplit DEF TypeOK, HandlerTypeOK
<1>1. CASE UNCHANGED call
  BY <1>1 DEF MessageInv
<1>2. CASE Client
  <2>1. CASE \E c \in Controls, t \in 1..nturn : Control(c, t)
    BY <2>1, ControlHandler DEF MessageInv
  <2>2. CASE \E r \in Recovers : Resolve(r)
    <3>1. call'.pc \in {"resolveLoad", "idle"}
      <4>1. \E c \in Controls \cup {NoMsg} : AfterDecision(c)
        BY <2>2 DEF Resolve
      <4> QED
        BY <4>1, PcAfter, SMTT(20) DEF AfterDecision
    <3> QED
      BY <2>2, <3>1, ResolveHandler DEF MessageInv
  <2>3. CASE (\E m \in Prompts : Submit(m)) \/ (\E n \in Notes : Note(n)) \/ \E q \in Questions : Ask(q)
    BY <1>1, <2>3, PcAfter, SMTT(40) DEF Submit, Note, Ask, MessageInv
  <2> QED
    BY <1>2, <2>1, <2>2, <2>3 DEF Client
<1>3. CASE SendControl \/ RetryCall
  <2>1. ASSUME NEW l \in Labels, ControlCall(l) PROVE call'.msg = call.msg
    BY <1>0, <2>1 DEF ControlCall, CallRecords
  <2>2. call'.msg = call.msg /\ call.msg \in Controls
    <3>1. call' = [call EXCEPT !.pc = "retryFinish", !.outcome = "failed"] => call'.msg = call.msg
      BY <1>0 DEF CallRecords
    <3> QED
      BY <1>3, <2>1, <3>1 DEF SendControl, RetryCall, MessageInv
  <2> QED
    BY <2>2 DEF MessageInv
<1>4. CASE ResolveLoad /\ call'.pc \in {"resolveReady", "retry"}
  <2>1. call'.pc = "retry" => call'.msg = call.msg /\ call.msg # NoMsg
    BY <1>0, <1>4, PcAfter, GotoFields DEF ResolveLoad
  <2> QED
    BY <1>4, <2>1 DEF MessageInv, ResolveLoad
<1> QED
  BY <1>1, <1>2, <1>3, <1>4, NextFlow DEF Flow, MessageInv

\* dispatchNext takes the head of the queue.
Dispatches == DispatchNext /\ CanDispatch /\ BeginDispatch(Head(queue)) /\ active' = Head(queue)

Decides == \E r \in Recovers : Resolve(r)

\* What a step does to the rows.
LEMMA NextTransacts ==
    ASSUME TypeOK, MessageInv, [Next]_vars
    PROVE  Transacts \/ Dispatches \/ Decides \/ \E m \in Prompts : Submit(m)
<1> USE DEF At, Transacts
<1>0. StoreTypeOK /\ Prompts \subseteq Work
  BY DEF TypeOK, Work
<1>1. CASE (\E m \in Prompts : Submit(m)) \/ \E n \in Notes : Note(n)
  BY <1>1 DEF Note
<1>2. CASE (\E c \in Controls, t \in 1..nturn : Control(c, t)) \/ \E q \in Questions : Ask(q)
  BY <1>0, <1>2 DEF Control, Ask
<1>3. CASE \E r \in Recovers : Resolve(r)
  BY <1>3 DEF Decides
<1>4. CASE OnIgnored \/ OnItem \/ OnFault \/ OnQuestionEnd \/ OnUnavailable \/ OnReady
  BY <1>0, <1>4 DEF OnIgnored, OnItem, OnFault, OnQuestionEnd, OnUnavailable, OnReady
<1>5. CASE OnTurnEnd
  <2>1. StoreFails \/ \E t : \E o \in Terminal : FinishTurn(t, o)
    BY <1>5 DEF OnTurnEnd, Terminal
  <2> QED
    BY <1>0, <1>5, <2>1
<1>6. CASE EndControl \/ RetryFinish
  <2>1. call.msg \in Controls /\ call.outcome \in {"failed", "completed", "needs-review"}
    BY <1>6, CallFields DEF EndControl, RetryFinish, MessageInv, TypeOK, HandlerTypeOK, Outcomes
  <2>2. StoreFails \/ FinishControl(call.msg, call.outcome)
    BY <1>6 DEF EndControl, RetryFinish
  <2> QED
    BY <1>0, <2>1, <2>2
<1>7. CASE DispatchNext
  <2>1. UNCHANGED storeVars \/ StoreFails \/ Dispatches
    BY <1>7 DEF DispatchNext, Dispatches
  <2> QED
    BY <1>0, <2>1
<1>8. CASE StartTurn \/ BindTurn \/ FailTurn \/ ReviewTurn \/ ReviewStatus \/ SendControl
  BY <1>0, <1>8 DEF StartTurn, BindTurn, FailTurn, ReviewTurn, ReviewStatus, SendControl
<1>9. CASE ResolveLoad \/ RetryCall \/ ResolveReload \/ ResolveReady
  BY <1>0, <1>9 DEF ResolveLoad, RetryCall, ResolveReload, ResolveReady
<1>10. CASE RecoverLoad \/ MarkRepair \/ SetRecovering \/ StartThread \/ BindNewThread
  BY <1>0, <1>10 DEF RecoverLoad, MarkRepair, SetRecovering, StartThread, BindNewThread
<1>11. CASE ReadThread \/ ResumeThread \/ ReconcilePrivate \/ ReconcileItems
  BY <1>0, <1>11 DEF ReadThread, ResumeThread, ReconcilePrivate, ReconcileItems
<1>12. CASE SettleActive
  <2>1. UNCHANGED storeVars \/ StoreFails \/ MarkNeedsReview(active)
        \/ \E t : \E o \in Terminal : FinishTurn(t, o)
    BY <1>12 DEF SettleActive, ProvenEnd
  <2> QED
    BY <1>0, <1>12, <2>1
<1>13. CASE ReconcileControls \/ Recovered \/ AskTurn \/ AskUndo \/ FaultReady \/ FaultStatus \/ LostTurn
  BY <1>0, <1>13 DEF ReconcileControls, Recovered, AskTurn, AskUndo, FaultReady, FaultStatus, LostTurn
<1>14. CASE Owner
  BY <1>0, <1>14 DEF Owner, RepairMark, RepairCreate, RepairBind, RepairBegins, RepairUse, ResetAtStartup
<1>15. CASE AppServer \/ StartDaemon \/ StartupRecover \/ Exit \/ Crash \/ UNCHANGED vars
  BY <1>0, <1>15 DEF AppServer, StartDaemon, StartupRecover, Exit, Crash, DaemonGone, vars
<1> QED
  BY <1>1, <1>2, <1>3, <1>4, <1>5, <1>6, <1>7, <1>8, <1>9, <1>10, <1>11, <1>12, <1>13, <1>14, <1>15
     DEF Next, Client, HandleEvent, Continue

\* Every step but a dispatch keeps the promise.
LEMMA NextPromised ==
    ASSUME TypeOK, MessageInv, [Next]_vars PROVE (PromiseStep /\ AbsentKept) \/ Dispatches
<1>0. StoreTypeOK /\ Prompts \subseteq Work
  BY DEF TypeOK, Work
<1>1. CASE Transacts \/ \E m \in Prompts : Submit(m)
  BY <1>0, <1>1, RowsArePromised DEF Submit
<1>2. CASE Decides
  BY <1>0, <1>2, DecisionIsPromised DEF Decides, Resolve
<1> QED
  BY <1>1, <1>2, NextTransacts


\* A prompt is numbered once, behind all that were accepted before it.
SeqStep ==
    \/ UNCHANGED mseq /\ Accepted' = Accepted
    \/ \E p \in Work \ Accepted :
          /\ mseq' = [mseq EXCEPT ![p] = 1 + Cardinality(Accepted)]
          /\ Accepted' = Accepted \cup {p}

LEMMA PromiseNumbers == ASSUME StoreTypeOK, AbsentKept, PromiseStep PROVE SeqStep
<1> DEFINE phase == [m \in Work |-> mstate[m]]
<1>0. /\ mstate \in [Msgs -> RequestStates] /\ mseq \in [Work -> Nat] /\ Work \subseteq Msgs
      /\ Accepted \subseteq Accepted'
  BY DEF StoreTypeOK, Msgs, AbsentKept, Accepted
<1>1. Accepted' = {m \in Work : phase'[m] # "absent"} /\ Accepted = {m \in Work : phase[m] # "absent"}
  BY DEF Accepted
<1>2. ASSUME UNCHANGED mseq, NEW m \in Work, NEW s, phase[m] # "absent", phase' = [phase EXCEPT ![m] = s]
      PROVE  SeqStep
  BY <1>0, <1>1, <1>2 DEF SeqStep
<1>3. ASSUME NEW m \in Work, NEW from, NEW to, Promise!Move(m, from, to), "absent" \notin from
      PROVE  SeqStep
  BY <1>2, <1>3 DEF Promise!Move
<1>4. ASSUME NEW p \in Work, Promise!Enter(p),
             \/ phase' = [phase EXCEPT ![p] = "queued"]
             \/ \E m \in Work : phase[m] # "absent" /\ phase' = [phase EXCEPT ![m] = "failed", ![p] = "queued"]
      PROVE  SeqStep
  <2>1. p \notin Accepted /\ mseq' = [mseq EXCEPT ![p] = 1 + Cardinality(Accepted)]
    BY <1>1, <1>4, SameCardinality DEF Promise!Enter
  <2>2. Accepted' = Accepted \cup {p}
    BY <1>0, <1>1, <1>4
  <2> QED
    BY <1>4, <2>1, <2>2 DEF SeqStep
<1>5. CASE \E m \in Work : Promise!Accept(m)
  BY <1>4, <1>5 DEF Promise!Accept
<1>6. CASE \E m \in Work : Promise!Take(m)
  BY <1>2, <1>6 DEF Promise!Take
<1>7. CASE \E m \in Work : Promise!Start(m) \/ Promise!Doubt(m) \/ Promise!Finish(m) \/ Promise!Retry(m)
  BY <1>3, <1>7 DEF Promise!Start, Promise!Doubt, Promise!Finish, Promise!Retry
<1>8. CASE \E m, p \in Work : Promise!Replace(m, p)
  BY <1>4, <1>8 DEF Promise!Replace
<1>9. CASE UNCHANGED <<phase, mseq>>
  BY <1>1, <1>9 DEF SeqStep
<1> QED
  BY <1>5, <1>6, <1>7, <1>8, <1>9 DEF PromiseStep, Promise!Next, Promise!queueVars

\* No number is beyond the count of accepted prompts.
Numbered == \A m \in Accepted : mseq[m] <= Cardinality(Accepted)
LEMMA NumberedStep == ASSUME StoreTypeOK, Numbered, SeqStep PROVE Numbered'
<1>0. mseq \in [Work -> Nat] /\ Accepted \subseteq Work
      /\ IsFiniteSet(Accepted) /\ Cardinality(Accepted) \in Nat
  BY WorkCardinality DEF StoreTypeOK, Accepted
<1>1. CASE UNCHANGED mseq /\ Accepted' = Accepted
  BY <1>1 DEF Numbered
<1>2. ASSUME NEW p \in Work \ Accepted,
             mseq' = [mseq EXCEPT ![p] = 1 + Cardinality(Accepted)],
             Accepted' = Accepted \cup {p}
      PROVE  Numbered'
  <2>1. Cardinality(Accepted') = Cardinality(Accepted) + 1
    BY <1>0, <1>2, FS_AddElement
  <2> QED
    BY <1>0, <1>2, <2>1 DEF Numbered
<1> QED
  BY <1>1, <1>2 DEF SeqStep

\* BeginDispatch numbers nothing.
LEMMA NextNumbers == ASSUME TypeOK, MessageInv, [Next]_vars PROVE SeqStep /\ AbsentKept
<1>0. StoreTypeOK
  BY DEF TypeOK
<1>1. CASE PromiseStep /\ AbsentKept
  BY <1>0, <1>1, PromiseNumbers
<1>2. CASE Dispatches
  <2>1. PICK m : MoveMessage(m, {"queued"}, "dispatching")
    BY <1>2 DEF Dispatches, BeginDispatch
  <2>2. mstate \in [Msgs -> RequestStates] /\ Work \subseteq Msgs
    BY <1>0 DEF StoreTypeOK, Msgs
  <2> QED
    BY <2>1, <2>2 DEF MoveMessage, SeqStep, AbsentKept, Accepted
<1> QED
  BY <1>1, <1>2, NextPromised

\* What LoadRecoveryImage returns for a set of prompts holds all of them.
LEMMA OrderCovers ==
    ASSUME StoreTypeOK, NEW S, S \subseteq Work, NEW q \in InAcceptedOrder(S)
    PROVE  /\ q \in Seq(Work)
           /\ \A i \in 1..Len(q) : q[i] \in S
           /\ \A i, j \in 1..Len(q) : i < j => mseq[q[i]] < mseq[q[j]]
           /\ \A m \in S : \E i \in 1..Len(q) : q[i] = m
<1> DEFINE n == Cardinality(S)
<1>0. /\ IsFiniteSet(S) /\ n \in Nat /\ q \in Seq(Work) /\ mseq \in [Work -> Nat]
      /\ q \in [1..n -> S] /\ \A i, j \in 1..n : i < j => mseq[q[i]] < mseq[q[j]]
  BY WorkCardinality, OrderedIsSeq DEF InAcceptedOrder, StoreTypeOK
<1> HIDE DEF n
<1>1. Len(q) = n /\ 1..Len(q) = 1..n
  BY <1>0, LenProperties
<1>2. \A i, j \in 1..n : q[i] = q[j] => i = j
  <2> SUFFICES ASSUME NEW i \in 1..n, NEW j \in 1..n, q[i] = q[j], i # j PROVE FALSE
    OBVIOUS
  <2>1. mseq[q[i]] \in Nat /\ mseq[q[j]] \in Nat
    BY <1>0
  <2>2. i < j \/ j < i
    BY <1>0
  <2> QED
    BY <1>0, <2>1, <2>2
<1>3. q \in Injection(1..n, S)
  BY <1>0, <1>2 DEF Injection, IsInjective
<1>4. IsFiniteSet(1..n) /\ Cardinality(1..n) = n
  BY <1>0, FS_Interval
<1>5. q \in Surjection(1..n, S)
  BY <1>0, <1>3, <1>4, FS_Surjection, FS_Injection DEF n
<1>6. \A m \in S : \E i \in 1..n : q[i] = m
  BY <1>5 DEF Surjection
<1> QED
  BY <1>0, <1>1, <1>6

\* The queue is appended to, loses its head, is lost or is read.
QueueStep ==
    \/ UNCHANGED queue /\ ~\E m \in Prompts : Submit(m)
    \/ \E m \in Prompts : Submit(m) /\ queue' = Append(queue, m)
    \/ call.pc \in SendLabels /\ queue' = Tail(queue)
    \/ (Exit \/ Crash) /\ queue' = <<>>
    \/ ReadsImage

LEMMA NextQueue == ASSUME [Next]_vars PROVE QueueStep
<1> USE DEF QueueStep
<1>0. UNCHANGED queue => QueueStep
  <2>1. ASSUME NEW m \in Prompts, Submit(m) PROVE queue' = Append(queue, m)
    BY <2>1 DEF Submit
  <2> QED
    BY <2>1
<1>1. CASE Client
  BY <1>0, <1>1 DEF Client, Submit, Note, Control, Resolve, Ask, stateVars
<1>2. CASE Owner \/ AppServer \/ StartDaemon \/ StartupRecover \/ UNCHANGED vars
  BY <1>0, <1>2 DEF Owner, Offline, RepairMark, RepairCreate, RepairBind, RepairBegins, RepairUse, ResetAtStartup,
     AppServer, StartDaemon, StartupRecover, vars, stateVars
<1>3. CASE HandleEvent
  BY <1>0, <1>3 DEF HandleEvent, OnIgnored, OnItem, OnTurnEnd, OnFault, OnQuestionEnd,
     OnUnavailable, OnReady, stateVars
<1>4. CASE DispatchNext \/ StartTurn \/ ReviewStatus \/ SendControl \/ EndControl \/ RetryCall
  BY <1>0, <1>4 DEF DispatchNext, StartTurn, ReviewStatus, SendControl, EndControl, RetryCall,
     stateVars
<1>5. CASE BindTurn \/ FailTurn \/ ReviewTurn
  BY <1>0, <1>5 DEF BindTurn, FailTurn, ReviewTurn, Dequeue, SendLabels, At
<1>6. CASE ResolveLoad \/ ResolveReload \/ RecoverLoad
  BY <1>0, <1>6 DEF ResolveLoad, ResolveReload, RecoverLoad, ReadsImage, stateVars
<1>7. CASE RetryFinish \/ ResolveReady \/ AskTurn \/ AskUndo \/ FaultReady \/ FaultStatus \/ LostTurn
  BY <1>0, <1>7 DEF RetryFinish, ResolveReady, AskTurn, AskUndo, FaultReady, FaultStatus, LostTurn,
     stateVars
<1>8. CASE MarkRepair \/ SetRecovering \/ StartThread \/ BindNewThread \/ ReadThread \/ ResumeThread
  BY <1>0, <1>8 DEF MarkRepair, SetRecovering, StartThread, BindNewThread, ReadThread, ResumeThread,
     stateVars
<1>9. CASE \/ ReconcilePrivate \/ ReconcileItems \/ SettleActive \/ ReconcileControls
           \/ Recovered
  BY <1>0, <1>9 DEF ReconcilePrivate, ReconcileItems, SettleActive, ReconcileControls, Recovered,
     stateVars
<1>10. CASE Exit \/ Crash
  BY <1>10 DEF Exit, Crash, DaemonGone
<1> QED
  BY <1>1, <1>2, <1>3, <1>4, <1>5, <1>6, <1>7, <1>8, <1>9, <1>10 DEF Next, Continue

\* The queue holds accepted prompts in the order of their numbers.
Sorted ==
    /\ \A i \in 1..Len(queue) : queue[i] \in Accepted
    /\ \A i, j \in 1..Len(queue) : i < j => mseq[queue[i]] < mseq[queue[j]]

\* A submitted prompt goes last.
LEMMA SubmitSorted ==
    ASSUME TypeOK, Numbered, Sorted, NEW m \in Prompts, Submit(m), queue' = Append(queue, m)
    PROVE  /\ Sorted' /\ Len(queue') = Len(queue) + 1 /\ queue'[Len(queue) + 1] = m
           /\ \A i \in 1..Len(queue) : i \in 1..Len(queue') /\ queue'[i] = queue[i]
<1>0. /\ queue \in Seq(Work) /\ m \in Work /\ mstate \in [Msgs -> RequestStates] /\ Work \subseteq Msgs
      /\ mseq \in [Work -> Nat] /\ Cardinality(Accepted) \in Nat /\ Accepted \subseteq Work
  BY WorkCardinality DEF TypeOK, MemoryTypeOK, StoreTypeOK, Msgs, Work, Accepted
<1>1. /\ Len(queue) \in Nat /\ Len(queue') = Len(queue) + 1
      /\ queue'[Len(queue) + 1] = m
      /\ \A i \in 1..Len(queue) : queue'[i] = queue[i]
  BY <1>0, AppendProperties, LenProperties
<1>2. /\ m \notin Accepted /\ Accepted' = Accepted \cup {m}
      /\ mseq' = [mseq EXCEPT ![m] = 1 + Cardinality(Accepted)]
  BY <1>0 DEF Submit, AcceptMessage, Accepted, NextSeq
<1>3. \A i \in 1..Len(queue) : /\ queue'[i] \in Accepted /\ mseq'[queue'[i]] = mseq[queue[i]]
                               /\ mseq[queue[i]] \in Nat /\ mseq[queue[i]] <= Cardinality(Accepted)
  BY <1>0, <1>1, <1>2 DEF Sorted, Numbered
<1>4. \A i \in 1..Len(queue') : i \in 1..Len(queue) \/ i = Len(queue) + 1
  BY <1>1
<1>5. mseq'[m] = 1 + Cardinality(Accepted)
  BY <1>0, <1>2
<1>6. \A i \in 1..Len(queue') : queue'[i] \in Accepted'
  BY <1>1, <1>2, <1>3, <1>4
<1>7. ASSUME NEW i \in 1..Len(queue'), NEW j \in 1..Len(queue'), i < j
      PROVE  mseq'[queue'[i]] < mseq'[queue'[j]]
  <2>1. i \in 1..Len(queue)
    BY <1>1, <1>7
  <2>2. CASE j \in 1..Len(queue)
    BY <1>1, <1>3, <1>7, <2>1, <2>2 DEF Sorted
  <2>3. CASE j = Len(queue) + 1
    BY <1>0, <1>1, <1>3, <1>5, <2>1, <2>3
  <2> QED
    BY <1>4, <2>2, <2>3
<1>8. \A i \in 1..Len(queue) : i \in 1..Len(queue')
  BY <1>1
<1> QED
  BY <1>1, <1>6, <1>7, <1>8 DEF Sorted

\* Losing the head.
LEMMA TailElements ==
    ASSUME NEW s \in Seq(Work), s # <<>>
    PROVE  /\ Len(s) \in Nat \ {0} /\ Len(Tail(s)) = Len(s) - 1 /\ Head(s) = s[1]
           /\ \A i \in 1..Len(Tail(s)) : i + 1 \in 1..Len(s) /\ Tail(s)[i] = s[i + 1]
           /\ \A i \in 1..Len(s) : i # 1 => i - 1 \in 1..Len(Tail(s)) /\ Tail(s)[i - 1] = s[i]
<1>1. /\ Len(s) \in Nat \ {0} /\ Len(Tail(s)) = Len(s) - 1 /\ Head(s) = s[1]
      /\ \A i \in 1..Len(Tail(s)) : Tail(s)[i] = s[i + 1]
  BY EmptySeq, HeadTailProperties, LenProperties
<1> QED
  BY <1>1

LEMMA SortedStep ==
    ASSUME TypeOK, Numbered, Sorted, SeqStep, AbsentKept, QueueStep, queue = <<>> => call.pc \notin SendLabels
    PROVE  Sorted'
<1>0. /\ queue \in Seq(Work) /\ Len(queue) \in Nat /\ mseq \in [Work -> Nat]
      /\ Accepted \subseteq Work /\ StoreTypeOK
  BY LenProperties DEF TypeOK, MemoryTypeOK, StoreTypeOK, Accepted
<1>1. \A m \in Accepted : m \in Accepted' /\ mseq'[m] = mseq[m]
  BY <1>0 DEF SeqStep
<1>2. CASE UNCHANGED queue
  BY <1>1, <1>2 DEF Sorted
<1>3. CASE \E m \in Prompts : Submit(m) /\ queue' = Append(queue, m)
  BY <1>3, SubmitSorted
<1>4. CASE call.pc \in SendLabels /\ queue' = Tail(queue)
  <2>1. \A i \in 1..Len(queue') : i \in Int /\ i + 1 \in 1..Len(queue) /\ queue'[i] = queue[i + 1]
    BY <1>0, <1>4, TailElements
  <2>2. \A i \in 1..Len(queue') : queue'[i] \in Accepted' /\ mseq'[queue'[i]] = mseq[queue[i + 1]]
    BY <1>1, <2>1 DEF Sorted
  <2>3. ASSUME NEW i \in 1..Len(queue'), NEW j \in 1..Len(queue'), i < j
        PROVE  mseq'[queue'[i]] < mseq'[queue'[j]]
    <3>1. i + 1 < j + 1
      BY <2>1, <2>3
    <3> QED
      BY <2>1, <2>2, <3>1 DEF Sorted
  <2> QED
    BY <2>2, <2>3 DEF Sorted
<1>5. CASE queue' = <<>>
  BY <1>5, EmptySeq DEF Sorted
<1>6. CASE ReadsImage
  <2>1. queue' \in InAcceptedOrder(QueuedWork) /\ UNCHANGED <<mstate, mseq>> /\ QueuedWork \subseteq Work
    BY <1>6 DEF ReadsImage, LoadImage, storeVars, messageRows, QueuedWork
  <2>2. QueuedWork \subseteq Accepted /\ Accepted' = Accepted
    BY <2>1 DEF QueuedWork, Accepted
  <2>3. /\ \A i \in 1..Len(queue') : queue'[i] \in QueuedWork
        /\ \A i, j \in 1..Len(queue') : i < j => mseq[queue'[i]] < mseq[queue'[j]]
    BY <1>0, <2>1, OrderCovers
  <2> QED
    BY <2>1, <2>2, <2>3 DEF Sorted
<1> QED
  BY <1>2, <1>3, <1>4, <1>5, <1>6 DEF QueueStep

\* While a prompt is being sent it is the head of the queue and dispatching.
Sending ==
    call.pc \in SendLabels => queue # <<>> /\ Head(queue) = active /\ mstate[active] = "dispatching"

LEMMA SendingStep == ASSUME TypeOK, Sending, [Next]_vars PROVE Sending'
<1> SUFFICES ASSUME call'.pc \in SendLabels
             PROVE  queue' # <<>> /\ Head(queue') = active' /\ mstate'[active'] = "dispatching"
  BY DEF Sending
<1>1. \/ DispatchNext
      \/ StartTurn
      \/ UNCHANGED call /\ (AppServer \/ UNCHANGED vars)
  BY NextFlow, InputAtIdle DEF Flow, ReconcileItems, ReconcileControls, At, SendLabels
<1>2. CASE DispatchNext
  <2>1. CanDispatch /\ BeginDispatch(Head(queue)) /\ active' = Head(queue) /\ UNCHANGED queue
    BY <1>2, PcAfter DEF DispatchNext, SendLabels
  <2>2. Head(queue) \in Msgs /\ mstate \in [Msgs -> RequestStates]
    BY <2>1, HeadTailProperties DEF CanDispatch, TypeOK, MemoryTypeOK, StoreTypeOK, Msgs
  <2> QED
    BY <2>1, <2>2 DEF CanDispatch, BeginDispatch, MoveMessage
<1>3. CASE StartTurn
  <2>1. call.pc \in SendLabels
    BY <1>3 DEF StartTurn, At, SendLabels
  <2>2. UNCHANGED <<mstate, active, queue>>
    BY <1>3 DEF StartTurn, storeVars, messageRows, activeVars
  <2> QED
    BY <2>1, <2>2 DEF Sending
<1>4. CASE UNCHANGED call /\ (AppServer \/ UNCHANGED vars)
  <2>1. UNCHANGED <<mstate, active, queue>>
    BY <1>4 DEF AppServer, vars, storeVars, messageRows, stateVars
  <2> QED
    BY <1>4, <2>1 DEF Sending
<1> QED
  BY <1>1, <1>2, <1>3, <1>4

\* A control that memory holds has a row.
HeldControls == \A c \in Controls : pending[c] # "none" => mstate[c] # "absent"

\* The steps that write to the fields about controls.
ControlFields ==
    \/ \E c \in Controls, t \in 1..nturn : Control(c, t)
    \/ EndControl \/ ReconcileControls

\* What a step does to the fields and rows of controls.
LEMMA ControlStep ==
    ASSUME TypeOK, [Next]_vars
    PROVE  \/ ReadsImage
           \/ UNCHANGED pending /\ ControlsKept
           \/ ControlFields
           \/ (Owner \/ Exit \/ Crash) /\ (UNCHANGED pending \/ \A c \in Controls : pending'[c] = "none")
<1> USE ThreadRowUnchanged, ControlRowsKept
<1>0. StoreTypeOK
  BY DEF TypeOK
<1>1. CASE ImageKept
  BY <1>1 DEF ImageKept
<1>2. CASE BindNewThread
  BY <1>0, <1>2 DEF BindNewThread
<1>3. CASE Owner \/ Exit \/ Crash
  BY <1>3 DEF Owner, Offline, RepairMark, RepairCreate, RepairBind, RepairBegins, RepairUse, ResetAtStartup, Exit, Crash,
     DaemonGone, ZeroMemory, stateVars
<1>4. CASE ResolveLoad \/ ResolveReload \/ RecoverLoad
  <2>1. ReadsImage \/ (UNCHANGED pending /\ (StoreFails \/ UNCHANGED storeVars))
    BY <1>4 DEF ResolveLoad, ResolveReload, RecoverLoad, ReadsImage, StoreFails, stateVars
  <2> QED
    BY <1>0, <2>1
<1> QED
  BY <1>1, <1>2, <1>3, <1>4, InputImage, TurnImage, RecoverImage DEF ControlFields, Next, Client, Continue

\* The row and the field of x, which is not settled, are written together.
WritesControl(x, s, p) ==
    /\ x \in Controls => mstate[x] \in {"absent", "running"} \/ PendingControl(x)
    /\ s # "absent"
    /\ mstate' = [mstate EXCEPT ![x] = s]
    /\ pending' = [pending EXCEPT ![x] = p]

LEMMA ControlFieldsStep ==
    ASSUME TypeOK, ControlFields
    PROVE  UNCHANGED <<pending, mstate>> \/ \E x, s, p : WritesControl(x, s, p)
<1>1. ASSUME NEW c \in Controls, NEW t, Control(c, t)
      PROVE  WritesControl(c, "dispatching", "dispatching")
  BY <1>1 DEF Control, AcceptControl, WritesControl
<1>2. CASE EndControl
  <2>1. call.outcome # "absent"
    BY CallFields DEF TypeOK, HandlerTypeOK, Outcomes
  <2>2. CASE StoreFails /\ UNCHANGED pending
    BY <2>2 DEF StoreFails, storeVars, messageRows
  <2>3. ASSUME FinishControl(call.msg, call.outcome), NEW p, pending' = [pending EXCEPT ![call.msg] = p]
        PROVE  WritesControl(call.msg, call.outcome, p)
    BY <2>1, <2>3 DEF FinishControl, MoveMessage, PendingControl, WritesControl
  <2>4. \/ StoreFails /\ UNCHANGED pending
        \/ /\ FinishControl(call.msg, call.outcome)
           /\ \E p : pending' = [pending EXCEPT ![call.msg] = p]
    BY <1>2 DEF EndControl
  <2> QED
    BY <2>2, <2>3, <2>4
<1>3. CASE ReconcileControls
  <2>1. CASE UNCHANGED pending /\ (StoreFails \/ UNCHANGED storeVars)
    BY <2>1 DEF StoreFails, storeVars, messageRows
  <2>2. ASSUME NEW c \in Controls, MarkNeedsReview(c), pending' = [pending EXCEPT ![c] = "needs-review"]
        PROVE  WritesControl(c, "needs-review", "needs-review")
    BY <2>2 DEF MarkNeedsReview, MoveMessage, PendingControl, WritesControl
  <2>3. \/ UNCHANGED pending /\ (StoreFails \/ UNCHANGED storeVars)
        \/ \E c \in Controls : /\ MarkNeedsReview(c)
                               /\ pending' = [pending EXCEPT ![c] = "needs-review"]
    BY <1>3 DEF ReconcileControls
  <2> QED
    BY <2>1, <2>2, <2>3
<1> QED
  BY <1>1, <1>2, <1>3 DEF ControlFields

LEMMA HeldStep == ASSUME TypeOK, HeldControls, AbsentKept, [Next]_vars PROVE HeldControls'
<1>0. /\ pending \in [Controls -> {"none", "dispatching", "needs-review"}]
      /\ mstate \in [Msgs -> RequestStates] /\ Controls \subseteq Msgs
  BY DEF TypeOK, MemoryTypeOK, StoreTypeOK, Msgs
<1>1. CASE UNCHANGED pending \/ \A c \in Controls : pending'[c] = "none"
  BY <1>0, <1>1 DEF HeldControls, AbsentKept
<1>2. CASE ReadsImage
  <2>1. /\ pending' = [c \in Controls |-> IF PendingControl(c) THEN mstate[c] ELSE "none"]
        /\ UNCHANGED mstate
    BY <1>2 DEF ReadsImage, LoadImage, storeVars, messageRows
  <2> QED
    BY <2>1 DEF HeldControls, PendingControl
<1>3. ASSUME NEW x, NEW s, NEW p, WritesControl(x, s, p) PROVE HeldControls'
  BY <1>0, <1>3 DEF HeldControls, WritesControl
<1> QED
  BY <1>1, <1>2, <1>3, ControlStep, ControlFieldsStep

\* While memory is loaded and holds a settled control, it goes on doing so.
LEMMA StaleControlStep ==
    ASSUME TypeOK, ImageInv, HeldControls, StaleControl, [Next]_vars
    PROVE  ReadsImage \/ ~Loaded' \/ StaleControl'
<1>0. /\ pending \in [Controls -> {"none", "dispatching", "needs-review"}]
      /\ mstate \in [Msgs -> RequestStates] /\ Controls \subseteq Msgs
  BY DEF TypeOK, MemoryTypeOK, StoreTypeOK, Msgs
<1>1. PICK c \in Controls : pending[c] # "none" /\ ~PendingControl(c)
  BY DEF StaleControl
<1>2. mstate[c] # "running" /\ mstate[c] # "absent"
  BY <1>1 DEF ImageInv, HeldControls
<1>3. CASE UNCHANGED pending /\ ControlsKept
  BY <1>1, <1>2, <1>3 DEF ControlsKept, StaleControl
<1>4. CASE UNCHANGED <<pending, mstate>>
  BY <1>1, <1>4 DEF StaleControl, PendingControl
<1>5. ASSUME NEW x, NEW s, NEW p, WritesControl(x, s, p) PROVE StaleControl'
  <2>1. x # c
    BY <1>1, <1>2, <1>5 DEF WritesControl
  <2>2. mstate'[c] = mstate[c] /\ pending'[c] = pending[c]
    BY <1>0, <1>5, <2>1 DEF WritesControl
  <2> QED
    BY <1>1, <2>2 DEF StaleControl, PendingControl
<1>6. CASE Owner \/ Exit \/ Crash
  <2>1. call'.pc = "down"
    BY <1>6, InputAtIdle DEF Owner, Offline, RepairMark, RepairCreate, RepairBind, RepairBegins, RepairUse,
       ResetAtStartup, Exit, Crash, DaemonGone, Idle
  <2> QED
    BY <2>1, DownLink DEF At
<1> QED
  BY <1>3, <1>4, <1>5, <1>6, ControlStep, ControlFieldsStep

\* While memory is loaded and holds a settled prompt, it goes on doing so.
LEMMA StaleActiveStep ==
    ASSUME TypeOK, ActiveInv, StaleActive, [Next]_vars
    PROVE  ReadsImage \/ ~Loaded' \/ StaleActive'
<1>0. StoreTypeOK /\ active \in Work /\ active \notin LiveWork /\ active # NoMsg
      /\ Loaded /\ LiveWork = {}
  BY DEF TypeOK, MemoryTypeOK, StaleActive, LiveWork, Loaded, ActiveInv
<1>1. ASSUME StoreStep(Owners), UNCHANGED active PROVE StaleActive'
  <2>1. active \notin LiveWork'
    BY <1>0, <1>1, StoreStepType DEF LiveShrinks
  <2> QED
    BY <1>0, <1>1, <2>1 DEF StaleActive, LiveWork
<1>2. CASE DispatchNext
  <2>1. ~CanDispatch
    BY <1>0 DEF CanDispatch
  <2>2. UNCHANGED storeVars /\ UNCHANGED active
    BY <1>2, <2>1 DEF DispatchNext, activeVars
  <2> QED
    BY <1>1, <2>2 DEF StoreStep
<1>3. CASE FailTurn
  <2>1. ~FailDispatch(active)
    BY <1>0, FailDispatchSettles
  <2>2. UNCHANGED active /\ StoreFails
    BY <1>3, <2>1 DEF FailTurn, activeVars
  <2> QED
    BY <1>1, <2>2, StoreFailsStep
<1>4. ASSUME NEW t, NEW o \in Terminal, FinishTurn(t, o) PROVE FALSE
  BY <1>0, <1>4, FinishTurnType
<1>5. CASE SettleActive \/ OnTurnEnd
  <2>1. UNCHANGED active
    <3>1. CASE SettleActive
      BY <1>4, <3>1 DEF SettleActive, ProvenEnd, activeVars
    <3>2. CASE OnTurnEnd
      BY <1>4, <3>2 DEF OnTurnEnd, activeVars, Terminal
    <3> QED
      BY <1>5, <3>1, <3>2
  <2>2. StoreStep(Owners)
    BY <1>5, NextStoreStep, ReconcileStoreStep, EventStoreStep DEF HandleEvent
  <2> QED
    BY <1>1, <2>1, <2>2
<1>6. CASE StoreStep(Owners) /\ KeepsActive
  BY <1>1, <1>6 DEF KeepsActive
<1>7. CASE ResolveLoad \/ ResolveReload \/ RecoverLoad
  <2>1. ReadsImage \/ (UNCHANGED active /\ (StoreFails \/ UNCHANGED storeVars))
    BY <1>7 DEF ResolveLoad, ResolveReload, RecoverLoad, ReadsImage, StoreFails, stateVars, activeVars
  <2> QED
    BY <1>1, <2>1, StoreFailsStep DEF StoreStep
<1>8. CASE Exit \/ Crash
  <2>1. status' = "boot" /\ active' = NoMsg /\ call'.pc = "down"
    BY <1>8 DEF Exit, Crash, DaemonGone, ZeroMemory, NoActive, Idle
  <2> QED
    BY <2>1 DEF Loaded, LoadedLabels
<1>9. CASE DispatchNext \/ StoreStep(Owners)
  BY <1>2, <1>3, <1>5, <1>6, <1>7, <1>8, <1>9, InputKeeps, TurnKeeps, RecoverKeeps
     DEF Next, Continue, HandleEvent
<1> QED
  BY <1>9, NextStoreStep

\* Every queued prompt is in the queue, or memory is stale.
Covered == \A m \in QueuedWork : InQueue(m)
CoverInv == Loaded => StaleActive \/ StaleControl \/ Covered

\* A decision makes memory stale, or leaves the rows of prompts alone.
LEMMA DecisionCovers ==
    ASSUME TypeOK, ActiveInv, ImageInv, Loaded, Covered, Decides
    PROVE  StaleActive' \/ StaleControl' \/ Covered'
<1>0. /\ mstate \in [Msgs -> RequestStates] /\ Work \subseteq Msgs /\ Controls \subseteq Msgs
      /\ Work \cap Controls = {} /\ Replacements \subseteq Work /\ NoMsg \notin Work
  BY StoreAssumption DEF TypeOK, StoreTypeOK, Msgs, Work
<1>1. PICK r \in Recovers : Resolve(r)
  BY DEF Decides
<1>2. UNCHANGED <<active, pending, queue>>
  BY <1>1 DEF Resolve, activeVars
<1>3. ASSUME NEW m \in Work \cup Controls, mstate[m] = "needs-review",
             mstate'[m] \notin LiveStates
      PROVE  StaleActive' \/ StaleControl'
  <2>1. CASE m \in Work
    <3>1. m = active /\ m # NoMsg
      BY <1>0, <1>3, <2>1 DEF ActiveInv, LiveWork, LiveStates
    <3> QED
      BY <1>2, <1>3, <3>1 DEF StaleActive
  <2>2. CASE m \in Controls
    <3>1. pending[m] # "none"
      BY <1>3, <2>2 DEF ImageInv, PendingControl
    <3> QED
      BY <1>2, <1>3, <2>2, <3>1 DEF StaleControl, PendingControl, LiveStates
  <2> QED
    BY <2>1, <2>2
<1>4. ASSUME NEW m \in Work, RetryPrompt(r, m) PROVE StaleActive' \/ StaleControl'
  BY <1>0, <1>3, <1>4 DEF RetryPrompt, Decided, LiveStates
<1>5. ASSUME NEW m \in Work \cup Controls, SkipReviewed(r, m) PROVE StaleActive' \/ StaleControl'
  BY <1>0, <1>3, <1>5 DEF SkipReviewed, Decided, LiveStates
<1>6. ASSUME NEW m \in Work \cup Controls, NEW p \in Replacements, ContinueReviewed(r, m, p)
      PROVE  StaleActive' \/ StaleControl'
  <2>1. mstate[m] = "needs-review" /\ mstate[p] = "absent"
        /\ mstate' = [mstate EXCEPT ![m] = "failed", ![p] = "queued"]
    BY <1>6 DEF ContinueReviewed, Decided
  <2> QED
    BY <1>0, <1>3, <2>1 DEF LiveStates
<1>7. ASSUME NEW c \in Controls, RetryControl(r, c) PROVE Covered'
  <2>1. mstate' = [mstate EXCEPT ![c] = "dispatching"]
    BY <1>7 DEF RetryControl
  <2>2. QueuedWork' \subseteq QueuedWork
    BY <1>0, <2>1 DEF QueuedWork
  <2> QED
    BY <1>2, <2>2 DEF Covered, InQueue
<1> QED
  BY <1>1, <1>4, <1>5, <1>6, <1>7 DEF Resolve

\* The other steps keep the queue complete.
LEMMA CoveredStep ==
    ASSUME TypeOK, Numbered, Sorted, Sending, Covered, QueueStep,
           Transacts \/ Dispatches \/ \E m \in Prompts : Submit(m),
           ~ReadsImage, ~(Exit \/ Crash)
    PROVE  Covered'
<1>0. /\ StoreTypeOK /\ queue \in Seq(Work) /\ Len(queue) \in Nat
      /\ mstate \in [Msgs -> RequestStates] /\ Work \subseteq Msgs /\ Prompts \subseteq Work
  BY LenProperties DEF TypeOK, MemoryTypeOK, StoreTypeOK, Msgs, Work
<1>1. ASSUME NEW m \in Prompts, Submit(m), queue' = Append(queue, m) PROVE Covered'
  <2>1. QueuedWork' = QueuedWork \cup {m}
    BY <1>0, <1>1 DEF Submit, AcceptMessage, QueuedWork
  <2>2. /\ Len(queue') = Len(queue) + 1 /\ queue'[Len(queue) + 1] = m
        /\ \A i \in 1..Len(queue) : i \in 1..Len(queue') /\ queue'[i] = queue[i]
    BY <1>1, SubmitSorted
  <2>3. Len(queue) + 1 \in 1..Len(queue')
    BY <1>0, <2>2
  <2>4. InQueue(m)'
    BY <2>2, <2>3 DEF InQueue
  <2>5. ASSUME NEW n \in QueuedWork PROVE InQueue(n)'
    <3>1. PICK i \in 1..Len(queue) : queue[i] = n
      BY DEF Covered, InQueue
    <3> QED
      BY <2>2, <3>1 DEF InQueue
  <2> QED
    BY <2>1, <2>4, <2>5 DEF Covered
<1>2. ASSUME ~\E m \in Prompts : Submit(m) PROVE QueuedWork' \subseteq QueuedWork
  <2>1. CASE Transacts
    BY <1>0, <2>1, QueuedShrinks
  <2>2. CASE Dispatches
    <3>1. PICK m : mstate' = [mstate EXCEPT ![m] = "dispatching"]
      BY <2>2 DEF Dispatches, BeginDispatch, MoveMessage
    <3> QED
      BY <1>0, <3>1 DEF QueuedWork
  <2> QED
    BY <1>2, <2>1, <2>2
<1>3. CASE UNCHANGED queue /\ ~\E m \in Prompts : Submit(m)
  BY <1>2, <1>3 DEF Covered, InQueue
<1>4. CASE call.pc \in SendLabels /\ queue' = Tail(queue) /\ ~\E m \in Prompts : Submit(m)
  <2>1. /\ queue # <<>> /\ queue[1] \notin QueuedWork
    BY <1>0, <1>4, TailElements DEF Sending, QueuedWork
  <2> SUFFICES ASSUME NEW m \in QueuedWork PROVE InQueue(m)'
    BY <1>2, <1>4 DEF Covered
  <2>2. PICK i \in 1..Len(queue) : queue[i] = m
    BY DEF Covered, InQueue
  <2>3. i # 1
    BY <2>1, <2>2
  <2>4. i - 1 \in 1..Len(queue') /\ queue'[i - 1] = m
    BY <1>0, <1>4, <2>1, <2>2, <2>3, TailElements
  <2> QED
    BY <2>4 DEF InQueue
<1>5. call.pc \in SendLabels => ~\E m \in Prompts : Submit(m)
  BY DEF SendLabels, Submit, Serving, At
<1> QED
  BY <1>1, <1>3, <1>4, <1>5 DEF QueueStep

LEMMA CoverStep ==
    ASSUME TypeOK, MessageInv, ActiveInv, ImageInv, Numbered, Sorted, Sending, HeldControls, CoverInv,
           [Next]_vars
    PROVE  CoverInv'
<1>1. CASE ReadsImage
  <2>0. StoreTypeOK /\ QueuedWork \subseteq Work
    BY DEF TypeOK, QueuedWork
  <2>1. queue' \in InAcceptedOrder(QueuedWork) /\ QueuedWork' = QueuedWork
    BY <1>1 DEF ReadsImage, LoadImage, storeVars, messageRows, QueuedWork
  <2>2. \A m \in QueuedWork : \E i \in 1..Len(queue') : queue'[i] = m
    BY <2>0, <2>1, OrderCovers
  <2> QED
    BY <2>1, <2>2 DEF CoverInv, Covered, InQueue
<1>2. CASE ~Loaded'
  BY <1>2 DEF CoverInv
<1>3. ASSUME ~ReadsImage, Loaded' PROVE CoverInv'
  <2>1. Loaded
    BY <1>3, LoadedStep
  <2>2. CASE StaleActive
    BY <1>3, <2>2, StaleActiveStep DEF CoverInv
  <2>3. CASE StaleControl
    BY <1>3, <2>3, StaleControlStep DEF CoverInv
  <2>4. CASE Covered
    <3>1. ~(Exit \/ Crash)
      <4>1. ASSUME Exit \/ Crash PROVE ~Loaded'
        <5>1. call'.pc = "down"
          BY <4>1 DEF Exit, Crash, DaemonGone, Idle
        <5> QED
          BY <5>1, DownLink DEF At
      <4> QED
        BY <1>3, <4>1
    <3>2. CASE Decides
      BY <2>1, <2>4, <3>2, DecisionCovers DEF CoverInv
    <3>3. CASE Transacts \/ Dispatches \/ \E m \in Prompts : Submit(m)
      BY <1>3, <2>4, <3>1, <3>3, CoveredStep, NextQueue DEF CoverInv
    <3> QED
      BY <3>2, <3>3, NextTransacts
  <2> QED
    BY <2>1, <2>2, <2>3, <2>4 DEF CoverInv
<1> QED
  BY <1>1, <1>2, <1>3

\* The refinement needs that a prompt that is dispatched is the oldest queued
\* row.  That is not a property of the queue alone: the invariant says when the
\* queue is complete, why it is in order, and what makes memory stale.
QueueInv ==
    MessageInv /\ Numbered /\ Sorted /\ Sending /\ HeldControls /\ CoverInv

LEMMA QueueStepInv ==
    ASSUME TypeOK, ActiveInv, ImageInv, QueueInv, [Next]_vars PROVE QueueInv'
<1>0. StoreTypeOK /\ (queue = <<>> => call.pc \notin SendLabels)
  BY DEF TypeOK, QueueInv, Sending
<1>1. SeqStep /\ AbsentKept
  BY NextNumbers DEF QueueInv
<1>2. MessageInv' /\ Sending' /\ CoverInv'
  BY MessageStep, SendingStep, CoverStep DEF QueueInv
<1>3. Numbered' /\ Sorted' /\ HeldControls'
  BY <1>0, <1>1, NumberedStep, SortedStep, NextQueue, HeldStep DEF QueueInv
<1> QED
  BY <1>2, <1>3 DEF QueueInv

LEMMA QueueAlways == Spec => []QueueInv
<1>1. Init => QueueInv
  <2> SUFFICES ASSUME Init PROVE QueueInv
    OBVIOUS
  <2>1. /\ call.pc = "down" /\ queue = <<>> /\ active = NoMsg /\ status = "boot"
        /\ \A c \in Controls : pending[c] = "none"
        /\ mstate = [m \in Msgs |-> "absent"] /\ Work \subseteq Msgs
    BY DEF Init, StoreInit, Idle, ZeroMemory, Msgs
  <2>2. Accepted = {}
    BY <2>1 DEF Accepted
  <2>3. MessageInv /\ Sending /\ CoverInv
    BY <2>1 DEF MessageInv, Sending, SendLabels, CoverInv, Loaded, LoadedLabels, At
  <2>4. Numbered /\ HeldControls
    BY <2>1, <2>2 DEF Numbered, HeldControls
  <2>5. Sorted
    BY <2>1, EmptySeq DEF Sorted
  <2> QED
    BY <2>3, <2>4, <2>5 DEF QueueInv
<1>2. TypeOK /\ ActiveInv /\ ImageInv /\ QueueInv /\ [Next]_vars => QueueInv'
  BY QueueStepInv
<1> QED
  BY <1>1, <1>2, TypeCorrect, ActiveAlways, ImageAlways, PTL DEF Spec

\* The prompt that dispatchNext takes is the oldest of the queued ones.
LEMMA HeadIsOldest ==
    ASSUME TypeOK, ActiveInv, QueueInv, CanDispatch
    PROVE  /\ Head(queue) \in Work /\ LiveWork = {}
           /\ \A n \in QueuedWork : mseq[Head(queue)] <= mseq[n]
<1>0. /\ queue \in Seq(Work) /\ queue # <<>> /\ mseq \in [Work -> Nat] /\ NoMsg \notin Work
      /\ status = "ready" /\ active = NoMsg /\ NoPending
  BY StoreAssumption DEF TypeOK, MemoryTypeOK, StoreTypeOK, CanDispatch, Msgs
<1>1. Loaded /\ ~StaleActive /\ ~StaleControl
  BY <1>0 DEF Loaded, StaleActive, StaleControl, NoPending
<1>2. LiveWork = {}
  BY <1>0, <1>1 DEF ActiveInv, LiveWork
<1>3. 1 \in 1..Len(queue) /\ Head(queue) = queue[1] /\ Head(queue) \in Work
  BY <1>0, TailElements, HeadTailProperties
<1>4. ASSUME NEW n \in QueuedWork PROVE mseq[Head(queue)] <= mseq[n]
  <2>1. PICK i \in 1..Len(queue) : queue[i] = n
    BY <1>1 DEF QueueInv, CoverInv, Covered, InQueue
  <2>2. mseq[Head(queue)] \in Nat /\ mseq[n] \in Nat
    BY <1>0, <1>3 DEF QueuedWork
  <2>3. i = 1 \/ 1 < i
    OBVIOUS
  <2>4. CASE i = 1
    BY <1>3, <2>1, <2>2, <2>4
  <2>5. CASE 1 < i
    BY <1>3, <2>1, <2>2, <2>5 DEF QueueInv, Sorted
  <2> QED
    BY <2>3, <2>4, <2>5
<1> QED
  BY <1>2, <1>3, <1>4

\* So a dispatch is the promise's Take.
LEMMA DispatchIsPromised ==
    ASSUME TypeOK, ActiveInv, QueueInv, Dispatches PROVE PromiseStep
<1>0. StoreTypeOK /\ mstate \in [Msgs -> RequestStates] /\ Work \subseteq Msgs
  BY DEF TypeOK, StoreTypeOK, Msgs
<1>1. PICK m \in Work : /\ m = Head(queue) /\ LiveWork = {}
                        /\ \A n \in QueuedWork : mseq[m] <= mseq[n]
  BY HeadIsOldest DEF Dispatches
<1>2. MoveMessage(m, {"queued"}, "dispatching")
  BY <1>1 DEF Dispatches, BeginDispatch
<1>3. mstate[m] = "queued" /\ mstate' = [mstate EXCEPT ![m] = "dispatching"] /\ UNCHANGED mseq
  BY <1>2 DEF MoveMessage
<1>4. [n \in Work |-> mstate'[n]] = [[n \in Work |-> mstate[n]] EXCEPT ![m] = "dispatching"]
  BY <1>0, <1>1, <1>3
<1>5. \A n \in Work : [k \in Work |-> mstate[k]][n] \notin {"dispatching", "running", "needs-review"}
  BY <1>1 DEF LiveWork, LiveStates
<1>6. \A n \in Work : [k \in Work |-> mstate[k]][n] = "queued" => mseq[m] <= mseq[n]
  BY <1>1 DEF QueuedWork
<1>7. Promise!Take(m)
  BY <1>1, <1>3, <1>4, <1>5, <1>6 DEF Promise!Take, Promise!Occupying
<1> QED
  BY <1>0, <1>2, <1>7, MoveIsPromised

\* In every room, through crashes, lost calls, failed transactions, decisions
\* and repairs: what happens to the rows of the prompts is what WorkQueue
\* allows.  They are taken one at a time, oldest first, by a room whose memory
\* may be stale; nothing accepted is forgotten and nothing settled comes back.
THEOREM WorkQueueImplemented == Spec => ImplementsWorkQueue
<1>1. Init => Promise!Init
  <2> SUFFICES ASSUME Init PROVE Promise!Init
    OBVIOUS
  <2>1. mstate = [m \in Msgs |-> "absent"] /\ mseq = [m \in Work |-> 0] /\ Work \subseteq Msgs
    BY DEF Init, StoreInit, Msgs
  <2>2. [m \in Work |-> mstate[m]] = [m \in Work |-> "absent"]
    BY <2>1
  <2> QED
    BY <2>1, <2>2 DEF Promise!Init
<1>2. TypeOK /\ ActiveInv /\ QueueInv /\ [Next]_vars => [Promise!Next]_(Promise!queueVars)
  <2> SUFFICES ASSUME TypeOK, ActiveInv, QueueInv, [Next]_vars PROVE PromiseStep
    BY DEF PromiseStep
  <2> QED
    BY NextPromised, DispatchIsPromised DEF QueueInv
<1> QED
  BY <1>1, <1>2, TypeCorrect, ActiveAlways, QueueAlways, PTL
     DEF Spec, ImplementsWorkQueue, Promise!Spec

----------------------------------------------------------------------------
\* NoResend.

TurnsOf(m) == {t \in 1..nturn : towner[t] = m}

\* m has used up the turn its last queueing entitles it to.
Spent(m) == mstate[m] \notin {"absent", "queued"} /\ ~(At("startTurn") /\ m = active)

\* NoResend is not inductive: a prompt that is queued, or about to be sent,
\* gets one more turn, so until then it has one turn less.
ResendInv ==
    /\ IsFiniteSet({r \in Recovers : raction[r] # "none"})
    /\ \A m \in Work :
          /\ Cardinality(TurnsOf(m)) <= 1 + Cardinality(Retries(m))
          /\ ~Spent(m) => Cardinality(TurnsOf(m)) <= Cardinality(Retries(m))

\* A prompt gets a turn where turn/start is sent for it, and only there.
LEMMA TurnsOfStep ==
    ASSUME TypeOK, [Next]_vars, NEW m \in Work
    PROVE  /\ Cardinality(TurnsOf(m)) \in Nat
           /\ \/ TurnsOf(m)' = TurnsOf(m)
              \/ StartTurn /\ m = active /\ Cardinality(TurnsOf(m)') = Cardinality(TurnsOf(m)) + 1
<1>0. /\ nturn \in Nat /\ nturn <= MaxTurns /\ MaxTurns \in Nat /\ Turns = 1..MaxTurns
      /\ towner \in [Turns -> Msgs \cup Questions \cup {NoMsg}]
  BY StoreAssumption DEF TypeOK, AgentTypeOK, Turns
<1>1. IsFiniteSet(TurnsOf(m)) /\ Cardinality(TurnsOf(m)) \in Nat
  <2>1. IsFiniteSet(1..nturn)
    BY <1>0, FS_Interval
  <2>2. TurnsOf(m) \subseteq 1..nturn
    BY DEF TurnsOf
  <2> QED
    BY <2>1, <2>2, FS_Subset, FS_CardinalityType
<1>2. CASE UNCHANGED <<nturn, towner>>
  BY <1>1, <1>2 DEF TurnsOf
<1>3. ASSUME NEW o, NEW th, NewTurn(o, th)
      PROVE  TurnsOf(m)' = (IF o = m THEN TurnsOf(m) \cup {nturn + 1} ELSE TurnsOf(m))
             /\ nturn + 1 \notin TurnsOf(m)
  <2>1. /\ nturn' = nturn + 1 /\ nturn + 1 \in Turns /\ towner' = [towner EXCEPT ![nturn + 1] = o]
    BY <1>0, <1>3 DEF NewTurn
  <2>2. 1..nturn' = (1..nturn) \cup {nturn + 1} /\ nturn + 1 \notin 1..nturn /\ 1..nturn \subseteq Turns
    BY <1>0, <2>1
  <2> QED
    BY <1>0, <2>1, <2>2 DEF TurnsOf
<1>4. CASE StartTurn /\ NewTurn(active, threadID)
  BY <1>1, <1>3, <1>4, FS_AddElement
<1>5. CASE AskTurn /\ NewTurn(call.msg, threadID)
  <2>1. call.msg \in Questions /\ m \notin Questions
    BY <1>5, AgentAssumption DEF AskTurn, TypeOK, HandlerTypeOK, Msgs
  <2> QED
    BY <1>1, <1>3, <1>5, <2>1
<1>6. CASE (\E t \in alive, how \in Endings : TurnEnds(t, how)) \/ ProcessGone
  BY <1>2, <1>6 DEF TurnEnds, ProcessGone
<1> QED
  BY <1>2, <1>4, <1>5, <1>6, NextTurns DEF TurnsStep

\* Only /recover writes to the table of decisions.
LEMMA ReviewRowsKept == ASSUME Transacts PROVE UNCHANGED reviewRows
<1>1. \A x, y : EndPrivateTurn(x, y) => UNCHANGED reviewRows
  BY DEF EndPrivateTurn
<1>2. \A m, f, t : MoveMessage(m, f, t) => UNCHANGED reviewRows
  BY DEF MoveMessage
<1>3. UNCHANGED storeVars => UNCHANGED reviewRows
  BY DEF storeVars
<1> QED
  BY <1>1, <1>2, <1>3 DEF Transacts, StoreFails, AppendNote, AcceptControl, FailDispatch,
     MarkNeedsReview, BindRunningTurn, FinishControl, FinishTurn, RecordCompletedItem,
     SetRoomStatus, BindThread, RepairThread, BeginPrivateTurn, ClosePrivateTurns,
     MarkThreadNeedsRepair, ResetUnusedThread

\* m is queued again by a decision.
RetriedBy(r, m) == Resolve(r) /\ RetryPrompt(r, m)

LEMMA RetriesStep ==
    ASSUME TypeOK, MessageInv, [Next]_vars, NEW m \in Work
    PROVE  \/ Retries(m)' = Retries(m)
           \/ \E r \in Recovers :
                 RetriedBy(r, m) /\ r \notin Retries(m) /\ Retries(m)' = Retries(m) \cup {r}
<1>0. rtarget \in [Recovers -> Msgs \cup {NoMsg}] /\ raction \in [Recovers -> Actions]
      /\ m \notin Controls
  BY StoreAssumption DEF TypeOK, StoreTypeOK
<1>1. CASE UNCHANGED reviewRows
  BY <1>1 DEF reviewRows, Retries
<1>2. CASE Transacts \/ Dispatches \/ \E n \in Prompts : Submit(n)
  BY <1>1, <1>2, ReviewRowsKept DEF Dispatches, BeginDispatch, MoveMessage, Submit, AcceptMessage
<1>3. ASSUME NEW r \in Recovers, NEW n, NEW a, Decided(r, n, a)
      PROVE  /\ r \notin Retries(m)
             /\ Retries(m)' = IF a = "retry" /\ n = m THEN Retries(m) \cup {r} ELSE Retries(m)
  <2>1. /\ raction[r] = "none" /\ raction' = [raction EXCEPT ![r] = a]
        /\ rtarget' = [rtarget EXCEPT ![r] = n]
    BY <1>3 DEF Decided
  <2> QED
    BY <1>0, <2>1 DEF Retries
<1>4. ASSUME NEW r \in Recovers, Resolve(r)
      PROVE  Retries(m)' = Retries(m)
             \/ (RetriedBy(r, m) /\ r \notin Retries(m) /\ Retries(m)' = Retries(m) \cup {r})
  <2>1. CASE \E n \in Work : RetryPrompt(r, n)
    BY <1>3, <1>4, <2>1 DEF RetryPrompt, RetriedBy
  <2>2. CASE \E c \in Controls : RetryControl(r, c)
    BY <1>0, <1>3, <2>2 DEF RetryControl
  <2>3. CASE \E n \in Work \cup Controls : SkipReviewed(r, n) \/ \E p \in Replacements : ContinueReviewed(r, n, p)
    BY <1>3, <2>3 DEF SkipReviewed, ContinueReviewed
  <2> QED
    BY <1>4, <2>1, <2>2, <2>3 DEF Resolve
<1> QED
  BY <1>2, <1>4, NextTransacts DEF Decides

\* Finitely many decisions have been taken.
LEMMA DecisionsStep ==
    ASSUME TypeOK, MessageInv, [Next]_vars, IsFiniteSet({r \in Recovers : raction[r] # "none"})
    PROVE  IsFiniteSet({r \in Recovers : raction'[r] # "none"})
<1> DEFINE D == {r \in Recovers : raction[r] # "none"}
<1>0. raction \in [Recovers -> Actions]
  BY DEF TypeOK, StoreTypeOK
<1>1. CASE UNCHANGED reviewRows
  BY <1>1 DEF reviewRows
<1>2. CASE Transacts \/ Dispatches \/ \E n \in Prompts : Submit(n)
  BY <1>1, <1>2, ReviewRowsKept DEF Dispatches, BeginDispatch, MoveMessage, Submit, AcceptMessage
<1>3. ASSUME NEW r \in Recovers, NEW n, NEW a, Decided(r, n, a)
      PROVE  IsFiniteSet({x \in Recovers : raction'[x] # "none"})
  <2>1. {x \in Recovers : raction'[x] # "none"} \subseteq D \cup {r}
    BY <1>0, <1>3 DEF Decided
  <2>2. IsFiniteSet(D \cup {r})
    BY FS_AddElement
  <2> QED
    BY <2>1, <2>2, FS_Subset
<1>4. CASE Decides
  <2>1. \E r \in Recovers : \E n, a : Decided(r, n, a)
    BY <1>4 DEF Decides, Resolve, RetryPrompt, RetryControl, SkipReviewed, ContinueReviewed
  <2> QED
    BY <1>3, <2>1
<1> QED
  BY <1>2, <1>4, NextTransacts

\* Only a decision to retry it entitles a prompt to another turn.
LEMMA SpentStep ==
    ASSUME TypeOK, MessageInv, [Next]_vars, NEW m \in Work, Spent(m)
    PROVE  Spent(m)' \/ \E r \in Recovers : RetriedBy(r, m)
<1>0. /\ StoreTypeOK /\ mstate \in [Msgs -> RequestStates] /\ Work \subseteq Msgs /\ Controls \subseteq Msgs
      /\ Work \cap Controls = {} /\ Replacements \subseteq Work /\ Prompts \subseteq Work
  BY StoreAssumption DEF TypeOK, StoreTypeOK, Msgs, Work
<1>1. mstate'[m] # "absent"
  BY <1>0, NextNumbers DEF Spent, AbsentKept
<1>2. ASSUME mstate'[m] = "queued" PROVE \E r \in Recovers : RetriedBy(r, m)
  <2>1. m \in QueuedWork' /\ m \notin QueuedWork /\ mstate[m] # "absent"
    BY <1>2 DEF QueuedWork, Spent
  <2>2. ~Transacts
    BY <1>0, <2>1, QueuedShrinks
  <2>3. ~Dispatches
    BY <1>0, <1>2, <2>1 DEF Dispatches, BeginDispatch, MoveMessage, Spent
  <2>4. ASSUME NEW n \in Prompts, Submit(n) PROVE FALSE
    BY <1>0, <1>2, <2>1, <2>4 DEF Submit, AcceptMessage, Spent
  <2>5. PICK r \in Recovers : Resolve(r)
    BY <2>2, <2>3, <2>4, NextTransacts DEF Decides
  <2>6. CASE \E n \in Work : RetryPrompt(r, n)
    <3>1. PICK n \in Work : RetryPrompt(r, n)
      BY <2>6
    <3>2. n = m
      BY <1>0, <1>2, <3>1 DEF RetryPrompt, Spent
    <3> QED
      BY <2>5, <3>1, <3>2 DEF RetriedBy
  <2>7. ASSUME NEW n, RetryControl(r, n) \/ SkipReviewed(r, n) PROVE FALSE
    BY <1>0, <1>2, <2>7 DEF RetryControl, SkipReviewed, Spent
  <2>8. ASSUME NEW n, NEW p \in Replacements, ContinueReviewed(r, n, p) PROVE FALSE
    BY <1>0, <1>2, <2>1, <2>8 DEF ContinueReviewed, Spent
  <2> QED
    BY <2>5, <2>6, <2>7, <2>8 DEF Resolve
<1>3. ASSUME call'.pc = "startTurn", m = active' PROVE FALSE
  <2>1. \/ DispatchNext
        \/ UNCHANGED call /\ (AppServer \/ UNCHANGED vars)
    BY <1>3, NextFlow, InputAtIdle DEF Flow, ReconcileItems, ReconcileControls, At
  <2>2. CASE DispatchNext
    BY <1>3, <2>2, PcAfter DEF DispatchNext, BeginDispatch, MoveMessage, Spent
  <2>3. CASE UNCHANGED call /\ (AppServer \/ UNCHANGED vars)
    BY <1>3, <2>3 DEF AppServer, vars, stateVars, Spent, At
  <2> QED
    BY <2>1, <2>2, <2>3
<1> QED
  BY <1>1, <1>2, <1>3 DEF Spent, At

\* A prompt that was sent has been.
LEMMA SentIsSpent ==
    ASSUME TypeOK, Sending, StartTurn PROVE ~Spent(active) /\ Spent(active)'
<1>0. call \in CallRecords
  BY DEF TypeOK, HandlerTypeOK
<1>1. call.pc = "startTurn" /\ mstate[active] = "dispatching"
  BY DEF StartTurn, At, Sending, SendLabels
<1>2. UNCHANGED <<mstate, active>>
  BY DEF StartTurn, storeVars, messageRows, activeVars
<1>3. call'.pc \in {"bindTurn", "failDispatch", "review"}
  BY <1>0, PcAfter, LabelsType DEF StartTurn, CallRecords
<1> QED
  BY <1>1, <1>2, <1>3 DEF Spent, At

LEMMA ResendStep == ASSUME TypeOK, QueueInv, ResendInv, [Next]_vars PROVE ResendInv'
<1>0. MessageInv /\ Sending
  BY DEF QueueInv
<1>1. IsFiniteSet({r \in Recovers : raction[r] # "none"})'
  BY <1>0, DecisionsStep DEF ResendInv
<1>2. ASSUME NEW m \in Work
      PROVE  /\ Cardinality(TurnsOf(m)') <= 1 + Cardinality(Retries(m)')
             /\ ~Spent(m)' => Cardinality(TurnsOf(m)') <= Cardinality(Retries(m)')
  <2>1. Retries(m) \subseteq {r \in Recovers : raction[r] # "none"}
    BY DEF Retries
  <2>2. IsFiniteSet(Retries(m)) /\ Cardinality(Retries(m)) \in Nat /\ Cardinality(TurnsOf(m)) \in Nat
    BY <2>1, FS_Subset, FS_CardinalityType, TurnsOfStep DEF ResendInv
  <2>3. ASSUME NEW r \in Recovers, RetriedBy(r, m)
        PROVE  /\ Cardinality(TurnsOf(m)') <= 1 + Cardinality(Retries(m)')
               /\ ~Spent(m)' => Cardinality(TurnsOf(m)') <= Cardinality(Retries(m)')
    <3>1. UNCHANGED <<nturn, towner>>
      BY <2>3 DEF RetriedBy, Resolve, agentVars, turnVars
    <3>2. TurnsOf(m)' = TurnsOf(m)
      BY <3>1 DEF TurnsOf
    <3>3. r \notin Retries(m) /\ Retries(m)' = Retries(m) \cup {r}
      <4>0. rtarget \in [Recovers -> Msgs \cup {NoMsg}] /\ raction \in [Recovers -> Actions]
        BY DEF TypeOK, StoreTypeOK
      <4> QED
        BY <2>3, <4>0 DEF RetriedBy, RetryPrompt, Decided, Retries
    <3>4. Cardinality(Retries(m)') = Cardinality(Retries(m)) + 1
      BY <2>2, <3>3, FS_AddElement
    <3> QED
      BY <2>2, <3>2, <3>4 DEF ResendInv
  <2>4. ASSUME Retries(m)' = Retries(m), ~\E r \in Recovers : RetriedBy(r, m)
        PROVE  /\ Cardinality(TurnsOf(m)') <= 1 + Cardinality(Retries(m)')
               /\ ~Spent(m)' => Cardinality(TurnsOf(m)') <= Cardinality(Retries(m)')
    <3>1. CASE TurnsOf(m)' = TurnsOf(m)
      BY <1>0, <2>4, <3>1, SpentStep DEF ResendInv
    <3>2. CASE StartTurn /\ m = active /\ Cardinality(TurnsOf(m)') = Cardinality(TurnsOf(m)) + 1
      <4>1. ~Spent(m) /\ Spent(m)'
        <5>1. UNCHANGED active
          BY <3>2 DEF StartTurn, activeVars
        <5> QED
          BY <1>0, <3>2, <5>1, SentIsSpent DEF Spent
      <4> QED
        BY <2>2, <2>4, <3>2, <4>1 DEF ResendInv
    <3> QED
      BY <3>1, <3>2, TurnsOfStep
  <2> QED
    BY <1>0, <2>3, <2>4, RetriesStep
<1> QED
  BY <1>1, <1>2 DEF ResendInv

LEMMA ResendAlways == Spec => []ResendInv
<1>1. Init => ResendInv
  <2> SUFFICES ASSUME Init PROVE ResendInv
    OBVIOUS
  <2>1. nturn = 0 /\ raction = [r \in Recovers |-> "none"]
    BY DEF Init, StoreInit, AgentInit
  <2>2. {r \in Recovers : raction[r] # "none"} = {} /\ \A m \in Work : TurnsOf(m) = {} /\ Retries(m) = {}
    BY <2>1 DEF TurnsOf, Retries
  <2> QED
    BY <2>2, FS_EmptySet DEF ResendInv
<1>2. TypeOK /\ QueueInv /\ ResendInv /\ [Next]_vars => ResendInv'
  BY ResendStep
<1> QED
  BY <1>1, <1>2, TypeCorrect, QueueAlways, PTL DEF Spec

\* In every room, for any prompt: however often turn/start was lost, refused or
\* timed out, and whatever crashed, no more turns were started for the prompt
\* than one and one for each decision to retry it.
THEOREM NoResendAlways == Spec => []NoResend
<1>1. ResendInv => NoResend
  BY DEF ResendInv, NoResend, TurnsOf
<1> QED
  BY <1>1, ResendAlways, PTL

----------------------------------------------------------------------------
\* NoIdleBacklog.

\* recover has frozen the room and not yet declared it ready.
FrozenLabels ==
    {"markRepair", "setRecovering", "startThread", "bindThread", "readThread", "resumeThread",
     "private", "items", "settle", "controls", "recovered"}

\* The handler looks at the queue before it returns, or the daemon stops.
LooksAtQueue == call.pc \in {"dispatch", "faultReady", "exiting"}

\* Nothing is under way that would look at the queue when it ends; the control
\* being handled does not, so it does not count.
Handled(c) == call.pc \in {"control", "finishControl"} /\ c = call.msg
NothingUnderWay ==
    /\ status = "ready" /\ storeFailures = 0
    /\ active = NoMsg /\ question = NoMsg
    /\ \A c \in Controls : pending[c] = "none" \/ Handled(c)

\* NoIdleBacklog is about the end of a handler; this is about all its links.
BacklogInv ==
    /\ NothingUnderWay => queue = <<>> \/ LooksAtQueue
    /\ At("dispatch") => ~call.expired
    /\ call.pc \in FrozenLabels => status # "ready"

\* The daemon's links and events that do.
UnderWayKept ==
    /\ status' = "ready" => status = "ready"
    /\ active' = NoMsg => active = NoMsg
    /\ question' = NoMsg => question = NoMsg
    /\ storeFailures' = 0 => storeFailures = 0
    /\ \A c \in Controls : pending'[c] = "none" => pending[c] = "none"
    /\ call'.pc \notin {"control", "finishControl"}
LEMMA UnderWayStep == ASSUME UnderWayKept PROVE NothingUnderWay' => NothingUnderWay
<1> SUFFICES ASSUME NothingUnderWay' PROVE NothingUnderWay
  OBVIOUS
<1>1. \A c \in Controls : ~Handled(c)'
  BY DEF Handled, UnderWayKept
<1>2. \A c \in Controls : pending'[c] = "none"
  BY <1>1 DEF NothingUnderWay
<1> QED
  BY <1>2 DEF NothingUnderWay, UnderWayKept

\* Failed transactions stay counted.
LEMMA FailuresStay ==
    ASSUME TypeOK, UNCHANGED storeFailures \/ StoreOk \/ StoreFails
    PROVE  storeFailures' = 0 => storeFailures = 0
  BY DEF TypeOK, HandlerTypeOK, StoreOk, StoreFails

\* Commands.
LEMMA ClientBacklog ==
    ASSUME TypeOK, HeldControls, BacklogInv, Client
    PROVE  NothingUnderWay' => queue' = <<>> \/ LooksAtQueue'
<1> USE PcAfter, LabelsType
<1>0. call.pc = "idle" /\ ~LooksAtQueue /\ \A c : ~Handled(c)
  BY InputAtIdle DEF LooksAtQueue, Handled
<1>1. CASE \E m \in Prompts : Submit(m)
  BY <1>1 DEF Submit, LooksAtQueue
<1>2. CASE (\E n \in Notes : Note(n)) \/ \E q \in Questions : Ask(q)
  <2>1. UnderWayKept /\ UNCHANGED queue
    BY <1>0, <1>2, SMTT(40) DEF Note, Ask, UnderWayKept, stateVars, questionVars, boundVars
  <2> QED
    BY <1>0, <2>1, UnderWayStep DEF BacklogInv
<1>3. ASSUME NEW c \in Controls, NEW t, Control(c, t), NothingUnderWay' PROVE queue' = <<>>
  <2>0. call'.msg = c /\ pending \in [Controls -> {"none", "dispatching", "needs-review"}]
    BY <1>3, ControlHandler DEF TypeOK, MemoryTypeOK
  <2>1. UNCHANGED <<status, active, question, storeFailures, queue>>
        /\ pending' = [pending EXCEPT ![c] = "dispatching"]
    BY <1>3 DEF Control, activeVars, questionVars, boundVars
  <2>2. pending[c] = "none"
    BY <1>3 DEF Control, AcceptControl, HeldControls
  <2>3. ASSUME NEW d \in Controls, d # c PROVE pending[d] = "none"
    BY <1>3, <2>0, <2>1, <2>3 DEF NothingUnderWay, Handled
  <2> QED
    BY <1>0, <1>3, <2>1, <2>2, <2>3 DEF NothingUnderWay, BacklogInv
<1>4. CASE \E r \in Recovers : Resolve(r)
  BY <1>4 DEF Resolve, NothingUnderWay
<1> QED
  BY <1>1, <1>2, <1>3, <1>4 DEF Client

\* Agent events.
LEMMA EventBacklog ==
    ASSUME TypeOK, BacklogInv, HandleEvent
    PROVE  NothingUnderWay' => queue' = <<>> \/ LooksAtQueue'
<1> USE PcAfter, LabelsType
<1>0. call.pc = "idle" /\ ~LooksAtQueue
  BY InputAtIdle DEF LooksAtQueue
<1>1. CASE OnIgnored \/ OnReady
  <2>1. UnderWayKept /\ UNCHANGED queue
    BY <1>0, <1>1 DEF OnIgnored, OnReady, UnderWayKept, stateVars, questionVars, boundVars
  <2> QED
    BY <1>0, <2>1, UnderWayStep DEF BacklogInv
<1>2. CASE OnItem
  <2>1. call' = Exiting \/ (UnderWayKept /\ UNCHANGED queue)
    BY <1>0, <1>2, FailuresStay DEF OnItem, UnderWayKept, stateVars, questionVars
  <2> QED
    BY <1>0, <2>1, UnderWayStep DEF BacklogInv, LooksAtQueue
<1>3. CASE OnTurnEnd
  BY <1>3 DEF OnTurnEnd, AfterTurn, LooksAtQueue
<1>4. CASE OnFault
  BY <1>4 DEF OnFault, LooksAtQueue, NothingUnderWay
<1>5. CASE OnQuestionEnd \/ OnUnavailable
  BY <1>5 DEF OnQuestionEnd, OnUnavailable, LooksAtQueue, NothingUnderWay
<1> QED
  BY <1>1, <1>2, <1>3, <1>4, <1>5 DEF HandleEvent

\* The links of a dispatch.
LEMMA DispatchBacklog ==
    ASSUME TypeOK, Sending, BacklogInv,
           DispatchNext \/ StartTurn \/ BindTurn \/ FailTurn \/ ReviewTurn
    PROVE  NothingUnderWay' => queue' = <<>> \/ LooksAtQueue'
<1> USE PcAfter, LabelsType
<1>0. queue \in Seq(Work) /\ NoMsg \notin Work /\ (queue # <<>> => Head(queue) \in Work)
  BY StoreAssumption, HeadTailProperties DEF TypeOK, MemoryTypeOK, Msgs
<1>1. CASE DispatchNext
  <2>1. CASE ~CanDispatch /\ Return("ok") /\ UNCHANGED activeVars
    <3>1. UNCHANGED <<status, question, active, pending, queue>>
      BY <1>1, <2>1 DEF DispatchNext, questionVars, activeVars
    <3>2. \A c \in Controls : ~Handled(c)'
      BY <2>1 DEF Handled
    <3> QED
      BY <2>1, <3>1, <3>2 DEF CanDispatch, NothingUnderWay, NoPending
  <2>2. CASE active' = Head(queue) /\ CanDispatch
    BY <1>0, <2>2 DEF NothingUnderWay, CanDispatch
  <2>3. CASE StoreFails
    <3>1. ~call.expired /\ storeFailures \in Nat
      BY <1>1 DEF DispatchNext, BacklogInv, TypeOK, HandlerTypeOK
    <3> QED
      BY <2>3, <3>1 DEF StoreFails, NothingUnderWay
  <2> QED
    BY <1>1, <2>1, <2>2, <2>3 DEF DispatchNext
<1>2. CASE StartTurn \/ BindTurn \/ FailTurn \/ ReviewTurn
  <2>1. active # NoMsg
    BY <1>0, <1>2 DEF StartTurn, BindTurn, FailTurn, ReviewTurn, At, Sending, SendLabels
  <2>2. CASE UNCHANGED active
    BY <2>1, <2>2 DEF NothingUnderWay
  <2>3. CASE call' = [call EXCEPT !.pc = "dispatch", !.notSent = TRUE]
    <3>1. call'.pc = "dispatch"
      BY <2>3 DEF TypeOK, HandlerTypeOK, CallRecords
    <3> QED
      BY <3>1 DEF LooksAtQueue
  <2> QED
    BY <1>2, <2>2, <2>3 DEF StartTurn, BindTurn, FailTurn, ReviewTurn, activeVars
<1> QED
  BY <1>1, <1>2

\* The links of a control and of a decision.
LEMMA ControlBacklog ==
    ASSUME TypeOK, MessageInv, BacklogInv,
           \/ SendControl \/ EndControl \/ ReviewStatus
           \/ ResolveLoad \/ RetryCall \/ RetryFinish \/ ResolveReload \/ ResolveReady
    PROVE  NothingUnderWay' => queue' = <<>> \/ LooksAtQueue'
<1> USE PcAfter, LabelsType
<1>0. /\ call \in CallRecords /\ ~LooksAtQueue
      /\ pending \in [Controls -> {"none", "dispatching", "needs-review"}]
  BY DEF TypeOK, HandlerTypeOK, MemoryTypeOK, LooksAtQueue, SendControl, EndControl, ReviewStatus,
     ResolveLoad, RetryCall, RetryFinish, ResolveReload, ResolveReady, At
<1>1. CASE SendControl
  <2>1. call'.msg = call.msg
    BY <1>0, <1>1 DEF SendControl, ControlCall, CallRecords
  <2>2. \A c \in Controls : Handled(c)' => Handled(c)
    BY <1>1, <2>1 DEF Handled, SendControl, At
  <2>3. UNCHANGED <<active, question, pending, queue, storeFailures>> /\ (status' = "ready" => status = "ready")
    BY <1>1 DEF SendControl, activeVars, questionVars, boundVars
  <2> QED
    BY <1>0, <2>2, <2>3 DEF NothingUnderWay, BacklogInv
<1>2. CASE EndControl
  <2>1. call.msg \in Controls /\ \A c \in Controls : Handled(c) <=> c = call.msg
    BY <1>2 DEF EndControl, At, MessageInv, Handled
  <2>2. CASE status' = "recovering"
    BY <2>2 DEF NothingUnderWay
  <2>3. CASE /\ StoreOk /\ UNCHANGED status
             /\ pending' = [pending EXCEPT ![call.msg] =
                   IF call.outcome = "needs-review" THEN "needs-review" ELSE "none"]
             /\ call'.pc \in {"idle", "exiting", "reviewStatus"}
    <3>1. UNCHANGED <<status, active, question, queue, storeFailures>>
      BY <1>2, <2>3 DEF EndControl, activeVars, questionVars, StoreOk
    <3>2. ASSUME NothingUnderWay', NEW c \in Controls, c # call.msg PROVE pending[c] = "none"
      BY <1>0, <2>3, <3>2 DEF NothingUnderWay, Handled
    <3> QED
      BY <1>0, <2>1, <3>1, <3>2 DEF NothingUnderWay, BacklogInv
  <2>4. /\ Goto("reviewStatus") => call'.pc = "reviewStatus"
        /\ Return("ok") => call'.pc \in {"idle", "exiting"}
    OBVIOUS
  <2> QED
    BY <1>2, <2>2, <2>3, <2>4 DEF EndControl
<1>3. CASE ReviewStatus \/ RetryFinish
  <2>1. UnderWayKept /\ UNCHANGED queue
    BY <1>3, FailuresStay DEF ReviewStatus, RetryFinish, UnderWayKept, stateVars, questionVars
  <2> QED
    BY <1>0, <2>1, UnderWayStep DEF BacklogInv
<1>4. CASE RetryCall
  <2>1. call'.pc = "retryFinish"
    <3>1. ControlCall("retryFinish") => call'.pc = "retryFinish"
      BY ControlCallType, HandlerTypeSplit DEF TypeOK, Labels
    <3>2. call' = [call EXCEPT !.pc = "retryFinish", !.outcome = "failed"]
            => call'.pc = "retryFinish"
      BY <1>0 DEF CallRecords
    <3> QED
      BY <1>4, <3>1, <3>2 DEF RetryCall
  <2>2. UnderWayKept /\ UNCHANGED queue
    BY <1>4, <2>1 DEF RetryCall, UnderWayKept, stateVars, questionVars, boundVars
  <2> QED
    BY <1>0, <2>2, UnderWayStep DEF BacklogInv
<1>5. CASE ResolveLoad \/ ResolveReload
  <2>1. CASE status' # "ready"
    BY <2>1 DEF NothingUnderWay
  <2>2. CASE StoreFails /\ Return("store") /\ UNCHANGED stateVars
    <3>1. UnderWayKept /\ UNCHANGED queue
      BY <1>5, <2>2, FailuresStay DEF ResolveLoad, ResolveReload, UnderWayKept, stateVars, questionVars
    <3> QED
      BY <1>0, <3>1, UnderWayStep DEF BacklogInv
  <2> QED
    BY <1>5, <2>1, <2>2 DEF ResolveLoad, ResolveReload
<1>6. CASE ResolveReady
  <2>1. CASE Goto("dispatch")
    BY <2>1 DEF LooksAtQueue
  <2>2. CASE (StoreFails \/ UNCHANGED storeFailures) /\ (\E e : Return(e)) /\ UNCHANGED status
    <3>1. UnderWayKept /\ UNCHANGED queue
      BY <1>6, <2>2, FailuresStay DEF ResolveReady, UnderWayKept, activeVars, questionVars
    <3> QED
      BY <1>0, <3>1, UnderWayStep DEF BacklogInv
  <2> QED
    BY <1>6, <2>1, <2>2 DEF ResolveReady
<1> QED
  BY <1>1, <1>2, <1>3, <1>4, <1>5, <1>6

\* The links of recover, which find the room frozen.
LEMMA FrozenBacklog ==
    ASSUME TypeOK, BacklogInv,
           \/ RecoverLoad \/ MarkRepair \/ SetRecovering \/ StartThread \/ BindNewThread
           \/ ReadThread \/ ResumeThread \/ ReconcilePrivate \/ ReconcileItems \/ SettleActive
           \/ ReconcileControls \/ Recovered
    PROVE  /\ status' # "ready" \/ call'.pc = "dispatch"
           /\ NothingUnderWay' => queue' = <<>> \/ LooksAtQueue'
<1>1. CASE RecoverLoad \/ MarkRepair
  BY <1>1 DEF RecoverLoad, MarkRepair, NothingUnderWay
<1>2. CASE SetRecovering \/ StartThread \/ BindNewThread \/ ReadThread \/ ResumeThread
  <2>1. status # "ready" /\ UNCHANGED status
    BY <1>2 DEF SetRecovering, StartThread, BindNewThread, ReadThread, ResumeThread, stateVars,
       At, BacklogInv, FrozenLabels
  <2> QED
    BY <2>1 DEF NothingUnderWay
<1>3. CASE ReconcilePrivate \/ ReconcileItems \/ SettleActive \/ ReconcileControls
  <2>1. status # "ready" /\ UNCHANGED status
    BY <1>3 DEF ReconcilePrivate, ReconcileItems, SettleActive, ReconcileControls, stateVars,
       At, BacklogInv, FrozenLabels
  <2> QED
    BY <2>1 DEF NothingUnderWay
<1>4. CASE Recovered
  <2>1. CASE Goto("dispatch")
    BY <2>1, PcAfter, LabelsType DEF LooksAtQueue
  <2>2. CASE UNCHANGED status
    BY <1>4, <2>2 DEF Recovered, At, BacklogInv, FrozenLabels, NothingUnderWay
  <2> QED
    BY <1>4, <2>1, <2>2 DEF Recovered
<1> QED
  BY <1>1, <1>2, <1>3, <1>4

\* The links of a question and of a fault.
LEMMA OtherBacklog ==
    ASSUME TypeOK, BacklogInv, AskTurn \/ AskUndo \/ FaultReady \/ FaultStatus \/ LostTurn
    PROVE  NothingUnderWay' => queue' = <<>> \/ LooksAtQueue'
<1> USE PcAfter, LabelsType
<1>1. CASE FaultReady
  BY <1>1 DEF FaultReady, LooksAtQueue
<1>2. CASE AskTurn \/ AskUndo \/ FaultStatus \/ LostTurn
  <2>0. ~LooksAtQueue
    BY <1>2 DEF AskTurn, AskUndo, FaultStatus, LostTurn, At, LooksAtQueue
  <2>1. CASE status' = "recovering"
    BY <2>1 DEF NothingUnderWay
  <2>2. CASE UNCHANGED status
    <3>0. call.msg \in Questions /\ At("askTurn") => call.msg # NoMsg
      BY AgentAssumption
    <3>1. question' = NoMsg => question = NoMsg
      BY <1>2, <3>0 DEF AskTurn, AskUndo, FaultStatus, LostTurn, questionVars, TypeOK, HandlerTypeOK
    <3>2. storeFailures' = 0 => storeFailures = 0
      BY <1>2, FailuresStay DEF AskTurn, AskUndo, FaultStatus, LostTurn, boundVars
    <3>3. UNCHANGED <<active, pending, queue>>
      BY <1>2 DEF AskTurn, AskUndo, FaultStatus, LostTurn, activeVars, stateVars
    <3>4. call'.pc \in {"idle", "exiting", "askUndo"}
      BY <1>2 DEF AskTurn, AskUndo, FaultStatus, LostTurn
    <3>5. UnderWayKept
      BY <2>2, <3>1, <3>2, <3>3, <3>4 DEF UnderWayKept
    <3> QED
      BY <2>0, <3>3, <3>5, UnderWayStep DEF BacklogInv
  <2> QED
    BY <1>2, <2>1, <2>2 DEF AskTurn, AskUndo, FaultStatus, LostTurn, stateVars
<1> QED
  BY <1>1, <1>2

\* The daemon, the owner and the App Server.
LEMMA LifeBacklog ==
    ASSUME TypeOK, ImageInv, BacklogInv,
           \/ Owner \/ AppServer \/ StartDaemon \/ StartupRecover \/ Exit \/ Crash \/ UNCHANGED vars
    PROVE  NothingUnderWay' => queue' = <<>> \/ LooksAtQueue'
<1> USE PcAfter, LabelsType
<1>1. CASE Owner \/ AppServer \/ UNCHANGED vars
  <2>1. UNCHANGED <<status, active, question, pending, queue, call, storeFailures>>
    BY <1>1 DEF Owner, Offline, RepairMark, RepairCreate, RepairBind, RepairBegins, RepairUse, ResetAtStartup, AppServer,
       vars, stateVars, questionVars, boundVars
  <2> QED
    BY <2>1 DEF BacklogInv, NothingUnderWay, LooksAtQueue, Handled
<1>2. CASE StartDaemon
  BY <1>2 DEF StartDaemon, ImageInv, Loaded, NothingUnderWay, stateVars
<1>3. CASE StartupRecover
  <2>1. UnderWayKept /\ UNCHANGED queue /\ ~LooksAtQueue
    BY <1>3 DEF StartupRecover, UnderWayKept, stateVars, questionVars, boundVars, At, LooksAtQueue
  <2> QED
    BY <2>1, UnderWayStep DEF BacklogInv
<1>4. CASE Exit \/ Crash
  BY <1>4 DEF Exit, Crash, DaemonGone
<1> QED
  BY <1>1, <1>2, <1>3, <1>4

\* dispatchNext is reached with time left.
LEMMA DispatchInTime ==
    ASSUME TypeOK, BacklogInv, [Next]_vars, call'.pc = "dispatch" PROVE ~call'.expired
<1> USE PcAfter, LabelsType
<1>0. call \in CallRecords
  BY DEF TypeOK, HandlerTypeOK
<1>1. \A l, o, m : ~Handler(l, o, m).expired
  BY DEF Handler, Idle
<1>2. \A c : ~[Handler("finishControl", "command", c) EXCEPT !.outcome = "failed"].expired
  BY DEF Handler, Idle
<1>3. CASE UNCHANGED call
  BY <1>3 DEF BacklogInv, At
<1>4. CASE Client
  <2>1. CASE \E m \in Prompts : Submit(m)
    BY <1>1, <2>1 DEF Submit
  <2>2. CASE \E r \in Recovers : Resolve(r)
    <3>1. \E c \in Controls \cup {NoMsg} : AfterDecision(c)
      BY <2>2 DEF Resolve
    <3> QED
      BY <3>1 DEF AfterDecision
  <2>3. CASE (\E n \in Notes : Note(n)) \/ \E q \in Questions : Ask(q)
    BY <1>3, <2>3 DEF Note, Ask
  <2>4. CASE \E c \in Controls, t \in 1..nturn : Control(c, t)
    BY <2>4, ControlHandler
  <2> QED
    BY <1>4, <2>1, <2>2, <2>3, <2>4 DEF Client
<1>5. CASE HandleEvent
  BY <1>1, <1>3, <1>5 DEF HandleEvent, OnIgnored, OnItem, OnTurnEnd, OnFault, OnQuestionEnd,
     OnUnavailable, OnReady, AfterTurn
<1>6. CASE FailTurn
  <2>1. CASE StoreOk /\ call' = [call EXCEPT !.pc = "dispatch", !.notSent = TRUE]
    BY <1>0, <2>1 DEF StoreOk, CallRecords
  <2> QED
    BY <1>6, <2>1 DEF FailTurn
<1>7. CASE ResolveReady \/ Recovered \/ FaultReady
  <2>1. CASE StoreOk /\ Goto("dispatch")
    BY <1>0, <2>1 DEF StoreOk, Goto, CallRecords
  <2> QED
    BY <1>7, <2>1 DEF ResolveReady, Recovered, FaultReady
<1> QED
  BY <1>3, <1>4, <1>5, <1>6, <1>7, NextFlow DEF Flow

\* recover freezes the room.
LEMMA FrozenStep ==
    ASSUME TypeOK, BacklogInv, [Next]_vars, call'.pc \in FrozenLabels PROVE status' # "ready"
<1>1. CASE \/ RecoverLoad \/ MarkRepair \/ SetRecovering \/ StartThread \/ BindNewThread
           \/ ReadThread \/ ResumeThread \/ ReconcilePrivate \/ ReconcileItems \/ SettleActive
           \/ ReconcileControls \/ Recovered
  BY <1>1, FrozenBacklog DEF FrozenLabels
<1>2. CASE UNCHANGED call /\ (AppServer \/ UNCHANGED vars)
  BY <1>2 DEF AppServer, vars, stateVars, BacklogInv
<1> QED
  BY <1>1, <1>2, NextFlow, InputAtIdle DEF Flow, FrozenLabels

LEMMA BacklogStep ==
    ASSUME TypeOK, ImageInv, QueueInv, BacklogInv, [Next]_vars PROVE BacklogInv'
<1>1. NothingUnderWay' => queue' = <<>> \/ LooksAtQueue'
  BY ClientBacklog, EventBacklog, DispatchBacklog, ControlBacklog, FrozenBacklog, OtherBacklog,
     LifeBacklog DEF QueueInv, Next, Continue
<1>2. call'.pc = "dispatch" => ~call'.expired
  BY DispatchInTime
<1>3. call'.pc \in FrozenLabels => status' # "ready"
  BY FrozenStep
<1> QED
  BY <1>1, <1>2, <1>3 DEF BacklogInv, At

LEMMA BacklogAlways == Spec => []BacklogInv
<1>1. Init => BacklogInv
  BY DEF Init, ZeroMemory, Idle, BacklogInv, FrozenLabels, At
<1>2. TypeOK /\ ImageInv /\ QueueInv /\ BacklogInv /\ [Next]_vars => BacklogInv'
  BY BacklogStep
<1> QED
  BY <1>1, <1>2, TypeCorrect, ImageAlways, QueueAlways, PTL DEF Spec

\* In every room where no transaction has failed: a ready coordinator that
\* waits for input with nothing under way has dispatched all it had queued,
\* whatever sequence of commands, decisions, events and crashes led there.
THEOREM NoIdleBacklogAlways == Spec => []NoIdleBacklog
<1>1. BacklogInv => NoIdleBacklog
  BY DEF BacklogInv, NoIdleBacklog, NothingUnderWay, NoPending, LooksAtQueue, At
<1> QED
  BY <1>1, BacklogAlways, PTL
=============================================================================
