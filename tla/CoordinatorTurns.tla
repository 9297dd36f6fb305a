-------------------------- MODULE CoordinatorTurns --------------------------
(***************************************************************************)
(* What the room knows of the turns of the App Server, and of its own      *)
(* rows, through lost calls, dying sessions, decisions and crashes:        *)
(*   OutcomeIsProven      a stored outcome is how the turn ended;          *)
(*   QuestionsSettled     private turns are accounted for at a dispatch;   *)
(*   OneTurnAtATime       what runs is waited for, or was decided about;   *)
(*   MemoryMatchesStore   a ready, idle room holds what would be read.     *)
(* Each follows from an inductive invariant of its own, on top of those of *)
(* CoordinatorSafety.                                                      *)
(***************************************************************************)
EXTENDS CoordinatorSafety

----------------------------------------------------------------------------
\* OutcomeIsProven.

\* A turn that is over, and the turns of which something is still to be heard.
Over(t) == t \in 1..nturn /\ t \notin alive
Current == alive \cup {events[i].turn : i \in 1..Len(events)}

\* OutcomeIsProven is not inductive.  The argument goes from the turns to the
\* stored outcome: what the App Server says of an ended turn is true, on the
\* channel ...
AgentInv ==
    /\ alive \subseteq 1..nturn
    /\ \A t \in alive : tstate[t] = "running"
    /\ \A t \in Turns : titem[t] => t \in 1..nturn
    /\ \A i \in 1..Len(events) :
          /\ events[i].turn \in 0..nturn
          /\ events[i].kind \in Terminal =>
                Over(events[i].turn) /\ tstate[events[i].turn] = events[i].kind

\* ... and in the history recover reads, which is recorded before it is used.
ToldInv ==
    /\ \A t \in Turns : \A s \in hist[t] \cap Terminal :
          Over(t) /\ tstate[t] = s /\ (titem[t] => "item" \in hist[t])
    /\ At("settle") => \A t \in Turns : "item" \in hist[t] => t \in hidden \cup recorded

\* The active prompt in memory is the row in progress, and a prompt has a turn
\* only once it has been sent.
RowInv ==
    /\ \A m \in Work : mstate[m] \in {"absent", "queued", "dispatching"} => mturn[m] = 0
    /\ active \in LiveWork => activeState = mstate[active] /\ activeTurn = mturn[active]
    /\ active = NoMsg => activeState = "none" /\ activeTurn = 0
    /\ At("lostTurn") => active # NoMsg

\* A private turn of the room's thread may be unaccounted for ...
OpenHere == frontier # 0 /\ frontier = threadID
\* ... which is normal while a question is asked or open.
Asking == question # NoMsg \/ call.pc \in {"askTurn", "askUndo"}
\* The links that are reached only with every private turn accounted for.
ShutLabels ==
    {"items", "settle", "controls", "recovered", "resolveLoad", "retry", "retryFinish",
     "resolveReload", "resolveReady", "control", "faultReady", "startTurn", "bindTurn"}
NoReview == LiveWork = {} /\ \A c \in Controls : mstate[c] # "needs-review"

\* An open frontier keeps prompts out: a prompt in progress is never of a
\* thread whose next unexplained turn recover would take for a private one.
FrontierInv ==
    /\ status = "ready" => ~OpenHere \/ Asking
    /\ call.pc \in ShutLabels => ~OpenHere
    /\ At("finishControl") /\ call.outcome = "needs-review" => ~OpenHere
    /\ At("bindThread") => frontier < call.turn /\ call.turn <= nthread
    /\ threadReady /\ OpenHere => NoReview
    /\ Asking => active = NoMsg /\ LiveWork = {}
    /\ threadReady \/ call.pc \in {"resolveLoad", "resolveReload"} => threadID = dbThread
    /\ threadID <= nthread /\ dbThread <= nthread /\ frontier <= nthread /\ repairs.thread <= nthread

\* So only turns of questions are hidden: any other turn of the frontier's
\* thread was there before the question, or is in no history.
HideInv ==
    /\ frontier # 0 => \A t \in 1..nturn :
          tthread[t] = frontier /\ towner[t] \notin Questions =>
              t \in baseline \/ (tstate[t] = "lost" /\ t \notin InHistory)
    /\ hidden \subseteq QuestionTurns
    /\ question # NoMsg => questionTurn \in QuestionTurns

\* A row in progress whose turn may still be heard of is the active prompt.
BoundInv == \A m \in LiveWork :
    mturn[m] # 0 /\ mturn[m] \in Current => active = m /\ ~OpenHere

\* The completed item of a turn is in the log, or on its way before the end.
ItemWaits(t) == \E j \in 1..Len(events) :
    /\ events[j] = Event("item", t)
    /\ \A i \in 1..j : events[i].turn = t => events[i].kind \notin Terminal
ItemKept(t) == titem[t] => t \in recorded \/ ItemWaits(t)
\* The coordinator follows the active turn; it also does while it awaits the
\* end of a faulty one.
Followed == active # NoMsg /\ (activeState = "running" \/ (fault /\ activeState = "needs-review"))
ItemInv ==
    /\ Followed /\ ~At("exiting") /\ activeTurn # 0 /\ activeTurn \in Current => ItemKept(activeTurn)
    /\ At("bindTurn") => ItemKept(call.turn)

\* OutcomeIsProven, with the turn over, so that nothing is added to it.
EndInv == \A m \in Work : mstate[m] \in {"completed", "interrupted"} =>
    /\ Over(mturn[m])
    /\ tstate[mturn[m]] = mstate[m]
    /\ titem[mturn[m]] => mturn[m] \in recorded

\* How a step moves the App Server's turns and the channel of events.
AgentMove ==
    \/ UNCHANGED <<turnVars, events>>
    \/ UNCHANGED turnVars /\ HandleEvent /\ At("idle") /\ events # <<>> /\ events' = Tail(events)
    \/ UNCHANGED events /\ StartTurn /\ NewTurn(active, threadID)
    \/ UNCHANGED events /\ AskTurn /\ NewTurn(call.msg, threadID)
    \/ AppServer /\ \E t \in alive : ItemCompletes(t)
    \/ AppServer /\ \E t \in alive, how \in Endings : TurnEnds(t, how)
    \/ AppServer /\ \E t \in alive \cup {0} : AgentFault(t)
    \/ AppServer /\ (SessionDies \/ SessionReplaced)
    \/ (Exit \/ Crash) /\ ProcessGone /\ events' = <<>>

LEMMA CallKeepsAgent ==
    ASSUME \/ UNCHANGED agentVars
           \/ CallNotSent \/ CallDone \/ CallUnknown \/ CallTimedOut
           \/ ThreadStarted \/ ThreadStartLost \/ ThreadStartTimedOut
           \/ \E l : ControlCall(l)
    PROVE  UNCHANGED <<turnVars, events>>
<1>1. CallNotSent \/ CallDone \/ CallUnknown \/ CallTimedOut => UNCHANGED <<turnVars, events>>
  BY DEF CallNotSent, CallDone, CallUnknown, CallTimedOut, agentVars
<1> QED
  BY <1>1 DEF agentVars, ThreadStarted, ThreadStartLost, ThreadStartTimedOut, ControlCall

LEMMA NextAgent == ASSUME TypeOK, [Next]_vars PROVE AgentMove
<1> USE CallKeepsAgent DEF AgentMove
<1>1. CASE Client
  BY <1>1 DEF Client, Submit, Note, Control, Resolve, Ask
<1>2. CASE HandleEvent
  <2>1. Received # {} /\ Taken
    BY <1>2 DEF HandleEvent, OnIgnored, OnItem, OnTurnEnd, OnFault, OnQuestionEnd, OnUnavailable,
       OnReady
  <2>2. At("idle") /\ events # <<>>
    BY <2>1 DEF Received
  <2> QED
    BY <1>2, <2>1, <2>2 DEF Taken
<1>3. CASE StartTurn
  BY <1>3 DEF StartTurn, TurnStarted, TurnStartLost, TurnStartTimedOut
<1>4. CASE AskTurn
  BY <1>4 DEF AskTurn, TurnStarted, TurnStartLost, TurnStartTimedOut
<1>5. CASE DispatchNext \/ BindTurn \/ FailTurn \/ ReviewTurn \/ ReviewStatus \/ SendControl \/ EndControl
  BY <1>5 DEF DispatchNext, BindTurn, FailTurn, ReviewTurn, ReviewStatus, SendControl, EndControl
<1>6. CASE ResolveLoad \/ RetryCall \/ RetryFinish \/ ResolveReload \/ ResolveReady
  BY <1>6 DEF ResolveLoad, RetryCall, RetryFinish, ResolveReload, ResolveReady
<1>7. CASE RecoverLoad \/ MarkRepair \/ SetRecovering \/ StartThread \/ BindNewThread
  BY <1>7 DEF RecoverLoad, MarkRepair, SetRecovering, StartThread, BindNewThread
<1>8. CASE ReadThread \/ ResumeThread \/ ReconcilePrivate \/ ReconcileItems
  BY <1>8 DEF ReadThread, ResumeThread, ReconcilePrivate, ReconcileItems
<1>9. CASE SettleActive \/ ReconcileControls \/ Recovered \/ AskUndo \/ FaultReady \/ FaultStatus \/ LostTurn
  BY <1>9 DEF SettleActive, ReconcileControls, Recovered, AskUndo, FaultReady, FaultStatus, LostTurn
<1>10. CASE Owner
  BY <1>10 DEF Owner, RepairMark, RepairCreate, RepairBind, RepairBegins, RepairUse, ResetAtStartup, agentVars
<1>11. CASE AppServer
  BY <1>11 DEF AppServer
<1>12. CASE StartDaemon \/ StartupRecover \/ UNCHANGED vars
  BY <1>12 DEF StartDaemon, StartupRecover, vars, agentVars
<1>13. CASE Exit \/ Crash
  BY <1>13 DEF Exit, Crash, DaemonGone
<1> QED
  BY <1>1, <1>2, <1>3, <1>4, <1>5, <1>6, <1>7, <1>8, <1>9, <1>10, <1>11, <1>12, <1>13
     DEF Next, Continue

\* What a turn that is over was, it remains.
TurnStands(t) == Over(t)' /\ tstate'[t] = tstate[t] /\ titem'[t] = titem[t]

\* The turn that turn/start creates.
LEMMA NewTurnFacts ==
    ASSUME TypeOK, NEW o, NEW th, NewTurn(o, th)
    PROVE  /\ nturn \in Nat /\ nturn' = nturn + 1 /\ nturn' \in Turns /\ nturn' \in 1..nturn'
           /\ alive' = alive \cup {nturn'} /\ titem' = titem
           /\ towner'[nturn'] = o /\ tthread'[nturn'] = th /\ tstate'[nturn'] = "running"
           /\ \A t \in Turns : t # nturn' => /\ tstate'[t] = tstate[t] /\ towner'[t] = towner[t]
                                             /\ tthread'[t] = tthread[t]
           /\ \A t \in 1..nturn : t # nturn' /\ t \in Turns /\ t \in 1..nturn'
<1>1. /\ nturn \in Nat /\ MaxTurns \in Nat /\ Turns = 1..MaxTurns
      /\ tstate \in [Turns -> TurnStates] /\ tthread \in [Turns -> 0..MaxThreads]
      /\ towner \in [Turns -> Msgs \cup Questions \cup {NoMsg}]
  BY StoreAssumption DEF TypeOK, AgentTypeOK, Turns
<1>2. /\ nturn < MaxTurns /\ nturn' = nturn + 1 /\ alive' = alive \cup {nturn'}
      /\ tstate' = [tstate EXCEPT ![nturn'] = "running"] /\ titem' = titem
      /\ towner' = [towner EXCEPT ![nturn'] = o] /\ tthread' = [tthread EXCEPT ![nturn'] = th]
  BY DEF NewTurn
<1>3. /\ nturn' \in Turns /\ nturn' \in 1..nturn'
      /\ \A t \in 1..nturn : t # nturn' /\ t \in Turns /\ t \in 1..nturn'
  BY <1>1, <1>2
<1> QED
  BY <1>1, <1>2, <1>3

LEMMA OverStands ==
    ASSUME TypeOK, AgentMove, NEW t, Over(t) PROVE TurnStands(t)
<1>0. t \in 1..nturn /\ t \notin alive /\ t \in Turns /\ nturn \in Nat
      /\ tstate \in [Turns -> TurnStates] /\ titem \in [Turns -> BOOLEAN] /\ alive \subseteq Turns
  BY StoreAssumption DEF Over, TypeOK, AgentTypeOK, Turns
<1>1. CASE UNCHANGED turnVars
  BY <1>1 DEF turnVars, TurnStands, Over
<1>2. ASSUME NEW o, NEW th, NewTurn(o, th) PROVE TurnStands(t)
  BY <1>0, <1>2, NewTurnFacts DEF TurnStands, Over
<1>3. ASSUME NEW u \in alive, ItemCompletes(u) PROVE TurnStands(t)
  BY <1>0, <1>3 DEF ItemCompletes, TurnStands, Over
<1>4. ASSUME NEW u \in alive, NEW how, TurnEnds(u, how) PROVE TurnStands(t)
  BY <1>0, <1>4 DEF TurnEnds, TurnStands, Over
<1>5. CASE ProcessGone
  BY <1>0, <1>5 DEF ProcessGone, TurnStands, Over
<1> QED
  BY <1>1, <1>2, <1>3, <1>4, <1>5 DEF AgentMove, AgentFault, SessionDies, SessionReplaced

\* The events that are there after a step are old ones or the one just sent.
LEMMA AppendedEvents ==
    ASSUME TypeOK, NEW e \in TurnEvents \cup RuntimeEvents, events' = Append(events, e)
    PROVE  /\ Len(events) \in Nat /\ Len(events') = Len(events) + 1 /\ events'[Len(events')] = e
           /\ \A i \in 1..Len(events) : i \in 1..Len(events') /\ events'[i] = events[i]
           /\ \A i \in 1..Len(events') : i \in 1..Len(events) \/ i = Len(events')
<1>1. events \in Seq(TurnEvents \cup RuntimeEvents)
  BY DEF TypeOK, AgentTypeOK
<1>2. /\ Len(events) \in Nat /\ Len(events') = Len(events) + 1 /\ events'[Len(events')] = e
      /\ \A i \in 1..Len(events) : events'[i] = events[i]
  BY <1>1, AppendProperties, LenProperties
<1> QED
  BY <1>2

LEMMA TakenEvents ==
    ASSUME TypeOK, events # <<>>, events' = Tail(events)
    PROVE  /\ Len(events) \in Nat \ {0} /\ Len(events') = Len(events) - 1 /\ Head(events) = events[1]
           /\ \A i \in 1..Len(events') : i + 1 \in 1..Len(events) /\ events'[i] = events[i + 1]
           /\ \A i \in 1..Len(events) : i # 1 => i - 1 \in 1..Len(events') /\ events'[i - 1] = events[i]
<1>1. events \in Seq(TurnEvents \cup RuntimeEvents)
  BY DEF TypeOK, AgentTypeOK
<1>2. /\ Len(events) \in Nat \ {0} /\ Len(events') = Len(events) - 1 /\ Head(events) = events[1]
      /\ \A i \in 1..Len(events') : events'[i] = events[i + 1]
  BY <1>1, EmptySeq, HeadTailProperties, LenProperties
<1> QED
  BY <1>2

\* Every event there is after a step was there, or is the one the App Server sends.
EventSent(e) ==
    \/ e.turn = 0 /\ e.kind \notin Terminal
    \/ e.turn \in alive /\ e.kind \notin Terminal
    \/ e.turn \in alive /\ TurnEnds(e.turn, e.kind)

LEMMA EventsAfter ==
    ASSUME TypeOK, AgentMove, NEW i \in 1..Len(events')
    PROVE  \/ \E j \in 1..Len(events) : events'[i] = events[j]
           \/ EventSent(events'[i])
<1>1. CASE UNCHANGED events
  BY <1>1
<1>2. CASE events # <<>> /\ events' = Tail(events)
  BY <1>2, TakenEvents
<1>3. ASSUME NEW e \in TurnEvents \cup RuntimeEvents, events' = Append(events, e), EventSent(e)
      PROVE  \/ \E j \in 1..Len(events) : events'[i] = events[j]
             \/ EventSent(events'[i])
  BY <1>3, AppendedEvents
<1>4. alive \subseteq Turns /\ Endings \subseteq Terminal /\ 0 \in 0..MaxTurns /\ Turns \subseteq 0..MaxTurns
  BY StoreAssumption, AgentAssumption DEF TypeOK, AgentTypeOK, Turns
<1>5. ASSUME NEW t \in alive, ItemCompletes(t)
      PROVE  \/ \E j \in 1..Len(events) : events'[i] = events[j]
             \/ EventSent(events'[i])
  <2>1. Event("item", t) \in TurnEvents /\ EventSent(Event("item", t))
    BY <1>4 DEF Event, TurnEvents, EventSent, Terminal
  <2> QED
    BY <1>3, <1>5, <2>1 DEF ItemCompletes, Emit
<1>6. ASSUME NEW t \in alive, NEW how \in Endings, TurnEnds(t, how)
      PROVE  \/ \E j \in 1..Len(events) : events'[i] = events[j]
             \/ EventSent(events'[i])
  <2>1. Event(how, t) \in TurnEvents /\ EventSent(Event(how, t))
    BY <1>4, <1>6 DEF Event, TurnEvents, EventSent
  <2>2. events' = Append(events, Event(how, t))
    BY <1>6 DEF TurnEnds, Emit
  <2> QED
    BY <1>3, <2>1, <2>2
<1>7. ASSUME NEW t \in alive \cup {0}, AgentFault(t)
      PROVE  \/ \E j \in 1..Len(events) : events'[i] = events[j]
             \/ EventSent(events'[i])
  <2>1. Event("fault", t) \in TurnEvents /\ EventSent(Event("fault", t))
    BY <1>4 DEF Event, TurnEvents, EventSent, Terminal
  <2> QED
    BY <1>3, <1>7, <2>1 DEF AgentFault, Emit
<1>8. CASE SessionDies \/ SessionReplaced
  <2>1. ASSUME NEW k \in {"unavailable", "ready"}
        PROVE  Event(k, 0) \in RuntimeEvents /\ EventSent(Event(k, 0))
    BY <2>1 DEF Event, RuntimeEvents, EventSent, Terminal
  <2> QED
    BY <1>3, <1>8, <2>1 DEF SessionDies, SessionReplaced
<1>9. CASE events' = <<>>
  BY <1>9, EmptySeq
<1> QED
  BY <1>1, <1>2, <1>5, <1>6, <1>7, <1>8, <1>9 DEF AgentMove

\* The App Server says of a turn what is true, and truth about an ended turn stays.
LEMMA AgentInvStep == ASSUME TypeOK, AgentInv, [Next]_vars PROVE AgentInv'
<1>0. /\ AgentMove /\ nturn \in Nat /\ nturn' \in Nat /\ MaxTurns \in Nat /\ Turns = 1..MaxTurns
      /\ tstate \in [Turns -> TurnStates] /\ titem \in [Turns -> BOOLEAN] /\ alive \subseteq Turns
      /\ nturn <= MaxTurns
  <2>1. AgentTypeOK /\ AgentTypeOK'
    BY TypeStep DEF TypeOK
  <2> QED
    BY <2>1, NextAgent, StoreAssumption, SMTT(20) DEF AgentTypeOK, Turns
<1>a. /\ alive \subseteq 1..nturn /\ \A t \in alive : tstate[t] = "running"
      /\ \A t \in Turns : titem[t] => t \in 1..nturn
  BY DEF AgentInv
<1>1. /\ alive' \subseteq 1..nturn' /\ \A t \in alive' : tstate'[t] = "running"
      /\ \A t \in Turns : titem'[t] => t \in 1..nturn'
      /\ nturn <= nturn'
  <2>1. CASE UNCHANGED turnVars
    BY <1>0, <2>1 DEF turnVars, AgentInv
  <2>2. ASSUME NEW o, NEW th, NewTurn(o, th)
        PROVE  /\ alive' \subseteq 1..nturn' /\ \A t \in alive' : tstate'[t] = "running"
               /\ \A t \in Turns : titem'[t] => t \in 1..nturn'
               /\ nturn <= nturn'
    <3>1. /\ nturn' = nturn + 1 /\ nturn' \in 1..nturn' /\ alive' = alive \cup {nturn'} /\ titem' = titem
          /\ tstate'[nturn'] = "running"
          /\ \A t \in 1..nturn : t \in 1..nturn' /\ tstate'[t] = tstate[t]
      BY <2>2, NewTurnFacts
    <3> QED
      BY <1>0, <1>a, <3>1
  <2>3. ASSUME NEW u \in alive, ItemCompletes(u)
        PROVE  /\ alive' \subseteq 1..nturn' /\ \A t \in alive' : tstate'[t] = "running"
               /\ \A t \in Turns : titem'[t] => t \in 1..nturn'
               /\ nturn <= nturn'
    BY <1>0, <2>3 DEF ItemCompletes, AgentInv
  <2>4. ASSUME NEW u \in alive, NEW how, TurnEnds(u, how)
        PROVE  /\ alive' \subseteq 1..nturn' /\ \A t \in alive' : tstate'[t] = "running"
               /\ \A t \in Turns : titem'[t] => t \in 1..nturn'
               /\ nturn <= nturn'
    BY <1>0, <2>4 DEF TurnEnds, AgentInv
  <2>5. CASE ProcessGone
    BY <1>0, <2>5 DEF ProcessGone, AgentInv
  <2> QED
    BY <1>0, <2>1, <2>2, <2>3, <2>4, <2>5 DEF AgentMove, AgentFault, SessionDies, SessionReplaced
<1>2. ASSUME NEW i \in 1..Len(events'), NEW e, e = events'[i]
      PROVE  /\ e.turn \in 0..nturn'
             /\ e.kind \in Terminal => Over(e.turn)' /\ tstate'[e.turn] = e.kind
  <2>1. CASE \E j \in 1..Len(events) : e = events[j]
    <3>1. PICK j \in 1..Len(events) : e = events[j]
      BY <2>1
    <3>2. e.turn \in 0..nturn'
      BY <1>0, <1>1, <3>1 DEF AgentInv
    <3>3. e.kind \in Terminal => TurnStands(e.turn) /\ tstate[e.turn] = e.kind
      BY <1>0, <3>1, OverStands DEF AgentInv
    <3> QED
      BY <3>2, <3>3 DEF TurnStands
  <2>2. CASE e.turn \in alive \cup {0} /\ e.kind \notin Terminal
    <3>1. \A x \in alive \cup {0} : x \in 0..nturn'
      BY <1>0, <1>1, <1>a
    <3> QED
      BY <2>2, <3>1
  <2>3. CASE e.turn \in alive /\ TurnEnds(e.turn, e.kind)
    <3>1. e.turn \in Turns /\ e.turn \in 1..nturn
      BY <1>0, <2>3 DEF AgentInv
    <3>2. alive' = alive \ {e.turn} /\ tstate' = [tstate EXCEPT ![e.turn] = e.kind] /\ nturn' = nturn
      BY <2>3 DEF TurnEnds
    <3> QED
      BY <1>0, <3>1, <3>2 DEF Over
  <2> QED
    BY <1>0, <1>2, <2>1, <2>2, <2>3, EventsAfter DEF EventSent
<1>3. (\A i \in 1..Len(events) :
          /\ events[i].turn \in 0..nturn
          /\ events[i].kind \in Terminal =>
                Over(events[i].turn) /\ tstate[events[i].turn] = events[i].kind)'
  BY <1>2 DEF Over
<1> QED
  BY <1>1, <1>3 DEF AgentInv

\* Nothing leaves the event log or the journal.
LEMMA LogGrows == ASSUME TypeOK, [Next]_vars PROVE recorded \subseteq recorded' /\ hidden \subseteq hidden'
<1>1. UNCHANGED storeVars \/ StoreFails => UNCHANGED <<recorded, hidden>>
  BY DEF StoreFails, storeVars, privateRows
<1>2. ASSUME NEW th, NEW T, EndPrivateTurn(th, T) PROVE hidden \subseteq hidden'
  BY <1>2 DEF EndPrivateTurn
<1>3. ASSUME NEW th, NEW T, NEW R, ClosePrivateTurns(th, T, R) PROVE hidden \subseteq hidden'
  BY <1>1, <1>2, <1>3 DEF ClosePrivateTurns
<1>4. CASE RowsKept \/ (BindTurn /\ PrivateKept /\ UNCHANGED recorded)
  BY <1>4 DEF RowsKept, PrivateKept
<1>5. CASE (OnItem \/ ReconcileItems) /\ PrivateKept
  BY <1>1, <1>5 DEF OnItem, ReconcileItems, RecordCompletedItem, PrivateKept
<1>6. CASE ((\E q \in Questions : Ask(q)) \/ AskUndo \/ OnQuestionEnd \/ ReconcilePrivate) /\ UNCHANGED recorded
  <2>1. CASE \E q \in Questions : Ask(q)
    BY <1>6, <2>1 DEF Ask, BeginPrivateTurn
  <2>2. CASE AskUndo \/ OnQuestionEnd
    BY <1>1, <1>2, <1>6, <2>2 DEF AskUndo, OnQuestionEnd
  <2>3. CASE ReconcilePrivate
    BY <1>1, <1>3, <1>6, <2>3 DEF ReconcilePrivate
  <2> QED
    BY <1>6, <2>1, <2>2, <2>3
<1> QED
  BY <1>4, <1>5, <1>6, NextRows DEF RowsStep

\* What recover was told of an ended turn is true, item included, and at the
\* settling of the active turn every item it was told of is in the log.
LEMMA ToldInvStep ==
    ASSUME TypeOK, AgentInv, HistoryInv, ToldInv, [Next]_vars PROVE ToldInv'
<1> USE DEF At
<1>0. /\ AgentMove /\ HistStep /\ hist \in [Turns -> SUBSET HistoryMarks]
      /\ titem \in [Turns -> BOOLEAN] /\ tstate \in [Turns -> TurnStates]
      /\ History(threadID) \subseteq 1..nturn
  BY NextAgent, NextHist DEF TypeOK, HandlerTypeOK, AgentTypeOK, History
<1>1. ASSUME NEW t \in Turns, NEW s \in hist[t] \cap Terminal
      PROVE  Over(t)' /\ tstate'[t] = s /\ (titem'[t] => "item" \in hist[t])
  <2>1. Over(t) /\ tstate[t] = s /\ (titem[t] => "item" \in hist[t])
    BY <1>1 DEF ToldInv
  <2> QED
    BY <1>0, <2>1, OverStands DEF TurnStands
<1>2. ASSUME hist' = Told, UNCHANGED turnVars, NEW t \in Turns, NEW s \in hist'[t] \cap Terminal
      PROVE  Over(t)' /\ tstate'[t] = s /\ (titem'[t] => "item" \in hist'[t])
  <2>1. hist'[t] = IF t \in History(threadID)
                   THEN hist[t] \cup {tstate[t]} \cup (IF titem[t] THEN {"item"} ELSE {})
                   ELSE hist[t]
    BY <1>2 DEF Told
  <2>2. CASE s \in hist[t]
    BY <1>1, <2>1, <2>2, <1>2
  <2>3. CASE s \notin hist[t]
    <3>1. t \in 1..nturn /\ s = tstate[t]
      BY <1>0, <1>2, <2>1, <2>3 DEF Terminal
    <3>2. t \notin alive
      BY <1>2, <3>1 DEF AgentInv, Terminal
    <3> QED
      BY <1>2, <2>1, <2>3, <3>1, <3>2 DEF Over, turnVars, Terminal
  <2> QED
    BY <2>2, <2>3
<1>3. (\A t \in Turns : \A s \in hist[t] \cap Terminal :
          Over(t) /\ tstate[t] = s /\ (titem[t] => "item" \in hist[t]))'
  <2>1. CASE hist' = ZeroMemory.hist
    BY <2>1 DEF ZeroMemory
  <2>2. CASE UNCHANGED hist
    BY <1>1, <2>2
  <2>3. CASE hist' = Told /\ CallDone
    BY <1>2, <2>3 DEF CallDone, agentVars
  <2> QED
    BY <1>0, <2>1, <2>2, <2>3 DEF HistStep
<1>4. ASSUME call'.pc = "settle", NEW t \in Turns, "item" \in hist'[t]
      PROVE  t \in hidden' \cup recorded'
  <2>1. \/ ReconcileItems
        \/ UNCHANGED call /\ (AppServer \/ UNCHANGED vars)
    BY <1>4, NextFlow, InputAtIdle DEF Flow, ReconcileControls
  <2>2. CASE ReconcileItems
    <3>1. MissingItems = {} /\ UNCHANGED hist
      BY <1>4, <2>2, PcAfter DEF ReconcileItems
    <3>2. t \in hidden \cup recorded
      BY <1>4, <3>1 DEF MissingItems
    <3> QED
      BY <3>2, LogGrows
  <2>3. CASE UNCHANGED call /\ (AppServer \/ UNCHANGED vars)
    <3>1. UNCHANGED hist
      BY <2>3 DEF AppServer, vars
    <3> QED
      BY <1>4, <2>3, <3>1, LogGrows DEF ToldInv
  <2> QED
    BY <2>1, <2>2, <2>3
<1>5. (call.pc = "settle" => \A t \in Turns : "item" \in hist[t] => t \in hidden \cup recorded)'
  BY <1>4
<1> QED
  BY <1>3, <1>5 DEF ToldInv

\* A transaction that moves no prompt from one state of progress to another.
LiveRowsKept ==
    \A m \in LiveWork' : m \in LiveWork /\ mstate'[m] = mstate[m] /\ mturn'[m] = mturn[m]

LEMMA LiveRowsStep ==
    ASSUME StoreTypeOK,
           \/ UNCHANGED storeVars \/ StoreFails
           \/ \E m \in Work : AcceptMessage(m) \/ FailDispatch(m)
           \/ \E n \in Notes : AppendNote(n)
           \/ \E c \in Controls : MarkNeedsReview(c) \/ \E x : AcceptControl(c, x) \/ FinishControl(c, x)
           \/ \E t : \E o \in Terminal : FinishTurn(t, o)
           \/ \E x : RecordCompletedItem(x) \/ SetRoomStatus(x) \/ BindThread(x) \/ RepairThread(x)
           \/ \E x, y : BeginPrivateTurn(x, y) \/ EndPrivateTurn(x, y)
           \/ \E x, y, z : ClosePrivateTurns(x, y, z)
           \/ MarkThreadNeedsRepair \/ ResetUnusedThread
           \/ \E r : \E m \in Work : RetryPrompt(r, m)
           \/ \E r : \E c \in Controls : RetryControl(r, c)
           \/ \E r : \E m \in Work \cup Controls : SkipReviewed(r, m)
           \/ \E r : \E m \in Work \cup Controls : \E p \in Replacements : ContinueReviewed(r, m, p)
    PROVE  LiveRowsKept
<1>0. /\ mstate \in [Msgs -> RequestStates] /\ mturn \in [Msgs -> 0..MaxTurns]
      /\ Work \subseteq Msgs /\ Controls \subseteq Msgs /\ Work \cap Controls = {}
      /\ Replacements \subseteq Work /\ Notes \subseteq Msgs /\ Work \cap Notes = {}
  BY StoreAssumption DEF StoreTypeOK, Msgs, Work
<1>1. CASE UNCHANGED <<mstate, mturn>>
  BY <1>1 DEF LiveRowsKept, LiveWork
<1>2. ASSUME NEW x \in Msgs, NEW s, mstate' = [mstate EXCEPT ![x] = s], x \notin Work \/ s \notin LiveStates,
             \A m \in Work : m # x => mturn'[m] = mturn[m]
      PROVE  LiveRowsKept
  BY <1>0, <1>2 DEF LiveRowsKept, LiveWork
<1>3. ASSUME NEW x \in Msgs, NEW from, NEW s, MoveMessage(x, from, s), UNCHANGED mturn, x \notin Work \/ s \notin LiveStates
      PROVE  LiveRowsKept
  BY <1>2, <1>3 DEF MoveMessage
<1>4. UNCHANGED storeVars \/ StoreFails => UNCHANGED <<mstate, mturn>>
  BY DEF StoreFails, storeVars, messageRows
<1>5. ASSUME NEW m \in Work, AcceptMessage(m) \/ FailDispatch(m) PROVE LiveRowsKept
  <2>1. "failed" \notin LiveStates /\ "queued" \notin LiveStates /\ m \in Msgs
    BY <1>0 DEF LiveStates
  <2>2. CASE AcceptMessage(m)
    BY <1>2, <2>1, <2>2 DEF AcceptMessage
  <2>3. CASE FailDispatch(m)
    BY <1>3, <2>1, <2>3 DEF FailDispatch
  <2> QED
    BY <1>5, <2>2, <2>3
<1>6. ASSUME NEW n \in Notes, AppendNote(n) PROVE LiveRowsKept
  BY <1>0, <1>2, <1>6 DEF AppendNote
<1>7. ASSUME NEW c \in Controls, NEW x, MarkNeedsReview(c) \/ AcceptControl(c, x) \/ FinishControl(c, x)
      PROVE  LiveRowsKept
  <2>1. c \in Msgs /\ c \notin Work
    BY <1>0
  <2>2. CASE MarkNeedsReview(c)
    BY <1>3, <2>1, <2>2 DEF MarkNeedsReview
  <2>3. CASE FinishControl(c, x)
    BY <1>3, <2>1, <2>3 DEF FinishControl
  <2>4. CASE AcceptControl(c, x)
    BY <1>0, <1>2, <2>1, <2>4 DEF AcceptControl
  <2> QED
    BY <1>7, <2>2, <2>3, <2>4
<1>8. ASSUME NEW t, NEW o \in Terminal, FinishTurn(t, o) PROVE LiveRowsKept
  <2>1. o \notin LiveStates
    BY DEF Terminal, LiveStates
  <2> QED
    BY <1>0, <1>3, <1>8, <2>1 DEF FinishTurn
<1>9. ASSUME NEW x, RecordCompletedItem(x) \/ SetRoomStatus(x) \/ BindThread(x) \/ RepairThread(x)
             \/ MarkThreadNeedsRepair \/ ResetUnusedThread
      PROVE  LiveRowsKept
  BY <1>1, <1>9 DEF RecordCompletedItem, SetRoomStatus, BindThread, RepairThread, MarkThreadNeedsRepair,
     ResetUnusedThread, messageRows
<1>10. ASSUME NEW x, NEW y, BeginPrivateTurn(x, y) \/ EndPrivateTurn(x, y) PROVE UNCHANGED <<mstate, mturn>>
  BY <1>10 DEF BeginPrivateTurn, EndPrivateTurn, messageRows
<1>11. ASSUME NEW x, NEW y, NEW z, ClosePrivateTurns(x, y, z) PROVE LiveRowsKept
  BY <1>1, <1>4, <1>10, <1>11 DEF ClosePrivateTurns
<1>12. ASSUME NEW r, NEW m \in Work, RetryPrompt(r, m) PROVE LiveRowsKept
  <2>1. "queued" \notin LiveStates /\ m \in Msgs
    BY <1>0 DEF LiveStates
  <2> QED
    BY <1>0, <1>2, <1>12, <2>1 DEF RetryPrompt
<1>13. ASSUME NEW r, NEW c \in Controls, RetryControl(r, c) PROVE LiveRowsKept
  BY <1>0, <1>2, <1>13 DEF RetryControl
<1>14. ASSUME NEW r, NEW m \in Work \cup Controls, SkipReviewed(r, m) PROVE LiveRowsKept
  <2>1. "failed" \notin LiveStates /\ m \in Msgs
    BY <1>0 DEF LiveStates
  <2> QED
    BY <1>2, <1>14, <2>1 DEF SkipReviewed
<1>15. ASSUME NEW r, NEW m \in Work \cup Controls, NEW p \in Replacements, ContinueReviewed(r, m, p)
       PROVE  LiveRowsKept
  <2>1. /\ mstate' = [mstate EXCEPT ![m] = "failed", ![p] = "queued"] /\ UNCHANGED mturn
        /\ m \in Msgs /\ p \in Msgs
    BY <1>0, <1>15 DEF ContinueReviewed
  <2> QED
    BY <1>0, <2>1 DEF LiveRowsKept, LiveWork, LiveStates
<1> QED
  BY <1>1, <1>4, <1>5, <1>6, <1>7, <1>8, <1>9, <1>10, <1>11, <1>12, <1>13, <1>14, <1>15

\* The active prompt and its row move together.
ActiveMove ==
    \/ LiveRowsKept /\ (UNCHANGED activeVars \/ NoActive \/ ReadsImage)
    \/ Dispatches /\ activeState' = "dispatching" /\ activeTurn' = 0
    \/ /\ BindTurn /\ BindRunningTurn(active, call.turn)
       /\ UNCHANGED active /\ activeState' = "running" /\ activeTurn' = call.turn
    \/ /\ ReviewTurn \/ SettleActive \/ OnFault \/ LostTurn
       /\ active \in Work /\ MarkNeedsReview(active)
       /\ UNCHANGED <<active, activeTurn>> /\ activeState' = "needs-review"

LEMMA NextActive ==
    ASSUME TypeOK, MessageInv, Sending, At("lostTurn") => active # NoMsg, [Next]_vars PROVE ActiveMove
<1> USE LiveRowsStep DEF ActiveMove, At
<1>0. StoreTypeOK /\ Prompts \subseteq Work /\ active \in Work \cup {NoMsg}
  BY DEF TypeOK, Work, MemoryTypeOK
<1>1. CASE (\E m \in Prompts : Submit(m)) \/ \E n \in Notes : Note(n)
  BY <1>0, <1>1 DEF Submit, Note, stateVars, activeVars
<1>2. CASE (\E c \in Controls, t \in 1..nturn : Control(c, t)) \/ \E q \in Questions : Ask(q)
  BY <1>0, <1>2 DEF Control, Ask, stateVars, activeVars
<1>3. CASE \E r \in Recovers : Resolve(r)
  BY <1>0, <1>3 DEF Resolve
<1>4. CASE OnIgnored \/ OnItem \/ OnQuestionEnd \/ OnUnavailable \/ OnReady
  BY <1>0, <1>4 DEF OnIgnored, OnItem, OnQuestionEnd, OnUnavailable, OnReady, stateVars, activeVars
<1>5. CASE OnTurnEnd
  <2>1. \/ StoreFails /\ UNCHANGED activeVars
        \/ NoActive /\ \E t : \E o \in Terminal : FinishTurn(t, o)
    BY <1>5 DEF OnTurnEnd, Terminal
  <2> QED
    BY <1>0, <2>1
<1>6. CASE EndControl \/ RetryFinish
  <2>1. call.msg \in Controls
    BY <1>6 DEF EndControl, RetryFinish, MessageInv
  <2>2. (StoreFails \/ FinishControl(call.msg, call.outcome)) /\ UNCHANGED activeVars
    BY <1>6 DEF EndControl, RetryFinish, stateVars, activeVars
  <2> QED
    BY <1>0, <2>1, <2>2
<1>7. CASE DispatchNext
  <2>1. \/ (UNCHANGED storeVars \/ StoreFails) /\ UNCHANGED activeVars
        \/ Dispatches /\ activeState' = "dispatching" /\ activeTurn' = 0
    BY <1>7 DEF DispatchNext, Dispatches
  <2> QED
    BY <1>0, <2>1
<1>8. CASE StartTurn \/ ReviewStatus \/ SendControl
  BY <1>0, <1>8 DEF StartTurn, ReviewStatus, SendControl, stateVars, activeVars
<1>9. CASE BindTurn
  BY <1>0, <1>9 DEF BindTurn, activeVars
<1>10. CASE FailTurn
  <2>1. active \in Work
    BY <1>0, <1>10, HeadTailProperties DEF FailTurn, Sending, SendLabels, TypeOK, MemoryTypeOK
  <2> QED
    BY <1>0, <1>10, <2>1 DEF FailTurn
<1>11. CASE ReviewTurn
  <2>1. active \in Work
    BY <1>0, <1>11, HeadTailProperties DEF ReviewTurn, Sending, SendLabels, TypeOK, MemoryTypeOK
  <2> QED
    BY <1>0, <1>11, <2>1 DEF ReviewTurn, activeVars
<1>12. CASE ResolveLoad \/ ResolveReload \/ RecoverLoad
  BY <1>0, <1>12 DEF ResolveLoad, ResolveReload, RecoverLoad, ReadsImage, stateVars, activeVars, StoreFails
<1>13. CASE RetryCall \/ ResolveReady \/ MarkRepair \/ SetRecovering \/ StartThread \/ BindNewThread
  BY <1>0, <1>13 DEF RetryCall, ResolveReady, MarkRepair, SetRecovering, StartThread, BindNewThread,
     stateVars, activeVars
<1>14. CASE ReadThread \/ ResumeThread \/ ReconcilePrivate \/ ReconcileItems
  BY <1>0, <1>14 DEF ReadThread, ResumeThread, ReconcilePrivate, ReconcileItems, stateVars, activeVars
<1>15. CASE SettleActive
  <2>1. \/ (UNCHANGED storeVars \/ StoreFails) /\ UNCHANGED activeVars
        \/ NoActive /\ \E t : \E o \in Terminal : FinishTurn(t, o)
        \/ /\ active # NoMsg /\ MarkNeedsReview(active)
           /\ UNCHANGED <<active, activeTurn>> /\ activeState' = "needs-review"
    BY <1>15 DEF SettleActive, ProvenEnd
  <2> QED
    BY <1>0, <1>15, <2>1
<1>16. CASE ReconcileControls \/ Recovered \/ AskTurn \/ AskUndo \/ FaultReady \/ FaultStatus
  BY <1>0, <1>16 DEF ReconcileControls, Recovered, AskTurn, AskUndo, FaultReady, FaultStatus,
     stateVars, activeVars
<1>17. CASE OnFault
  BY <1>0, <1>17 DEF OnFault, activeVars
<1>18. CASE LostTurn
  BY <1>0, <1>18 DEF LostTurn, activeVars
<1>19. CASE Owner
  BY <1>0, <1>19 DEF Owner, Offline, RepairMark, RepairCreate, RepairBind, RepairBegins, RepairUse, ResetAtStartup, stateVars, activeVars
<1>20. CASE AppServer \/ StartDaemon \/ StartupRecover \/ UNCHANGED vars
  BY <1>0, <1>20 DEF AppServer, StartDaemon, StartupRecover, vars, stateVars, activeVars
<1>21. CASE Exit \/ Crash
  BY <1>0, <1>21 DEF Exit, Crash, DaemonGone
<1> QED
  BY <1>1, <1>2, <1>3, <1>4, <1>5, <1>6, <1>7, <1>8, <1>9, <1>10, <1>11, <1>12, <1>13, <1>14, <1>15,
     <1>16, <1>17, <1>18, <1>19, <1>20, <1>21
     DEF Next, Client, HandleEvent, Continue

\* A prompt that has not been sent has no turn.
LEMMA UnsentStep ==
    ASSUME TypeOK, MessageInv, [Next]_vars,
           \A m \in Work : mstate[m] \in {"absent", "queued", "dispatching"} => mturn[m] = 0
    PROVE  \A m \in Work : mstate'[m] \in {"absent", "queued", "dispatching"} => mturn'[m] = 0
<1> DEFINE Unsent == {"absent", "queued", "dispatching"}
<1>0. /\ mstate \in [Msgs -> RequestStates] /\ mturn \in [Msgs -> 0..MaxTurns]
      /\ Work \subseteq Msgs /\ Controls \subseteq Msgs /\ Work \cap Controls = {} /\ Prompts \subseteq Work
      /\ Replacements \subseteq Work /\ Notes \subseteq Msgs /\ Work \cap Notes = {}
  BY StoreAssumption DEF TypeOK, StoreTypeOK, Msgs, Work
<1>1. CASE UNCHANGED <<mstate, mturn>>
  BY <1>1
<1>2. ASSUME NEW x, NEW s, mstate' = [mstate EXCEPT ![x] = s], UNCHANGED mturn,
             s \notin Unsent \/ x \notin Work \/ mstate[x] \in Unsent
      PROVE  \A m \in Work : mstate'[m] \in Unsent => mturn'[m] = 0
  BY <1>0, <1>2
<1>3. ASSUME NEW x, NEW from, NEW s, MoveMessage(x, from, s), UNCHANGED mturn,
             s \notin Unsent \/ x \notin Work \/ mstate[x] \in Unsent
      PROVE  \A m \in Work : mstate'[m] \in Unsent => mturn'[m] = 0
  BY <1>2, <1>3 DEF MoveMessage
<1>4. CASE Transacts
  <2>1. UNCHANGED storeVars \/ StoreFails => UNCHANGED <<mstate, mturn>>
    BY DEF StoreFails, storeVars, messageRows
  <2>2. ASSUME NEW n \in Notes, AppendNote(n) PROVE \A m \in Work : mstate'[m] \in Unsent => mturn'[m] = 0
    BY <1>0, <1>2, <2>2 DEF AppendNote
  <2>3. ASSUME NEW c \in Controls, NEW t, AcceptControl(c, t)
        PROVE  \A m \in Work : mstate'[m] \in Unsent => mturn'[m] = 0
    BY <1>0, <2>3 DEF AcceptControl
  <2>4. ASSUME NEW m, FailDispatch(m) \/ MarkNeedsReview(m)
        PROVE  \A n \in Work : mstate'[n] \in Unsent => mturn'[n] = 0
    BY <1>3, <2>4 DEF FailDispatch, MarkNeedsReview
  <2>5. ASSUME NEW x, NEW t, BindRunningTurn(x, t)
        PROVE  \A m \in Work : mstate'[m] \in Unsent => mturn'[m] = 0
    BY <1>0, <2>5 DEF BindRunningTurn, MoveMessage
  <2>6. ASSUME NEW c \in Controls, NEW o, FinishControl(c, o)
        PROVE  \A m \in Work : mstate'[m] \in Unsent => mturn'[m] = 0
    BY <1>0, <1>3, <2>6 DEF FinishControl
  <2>7. ASSUME NEW t, NEW o \in Terminal, FinishTurn(t, o)
        PROVE  \A m \in Work : mstate'[m] \in Unsent => mturn'[m] = 0
    BY <1>3, <2>7 DEF FinishTurn, Terminal
  <2>8. ASSUME NEW x, NEW y, BeginPrivateTurn(x, y) \/ EndPrivateTurn(x, y) PROVE UNCHANGED <<mstate, mturn>>
    BY <2>8 DEF BeginPrivateTurn, EndPrivateTurn, messageRows
  <2>9. ASSUME NEW x, RecordCompletedItem(x) \/ SetRoomStatus(x) \/ BindThread(x) \/ RepairThread(x)
               \/ MarkThreadNeedsRepair \/ ResetUnusedThread
        PROVE  UNCHANGED <<mstate, mturn>>
    BY <2>9 DEF RecordCompletedItem, SetRoomStatus, BindThread, RepairThread, MarkThreadNeedsRepair,
       ResetUnusedThread, messageRows
  <2>10. ASSUME NEW x, NEW y, NEW z, ClosePrivateTurns(x, y, z) PROVE UNCHANGED <<mstate, mturn>>
    BY <2>1, <2>8, <2>10 DEF ClosePrivateTurns
  <2> QED
    BY <1>1, <1>4, <2>1, <2>2, <2>3, <2>4, <2>5, <2>6, <2>7, <2>8, <2>9, <2>10 DEF Transacts
<1>5. CASE Dispatches
  BY <1>3, <1>5 DEF Dispatches, BeginDispatch, MoveMessage
<1>6. CASE \E m \in Prompts : Submit(m)
  BY <1>2, <1>6 DEF Submit, AcceptMessage
<1>7. ASSUME NEW r \in Recovers, Resolve(r) PROVE \A m \in Work : mstate'[m] \in Unsent => mturn'[m] = 0
  <2>1. ASSUME NEW m \in Work, RetryPrompt(r, m) PROVE \A n \in Work : mstate'[n] \in Unsent => mturn'[n] = 0
    BY <1>0, <2>1 DEF RetryPrompt
  <2>2. ASSUME NEW c \in Controls, RetryControl(r, c) PROVE \A n \in Work : mstate'[n] \in Unsent => mturn'[n] = 0
    BY <1>0, <1>2, <2>2 DEF RetryControl
  <2>3. ASSUME NEW m, SkipReviewed(r, m) PROVE \A n \in Work : mstate'[n] \in Unsent => mturn'[n] = 0
    BY <1>2, <2>3 DEF SkipReviewed
  <2>4. ASSUME NEW m \in Work \cup Controls, NEW p \in Replacements, ContinueReviewed(r, m, p)
        PROVE \A n \in Work : mstate'[n] \in Unsent => mturn'[n] = 0
    <3>1. /\ mstate' = [mstate EXCEPT ![m] = "failed", ![p] = "queued"] /\ UNCHANGED mturn
          /\ mstate[p] = "absent" /\ m \in Msgs /\ p \in Msgs
      BY <1>0, <2>4 DEF ContinueReviewed
    <3> QED
      BY <1>0, <3>1
  <2> QED
    BY <1>7, <2>1, <2>2, <2>3, <2>4 DEF Resolve
<1> QED
  BY <1>4, <1>5, <1>6, <1>7, NextTransacts DEF Decides

\* The active prompt of a memory has the row's state and turn while it is in progress.
LEMMA RowInvStep ==
    ASSUME TypeOK, MessageInv, Sending, ActiveInv, RowInv, [Next]_vars PROVE RowInv'
<1> USE DEF At
<1>0. /\ mstate \in [Msgs -> RequestStates] /\ mturn \in [Msgs -> 0..MaxTurns]
      /\ Work \subseteq Msgs /\ NoMsg \notin Work
  BY StoreAssumption DEF TypeOK, StoreTypeOK, Msgs
<1>1. \A m \in Work : mstate'[m] \in {"absent", "queued", "dispatching"} => mturn'[m] = 0
  BY UnsentStep DEF RowInv
<1>2. ActiveMove
  BY NextActive DEF RowInv
<1> DEFINE Same == /\ active' \in LiveWork' => activeState' = mstate'[active'] /\ activeTurn' = mturn'[active']
                   /\ active' = NoMsg => activeState' = "none" /\ activeTurn' = 0
<1>3. Same
  <2>1. CASE LiveRowsKept /\ UNCHANGED activeVars
    BY <2>1 DEF LiveRowsKept, activeVars, RowInv
  <2>2. CASE NoActive
    BY <1>0, <2>2 DEF NoActive, LiveWork
  <2>3. CASE ReadsImage
    <3>1. PICK m \in FirstAccepted(LiveWork) : /\ active' = m
                                               /\ activeState' = IF m = NoMsg THEN "none" ELSE mstate[m]
                                               /\ activeTurn' = IF m = NoMsg THEN 0 ELSE mturn[m]
      BY <2>3 DEF ReadsImage, LoadImage
    <3>2. UNCHANGED <<mstate, mturn>>
      BY <2>3 DEF ReadsImage, storeVars, messageRows
    <3> QED
      BY <1>0, <3>1, <3>2 DEF LiveWork
  <2>4. CASE Dispatches /\ activeState' = "dispatching" /\ activeTurn' = 0
    <3>1. active' = Head(queue) /\ Head(queue) \in Work /\ BeginDispatch(Head(queue))
      BY <2>4, HeadTailProperties DEF Dispatches, CanDispatch, TypeOK, MemoryTypeOK
    <3>2. mstate'[active'] = "dispatching" /\ active' # NoMsg
      BY <1>0, <3>1 DEF BeginDispatch, MoveMessage
    <3> QED
      BY <1>1, <2>4, <3>1, <3>2
  <2>5. CASE /\ BindTurn /\ BindRunningTurn(active, call.turn)
             /\ UNCHANGED active /\ activeState' = "running" /\ activeTurn' = call.turn
    <3>1. active \in Work
      BY <2>5, HeadTailProperties DEF BindTurn, Sending, SendLabels, TypeOK, MemoryTypeOK
    <3> QED
      BY <1>0, <2>5, <3>1 DEF BindRunningTurn, MoveMessage
  <2>6. CASE /\ active \in Work /\ MarkNeedsReview(active)
             /\ UNCHANGED <<active, activeTurn>> /\ activeState' = "needs-review"
    <3>1. active \in LiveWork
      BY <2>6 DEF MarkNeedsReview, MoveMessage, LiveWork, LiveStates
    <3> QED
      BY <1>0, <2>6, <3>1 DEF MarkNeedsReview, MoveMessage, RowInv
  <2> QED
    BY <1>2, <2>1, <2>2, <2>3, <2>4, <2>5, <2>6 DEF ActiveMove
<1>4. ASSUME call'.pc = "lostTurn" PROVE active' # NoMsg
  <2>1. \/ HandleEvent /\ ~UNCHANGED call
        \/ UNCHANGED call /\ (AppServer \/ UNCHANGED vars)
    <3>1. call.pc = "idle" => call'.pc # call.pc
      BY <1>4
    <3> QED
      BY <1>4, <3>1, NextFlow, InputAtIdle DEF Flow, ReconcileItems, ReconcileControls
  <2>2. CASE UNCHANGED call /\ (AppServer \/ UNCHANGED vars)
    BY <1>4, <2>2 DEF AppServer, vars, stateVars, RowInv
  <2>3. CASE HandleEvent /\ ~UNCHANGED call
    <3>1. OnUnavailable
      BY <1>4, <2>3, PcAfter, LabelsType, InputAtIdle DEF HandleEvent, OnIgnored, OnItem, OnTurnEnd, OnFault,
         OnQuestionEnd, OnReady, AfterTurn
    <3>2. CASE call' = IF active # NoMsg /\ activeState # "needs-review"
                       THEN Handler("lostTurn", "event", NoMsg) ELSE Idle
      BY <1>4, <3>1, <3>2, PcAfter DEF OnUnavailable, activeVars
    <3> QED
      BY <2>3, <3>1, <3>2 DEF OnUnavailable
  <2> QED
    BY <2>1, <2>2, <2>3
<1> QED
  BY <1>1, <1>3, <1>4 DEF RowInv

\* How the thread of the room and that of the coordinator move.
ThreadMove ==
    \/ UNCHANGED <<threadID, dbThread>>
    \/ (ResolveLoad \/ ResolveReload \/ RecoverLoad) /\ threadID' = dbThread /\ UNCHANGED storeVars
    \/ BindNewThread /\ threadID' = call.turn /\ dbThread' = call.turn
    \/ Owner /\ UNCHANGED threadID /\ dbThread' \in 0..nthread'
    \/ (Exit \/ Crash) /\ threadID' = 0 /\ UNCHANGED dbThread

LEMMA NextThread ==
    ASSUME TypeOK, dbThread <= nthread, repairs.thread <= nthread, [Next]_vars
    PROVE  /\ ThreadMove
           /\ nthread' \in Nat /\ nthread <= nthread'
           /\ status' = "ready" => status = "ready" \/ call.pc \in {"resolveReady", "recovered", "faultReady"}
           /\ threadReady' => threadReady \/ call.pc = "controls"
<1> USE DEF At
<1>0. nthread \in Nat /\ dbThread \in Nat
  BY DEF TypeOK, AgentTypeOK, StoreTypeOK
<1>1. CASE Quiet
  <2>1. ThreadMove
    <3>1. CASE Client \/ HandleEvent
      BY <1>1, <3>1 DEF Quiet, ThreadMove, Client, Submit, Note, Control, Resolve, Ask, HandleEvent, OnIgnored,
         OnItem, OnTurnEnd, OnFault, OnQuestionEnd, OnUnavailable, OnReady, stateVars
    <3>2. CASE \/ DispatchNext \/ StartTurn \/ BindTurn \/ FailTurn \/ ReviewTurn \/ ReviewStatus
               \/ SendControl \/ EndControl \/ RetryCall \/ RetryFinish \/ ResolveReady
               \/ AskTurn \/ AskUndo \/ FaultReady \/ FaultStatus \/ LostTurn
      BY <1>1, <3>2 DEF Quiet, ThreadMove, DispatchNext, StartTurn, BindTurn, FailTurn, ReviewTurn, ReviewStatus,
         SendControl, EndControl, RetryCall, RetryFinish, ResolveReady, AskTurn, AskUndo, FaultReady,
         FaultStatus, LostTurn, stateVars
    <3>3. CASE ResolveLoad \/ ResolveReload \/ RecoverLoad
      BY <1>1, <3>3 DEF Quiet, ThreadMove, ResolveLoad, ResolveReload, RecoverLoad, LoadImage, stateVars
    <3>4. CASE \/ MarkRepair \/ SetRecovering \/ StartThread \/ ReadThread \/ ResumeThread
               \/ ReconcilePrivate \/ ReconcileItems \/ SettleActive \/ ReconcileControls \/ Recovered
      BY <1>1, <3>4 DEF Quiet, ThreadMove, MarkRepair, SetRecovering, StartThread, ReadThread, ResumeThread,
         ReconcilePrivate, ReconcileItems, SettleActive, ReconcileControls, Recovered, stateVars
    <3>5. CASE BindNewThread
      BY <1>1, <3>5 DEF Quiet, ThreadMove, BindNewThread, BindThread
    <3>6. CASE Owner
      BY <1>0, <1>1, <3>6 DEF Quiet, ThreadMove, Owner, Offline, RepairMark, RepairCreate, RepairBind, RepairBegins, RepairUse,
         ResetAtStartup, stateVars
    <3>7. CASE AppServer \/ StartDaemon \/ StartupRecover \/ UNCHANGED vars
      BY <1>1, <3>7 DEF Quiet, ThreadMove, AppServer, StartDaemon, StartupRecover, vars, stateVars
    <3>8. CASE Exit \/ Crash
      BY <1>1, <3>8 DEF Quiet, ThreadMove, Exit, Crash, DaemonGone
    <3> QED
      BY <3>1, <3>2, <3>3, <3>4, <3>5, <3>6, <3>7, <3>8 DEF Next, Continue
  <2> QED
    BY <1>0, <1>1, <2>1 DEF Quiet
<1>2. CASE StartThread
  <2>1. UNCHANGED <<threadID, status, threadReady, dbThread>>
    BY <1>2, ThreadRowUnchanged DEF StartThread, stateVars, flagVars
  <2>2. nthread' \in {nthread, nthread + 1}
    BY <1>2, CallCreatesNoThread DEF StartThread, ThreadStarted, ThreadStartLost, ThreadStartTimedOut
  <2> QED
    BY <1>0, <2>1, <2>2 DEF ThreadMove
<1>3. CASE BindNewThread
  <2>1. UNCHANGED <<nthread, status, threadReady>>
    BY <1>3 DEF BindNewThread, agentVars, flagVars
  <2>2. UNCHANGED <<threadID, dbThread>> \/ (threadID' = call.turn /\ dbThread' = call.turn)
    BY <1>3, ThreadRowUnchanged DEF BindNewThread, BindThread
  <2> QED
    BY <1>0, <1>3, <2>1, <2>2 DEF ThreadMove
<1>4. CASE ResolveReady \/ Recovered \/ FaultReady \/ ReconcileControls
  <2>1. UNCHANGED <<nthread, threadID, dbThread>>
    BY <1>4, ThreadRowUnchanged DEF ResolveReady, Recovered, FaultReady, ReconcileControls, agentVars
  <2>2. /\ status' = "ready" => status = "ready" \/ call.pc \in {"resolveReady", "recovered", "faultReady"}
        /\ threadReady' => threadReady \/ call.pc = "controls"
    BY <1>4 DEF ResolveReady, Recovered, FaultReady, ReconcileControls, flagVars
  <2> QED
    BY <1>0, <2>1, <2>2 DEF ThreadMove
<1>5. CASE Owner
  <2>1. UNCHANGED <<threadID, status, threadReady>>
    BY <1>5 DEF Owner, Offline, RepairMark, RepairCreate, RepairBind, RepairBegins, RepairUse, ResetAtStartup, stateVars, flagVars
  <2>2. CASE RepairMark
    BY <1>0, <2>1, <2>2, ThreadRowUnchanged DEF RepairMark, agentVars, ThreadMove
  <2>3. CASE RepairCreate
    BY <1>0, <1>5, <2>1, <2>3 DEF RepairCreate, storeVars, roomRow, ThreadMove
  <2>6. CASE RepairBind
    <3>1. UNCHANGED nthread /\ dbThread' \in {dbThread, repairs.thread} /\ repairs.thread \in Nat
      BY <2>6, StoreAssumption DEF RepairBind, RepairThread, storeVars, roomRow, agentVars, TypeOK, HandlerTypeOK
    <3> QED
      BY <1>0, <1>5, <2>1, <3>1 DEF ThreadMove
  <2>4. CASE RepairUse
    BY <1>0, <1>5, <2>1, <2>4 DEF RepairUse, RepairThread, agentVars, ThreadMove
  <2>5. CASE ResetAtStartup
    BY <1>0, <1>5, <2>1, <2>5 DEF ResetAtStartup, ResetUnusedThread, agentVars, ThreadMove
  <2> QED
    BY <1>5, <2>2, <2>3, <2>4, <2>5, <2>6 DEF Owner
<1> QED
  BY <1>1, <1>2, <1>3, <1>4, <1>5, InputQuiet, TurnQuiet, RecoverQuiet, LifeQuiet DEF Next, Continue

\* A question is opened by startQuestion and closed by its end, a death or the daemon's end.
LEMMA QuestionMove ==
    ASSUME [Next]_vars
    PROVE  \/ UNCHANGED questionVars
           \/ AskTurn
           \/ OnQuestionEnd \/ OnUnavailable \/ Exit \/ Crash
<1> USE DEF questionVars
<1>1. CASE Client \/ Owner \/ AppServer \/ StartDaemon \/ StartupRecover \/ UNCHANGED vars
  BY <1>1 DEF Client, Submit, Note, Control, Resolve, Ask, Owner, Offline, RepairMark, RepairCreate, RepairBind, RepairBegins, RepairUse,
     ResetAtStartup, AppServer, StartDaemon, StartupRecover, vars
<1>2. CASE OnIgnored \/ OnItem \/ OnTurnEnd \/ OnFault \/ OnReady
  BY <1>2 DEF OnIgnored, OnItem, OnTurnEnd, OnFault, OnReady
<1>3. CASE Continue
  BY <1>3 DEF Continue, DispatchNext, StartTurn, BindTurn, FailTurn, ReviewTurn, ReviewStatus, SendControl,
     EndControl, ResolveLoad, RetryCall, RetryFinish, ResolveReload, ResolveReady, RecoverLoad, MarkRepair,
     SetRecovering, StartThread, BindNewThread, ReadThread, ResumeThread, ReconcilePrivate, ReconcileItems,
     SettleActive, ReconcileControls, Recovered, AskUndo, FaultReady, FaultStatus, LostTurn
<1> QED
  BY <1>1, <1>2, <1>3 DEF Next, HandleEvent

\* Which command a label of startQuestion, handleControl or resolve comes from.
LEMMA ClientHandler ==
    ASSUME TypeOK, Client
    PROVE  /\ call'.pc = "askTurn" => \E q \in Questions : Ask(q)
           /\ call'.pc \in {"control", "finishControl"} => \E c \in Controls, t \in 1..nturn : Control(c, t)
           /\ call'.pc = "resolveLoad" => threadReady /\ Decides
           /\ call'.pc \notin {"askUndo", "bindThread"}
<1> USE PcAfter, LabelsType
<1>0. call.pc = "idle"
  BY InputAtIdle
<1>1. ASSUME NEW m \in Prompts, Submit(m) PROVE call'.pc = "dispatch"
  BY <1>1 DEF Submit
<1>2. ASSUME NEW n \in Notes, Note(n) PROVE call'.pc = "idle"
  BY <1>0, <1>2 DEF Note
<1>3. ASSUME NEW r \in Recovers, Resolve(r)
      PROVE  call'.pc = "idle" \/ (call'.pc = "resolveLoad" /\ threadReady)
  <2>1. \E c \in Controls \cup {NoMsg} : AfterDecision(c)
    BY <1>3 DEF Resolve
  <2> QED
    BY <2>1 DEF AfterDecision
<1>4. ASSUME NEW q \in Questions, Ask(q) PROVE call'.pc = "askTurn"
  BY <1>4 DEF Ask
<1> QED
  BY <1>1, <1>2, <1>3, <1>4, ControlHandler DEF Client, Decides

\* Only startQuestion opens a question; while it is open the room is not ready
\* with the frontier of its thread open, unless the question still is.
LEMMA AskingStep ==
    ASSUME TypeOK, [Next]_vars
    PROVE  /\ Asking' => Asking \/ \E q \in Questions : Ask(q)
           /\ Asking /\ OpenHere /\ status' = "ready" /\ OpenHere' => Asking'
<1> USE DEF At
<1>0. NoMsg \notin Questions /\ Flow
  BY AgentAssumption, NextFlow
<1>1. ASSUME Asking', ~Asking PROVE \E q \in Questions : Ask(q)
  <2>1. question = NoMsg /\ call.pc \notin {"askTurn", "askUndo"}
    BY <1>1 DEF Asking
  <2>2. question' = NoMsg
    BY <2>1, QuestionMove DEF questionVars, AskTurn, OnQuestionEnd, OnUnavailable, Exit, Crash, DaemonGone
  <2>3. call'.pc \in {"askTurn", "askUndo"} /\ ~UNCHANGED call
    BY <1>1, <2>1, <2>2 DEF Asking
  <2>4. Client
    BY <1>0, <2>1, <2>3 DEF Flow, AskTurn
  <2> QED
    BY <2>3, <2>4, ClientHandler
<1>2. ASSUME Asking, OpenHere, status' = "ready", OpenHere' PROVE Asking'
  <2>1. ASSUME NEW T, EndPrivateTurn(threadID, T), UNCHANGED threadID PROVE FALSE
    BY <1>2, <2>1 DEF EndPrivateTurn, OpenHere
  <2>2. CASE AskTurn
    <3>1. call.msg \in Questions
      BY <2>2 DEF AskTurn, TypeOK, HandlerTypeOK
    <3> QED
      BY <1>0, <1>2, <2>2, <3>1, PcAfter, LabelsType DEF AskTurn, Asking
  <2>3. CASE OnQuestionEnd \/ OnUnavailable
    BY <1>2, <2>1, <2>3 DEF OnQuestionEnd, OnUnavailable
  <2>4. CASE Exit \/ Crash
    BY <1>2, <2>4 DEF Exit, Crash, DaemonGone, ZeroMemory
  <2>5. CASE AskUndo
    BY <1>2, <2>1, <2>5 DEF AskUndo
  <2>6. CASE UNCHANGED questionVars /\ ~AskTurn /\ ~AskUndo /\ ~Exit /\ ~Crash
    <3>1. CASE question # NoMsg
      BY <2>6, <3>1 DEF questionVars, Asking
    <3>2. CASE call.pc \in {"askTurn", "askUndo"}
      <4>1. UNCHANGED call
        BY <2>6, <3>2, InputAtIdle DEF Next, Continue, DispatchNext, StartTurn, BindTurn, FailTurn, ReviewTurn,
           ReviewStatus, SendControl, EndControl, ResolveLoad, RetryCall, RetryFinish, ResolveReload, ResolveReady,
           RecoverLoad, MarkRepair, SetRecovering, StartThread, BindNewThread, ReadThread, ResumeThread,
           ReconcilePrivate, ReconcileItems, SettleActive, ReconcileControls, Recovered, FaultReady, FaultStatus,
           LostTurn, AppServer, vars
      <4> QED
        BY <3>2, <4>1 DEF Asking
    <3> QED
      BY <1>2, <3>1, <3>2 DEF Asking
  <2> QED
    BY <2>2, <2>3, <2>4, <2>5, <2>6, QuestionMove
<1> QED
  BY <1>1, <1>2

\* A control comes to a review at the end of its call or in recover.
LEMMA ReviewRowsStep ==
    ASSUME StoreTypeOK, NEW c \in Controls,
           \/ UNCHANGED storeVars \/ StoreFails
           \/ \E m \in Work : AcceptMessage(m)
           \/ \E m : FailDispatch(m) \/ BeginDispatch(m) \/ (\E t : BindRunningTurn(m, t))
           \/ \E m : m \notin Controls /\ MarkNeedsReview(m)
           \/ \E n \in Notes : AppendNote(n)
           \/ \E x, t : AcceptControl(x, t)
           \/ \E x : \E o \in Outcomes \ {"needs-review"} : FinishControl(x, o)
           \/ \E t : \E o \in Terminal : FinishTurn(t, o)
           \/ \E x : RecordCompletedItem(x) \/ SetRoomStatus(x) \/ BindThread(x) \/ RepairThread(x)
           \/ \E x, y : BeginPrivateTurn(x, y) \/ EndPrivateTurn(x, y)
           \/ \E x, y, z : ClosePrivateTurns(x, y, z)
           \/ MarkThreadNeedsRepair \/ ResetUnusedThread
           \/ \E r, m : RetryPrompt(r, m) \/ RetryControl(r, m) \/ SkipReviewed(r, m)
           \/ \E r, m, p : ContinueReviewed(r, m, p),
           mstate'[c] = "needs-review"
    PROVE  mstate[c] = "needs-review"
<1>0. mstate \in [Msgs -> RequestStates] /\ c \in Msgs
  BY DEF StoreTypeOK, Msgs
<1>1. CASE UNCHANGED mstate
  BY <1>1
<1>2. ASSUME NEW x, NEW s, mstate' = [mstate EXCEPT ![x] = s], x # c \/ s # "needs-review"
      PROVE  mstate[c] = "needs-review"
  BY <1>0, <1>2
<1>3. UNCHANGED storeVars \/ StoreFails => UNCHANGED mstate
  BY DEF StoreFails, storeVars, messageRows
<1>4. CASE \E x : AcceptMessage(x) \/ AppendNote(x) \/ FailDispatch(x) \/ BeginDispatch(x) \/ \E t : BindRunningTurn(x, t)
  BY <1>2, <1>4 DEF AcceptMessage, AppendNote, FailDispatch, BeginDispatch, BindRunningTurn, MoveMessage
<1>5. CASE \E m : m \notin Controls /\ MarkNeedsReview(m)
  BY <1>2, <1>5 DEF MarkNeedsReview, MoveMessage
<1>6. CASE \E x, t : AcceptControl(x, t)
  BY <1>2, <1>6 DEF AcceptControl
<1>7. CASE \E x : \E o \in Outcomes \ {"needs-review"} : FinishControl(x, o)
  BY <1>2, <1>7 DEF FinishControl, MoveMessage
<1>8. CASE \E t : \E o \in Terminal : FinishTurn(t, o)
  <2>1. PICK x, s : s \in Terminal /\ mstate' = [mstate EXCEPT ![x] = s]
    BY <1>8 DEF FinishTurn, MoveMessage
  <2> QED
    BY <1>2, <2>1 DEF Terminal
<1>9. ASSUME NEW x, NEW y, BeginPrivateTurn(x, y) \/ EndPrivateTurn(x, y) PROVE UNCHANGED mstate
  BY <1>9 DEF BeginPrivateTurn, EndPrivateTurn, messageRows
<1>10. ASSUME NEW x, NEW y, NEW z, ClosePrivateTurns(x, y, z) PROVE UNCHANGED mstate
  BY <1>3, <1>9, <1>10 DEF ClosePrivateTurns
<1>11. CASE (\E x : RecordCompletedItem(x) \/ SetRoomStatus(x) \/ BindThread(x) \/ RepairThread(x))
            \/ MarkThreadNeedsRepair \/ ResetUnusedThread
  BY <1>11 DEF RecordCompletedItem, SetRoomStatus, BindThread, RepairThread, MarkThreadNeedsRepair,
     ResetUnusedThread, messageRows
<1>12. CASE \E r, m : RetryPrompt(r, m) \/ RetryControl(r, m) \/ SkipReviewed(r, m)
  BY <1>2, <1>12 DEF RetryPrompt, RetryControl, SkipReviewed
<1>13. ASSUME NEW r, NEW m, NEW p, ContinueReviewed(r, m, p) PROVE mstate[c] = "needs-review"
  <2>1. mstate' = [mstate EXCEPT ![m] = "failed", ![p] = "queued"]
    BY <1>13 DEF ContinueReviewed
  <2> QED
    BY <1>0, <2>1
<1> QED
  BY <1>1, <1>3, <1>4, <1>5, <1>6, <1>7, <1>8, <1>9, <1>10, <1>11, <1>12, <1>13

LEMMA ReviewMove ==
    ASSUME TypeOK, MessageInv, [Next]_vars, NEW c \in Controls, mstate'[c] = "needs-review"
    PROVE  \/ mstate[c] = "needs-review"
           \/ call.pc \in {"retryFinish", "controls"}
           \/ call.pc = "finishControl" /\ call.outcome = "needs-review"
<1> USE ReviewRowsStep DEF At
<1>0. StoreTypeOK /\ Prompts \subseteq Work /\ active \notin Controls /\ call.outcome \in Outcomes
  BY StoreAssumption, CallFields DEF TypeOK, MemoryTypeOK, Work, Msgs
<1>1. CASE (\E m \in Prompts : Submit(m)) \/ \E n \in Notes : Note(n)
  BY <1>0, <1>1 DEF Submit, Note
<1>2. CASE (\E x \in Controls, t \in 1..nturn : Control(x, t)) \/ \E q \in Questions : Ask(q)
  BY <1>0, <1>2 DEF Control, Ask
<1>3. CASE \E r \in Recovers : Resolve(r)
  BY <1>0, <1>3 DEF Resolve
<1>4. CASE OnIgnored \/ OnItem \/ OnQuestionEnd \/ OnUnavailable \/ OnReady
  BY <1>0, <1>4 DEF OnIgnored, OnItem, OnQuestionEnd, OnUnavailable, OnReady
<1>5. CASE OnTurnEnd \/ SettleActive
  <2>1. \/ UNCHANGED storeVars \/ StoreFails \/ MarkNeedsReview(active)
        \/ \E t : \E o \in Terminal : FinishTurn(t, o)
    BY <1>5 DEF OnTurnEnd, SettleActive, ProvenEnd, Terminal
  <2> QED
    BY <1>0, <2>1
<1>6. CASE EndControl \/ RetryFinish
  BY <1>0, <1>6 DEF EndControl, RetryFinish
<1>7. CASE DispatchNext \/ StartTurn \/ BindTurn \/ FailTurn \/ ReviewTurn \/ ReviewStatus \/ SendControl
  BY <1>0, <1>7 DEF DispatchNext, StartTurn, BindTurn, FailTurn, ReviewTurn, ReviewStatus, SendControl
<1>8. CASE ResolveLoad \/ RetryCall \/ ResolveReload \/ ResolveReady
  BY <1>0, <1>8 DEF ResolveLoad, RetryCall, ResolveReload, ResolveReady
<1>9. CASE RecoverLoad \/ MarkRepair \/ SetRecovering \/ StartThread \/ BindNewThread
  BY <1>0, <1>9 DEF RecoverLoad, MarkRepair, SetRecovering, StartThread, BindNewThread
<1>10. CASE ReadThread \/ ResumeThread \/ ReconcilePrivate \/ ReconcileItems \/ ReconcileControls
  BY <1>0, <1>10 DEF ReadThread, ResumeThread, ReconcilePrivate, ReconcileItems, ReconcileControls
<1>11. CASE Recovered \/ AskTurn \/ AskUndo \/ FaultReady \/ FaultStatus \/ LostTurn \/ OnFault
  BY <1>0, <1>11 DEF Recovered, AskTurn, AskUndo, FaultReady, FaultStatus, LostTurn, OnFault
<1>12. CASE Owner
  BY <1>0, <1>12 DEF Owner, RepairMark, RepairCreate, RepairBind, RepairBegins, RepairUse, ResetAtStartup
<1>13. CASE AppServer \/ StartDaemon \/ StartupRecover \/ Exit \/ Crash \/ UNCHANGED vars
  BY <1>0, <1>13 DEF AppServer, StartDaemon, StartupRecover, Exit, Crash, DaemonGone, vars
<1> QED
  BY <1>1, <1>2, <1>3, <1>4, <1>5, <1>6, <1>7, <1>8, <1>9, <1>10, <1>11, <1>12, <1>13
     DEF Next, Client, HandleEvent, Continue

\* The frontier of the coordinator's thread is opened by startQuestion, and
\* recover may read that it is open.
LEMMA OpenStep ==
    ASSUME TypeOK, FrontierInv, [Next]_vars, OpenHere'
    PROVE  \/ OpenHere /\ UNCHANGED frontier
           \/ \E q \in Questions : Ask(q)
           \/ RecoverLoad /\ status' # "ready" /\ ~threadReady'
<1> USE DEF At
<1>0. /\ ThreadMove /\ RowsStep
      /\ threadReady \/ call.pc \in {"resolveLoad", "resolveReload"} => threadID = dbThread
      /\ call.pc = "bindThread" => frontier < call.turn
  BY NextThread, NextRows DEF FrontierInv
<1>1. frontier' \in {frontier, 0} \/ \E q \in Questions : Ask(q)
  <2>1. CASE PrivateKept
    BY <2>1 DEF PrivateKept
  <2>2. ASSUME NEW th, NEW T, EndPrivateTurn(th, T) PROVE frontier' \in {frontier, 0}
    BY <2>2 DEF EndPrivateTurn
  <2>3. StoreFails \/ UNCHANGED storeVars => UNCHANGED frontier
    BY DEF StoreFails, storeVars, privateRows
  <2>4. CASE AskUndo \/ OnQuestionEnd
    BY <2>2, <2>3, <2>4 DEF AskUndo, OnQuestionEnd
  <2>5. CASE ReconcilePrivate
    <3>1. \/ StoreFails \/ UNCHANGED storeVars
          \/ \E th, T : EndPrivateTurn(th, T)
      BY <2>5 DEF ReconcilePrivate, ClosePrivateTurns
    <3> QED
      BY <2>2, <2>3, <3>1
  <2> QED
    BY <1>0, <2>1, <2>4, <2>5 DEF RowsStep, RowsKept
<1>2. CASE frontier' \in {frontier, 0}
  <2>0. frontier' = frontier /\ frontier # 0 /\ frontier = threadID'
    BY <1>2 DEF OpenHere
  <2>1. CASE UNCHANGED threadID
    BY <2>0, <2>1 DEF OpenHere
  <2>2. CASE ResolveLoad \/ ResolveReload
    <3>1. threadID = dbThread
      BY <1>0, <2>2 DEF ResolveLoad, ResolveReload
    <3>2. threadID' = threadID
      BY <2>2, <3>1 DEF ResolveLoad, ResolveReload, LoadImage, stateVars
    <3> QED
      BY <2>1, <3>2
  <2>3. CASE RecoverLoad
    BY <2>3 DEF RecoverLoad
  <2>4. CASE BindNewThread /\ threadID' = call.turn
    <3>1. frontier < call.turn /\ frontier \in Nat /\ call.turn \in Nat
      BY <1>0, <2>4, CallFields DEF BindNewThread, TypeOK, StoreTypeOK
    <3> QED
      BY <2>0, <2>4, <3>1
  <2>5. CASE threadID' = 0
    BY <2>0, <2>5
  <2> QED
    BY <1>0, <2>1, <2>2, <2>3, <2>4, <2>5 DEF ThreadMove
<1> QED
  BY <1>1, <1>2

\* A prompt with an event or a turn of its own here, at the end of its turn.
LEMMA EndedIsBound ==
    ASSUME TypeOK, BoundInv, NEW e \in Received, e.kind \in Terminal, NEW o \in Terminal, FinishTurn(e.turn, o)
    PROVE  ~OpenHere
<1>1. PICK m \in Work : mturn[m] = e.turn /\ mstate[m] \in {"running", "needs-review"}
  BY DEF FinishTurn, MoveMessage
<1>2. e = events[1] /\ 1 \in 1..Len(events) /\ e.turn # 0
  <2>1. events \in Seq(TurnEvents \cup RuntimeEvents) /\ events # <<>> /\ e = Head(events)
    BY DEF TypeOK, AgentTypeOK, Received
  <2>2. e = events[1] /\ 1 \in 1..Len(events) /\ e \in TurnEvents \cup RuntimeEvents
    BY <2>1, HeadTailProperties, EmptySeq, LenProperties
  <2>3. \A x \in Turns : x # 0
    BY StoreAssumption DEF Turns
  <2> QED
    BY <2>2, <2>3 DEF TurnEvents, RuntimeEvents, Terminal
<1> QED
  BY <1>1, <1>2 DEF BoundInv, LiveWork, LiveStates, Current

LEMMA FrontierInvStep ==
    ASSUME TypeOK, MessageInv, Sending, ActiveInv, ImageInv, ThreadInv, RowInv, BoundInv, FrontierInv, [Next]_vars
    PROVE  FrontierInv'
<1> USE DEF At
<1>0. /\ ThreadMove /\ nthread' \in Nat /\ nthread <= nthread' /\ nthread \in Nat
      /\ threadID \in Nat /\ dbThread \in Nat /\ frontier \in Nat /\ call \in CallRecords
      /\ status' = "ready" => status = "ready" \/ call.pc \in {"resolveReady", "recovered", "faultReady"}
      /\ threadReady' => threadReady \/ call.pc = "controls"
      /\ Flow /\ ActiveMove /\ NoMsg \notin Work
  BY NextThread, NextFlow, NextActive, StoreAssumption, SMTT(20)
     DEF FrontierInv, RowInv, TypeOK, AgentTypeOK, StoreTypeOK, MemoryTypeOK, HandlerTypeOK, Msgs
<1>a. ASSUME NEW q \in Questions, Ask(q)
      PROVE  /\ NoReview /\ NoReview' /\ active = NoMsg /\ call'.pc = "askTurn"
             /\ UNCHANGED <<threadID, dbThread, active, nthread>> /\ frontier' = threadID
    <2>1. /\ Loaded /\ active = NoMsg /\ NoPending /\ UNCHANGED <<mstate, threadID, dbThread, active, nthread>>
          /\ frontier' = threadID
      BY <1>a DEF Ask, Loaded, BeginPrivateTurn, messageRows, roomRow, stateVars, agentVars
    <2>2. LiveWork = {}
      BY <1>0, <2>1 DEF ActiveInv, LiveWork
    <2>3. \A c \in Controls : mstate[c] # "needs-review"
      BY <2>1 DEF ImageInv, NoPending, PendingControl
    <2> QED
      BY <1>a, <2>1, <2>2, <2>3, PcAfter, LabelsType DEF NoReview, LiveWork, Ask
<1>1. status' = "ready" => ~OpenHere' \/ Asking'
  <2> SUFFICES ASSUME status' = "ready", OpenHere' PROVE Asking'
    OBVIOUS
  <2>1. CASE OpenHere
    <3>1. status = "ready"
      BY <1>0, <2>1 DEF FrontierInv, ShutLabels
    <3>2. Asking
      BY <2>1, <3>1 DEF FrontierInv
    <3> QED
      BY <2>1, <3>2, AskingStep
  <2>2. CASE \E q \in Questions : Ask(q)
    BY <1>a, <2>2 DEF Asking
  <2> QED
    BY <2>1, <2>2, OpenStep
<1>2. ASSUME call'.pc \in ShutLabels, OpenHere' PROVE FALSE
  <2>1. OpenHere /\ UNCHANGED frontier
    <3>1. ~(\E q \in Questions : Ask(q))
      BY <1>2, <1>a DEF ShutLabels
    <3>2. ~RecoverLoad
      BY <1>2, PcAfter, LabelsType DEF RecoverLoad, ShutLabels
    <3> QED
      BY <1>2, <3>1, <3>2, OpenStep
  <2>2. call.pc \notin ShutLabels
    BY <2>1 DEF FrontierInv
  <2>3. CASE Client /\ call'.pc \in {"control", "resolveLoad"}
    <3>1. CASE \E c \in Controls, t \in 1..nturn : Control(c, t)
      <4>1. call'.pc = "control"
        BY <1>2, <3>1, ControlHandler DEF ShutLabels
      <4>2. status = "ready" /\ active # NoMsg
        <5>1. PICK c \in Controls, t \in 1..nturn : Control(c, t)
          BY <3>1
        <5>2. ASSUME call' = [Handler("finishControl", "command", c) EXCEPT !.outcome = "failed"] PROVE FALSE
          <6>1. Handler("finishControl", "command", c) \in CallRecords
                /\ Handler("finishControl", "command", c).pc = "finishControl"
            BY HandlerIsCall, LabelsType
          <6> QED
            BY <4>1, <5>2, <6>1 DEF CallRecords
        <5> QED
          BY <5>1, <5>2 DEF Control, CurrentTurn
      <4> QED
        BY <2>1, <4>2 DEF FrontierInv
    <3>2. CASE Decides /\ threadReady
      <4>1. \E m \in Work \cup Controls : mstate[m] = "needs-review"
        BY <3>2 DEF Decides, Resolve, RetryPrompt, RetryControl, SkipReviewed, ContinueReviewed, Decided
      <4>2. NoReview
        BY <2>1, <3>2 DEF FrontierInv
      <4> QED
        BY <4>1, <4>2 DEF NoReview, LiveWork, LiveStates
    <3> QED
      BY <2>3, <3>1, <3>2, ClientHandler
  <2>4. CASE HandleEvent /\ call'.pc = "faultReady"
    <3>1. OnTurnEnd
      BY <2>4, PcAfter, LabelsType, InputAtIdle DEF HandleEvent, OnIgnored, OnItem, OnFault,
         OnQuestionEnd, OnUnavailable, OnReady
    <3>2. PICK e \in Received : e.kind \in Terminal /\ \E o \in Terminal : FinishTurn(e.turn, o)
      BY <2>4, <3>1, PcAfter DEF OnTurnEnd, Terminal
    <3> QED
      BY <2>1, <3>2, EndedIsBound
  <2>5. CASE BindNewThread /\ call'.pc = "controls"
    <3>1. threadID' = call.turn /\ frontier < call.turn /\ call.turn \in Nat
      BY <2>5, CallFields, PcAfter, LabelsType DEF BindNewThread, FrontierInv, TypeOK
    <3>2. frontier' = threadID' /\ frontier' = frontier /\ frontier \in Nat
      BY <1>0, <1>2, <2>1 DEF OpenHere
    <3> QED
      BY <3>1, <3>2
  <2>6. CASE ReconcilePrivate /\ call'.pc = "items"
    <3>1. ClosePrivateTurns(threadID, InHistory, SeenRunning)
      BY <2>6, PcAfter DEF ReconcilePrivate
    <3> QED
      BY <2>1, <3>1 DEF ClosePrivateTurns, EndPrivateTurn, OpenHere
  <2>7. ~UNCHANGED call
    BY <1>2, <2>2
  <2>8. CASE DispatchNext /\ call'.pc = "startTurn"
    <3>1. CanDispatch
      BY <2>8, PcAfter DEF DispatchNext
    <3> QED
      BY <2>1, <2>8, <3>1 DEF DispatchNext, CanDispatch, FrontierInv, Asking
  <2> QED
    BY <1>0, <1>2, <2>2, <2>3, <2>4, <2>5, <2>6, <2>7, <2>8 DEF Flow, ShutLabels, StartTurn, SendControl, ResolveLoad,
       RetryCall, RetryFinish, ResolveReload, ReconcileItems, SettleActive, ReconcileControls
<1>3. ASSUME call'.pc = "finishControl", call'.outcome = "needs-review", OpenHere' PROVE FALSE
  <2>1. OpenHere
    <3>1. ~(\E q \in Questions : Ask(q))
      BY <1>3, <1>a
    <3>2. ~RecoverLoad
      BY <1>3, PcAfter, LabelsType DEF RecoverLoad
    <3> QED
      BY <1>3, <3>1, <3>2, OpenStep
  <2>2. CASE Client
    <3>1. PICK c \in Controls, t \in 1..nturn : Control(c, t)
      BY <1>3, <2>2, ClientHandler
    <3>2. /\ Handler("finishControl", "command", c) \in CallRecords
          /\ Handler("control", "command", c).pc = "control"
      BY HandlerIsCall, LabelsType
    <3>3. call' = [Handler("finishControl", "command", c) EXCEPT !.outcome = "failed"]
      BY <1>3, <3>1, <3>2 DEF Control
    <3> QED
      BY <1>3, <3>2, <3>3 DEF CallRecords
  <2>3. CASE SendControl
    BY <2>1, <2>3 DEF SendControl, FrontierInv, ShutLabels
  <2>4. CASE UNCHANGED call
    BY <1>3, <2>1, <2>4 DEF FrontierInv
  <2> QED
    BY <1>0, <1>3, <2>2, <2>3, <2>4 DEF Flow
<1>4. ASSUME call'.pc = "bindThread" PROVE frontier' < call'.turn /\ call'.turn <= nthread'
  <2>1. StartThread \/ (UNCHANGED call /\ (AppServer \/ UNCHANGED vars))
    BY <1>0, <1>4, InputAtIdle, ClientHandler DEF Flow, ReconcileItems, ReconcileControls
  <2>2. UNCHANGED frontier
    BY <2>1 DEF StartThread, SetRoomStatus, StoreFails, AppServer, vars, storeVars, privateRows
  <2>3. CASE StartThread
    <3>1. call' = [call EXCEPT !.pc = "bindThread", !.turn = nthread'] /\ nthread' = nthread + 1
      <4>1. call' = [call EXCEPT !.pc = "markRepair", !.expired = TRUE] => call'.pc = "markRepair"
        BY <1>0 DEF CallRecords
      <4> QED
        BY <1>4, <2>3, <4>1, PcAfter, LabelsType DEF StartThread, ThreadStarted
    <3>2. call'.turn = nthread + 1
      BY <1>0, <3>1 DEF CallRecords
    <3> QED
      BY <1>0, <2>2, <3>1, <3>2 DEF FrontierInv
  <2>4. CASE UNCHANGED call
    <3>1. frontier < call.turn /\ call.turn <= nthread /\ call.turn \in Nat
      BY <1>4, <2>4, CallFields DEF FrontierInv, TypeOK
    <3> QED
      BY <1>0, <2>2, <2>4, <3>1
  <2> QED
    BY <2>1, <2>3, <2>4
<1>b. ASSUME OpenHere, Dispatches PROVE FALSE
  BY <1>b DEF Dispatches, DispatchNext, CanDispatch, FrontierInv, Asking
<1>c. ASSUME LiveWork = {}, OpenHere \/ Asking PROVE LiveWork' = {}
  <2>1. CASE LiveRowsKept
    BY <1>c, <2>1 DEF LiveRowsKept
  <2>2. CASE Dispatches
    BY <1>b, <1>c, <2>2 DEF Dispatches, DispatchNext, CanDispatch, Asking
  <2>3. CASE BindTurn
    <3>1. active \in Work /\ mstate[active] = "dispatching"
      BY <2>3, HeadTailProperties DEF BindTurn, Sending, SendLabels, TypeOK, MemoryTypeOK
    <3> QED
      BY <1>c, <3>1 DEF LiveWork, LiveStates
  <2>4. CASE active \in Work /\ MarkNeedsReview(active)
    BY <1>c, <2>4 DEF MarkNeedsReview, MoveMessage, LiveWork, LiveStates
  <2> QED
    BY <1>0, <2>1, <2>2, <2>3, <2>4 DEF ActiveMove
<1>5. ASSUME threadReady', OpenHere' PROVE NoReview'
  <2>1. CASE OpenHere
    <3>1. threadReady
      BY <1>0, <1>5, <2>1 DEF FrontierInv, ShutLabels
    <3>2. NoReview
      BY <2>1, <3>1 DEF FrontierInv
    <3>3. LiveWork' = {}
      BY <1>c, <2>1, <3>2 DEF NoReview
    <3>4. ASSUME NEW c \in Controls PROVE mstate'[c] # "needs-review"
      BY <2>1, <3>2, <3>4, ReviewMove DEF NoReview, FrontierInv, ShutLabels
    <3> QED
      BY <3>3, <3>4 DEF NoReview
  <2>2. CASE \E q \in Questions : Ask(q)
    BY <1>a, <2>2
  <2> QED
    BY <1>5, <2>1, <2>2, OpenStep
<1>6. ASSUME Asking' PROVE active' = NoMsg /\ LiveWork' = {}
  <2>1. CASE \E q \in Questions : Ask(q)
    BY <1>a, <2>1 DEF NoReview
  <2>2. CASE Asking
    <3>1. active = NoMsg /\ LiveWork = {}
      BY <2>2 DEF FrontierInv
    <3>2. LiveWork' = {}
      BY <1>c, <2>2, <3>1
    <3>3. ~Dispatches
      BY <2>2 DEF Asking, Dispatches, DispatchNext, CanDispatch
    <3>4. ReadsImage => active' = NoMsg
      BY <3>1 DEF ReadsImage, LoadImage, FirstAccepted
    <3> QED
      BY <1>0, <3>1, <3>2, <3>3, <3>4 DEF ActiveMove, activeVars, NoActive
  <2> QED
    BY <1>6, <2>1, <2>2, AskingStep
<1>7. ASSUME threadReady' \/ call'.pc \in {"resolveLoad", "resolveReload"} PROVE threadID' = dbThread'
  <2>1. CASE threadID = dbThread /\ ~Owner /\ ~Exit /\ ~Crash
    BY <1>0, <2>1 DEF ThreadMove, storeVars, roomRow
  <2>2. CASE Owner \/ Exit \/ Crash
    <3>1. ~threadReady' /\ call'.pc = "down"
      BY <2>2, InputAtIdle DEF Owner, Offline, RepairMark, RepairCreate, RepairBind, RepairBegins, RepairUse, ResetAtStartup, flagVars,
         ThreadInv, Exit, Crash, DaemonGone, Idle
    <3> QED
      BY <1>7, <3>1
  <2>3. ~Owner /\ ~Exit /\ ~Crash => threadID = dbThread
    <3>1. threadReady \/ call.pc \in {"resolveLoad", "resolveReload"} => threadID = dbThread
      BY DEF FrontierInv
    <3>2. call.pc \in {"controls", "retryFinish"} => threadID = dbThread
      BY DEF ImageInv, Loaded, LoadedLabels
    <3>3. CASE threadReady'
      BY <1>0, <3>1, <3>2, <3>3
    <3>4. CASE call'.pc = "resolveLoad"
      <4>1. threadReady \/ call.pc = "resolveLoad"
        BY <1>0, <3>4, ClientHandler DEF Flow
      <4> QED
        BY <3>1, <4>1
    <3>5. CASE call'.pc = "resolveReload"
      <4>1. call.pc \in {"retryFinish", "resolveReload"}
        BY <1>0, <3>5 DEF Flow, RetryFinish
      <4> QED
        BY <3>1, <3>2, <4>1
    <3> QED
      BY <1>7, <3>3, <3>4, <3>5
  <2> QED
    BY <2>1, <2>2, <2>3
<1>8. threadID' <= nthread' /\ dbThread' <= nthread' /\ frontier' <= nthread'
  <2>1. threadID <= nthread /\ dbThread <= nthread /\ frontier <= nthread
        /\ (call.pc = "bindThread" => call.turn <= nthread /\ call.turn \in Nat)
    BY CallFields DEF FrontierInv, TypeOK
  <2>2. threadID' <= nthread' /\ dbThread' <= nthread'
    BY <1>0, <2>1 DEF ThreadMove, BindNewThread, storeVars, roomRow
  <2>3. frontier' \in {frontier, 0, threadID}
    <3>1. CASE PrivateKept
      BY <3>1 DEF PrivateKept
    <3>2. ASSUME NEW th, NEW T, EndPrivateTurn(th, T) PROVE frontier' \in {frontier, 0}
      BY <3>2 DEF EndPrivateTurn
    <3>3. StoreFails \/ UNCHANGED storeVars => UNCHANGED frontier
      BY DEF StoreFails, storeVars, privateRows
    <3>4. CASE AskUndo \/ OnQuestionEnd
      BY <3>2, <3>3, <3>4 DEF AskUndo, OnQuestionEnd
    <3>5. CASE ReconcilePrivate
      <4>1. \/ StoreFails \/ UNCHANGED storeVars
            \/ \E th, T : EndPrivateTurn(th, T)
        BY <3>5 DEF ReconcilePrivate, ClosePrivateTurns
      <4> QED
        BY <3>2, <3>3, <4>1
    <3> QED
      BY <1>a, <3>1, <3>4, <3>5, NextRows DEF RowsStep, RowsKept
  <2> QED
    BY <1>0, <2>1, <2>2, <2>3
<1>9. repairs'.thread <= nthread'
  <2>1. /\ repairs.thread \in Nat /\ repairs.thread <= nthread
        /\ repairs = [begun |-> repairs.begun, at |-> repairs.at, thread |-> repairs.thread]
    BY StoreAssumption DEF FrontierInv, TypeOK, HandlerTypeOK
  <2>2. CASE RepairMark \/ RepairUse \/ ResetAtStartup
    <3>1. PICK b, l : repairs' = [begun |-> b, at |-> l, thread |-> repairs.thread]
      BY <2>1, <2>2 DEF RepairMark, RepairUse, ResetAtStartup, RepairBegins
    <3> QED
      BY <1>0, <2>1, <3>1
  <2>3. CASE RepairEnds
    <3>1. PICK b : repairs' = [begun |-> b, at |-> "none", thread |-> 0]
      BY <2>1, <2>3 DEF RepairEnds
    <3> QED
      BY <1>0, <3>1
  <2>4. CASE repairs' = [repairs EXCEPT !.at = "bind", !.thread = nthread']
    <3>1. repairs' = [begun |-> repairs.begun, at |-> "bind", thread |-> nthread']
      BY <2>1, <2>4
    <3> QED
      BY <1>0, <3>1
  <2>5. CASE UNCHANGED repairs
    BY <1>0, <2>1, <2>5
  <2> QED
    BY <2>2, <2>3, <2>4, <2>5, RepairsKept DEF Owner, RepairCreate, RepairBind
<1> QED
  BY <1>1, <1>2, <1>3, <1>4, <1>5, <1>6, <1>7, <1>8, <1>9 DEF FrontierInv

\* What becomes of the frontier and of the journal.
LEMMA JournalMove ==
    ASSUME TypeOK, [Next]_vars
    PROVE  \/ UNCHANGED <<frontier, baseline, hidden>>
           \/ (\E q \in Questions : Ask(q)) /\ UNCHANGED hidden
           \/ /\ \/ AskUndo /\ UNCHANGED hidden
                 \/ OnQuestionEnd /\ hidden' = hidden \cup {questionTurn}
                 \/ ReconcilePrivate /\ hidden' = hidden \cup Unexplained(threadID, InHistory)
              /\ UNCHANGED <<frontier, baseline>> \/ frontier' = 0
<1> USE DEF PrivateKept
<1>1. StoreFails \/ UNCHANGED storeVars => PrivateKept
  BY DEF StoreFails, storeVars, privateRows
<1>2. ASSUME NEW th, NEW T, EndPrivateTurn(th, T)
      PROVE  hidden' = hidden \cup T /\ (UNCHANGED <<frontier, baseline>> \/ frontier' = 0)
  BY <1>2 DEF EndPrivateTurn
<1>3. CASE \E q \in Questions : Ask(q)
  BY <1>3 DEF Ask, BeginPrivateTurn
<1>4. CASE AskUndo \/ OnQuestionEnd
  BY <1>1, <1>2, <1>4 DEF AskUndo, OnQuestionEnd
<1>5. CASE ReconcilePrivate
  BY <1>1, <1>2, <1>5 DEF ReconcilePrivate, ClosePrivateTurns
<1> QED
  BY <1>3, <1>4, <1>5, NextRows DEF RowsStep, RowsKept

\* The turns of the frontier's thread that are not of its question were there
\* before it; so only turns of questions are ever hidden.
LEMMA HideInvStep ==
    ASSUME TypeOK, ImageInv, ThreadInv, HistoryInv, FrontierInv, HideInv, [Next]_vars
    PROVE  HideInv'
<1> USE DEF At
<1>0. /\ TurnsKept /\ HistStep /\ nturn \in Nat /\ threadID \in Nat
      /\ NoMsg \notin Questions /\ NoMsg \notin Work
  BY NextTurnsKept, NextHist, AgentAssumption, StoreAssumption
     DEF HistoryInv, TypeOK, AgentTypeOK, MemoryTypeOK, Msgs
<1>1. ASSUME NEW t \in 1..nturn, tstate[t] = "lost", t \notin InHistory PROVE t \notin InHistory'
  BY <1>0, <1>1, InHistoryAfter DEF History
<1>2. ASSUME frontier # 0, NEW t \in 1..nturn', t \notin 1..nturn, towner'[t] \notin Questions
      PROVE  tthread'[t] # frontier
  <2>1. ASSUME NEW o, NEW th, NewTurn(o, th) PROVE t = nturn' /\ towner'[t] = o /\ tthread'[t] = th
    <3>1. nturn' = nturn + 1 /\ towner'[nturn'] = o /\ tthread'[nturn'] = th
      BY <2>1, NewTurnFacts
    <3> QED
      BY <1>0, <1>2, <3>1
  <2>2. CASE StartTurn /\ NewTurn(active, threadID)
    <3>1. ~OpenHere
      BY <2>2 DEF StartTurn, FrontierInv, ShutLabels
    <3> QED
      BY <1>2, <2>1, <2>2, <3>1 DEF OpenHere
  <2>3. CASE AskTurn /\ NewTurn(call.msg, threadID)
    BY <1>2, <2>1, <2>3 DEF AskTurn, TypeOK, HandlerTypeOK
  <2>4. CASE UNCHANGED nturn
    BY <1>2, <2>4
  <2> QED
    BY <2>2, <2>3, <2>4, NextTurns DEF TurnsStep, TurnEnds, ProcessGone
<1>3. QuestionTurns \subseteq QuestionTurns'
  BY <1>0 DEF TurnsKept
<1>4. ASSUME UNCHANGED <<frontier, baseline>>, frontier # 0, NEW t \in 1..nturn',
             tthread'[t] = frontier, towner'[t] \notin Questions
      PROVE  t \in baseline' \/ (tstate'[t] = "lost" /\ t \notin InHistory')
  <2>1. t \in 1..nturn
    BY <1>2, <1>4
  <2>2. t \in baseline \/ (tstate[t] = "lost" /\ t \notin InHistory)
    BY <1>0, <1>4, <2>1 DEF HideInv, TurnsKept
  <2> QED
    BY <1>0, <1>1, <1>4, <2>1, <2>2 DEF TurnsKept
<1>5. ASSUME NEW q \in Questions, Ask(q), NEW t \in 1..nturn', tthread'[t] = frontier'
      PROVE  t \in baseline' \/ (tstate'[t] = "lost" /\ t \notin InHistory')
  <2>1. /\ UNCHANGED <<nturn, tthread, tstate, hist>> /\ frontier' = threadID /\ baseline' = History(threadID)
        /\ call.pc = "idle"
    BY <1>5 DEF Ask, agentVars, turnVars, BeginPrivateTurn, Serving
  <2>2. InHistory' = {}
    BY <2>1 DEF InHistory, HistoryInv, HistLabels
  <2> QED
    BY <1>5, <2>1, <2>2 DEF History
<1>6. (frontier # 0 => \A t \in 1..nturn :
          tthread[t] = frontier /\ towner[t] \notin Questions =>
              t \in baseline \/ (tstate[t] = "lost" /\ t \notin InHistory))'
  BY <1>4, <1>5, JournalMove
<1>7. hidden' \subseteq QuestionTurns'
  <2>1. hidden \subseteq QuestionTurns
    BY DEF HideInv
  <2>2. CASE OnQuestionEnd /\ hidden' = hidden \cup {questionTurn}
    <3>1. question # NoMsg
      BY <2>2 DEF OnQuestionEnd, ForQuestion
    <3> QED
      BY <1>3, <2>1, <2>2, <3>1 DEF HideInv
  <2>3. CASE ReconcilePrivate /\ hidden' = hidden \cup Unexplained(threadID, InHistory)
    <3>1. call.pc = "private" /\ threadID # 0
      BY <2>3 DEF ReconcilePrivate, ThreadInv, MustBeBound, BoundLabels, ImageInv, Loaded, LoadedLabels
    <3>2. ASSUME NEW t \in Unexplained(threadID, InHistory) PROVE t \in QuestionTurns
      <4>1. frontier = threadID /\ t \in InHistory /\ t \notin baseline
        BY <3>2 DEF Unexplained
      <4>2. t \in 1..nturn /\ tthread[t] = threadID
        BY <3>1, <4>1 DEF HistoryInv
      <4> QED
        BY <3>1, <4>1, <4>2 DEF HideInv, QuestionTurns
    <3> QED
      BY <1>3, <2>1, <2>3, <3>2
  <2> QED
    BY <1>3, <2>1, <2>2, <2>3, JournalMove
<1>8. ASSUME question' # NoMsg PROVE questionTurn' \in QuestionTurns'
  <2>1. CASE UNCHANGED questionVars
    BY <1>3, <1>8, <2>1 DEF questionVars, HideInv
  <2>2. CASE AskTurn /\ ~UNCHANGED questionVars
    <3>1. TurnStarted(call.msg, threadID) /\ questionTurn' = nturn' /\ call.msg \in Questions
      BY <2>2 DEF AskTurn, TypeOK, HandlerTypeOK
    <3>2. nturn' \in 1..nturn' /\ towner'[nturn'] = call.msg
      BY <3>1, NewTurnFacts DEF TurnStarted
    <3> QED
      BY <3>1, <3>2 DEF QuestionTurns
  <2> QED
    BY <1>8, <2>1, <2>2, QuestionMove DEF OnQuestionEnd, OnUnavailable, Exit, Crash, DaemonGone
<1> QED
  BY <1>6, <1>7, <1>8 DEF HideInv

\* A turn that goes on or has an event on the way did so before, or is new.
LEMMA CurrentStep ==
    ASSUME TypeOK, AgentInv, [Next]_vars, NEW t \in Current', t # 0
    PROVE  t \in Current \/ ((StartTurn \/ AskTurn) /\ t = nturn' /\ nturn' = nturn + 1)
<1>0. AgentMove
  BY NextAgent
<1>1. ASSUME NEW i \in 1..Len(events'), t = events'[i].turn PROVE t \in Current
  <2>1. CASE \E j \in 1..Len(events) : events'[i] = events[j]
    BY <1>1, <2>1 DEF Current
  <2>2. CASE EventSent(events'[i])
    BY <1>1, <2>2 DEF EventSent, Current
  <2> QED
    BY <1>0, <2>1, <2>2, EventsAfter
<1>2. ASSUME t \in alive'
      PROVE  t \in alive \/ ((StartTurn \/ AskTurn) /\ t = nturn' /\ nturn' = nturn + 1)
  <2>1. ASSUME NEW o, NEW th, NewTurn(o, th) PROVE t \in alive \/ (t = nturn' /\ nturn' = nturn + 1)
    BY <1>2, <2>1 DEF NewTurn
  <2> QED
    BY <1>0, <1>2, <2>1 DEF AgentMove, turnVars, ItemCompletes, TurnEnds, AgentFault, SessionDies, SessionReplaced, ProcessGone
<1> QED
  BY <1>1, <1>2 DEF Current

\* The active prompt is let go only when nothing is in progress, or with the daemon.
LEMMA LetGo ==
    ASSUME TypeOK, ActiveInv, [Next]_vars, active \in LiveWork, active' = NoMsg
    PROVE  LiveWork' = {} \/ Exit \/ Crash
<1>0. /\ StoreTypeOK /\ active # NoMsg /\ active \in Work /\ LiveWork = {active}
  BY StoreAssumption DEF ActiveInv, Loaded, LiveWork, TypeOK, Msgs
<1>1. CASE KeepsActive
  BY <1>0, <1>1 DEF KeepsActive
<1>2. ASSUME NEW t, NEW o \in Terminal, FinishTurn(t, o) PROVE LiveWork' = {}
  <2>1. LiveShrinks /\ \E m \in LiveWork : m \notin LiveWork'
    BY <1>0, <1>2, FinishTurnType
  <2> QED
    BY <1>0, <2>1 DEF LiveShrinks
<1>3. CASE FailTurn
  <2>1. FailDispatch(active)
    BY <1>0, <1>3 DEF FailTurn, activeVars
  <2>2. mstate' = [mstate EXCEPT ![active] = "failed"] /\ mstate \in [Msgs -> RequestStates] /\ Work \subseteq Msgs
    BY <2>1 DEF FailDispatch, MoveMessage, TypeOK, StoreTypeOK, Msgs
  <2> QED
    BY <1>0, <2>2 DEF LiveWork, LiveStates
<1>4. CASE SettleActive
  BY <1>0, <1>2, <1>4 DEF SettleActive, ProvenEnd, activeVars
<1>5. CASE OnTurnEnd
  BY <1>0, <1>2, <1>5 DEF OnTurnEnd, activeVars, Terminal
<1>6. CASE DispatchNext
  BY <1>0, <1>6 DEF DispatchNext, CanDispatch, activeVars
<1>7. CASE ResolveLoad \/ ResolveReload \/ RecoverLoad
  <2>1. \/ UNCHANGED active
        \/ active' \in FirstAccepted(LiveWork)
    BY <1>7 DEF ResolveLoad, ResolveReload, RecoverLoad, LoadImage, stateVars, activeVars
  <2> QED
    BY <1>0, <2>1 DEF FirstAccepted
<1> QED
  BY <1>1, <1>2, <1>3, <1>4, <1>5, <1>6, <1>7, InputKeeps, TurnKeeps, RecoverKeeps DEF Next, Continue, HandleEvent

\* A prompt whose turn is still to end here is the active one, and no private
\* turn is unaccounted for in its thread.
LEMMA BoundInvStep ==
    ASSUME TypeOK, MessageInv, Sending, ActiveInv, ImageInv, AgentInv, NamedTurns, RowInv, FrontierInv, BoundInv,
           [Next]_vars
    PROVE  BoundInv'
<1> USE DEF At
<1>0. /\ ActiveMove /\ NoMsg \notin Work /\ nturn \in Nat /\ Work \subseteq Msgs
      /\ mstate \in [Msgs -> RequestStates] /\ mturn \in [Msgs -> 0..MaxTurns]
      /\ \A m \in Work : mturn[m] # 0 => mturn[m] \in 1..nturn
  BY NextActive, StoreAssumption DEF RowInv, TypeOK, AgentTypeOK, StoreTypeOK, Msgs, NamedTurns, RoomTurn
<1>1. ASSUME NEW m \in LiveWork', mturn'[m] # 0, mturn'[m] \in Current' PROVE active' = m /\ ~OpenHere'
  <2>0. m \in Work
    BY DEF LiveWork
  <2>1. CASE BindTurn /\ BindRunningTurn(active, call.turn) /\ UNCHANGED active
    <3>1. active \in Work /\ mstate[active] = "dispatching"
      BY <2>1, HeadTailProperties DEF BindTurn, Sending, SendLabels, TypeOK, MemoryTypeOK
    <3>2. LiveWork = {active} /\ ~OpenHere
      BY <2>1, <3>1 DEF LiveWork, LiveStates, ActiveInv, Loaded, LoadedLabels, BindTurn, FrontierInv, ShutLabels
    <3>3. m = active
      BY <1>0, <1>1, <2>1, <3>1, <3>2 DEF BindRunningTurn, MoveMessage, LiveWork
    <3>4. ~(\E q \in Questions : Ask(q)) /\ ~RecoverLoad
      BY <2>1 DEF BindTurn, Ask, Serving, RecoverLoad
    <3> QED
      BY <2>1, <3>2, <3>3, <3>4, OpenStep
  <2>2. CASE Dispatches
    <3>1. LiveWork = {} /\ BeginDispatch(Head(queue)) /\ Head(queue) \in Work
      BY <1>0, <2>2, HeadTailProperties DEF Dispatches, CanDispatch, ActiveInv, Loaded, LiveWork, TypeOK, MemoryTypeOK
    <3>2. m = Head(queue) /\ mstate[m] = "queued" /\ mturn'[m] = mturn[m]
      BY <1>0, <1>1, <3>1 DEF BeginDispatch, MoveMessage, LiveWork
    <3> QED
      BY <1>1, <2>0, <3>2 DEF RowInv
  <2>3. ASSUME m \in LiveWork, mturn'[m] = mturn[m]
        PROVE  active' = m /\ ~OpenHere'
    <3>1. mturn[m] \in Current
      <4>1. mturn[m] # 0 /\ mturn[m] \in 1..nturn /\ mturn[m] \in Current'
        BY <1>0, <1>1, <2>0, <2>3
      <4>2. mturn[m] # nturn + 1
        BY <1>0, <4>1
      <4> QED
        BY <4>1, <4>2, CurrentStep
    <3>2. active = m /\ ~OpenHere
      BY <1>1, <2>3, <3>1 DEF BoundInv
    <3>3. active' = m
      <4>1. CASE UNCHANGED active
        BY <3>2, <4>1
      <4>2. CASE active' = NoMsg
        <5>1. Exit \/ Crash
          BY <1>1, <2>3, <3>2, <4>2, LetGo
        <5>2. Current' = {}
          <6>1. events' = <<>> /\ alive' = {}
            BY <5>1 DEF Exit, Crash, DaemonGone, ProcessGone
          <6> QED
            BY <6>1, EmptySeq DEF Current
        <5> QED
          BY <1>1, <5>2
      <4>3. CASE ReadsImage
        <5>1. LiveWork = {m} /\ active' \in FirstAccepted(LiveWork)
          BY <2>3, <3>2, <4>3, <1>0 DEF ReadsImage, LoadImage, ActiveInv, SingleActive
        <5> QED
          BY <5>1 DEF FirstAccepted
      <4> QED
        BY <1>0, <2>2, <2>3, <4>1, <4>2, <4>3 DEF ActiveMove, NoActive, activeVars
    <3>4. ~OpenHere'
      <4>1. active # NoMsg /\ threadID = dbThread
        BY <1>0, <2>0, <3>2 DEF ImageInv, Loaded
      <4>2. ~(\E q \in Questions : Ask(q))
        BY <4>1 DEF Ask
      <4>3. RecoverLoad => UNCHANGED <<threadID, frontier>>
        BY <4>1 DEF RecoverLoad, LoadImage, StoreFails, storeVars, privateRows
      <4> QED
        BY <3>2, <4>2, <4>3, OpenStep DEF OpenHere
    <3> QED
      BY <3>3, <3>4
  <2>4. CASE LiveRowsKept
    BY <1>1, <2>3, <2>4 DEF LiveRowsKept
  <2>5. CASE active \in Work /\ MarkNeedsReview(active) /\ (ReviewTurn \/ SettleActive \/ OnFault \/ LostTurn)
    <3>1. active \in LiveWork
      BY <2>5 DEF MarkNeedsReview, MoveMessage, LiveWork, LiveStates
    <3>2. m \in LiveWork /\ mturn'[m] = mturn[m]
      BY <1>0, <1>1, <2>5, <3>1 DEF MarkNeedsReview, MoveMessage, LiveWork
    <3> QED
      BY <2>3, <3>2
  <2> QED
    BY <1>0, <2>1, <2>2, <2>4, <2>5 DEF ActiveMove
<1> QED
  BY <1>1 DEF BoundInv

\* The turn that is bound is the one turn/start has just answered with.
LEMMA TurnIsKnown ==
    ASSUME TypeOK, StartTurn, call'.pc = "bindTurn"
    PROVE  TurnStarted(active, threadID) /\ call'.turn = nturn'
<1>0. call \in CallRecords
  BY DEF TypeOK, HandlerTypeOK
<1>1. call' # [call EXCEPT !.pc = "failDispatch", !.expired = TRUE]
  BY <1>0 DEF CallRecords
<1>2. call' # [call EXCEPT !.pc = "review", !.expired = TRUE]
  BY <1>0 DEF CallRecords
<1>3. TurnStarted(active, threadID) /\ call' = [call EXCEPT !.pc = "bindTurn", !.turn = nturn']
  BY <1>1, <1>2, PcAfter, LabelsType DEF StartTurn
<1> QED
  BY <1>0, <1>3 DEF CallRecords

\* The daemon that is about to exit does nothing else, and a fault is recorded by
\* one handler only.
LEMMA ExitingStays ==
    ASSUME TypeOK, [Next]_vars, call.pc = "exiting" PROVE UNCHANGED call \/ Exit
<1> USE DEF At
<1>1. ~Continue
  BY DEF Continue, DispatchNext, StartTurn, BindTurn, FailTurn, ReviewTurn, ReviewStatus, SendControl,
     EndControl, ResolveLoad, RetryCall, RetryFinish, ResolveReload, ResolveReady, RecoverLoad, MarkRepair,
     SetRecovering, StartThread, BindNewThread, ReadThread, ResumeThread, ReconcilePrivate, ReconcileItems,
     SettleActive, ReconcileControls, Recovered, AskTurn, AskUndo, FaultReady, FaultStatus, LostTurn
<1> QED
  BY <1>1, InputAtIdle DEF Next, AppServer, Crash, vars

LEMMA FaultRises ==
    ASSUME [Next]_vars, fault' # fault, fault' PROVE OnFault
<1> USE DEF flagVars
<1>1. ~(Client \/ Owner \/ AppServer \/ StartDaemon \/ StartupRecover \/ UNCHANGED vars \/ Exit \/ Crash)
  BY DEF Client, Submit, Note, Control, Resolve, Ask, Owner, Offline, RepairMark, RepairCreate, RepairBind, RepairBegins, RepairUse,
     ResetAtStartup, AppServer, StartDaemon, StartupRecover, vars, Exit, Crash, DaemonGone
<1>2. ~(OnIgnored \/ OnItem \/ OnTurnEnd \/ OnQuestionEnd \/ OnUnavailable \/ OnReady)
  BY DEF OnIgnored, OnItem, OnTurnEnd, OnQuestionEnd, OnUnavailable, OnReady
<1>3. ~Continue
  BY DEF Continue, DispatchNext, StartTurn, BindTurn, FailTurn, ReviewTurn, ReviewStatus, SendControl,
     EndControl, ResolveLoad, RetryCall, RetryFinish, ResolveReload, ResolveReady, RecoverLoad, MarkRepair,
     SetRecovering, StartThread, BindNewThread, ReadThread, ResumeThread, ReconcilePrivate, ReconcileItems,
     SettleActive, ReconcileControls, Recovered, AskTurn, AskUndo, FaultReady, FaultStatus, LostTurn
<1> QED
  BY <1>1, <1>2, <1>3 DEF Next, HandleEvent

\* An item on its way stays on its way until it is taken.
LEMMA ItemKeptStep ==
    ASSUME TypeOK, AgentInv, [Next]_vars, ~(Exit \/ Crash), NEW t \in Turns, ItemKept(t),
           HandleEvent /\ Head(events) = Event("item", t) => t \in recorded'
    PROVE  ItemKept(t)'
<1>0. AgentMove /\ recorded \subseteq recorded' /\ titem \in [Turns -> BOOLEAN]
  BY NextAgent, LogGrows DEF TypeOK, AgentTypeOK
<1>1. CASE UNCHANGED <<titem, events>>
  BY <1>0, <1>1 DEF ItemKept, ItemWaits
<1>2. CASE UNCHANGED titem /\ HandleEvent /\ events # <<>> /\ events' = Tail(events)
  <2>1. CASE t \in recorded \/ ~titem[t]
    BY <1>0, <1>2, <2>1 DEF ItemKept
  <2>2. CASE ItemWaits(t)
    <3>1. PICK j \in 1..Len(events) :
            /\ events[j] = Event("item", t)
            /\ \A i \in 1..j : events[i].turn = t => events[i].kind \notin Terminal
      BY <2>2 DEF ItemWaits
    <3>2. CASE j = 1
      BY <1>2, <3>1, <3>2, TakenEvents DEF ItemKept
    <3>3. CASE j # 1
      <4>1. j - 1 \in 1..Len(events') /\ events'[j - 1] = Event("item", t)
        BY <1>2, <3>1, <3>3, TakenEvents
      <4>2. ASSUME NEW i \in 1..(j - 1), events'[i].turn = t PROVE events'[i].kind \notin Terminal
        <5>1. i \in 1..Len(events') /\ i + 1 \in 1..j
          BY <4>1
        <5> QED
          BY <1>2, <3>1, <4>2, <5>1, TakenEvents
      <4> QED
        BY <4>1, <4>2 DEF ItemKept, ItemWaits
    <3> QED
      BY <3>2, <3>3
  <2> QED
    BY <2>1, <2>2 DEF ItemKept
<1>3. ASSUME NEW e \in TurnEvents \cup RuntimeEvents, events' = Append(events, e), titem'[t] = titem[t]
      PROVE  ItemKept(t)'
  <2>1. ItemWaits(t) => ItemWaits(t)'
    <3> SUFFICES ASSUME ItemWaits(t) PROVE ItemWaits(t)'
      OBVIOUS
    <3>1. PICK j \in 1..Len(events) :
            /\ events[j] = Event("item", t)
            /\ \A i \in 1..j : events[i].turn = t => events[i].kind \notin Terminal
      BY DEF ItemWaits
    <3>2. /\ j \in 1..Len(events') /\ \A i \in 1..j : i \in 1..Len(events)
          /\ \A i \in 1..Len(events) : events'[i] = events[i]
      BY <1>3, AppendedEvents
    <3> QED
      BY <3>1, <3>2 DEF ItemWaits
  <2> QED
    BY <1>0, <1>3, <2>1 DEF ItemKept
<1>4. /\ alive \subseteq Turns /\ Endings \subseteq Terminal
      /\ Turns \subseteq 0..MaxTurns /\ 0 \in 0..MaxTurns
  <2>1. MaxTurns \in Nat
    BY StoreAssumption
  <2>2. Turns \subseteq 0..MaxTurns /\ 0 \in 0..MaxTurns
    BY <2>1 DEF Turns
  <2> QED
    BY <2>2, AgentAssumption DEF TypeOK, AgentTypeOK
<1>5. ASSUME NEW u \in alive, ItemCompletes(u) PROVE ItemKept(t)'
  <2>1. Event("item", u) \in TurnEvents /\ events' = Append(events, Event("item", u))
    BY <1>4, <1>5 DEF Event, TurnEvents, ItemCompletes, Emit
  <2>2. CASE t # u
    BY <1>0, <1>3, <1>5, <2>1, <2>2 DEF ItemCompletes
  <2>3. CASE t = u
    <3>1. /\ Len(events) \in Nat /\ Len(events') = Len(events) + 1 /\ events'[Len(events')] = Event("item", t)
          /\ \A i \in 1..Len(events) : events'[i] = events[i]
          /\ \A i \in 1..Len(events') : i \in 1..Len(events) \/ i = Len(events')
      BY <2>1, <2>3, AppendedEvents
    <3>2. ASSUME NEW i \in 1..Len(events'), events'[i].turn = t PROVE events'[i].kind \notin Terminal
      <4>1. CASE i \in 1..Len(events)
        BY <2>3, <3>1, <3>2, <4>1 DEF AgentInv, Over
      <4>2. CASE i = Len(events')
        BY <3>1, <4>2 DEF Event, Terminal
      <4> QED
        BY <3>1, <4>1, <4>2
    <3>3. Len(events') \in 1..Len(events')
      BY <3>1
    <3> QED
      BY <3>1, <3>2, <3>3 DEF ItemKept, ItemWaits
  <2> QED
    BY <2>2, <2>3
<1>6. ASSUME NEW u \in alive, NEW how \in Endings, TurnEnds(u, how) PROVE ItemKept(t)'
  <2>1. Event(how, u) \in TurnEvents /\ events' = Append(events, Event(how, u)) /\ titem' = titem
    BY <1>4, <1>6 DEF Event, TurnEvents, TurnEnds, Emit
  <2> QED
    BY <1>3, <2>1
<1>7. ASSUME NEW u \in alive \cup {0}, AgentFault(u) PROVE ItemKept(t)'
  <2>1. Event("fault", u) \in TurnEvents /\ events' = Append(events, Event("fault", u)) /\ titem' = titem
    BY <1>4, <1>7 DEF Event, TurnEvents, AgentFault, Emit, turnVars
  <2> QED
    BY <1>3, <2>1
<1>8. CASE SessionDies \/ SessionReplaced
  <2>1. /\ Event("unavailable", 0) \in RuntimeEvents /\ Event("ready", 0) \in RuntimeEvents
        /\ events' \in {Append(events, Event("unavailable", 0)), Append(events, Event("ready", 0))}
        /\ titem' = titem
    BY <1>8 DEF Event, RuntimeEvents, SessionDies, SessionReplaced, ProcessGone, turnVars
  <2> QED
    BY <1>3, <2>1
<1> QED
  BY <1>0, <1>1, <1>2, <1>5, <1>6, <1>7, <1>8 DEF AgentMove, turnVars, NewTurn

\* The item of the turn that is followed is recorded when it is taken, or the
\* daemon stops.
LEMMA ItemIsTaken ==
    ASSUME TypeOK, NamedTurns, HideInv, Followed, activeTurn # 0, HandleEvent, call'.pc # "exiting",
           Head(events) = Event("item", activeTurn)
    PROVE  activeTurn \in recorded'
<1> DEFINE e == Head(events)
<1>1. e.kind = "item" /\ e.turn = activeTurn
  BY DEF Event
<1>2. ForActive(e) /\ ~ForQuestion(e)
  <2>1. ForActive(e)
    BY <1>1 DEF Followed, ForActive
  <2>2. ~ForQuestion(e)
    BY <1>1 DEF ForQuestion, HideInv, QuestionTurns, NamedTurns, RoomTurn
  <2> QED
    BY <2>1, <2>2
<1>3. ~Ignored(e) /\ \A x \in Received : x = e
  BY <1>1, <1>2 DEF Ignored, Received
<1>4. ~OnIgnored /\ ~OnTurnEnd /\ ~OnFault /\ ~OnQuestionEnd /\ ~OnUnavailable /\ ~OnReady
  BY <1>1, <1>3 DEF OnIgnored, OnTurnEnd, OnFault, OnQuestionEnd, OnUnavailable, OnReady, Terminal
<1>5. OnItem
  BY <1>4 DEF HandleEvent
<1> QED
  BY <1>1, <1>3, <1>5, PcAfter DEF OnItem, RecordCompletedItem

\* No item of the turn the room follows is lost.
LEMMA ItemInvStep ==
    ASSUME TypeOK, MessageInv, Sending, ActiveInv, AgentInv, NamedTurns, RowInv, HideInv, BoundInv, ItemInv,
           [Next]_vars
    PROVE  ItemInv'
<1> USE DEF At
<1>0. /\ ActiveMove /\ NoMsg \notin Work /\ nturn \in Nat /\ nturn <= MaxTurns /\ MaxTurns \in Nat /\ Turns = 1..MaxTurns
      /\ active \in Work \cup {NoMsg}
  BY NextActive, StoreAssumption DEF RowInv, TypeOK, AgentTypeOK, MemoryTypeOK, Msgs, Turns
<1>1. ASSUME NEW t, t = activeTurn', Followed', call'.pc # "exiting", t # 0, t \in Current'
      PROVE  ItemKept(t)'
  <2>1. ~(Exit \/ Crash)
    <3>1. Exit \/ Crash => events' = <<>> /\ alive' = {}
      BY DEF Exit, Crash, DaemonGone, ProcessGone
    <3>2. Exit \/ Crash => Current' = {}
      BY <3>1, EmptySeq DEF Current
    <3> QED
      BY <1>1, <3>2
  <2>2. call.pc # "exiting"
    BY <1>1, <2>1, ExitingStays
  <2>3. ASSUME Followed, t = activeTurn PROVE ItemKept(t)'
    <3>1. t \in Turns /\ t \in 1..nturn
      BY <1>0, <1>1, <2>3 DEF NamedTurns, RoomTurn
    <3>2. t \in Current
      <4>1. t # nturn + 1
        BY <1>0, <3>1
      <4> QED
        BY <1>1, <4>1, CurrentStep
    <3>3. ItemKept(t)
      BY <1>1, <2>2, <2>3, <3>2 DEF ItemInv, ItemKept, ItemWaits
    <3>4. HandleEvent /\ Head(events) = Event("item", t) => t \in recorded'
      BY <1>1, <2>3, ItemIsTaken
    <3> QED
      BY <2>1, <3>1, <3>3, <3>4, ItemKeptStep
  <2>4. CASE BindTurn /\ activeTurn' = call.turn
    <3>1. ItemKept(t) /\ UNCHANGED <<titem, events>> /\ recorded \subseteq recorded'
      BY <1>1, <2>4, LogGrows DEF BindTurn, ItemInv, ItemKept, ItemWaits, agentVars, turnVars
    <3> QED
      BY <3>1 DEF ItemKept, ItemWaits
  <2>5. ASSUME UNCHANGED activeVars PROVE ItemKept(t)'
    <3>1. ~(OnFault /\ fault')
      <4> SUFFICES ASSUME OnFault, fault', active # NoMsg, MarkNeedsReview(active), activeState' = "needs-review"
                   PROVE  FALSE
        BY <1>1, PcAfter DEF OnFault, Followed
      <4>1. active \in LiveWork
        BY <1>0 DEF MarkNeedsReview, MoveMessage, LiveWork, LiveStates
      <4> QED
        BY <2>5, <4>1 DEF RowInv, MarkNeedsReview, MoveMessage, activeVars
    <3>2. fault' => fault
      BY <3>1, FaultRises DEF TypeOK, MemoryTypeOK
    <3>3. Followed
      BY <1>1, <2>5, <3>2 DEF Followed, activeVars
    <3> QED
      BY <1>1, <2>3, <2>5, <3>3 DEF activeVars
  <2>6. CASE ReadsImage
    <3>1. PICK m \in FirstAccepted(LiveWork) : /\ active' = m
                                               /\ activeState' = IF m = NoMsg THEN "none" ELSE mstate[m]
                                               /\ activeTurn' = IF m = NoMsg THEN 0 ELSE mturn[m]
      BY <2>6 DEF ReadsImage, LoadImage
    <3>2. m # NoMsg /\ m \in LiveWork /\ m \in Work
      BY <1>1, <3>1 DEF Followed, FirstAccepted, LiveWork
    <3>3. mturn[m] # 0 /\ mturn[m] \in 1..nturn /\ mturn[m] \in Current'
      BY <1>1, <3>1, <3>2 DEF NamedTurns, RoomTurn
    <3>4. mturn[m] \in Current
      <4>1. mturn[m] # nturn + 1
        BY <1>0, <3>3
      <4> QED
        BY <3>3, <4>1, CurrentStep
    <3>5. active = m /\ activeState = mstate[m] /\ activeTurn = mturn[m]
      BY <3>2, <3>3, <3>4 DEF BoundInv, RowInv
    <3> QED
      BY <2>5, <3>1, <3>2, <3>5 DEF activeVars
  <2>7. CASE /\ active \in Work /\ MarkNeedsReview(active)
             /\ UNCHANGED <<active, activeTurn>> /\ activeState' = "needs-review"
    <3>1. active \in LiveWork /\ mstate[active] \in {"dispatching", "running"} /\ active # NoMsg
      BY <1>0, <2>7 DEF MarkNeedsReview, MoveMessage, LiveWork, LiveStates
    <3>2. activeState = mstate[active] /\ activeTurn = mturn[active]
      BY <3>1 DEF RowInv
    <3>3. mstate[active] = "running"
      BY <1>1, <2>7, <3>1, <3>2 DEF RowInv
    <3>4. Followed
      BY <3>1, <3>2, <3>3 DEF Followed
    <3> QED
      BY <1>1, <2>3, <2>7, <3>4
  <2>8. ~NoActive /\ activeState' # "dispatching"
    BY <1>1 DEF NoActive, Followed
  <2> QED
    BY <1>0, <2>4, <2>5, <2>6, <2>7, <2>8 DEF ActiveMove
<1>2. ASSUME NEW t, t = call'.turn, call'.pc = "bindTurn" PROVE ItemKept(t)'
  <2>1. \/ StartTurn
        \/ UNCHANGED call /\ (AppServer \/ UNCHANGED vars)
    BY <1>2, NextFlow, InputAtIdle DEF Flow, ReconcileItems, ReconcileControls
  <2>2. CASE StartTurn
    <3>1. TurnStarted(active, threadID) /\ call'.turn = nturn'
      BY <1>2, <2>2, TurnIsKnown
    <3>2. /\ nturn' \in Turns /\ nturn' = nturn + 1 /\ titem' = titem
      BY <3>1, NewTurnFacts DEF TurnStarted
    <3>3. ~titem[nturn']
      BY <1>0, <3>2 DEF AgentInv
    <3> QED
      BY <1>2, <3>1, <3>2, <3>3 DEF ItemKept
  <2>3. CASE UNCHANGED call /\ (AppServer \/ UNCHANGED vars)
    <3>1. t = call.turn /\ t \in Turns /\ ~HandleEvent /\ ~(Exit \/ Crash)
      BY <1>2, <2>3, InputAtIdle DEF TypeOK, HandlerTypeOK, Exit, Crash, DaemonGone, Idle
    <3>2. ItemKept(t)
      BY <1>2, <2>3, <3>1 DEF ItemInv, ItemKept, ItemWaits
    <3> QED
      BY <3>1, <3>2, ItemKeptStep
  <2> QED
    BY <2>1, <2>2, <2>3
<1> QED
  BY <1>1, <1>2 DEF ItemInv, ItemKept, ItemWaits

\* A prompt is completed or interrupted at the end of its turn, in one of two
\* handlers, and remains so.
LEMMA DoneRowsKept ==
    ASSUME TypeOK, MessageInv, [Next]_vars, ~OnTurnEnd, ~SettleActive,
           NEW m \in Work, mstate'[m] \in {"completed", "interrupted"}
    PROVE  mstate'[m] = mstate[m] /\ mturn'[m] = mturn[m]
<1>0. /\ mstate \in [Msgs -> RequestStates] /\ mturn \in [Msgs -> 0..MaxTurns]
      /\ Work \subseteq Msgs /\ Controls \subseteq Msgs /\ Work \cap Controls = {} /\ Prompts \subseteq Work
      /\ Replacements \subseteq Work /\ Notes \subseteq Msgs /\ Work \cap Notes = {}
  BY StoreAssumption DEF TypeOK, StoreTypeOK, Msgs, Work
<1>1. CASE UNCHANGED <<mstate, mturn>>
  BY <1>1
<1>2. ASSUME NEW x, NEW s, mstate' = [mstate EXCEPT ![x] = s], UNCHANGED mturn,
             s \notin {"completed", "interrupted"} \/ x \notin Work
      PROVE  mstate'[m] = mstate[m] /\ mturn'[m] = mturn[m]
  BY <1>0, <1>2
<1>3. ASSUME NEW x, NEW from, NEW s, MoveMessage(x, from, s), UNCHANGED mturn,
             s \notin {"completed", "interrupted"} \/ x \notin Work
      PROVE  mstate'[m] = mstate[m] /\ mturn'[m] = mturn[m]
  BY <1>2, <1>3 DEF MoveMessage
<1>4. CASE Transacts
  <2>1. UNCHANGED storeVars \/ StoreFails => UNCHANGED <<mstate, mturn>>
    BY DEF StoreFails, storeVars, messageRows
  <2>2. ASSUME NEW n \in Notes, AppendNote(n) PROVE mstate'[m] = mstate[m] /\ mturn'[m] = mturn[m]
    BY <1>0, <1>2, <2>2 DEF AppendNote
  <2>3. ASSUME NEW c \in Controls, NEW t, AcceptControl(c, t)
        PROVE  mstate'[m] = mstate[m] /\ mturn'[m] = mturn[m]
    BY <1>0, <2>3 DEF AcceptControl
  <2>4. ASSUME NEW x, FailDispatch(x) \/ MarkNeedsReview(x)
        PROVE  mstate'[m] = mstate[m] /\ mturn'[m] = mturn[m]
    BY <1>3, <2>4 DEF FailDispatch, MarkNeedsReview
  <2>5. ASSUME NEW x, NEW t, BindRunningTurn(x, t)
        PROVE  mstate'[m] = mstate[m] /\ mturn'[m] = mturn[m]
    BY <1>0, <2>5 DEF BindRunningTurn, MoveMessage
  <2>6. ASSUME NEW c \in Controls, NEW o, FinishControl(c, o)
        PROVE  mstate'[m] = mstate[m] /\ mturn'[m] = mturn[m]
    BY <1>0, <1>3, <2>6 DEF FinishControl
  <2>7. ASSUME NEW x, NEW y, BeginPrivateTurn(x, y) \/ EndPrivateTurn(x, y) PROVE UNCHANGED <<mstate, mturn>>
    BY <2>7 DEF BeginPrivateTurn, EndPrivateTurn, messageRows
  <2>8. ASSUME NEW x, RecordCompletedItem(x) \/ SetRoomStatus(x) \/ BindThread(x) \/ RepairThread(x)
               \/ MarkThreadNeedsRepair \/ ResetUnusedThread
        PROVE  UNCHANGED <<mstate, mturn>>
    BY <2>8 DEF RecordCompletedItem, SetRoomStatus, BindThread, RepairThread, MarkThreadNeedsRepair,
       ResetUnusedThread, messageRows
  <2>9. ASSUME NEW x, NEW y, NEW z, ClosePrivateTurns(x, y, z) PROVE UNCHANGED <<mstate, mturn>>
    BY <2>1, <2>7, <2>9 DEF ClosePrivateTurns
  <2> QED
    BY <1>1, <1>4, <2>1, <2>2, <2>3, <2>4, <2>5, <2>6, <2>7, <2>8, <2>9 DEF Transacts
<1>5. CASE Dispatches
  BY <1>3, <1>5 DEF Dispatches, BeginDispatch
<1>6. CASE \E p \in Prompts : Submit(p)
  BY <1>2, <1>6 DEF Submit, AcceptMessage
<1>7. ASSUME NEW r \in Recovers, Resolve(r) PROVE mstate'[m] = mstate[m] /\ mturn'[m] = mturn[m]
  <2>1. ASSUME NEW x \in Work, RetryPrompt(r, x) PROVE mstate'[m] = mstate[m] /\ mturn'[m] = mturn[m]
    BY <1>0, <2>1 DEF RetryPrompt
  <2>2. ASSUME NEW c \in Controls, RetryControl(r, c) PROVE mstate'[m] = mstate[m] /\ mturn'[m] = mturn[m]
    BY <1>0, <1>2, <2>2 DEF RetryControl
  <2>3. ASSUME NEW x, SkipReviewed(r, x) PROVE mstate'[m] = mstate[m] /\ mturn'[m] = mturn[m]
    BY <1>2, <2>3 DEF SkipReviewed
  <2>4. ASSUME NEW x \in Work \cup Controls, NEW p \in Replacements, ContinueReviewed(r, x, p)
        PROVE  mstate'[m] = mstate[m] /\ mturn'[m] = mturn[m]
    <3>1. /\ mstate' = [mstate EXCEPT ![x] = "failed", ![p] = "queued"] /\ UNCHANGED mturn
          /\ x \in Msgs /\ p \in Msgs
      BY <1>0, <2>4 DEF ContinueReviewed
    <3> QED
      BY <1>0, <3>1
  <2> QED
    BY <1>7, <2>1, <2>2, <2>3, <2>4 DEF Resolve
<1> QED
  BY <1>4, <1>5, <1>6, <1>7, NextTransacts DEF Decides

\* The outcome of a turn is stored when it is proven, and its item with it.
LEMMA EndInvStep ==
    ASSUME TypeOK, MessageInv, AgentInv, NamedTurns, ToldInv, HideInv, ItemInv, EndInv, [Next]_vars
    PROVE  EndInv'
<1> USE DEF At
<1>0. /\ AgentMove /\ recorded \subseteq recorded'
      /\ mstate \in [Msgs -> RequestStates] /\ Work \subseteq Msgs /\ Turns = 1..MaxTurns
  BY NextAgent, LogGrows DEF TypeOK, StoreTypeOK, Msgs, Turns
<1> DEFINE Ended(t, s) == Over(t) /\ tstate[t] = s /\ (titem[t] => t \in recorded)
<1>1. ASSUME NEW t, NEW s, Ended(t, s) PROVE Over(t)' /\ tstate'[t] = s /\ (titem'[t] => t \in recorded')
  BY <1>0, <1>1, OverStands DEF TurnStands
<1>2. ASSUME NEW m \in Work, mstate'[m] \in {"completed", "interrupted"}
      PROVE  Ended(mturn'[m], mstate'[m])
  <2>1. CASE mstate'[m] = mstate[m] /\ mturn'[m] = mturn[m]
    BY <1>2, <2>1 DEF EndInv
  <2>2. ASSUME NEW t, NEW s, FinishTurn(t, s), s \in {"completed", "interrupted"} => Ended(t, s)
        PROVE  Ended(mturn'[m], mstate'[m])
    <3>1. PICK n \in Work : mturn[n] = t /\ mstate' = [mstate EXCEPT ![n] = s] /\ UNCHANGED mturn
      BY <2>2 DEF FinishTurn, MoveMessage
    <3>2. CASE m = n
      BY <1>0, <1>2, <2>2, <3>1, <3>2
    <3>3. CASE m # n
      BY <1>0, <2>1, <3>1, <3>3
    <3> QED
      BY <3>2, <3>3
  <2>3. StoreFails \/ UNCHANGED storeVars => mstate'[m] = mstate[m] /\ mturn'[m] = mturn[m]
    BY DEF StoreFails, storeVars, messageRows
  <2>4. CASE OnTurnEnd
    <3>1. PICK e \in Received :
            /\ e.kind \in Terminal /\ ForActive(e)
            /\ FinishTurn(e.turn, IF fault THEN "failed" ELSE e.kind) \/ StoreFails
      BY <2>4 DEF OnTurnEnd
    <3>2. e = events[1] /\ 1 \in 1..Len(events) /\ call.pc = "idle"
      <4>1. events # <<>> /\ e = Head(events) /\ call.pc = "idle" /\ events \in Seq(TurnEvents \cup RuntimeEvents)
        BY <3>1 DEF Received, TypeOK, AgentTypeOK
      <4>2. Len(events) \in Nat \ {0} /\ Head(events) = events[1]
        BY <4>1, EmptySeq, HeadTailProperties, LenProperties
      <4> QED
        BY <4>1, <4>2
    <3>3. Over(e.turn) /\ tstate[e.turn] = e.kind /\ e.turn # 0
      BY <3>1, <3>2 DEF AgentInv, Over
    <3>4. ItemKept(e.turn)
      <4>1. Followed /\ e.turn = activeTurn /\ activeTurn \in Current
        BY <3>1, <3>2 DEF ForActive, Followed, Current
      <4> QED
        BY <3>2, <3>3, <4>1 DEF ItemInv
    <3>5. ~ItemWaits(e.turn)
      <4>1. \A j \in 1..Len(events) : 1 \in 1..j
        BY <3>2
      <4> QED
        BY <3>1, <3>2, <4>1 DEF ItemWaits
    <3>6. Ended(e.turn, e.kind)
      BY <3>3, <3>4, <3>5 DEF ItemKept
    <3> QED
      BY <2>1, <2>2, <2>3, <3>1, <3>6
  <2>5. CASE SettleActive
    <3>1. \/ UNCHANGED storeVars \/ StoreFails
          \/ MarkNeedsReview(active)
          \/ \E s \in ProvenEnd : FinishTurn(activeTurn, s)
      BY <2>5 DEF SettleActive
    <3>2. ASSUME NEW s \in ProvenEnd PROVE Ended(activeTurn, s)
      <4>1. activeTurn # 0 /\ s \in hist[activeTurn] \cap Terminal /\ RoomTurn(activeTurn)
        BY <3>2 DEF ProvenEnd, NamedTurns
      <4>2. activeTurn \in Turns /\ call.pc = "settle"
        BY <2>5, <4>1, StoreAssumption DEF SettleActive, TypeOK, MemoryTypeOK, Turns
      <4>3. Over(activeTurn) /\ tstate[activeTurn] = s /\ (titem[activeTurn] => activeTurn \in hidden \cup recorded)
        BY <4>1, <4>2 DEF ToldInv
      <4> QED
        BY <4>1, <4>3 DEF HideInv, QuestionTurns, RoomTurn
    <3>3. CASE MarkNeedsReview(active)
      BY <1>0, <1>2, <2>1, <3>3 DEF MarkNeedsReview, MoveMessage
    <3>4. CASE \E s \in ProvenEnd : FinishTurn(activeTurn, s)
      BY <2>2, <3>2, <3>4
    <3> QED
      BY <2>1, <2>3, <3>1, <3>3, <3>4
  <2> QED
    BY <1>2, <2>1, <2>4, <2>5, DoneRowsKept
<1>3. ASSUME NEW m \in Work, mstate'[m] \in {"completed", "interrupted"}
      PROVE  /\ (Over(mturn[m]))' /\ tstate'[mturn'[m]] = mstate'[m]
             /\ titem'[mturn'[m]] => mturn'[m] \in recorded'
  <2>1. PICK t, s : t = mturn'[m] /\ s = mstate'[m]
    OBVIOUS
  <2>2. Over(t)' /\ tstate'[t] = s /\ (titem'[t] => t \in recorded')
    BY <1>1, <1>2, <1>3, <2>1
  <2> QED
    BY <2>1, <2>2 DEF Over
<1> QED
  BY <1>3 DEF EndInv

\* The invariants from the agent's turns to the stored outcome, together.
OutcomeInv ==
    AgentInv /\ ToldInv /\ RowInv /\ FrontierInv /\ HideInv /\ BoundInv /\ ItemInv /\ EndInv

LEMMA OutcomeInit == ASSUME Init PROVE OutcomeInv
<1>0. /\ mstate = [m \in Msgs |-> "absent"] /\ mturn = [m \in Msgs |-> 0] /\ nturn = 0 /\ alive = {}
      /\ titem = [t \in Turns |-> FALSE] /\ events = <<>> /\ hidden = {} /\ frontier = 0 /\ threadID = 0
      /\ dbThread = 0 /\ nthread = 0 /\ repairs.thread = 0
      /\ active = NoMsg /\ activeState = "none" /\ activeTurn = 0 /\ question = NoMsg /\ status = "boot"
      /\ call.pc = "down" /\ hist = [t \in Turns |-> {}] /\ threadReady = FALSE
      /\ Work \subseteq Msgs /\ NoMsg \notin Work
  BY StoreAssumption DEF Init, StoreInit, AgentInit, Idle, ZeroMemory, Msgs
<1>1. LiveWork = {} /\ ~OpenHere /\ ~Asking
  BY <1>0 DEF LiveWork, LiveStates, OpenHere, Asking
<1>2. AgentInv /\ ToldInv
  BY <1>0, EmptySeq DEF AgentInv, ToldInv, At
<1>3. RowInv
  BY <1>0, <1>1 DEF RowInv, At
<1>4. FrontierInv
  BY <1>0, <1>1 DEF FrontierInv, ShutLabels, At
<1>5. HideInv /\ BoundInv
  BY <1>0, <1>1 DEF HideInv, BoundInv
<1>6. ItemInv /\ EndInv
  BY <1>0 DEF ItemInv, EndInv, At
<1> QED
  BY <1>2, <1>3, <1>4, <1>5, <1>6 DEF OutcomeInv

LEMMA OutcomeStep ==
    ASSUME TypeOK, ActiveInv, ImageInv, ThreadInv, QueueInv, PrivateInv, OutcomeInv, [Next]_vars
    PROVE  OutcomeInv'
<1> USE DEF OutcomeInv, PrivateInv, QueueInv
<1>1. AgentInv' /\ ToldInv' /\ RowInv'
  BY AgentInvStep, ToldInvStep, RowInvStep
<1>2. FrontierInv' /\ HideInv' /\ BoundInv'
  BY FrontierInvStep, HideInvStep, BoundInvStep
<1>3. ItemInv' /\ EndInv'
  BY ItemInvStep, EndInvStep
<1> QED
  BY <1>1, <1>2, <1>3

LEMMA OutcomeAlways == Spec => []OutcomeInv
<1>1. Init => OutcomeInv
  BY OutcomeInit
<1>2. /\ TypeOK /\ ActiveInv /\ ImageInv /\ ThreadInv /\ QueueInv /\ PrivateInv /\ OutcomeInv
      /\ [Next]_vars
      => OutcomeInv'
  BY OutcomeStep
<1> QED
  BY <1>1, <1>2, TypeCorrect, ActiveAlways, ImageAlways, ThreadAlways, QueueAlways, PrivateAlways, PTL DEF Spec

\* In every room: a prompt is stored as completed or interrupted only if that
\* is how its turn ended, and then the output of the turn is in the event log,
\* whether the end was told by an event or by the history read after a restart.
THEOREM OutcomeIsProvenAlways == Spec => []OutcomeIsProven
<1>1. OutcomeInv => OutcomeIsProven
  BY DEF OutcomeInv, EndInv, OutcomeIsProven, Over
<1> QED
  BY <1>1, OutcomeAlways, PTL

\* In every room: a prompt is sent only when no question of its thread is open
\* and each turn that one has started is hidden or lost, through undone
\* questions, lost replies, deaths, crashes and repairs.
THEOREM QuestionsSettledAlways == Spec => []QuestionsSettled
<1>1. TypeOK /\ ImageInv /\ ThreadInv /\ PrivateInv /\ OutcomeInv => QuestionsSettled
  <2> SUFFICES ASSUME ImageInv, ThreadInv, PrivateInv, OutcomeInv, At("startTurn")
               PROVE  /\ frontier # threadID
                      /\ \A t \in 1..nturn :
                            towner[t] \in Questions /\ tthread[t] = threadID
                               => t \in hidden \/ tstate[t] = "lost"
    BY DEF QuestionsSettled
  <2>1. threadID = dbThread /\ dbThread # 0
    BY DEF ImageInv, Loaded, ThreadInv, MustBeBound
  <2>2. ~OpenHere
    BY DEF OutcomeInv, FrontierInv, ShutLabels, At
  <2>3. frontier # threadID
    BY <2>1, <2>2 DEF OpenHere
  <2>4. ASSUME NEW t \in 1..nturn, towner[t] \in Questions, tthread[t] = threadID
        PROVE  t \in hidden \/ tstate[t] = "lost"
    BY <2>3, <2>4 DEF PrivateInv, JournalInv, QuestionTurns, Guarded
  <2> QED
    BY <2>3, <2>4
<1> QED
  BY <1>1, TypeCorrect, ImageAlways, ThreadAlways, PrivateAlways, OutcomeAlways, PTL

----------------------------------------------------------------------------
\* OneTurnAtATime.

\* Somebody has decided about the message.
DecidedOn(m) == \E r \in Recovers : rtarget[r] = m

\* OneTurnAtATime is not inductive: it says nothing of what starts the second
\* turn.  What runs belongs to the bound thread and to no closed private turn,
\* and recovery has seen it running; a private turn runs alone.
TurnInv ==
    /\ session = "down" => alive = {}
    /\ At("down") => session = "down"
    /\ At("bindThread") => dbThread = 0
    /\ At("askTurn") => alive = {} /\ threadReady
    /\ \A t \in alive : tthread[t] = dbThread /\ dbThread # 0 /\ t \notin hidden
    /\ \A t \in alive \cap InHistory : "running" \in hist[t]
    /\ \A t \in alive \cap QuestionTurns : alive = {t}

\* A turn of the room that runs is the one of the live prompt, or its prompt
\* was decided on: rows and fields name turns of their own prompt, and a
\* prompt that is failed as not sent has no turn.
OwnerInv ==
    /\ \A t \in alive \ QuestionTurns :
          towner[t] \in LiveWork \/ (towner[t] \in Work /\ DecidedOn(towner[t]))
    /\ \A m \in Work : mturn[m] # 0 => towner[mturn[m]] = m
    /\ At("bindTurn") => towner[call.turn] = active
    /\ At("failDispatch") => DecidedOn(active) \/ TurnsOf(active) = {}
    /\ \A r \in Recovers : raction[r] = "none" => rtarget[r] = NoMsg

\* The links at which nothing runs, as long as every call succeeds and no
\* process dies: those of recover, of a decision and of a dispatch.
StillLabels ==
    {"recover", "markRepair", "setRecovering", "startThread", "bindThread", "readThread", "resumeThread",
     "private", "items", "settle", "controls", "recovered", "resolveLoad", "retry", "retryFinish",
     "resolveReload", "resolveReady", "startTurn", "faultReady"}

\* No call has gone wrong and no process has died.
Calm == glitches + deaths = 0

\* The coordinator knows the one turn that runs, and nothing awaits a decision
\* beside it ...
OneKnown ==
    /\ call.pc \in StillLabels => alive = {}
    /\ alive # {} => question # NoMsg \/ active # NoMsg
    /\ question # NoMsg => alive \subseteq {questionTurn}
    /\ active # NoMsg /\ activeTurn # 0 => alive \subseteq {activeTurn}
    /\ At("bindTurn") => alive \subseteq {call.turn}
    /\ \A t, u \in alive : t = u
    /\ alive # {} => \A c \in Controls : mstate[c] # "needs-review"
    /\ alive # {} => \A m \in Work : mstate[m] = "needs-review" => fault

\* ... until a call goes wrong or a process dies: no event has told of a death
\* and no answer is in doubt.
CalmInv == Calm =>
    /\ ~late
    /\ ~At("down") => session = "up"
    /\ \A i \in 1..Len(events) : events[i].kind \notin {"unavailable", "ready"}
    /\ call.pc \notin {"failDispatch", "review", "lostTurn"}
    /\ At("finishControl") => call.outcome # "needs-review"
    /\ ~booted => active = NoMsg /\ question = NoMsg /\ call.pc \in {"down", "idle", "exiting"}
    /\ OneKnown

\* How the session changes, and the counts of what went wrong.
SessionMove ==
    \/ UNCHANGED <<session, late, glitches, deaths>>
    \/ UNCHANGED <<session, deaths>> /\ glitches' = glitches + 1
    \/ AppServer /\ SessionDies
    \/ AppServer /\ SessionReplaced /\ ~At("down")
    \/ StartDaemon
    \/ (Exit \/ Crash) /\ DaemonGone

LEMMA CallKeepsSession ==
    ASSUME \/ UNCHANGED agentVars \/ Taken
           \/ CallNotSent \/ CallDone \/ CallUnknown \/ CallTimedOut
           \/ ThreadStarted \/ ThreadStartLost \/ ThreadStartTimedOut
           \/ \E o, th : TurnStarted(o, th) \/ TurnStartLost(o, th) \/ TurnStartTimedOut(o, th)
           \/ \E l : ControlCall(l)
    PROVE  \/ UNCHANGED <<session, late, glitches, deaths>>
           \/ UNCHANGED <<session, deaths>> /\ glitches' = glitches + 1
<1> USE DEF agentVars, faultVars, Glitch
<1>1. CASE UNCHANGED agentVars \/ Taken \/ CallDone
  BY <1>1 DEF Taken, CallDone
<1>2. CASE CallNotSent \/ CallUnknown \/ CallTimedOut
  BY <1>2 DEF CallNotSent, CallUnknown, CallTimedOut
<1>3. CASE ThreadStarted \/ ThreadStartLost \/ ThreadStartTimedOut
  BY <1>3 DEF ThreadStarted, ThreadStartLost, ThreadStartTimedOut
<1>4. CASE \E o, th : TurnStarted(o, th) \/ TurnStartLost(o, th) \/ TurnStartTimedOut(o, th)
  BY <1>4 DEF TurnStarted, TurnStartLost, TurnStartTimedOut
<1>5. CASE \E l : ControlCall(l)
  BY <1>1, <1>2, <1>5 DEF ControlCall
<1> QED
  BY <1>1, <1>2, <1>3, <1>4, <1>5

LEMMA NextSession == ASSUME TypeOK, [Next]_vars PROVE SessionMove
<1> USE CallKeepsSession DEF SessionMove
<1>1. CASE Client
  BY <1>1 DEF Client, Submit, Note, Control, Resolve, Ask
<1>2. CASE HandleEvent
  <2>1. Taken
    BY <1>2 DEF HandleEvent, OnIgnored, OnItem, OnTurnEnd, OnFault, OnQuestionEnd, OnUnavailable,
       OnReady
  <2> QED
    BY <2>1
<1>3. CASE StartTurn \/ AskTurn
  BY <1>3 DEF StartTurn, AskTurn
<1>5. CASE DispatchNext \/ BindTurn \/ FailTurn \/ ReviewTurn \/ ReviewStatus \/ SendControl \/ EndControl
  BY <1>5 DEF DispatchNext, BindTurn, FailTurn, ReviewTurn, ReviewStatus, SendControl, EndControl
<1>6. CASE ResolveLoad \/ RetryCall \/ RetryFinish \/ ResolveReload \/ ResolveReady
  BY <1>6 DEF ResolveLoad, RetryCall, RetryFinish, ResolveReload, ResolveReady
<1>7. CASE RecoverLoad \/ MarkRepair \/ SetRecovering \/ StartThread \/ BindNewThread
  BY <1>7 DEF RecoverLoad, MarkRepair, SetRecovering, StartThread, BindNewThread
<1>8. CASE ReadThread \/ ResumeThread \/ ReconcilePrivate \/ ReconcileItems
  BY <1>8 DEF ReadThread, ResumeThread, ReconcilePrivate, ReconcileItems
<1>9. CASE ReconcileControls \/ Recovered \/ AskUndo \/ FaultReady \/ FaultStatus \/ LostTurn
  BY <1>9 DEF ReconcileControls, Recovered, AskUndo, FaultReady, FaultStatus, LostTurn
<1>4. CASE SettleActive
  BY <1>4 DEF SettleActive, faultVars, Glitch
<1>10. CASE Owner
  BY <1>10 DEF Owner, RepairMark, RepairCreate, RepairBind, RepairBegins, RepairUse, ResetAtStartup, agentVars, faultVars
<1>11. CASE AppServer
  <2>1. CASE SessionDies \/ (~At("down") /\ SessionReplaced)
    BY <1>11, <2>1
  <2>2. CASE \E t : ItemCompletes(t) \/ (\E how : TurnEnds(t, how)) \/ AgentFault(t)
    BY <2>2 DEF ItemCompletes, TurnEnds, AgentFault, faultVars
  <2> QED
    BY <1>11, <2>1, <2>2 DEF AppServer
<1>12. CASE StartDaemon \/ StartupRecover \/ UNCHANGED vars
  BY <1>12 DEF StartupRecover, vars, agentVars, faultVars
<1>13. CASE Exit \/ Crash
  BY <1>13 DEF Exit, Crash
<1> QED
  BY <1>1, <1>2, <1>3, <1>4, <1>5, <1>6, <1>7, <1>8, <1>9, <1>10, <1>11, <1>12, <1>13
     DEF Next, Continue

\* Only StartTurn and AskTurn add to what runs, in a session that is up.
LEMMA AliveStep ==
    ASSUME TypeOK, [Next]_vars
    PROVE  \/ alive' \subseteq alive /\ (StartTurn \/ AskTurn => UNCHANGED <<nturn, alive, towner, tthread, tstate>>)
           \/ StartTurn /\ NewTurn(active, threadID) /\ session = "up" /\ UNCHANGED session
           \/ AskTurn /\ NewTurn(call.msg, threadID) /\ session = "up" /\ UNCHANGED session
<1>1. CASE StartTurn
  <2>1. CASE CallNotSent \/ CallUnknown \/ CallTimedOut
    BY <2>1 DEF CallNotSent, CallUnknown, CallTimedOut, turnVars
  <2>2. CASE TurnStarted(active, threadID) \/ TurnStartLost(active, threadID) \/ TurnStartTimedOut(active, threadID)
    BY <1>1, <2>2 DEF TurnStarted, TurnStartLost, TurnStartTimedOut
  <2> QED
    BY <1>1, <2>1, <2>2 DEF StartTurn
<1>2. CASE AskTurn
  <2>1. CASE CallNotSent \/ CallUnknown \/ CallTimedOut
    BY <2>1 DEF CallNotSent, CallUnknown, CallTimedOut, turnVars
  <2>2. CASE TurnStarted(call.msg, threadID) \/ TurnStartLost(call.msg, threadID) \/ TurnStartTimedOut(call.msg, threadID)
    BY <1>2, <2>2 DEF TurnStarted, TurnStartLost, TurnStartTimedOut
  <2> QED
    BY <1>2, <2>1, <2>2 DEF AskTurn
<1>3. CASE ~StartTurn /\ ~AskTurn
  <2>1. \A t \in alive : ItemCompletes(t) => UNCHANGED alive
    BY DEF ItemCompletes
  <2>2. \A t \in alive, how \in Endings : TurnEnds(t, how) => alive' \subseteq alive
    BY DEF TurnEnds
  <2>3. \A t \in alive \cup {0} : AgentFault(t) => UNCHANGED alive
    BY DEF AgentFault, turnVars
  <2>4. SessionDies \/ SessionReplaced \/ ProcessGone => alive' \subseteq alive
    BY DEF SessionDies, SessionReplaced, ProcessGone, turnVars
  <2> QED
    BY <1>3, <2>1, <2>2, <2>3, <2>4, NextAgent DEF AgentMove, turnVars
<1> QED
  BY <1>1, <1>2, <1>3

\* What a room may not have known of a turn it starts: nothing else runs that
\* is private, and the thread is the bound one.
LEMMA StartsInThread ==
    ASSUME TypeOK, ImageInv, ThreadInv, PrivateInv, FrontierInv, Sending, TurnInv, StartTurn
    PROVE  /\ threadID = dbThread /\ dbThread # 0
           /\ alive \cap QuestionTurns = {}
<1>1. At("startTurn") /\ Loaded /\ call.pc \in ShutLabels
  BY DEF StartTurn, At, Loaded, LoadedLabels, ShutLabels
<1>2. threadID = dbThread /\ status = "ready"
  BY <1>1 DEF ImageInv
<1>3. dbThread # 0
  BY <1>2 DEF ThreadInv, MustBeBound
<1>4. ASSUME NEW t \in alive \cap QuestionTurns PROVE FALSE
  <2>1. t \notin hidden /\ tthread[t] = dbThread
    BY <1>4 DEF TurnInv
  <2>2. tstate[t] # "lost"
    BY <1>4 DEF PrivateInv, HistoryInv
  <2>3. frontier = tthread[t]
    BY <1>4, <2>1, <2>2 DEF PrivateInv, JournalInv, Guarded
  <2>4. OpenHere
    BY <1>2, <1>3, <2>1, <2>3 DEF OpenHere
  <2> QED
    BY <1>1, <2>4 DEF FrontierInv
<1> QED
  BY <1>2, <1>3, <1>4

LEMMA AsksInThread ==
    ASSUME TypeOK, FrontierInv, PrivateInv, TurnInv, AskTurn
    PROVE  threadID = dbThread /\ dbThread # 0 /\ alive = {} /\ threadReady
<1>1. At("askTurn")
  BY DEF AskTurn
<1>2. alive = {} /\ threadReady
  BY <1>1 DEF TurnInv
<1> QED
  BY <1>1, <1>2 DEF FrontierInv, PrivateInv, JournalInv

LEMMA SessionTurnStep ==
    ASSUME TypeOK, TurnInv, [Next]_vars
    PROVE  /\ session' = "down" => alive' = {}
           /\ call'.pc = "down" => session' = "down"
<1>1. session' = "down" => alive' = {}
  <2> SUFFICES ASSUME session' = "down" PROVE alive' = {}
    OBVIOUS
  <2>1. CASE session = "down"
    BY <2>1, AliveStep DEF TurnInv
  <2>2. CASE session # "down"
    BY <2>2, NextSession DEF SessionMove, SessionDies, SessionReplaced, StartDaemon, DaemonGone, ProcessGone
  <2> QED
    BY <2>1, <2>2
<1>2. call'.pc = "down" => session' = "down"
  <2> SUFFICES ASSUME call'.pc = "down" PROVE session' = "down"
    OBVIOUS
  <2>1. CASE Exit \/ Crash
    BY <2>1 DEF Exit, Crash, DaemonGone, ProcessGone
  <2>2. CASE ~(Exit \/ Crash)
    <3>1. UNCHANGED call
      BY <2>2, NextFlow DEF Flow
    <3>2. session = "down" /\ At("down")
      BY <3>1 DEF TurnInv, At
    <3>3. ~StartDaemon
      BY <3>1, <3>2 DEF StartDaemon, Idle, At
    <3> QED
      BY <2>2, <3>2, <3>3, NextSession DEF SessionMove, SessionDies
  <2> QED
    BY <2>1, <2>2
<1> QED
  BY <1>1, <1>2

LEMMA AskTurnStep ==
    ASSUME TypeOK, AgentInv, FrontierInv, TurnInv, [Next]_vars, call'.pc = "askTurn"
    PROVE  alive' = {} /\ threadReady'
<1>1. CASE UNCHANGED call
  <2>1. At("askTurn") /\ alive = {} /\ threadReady
    BY <1>1 DEF TurnInv, At
  <2>2. AppServer \/ UNCHANGED vars
    BY <1>1, <2>1, NextFlow, InputAtIdle DEF Flow, At, ReconcileItems, ReconcileControls
  <2>3. UNCHANGED threadReady
    BY <2>2 DEF AppServer, vars, flagVars
  <2>4. alive' \subseteq alive
    BY <2>1, <2>2, AliveStep DEF vars, turnVars, agentVars, StartTurn, AskTurn, AppServer, NewTurn, SessionDies, SessionReplaced,
       ItemCompletes, TurnEnds, AgentFault, ProcessGone
  <2> QED
    BY <2>1, <2>3, <2>4
<1>2. CASE Client
  <2>1. PICK q \in Questions : Ask(q)
    BY <1>2, ClientHandler
  <2>2. threadReady /\ RunningIn(threadID) = {} /\ UNCHANGED <<alive, threadReady>>
    BY <2>1 DEF Ask, agentVars, turnVars, flagVars
  <2>3. threadID = dbThread
    BY <2>2 DEF FrontierInv
  <2>4. ASSUME NEW t \in alive PROVE FALSE
    <3>1. tthread[t] = threadID /\ tstate[t] = "running" /\ t \in 1..nturn
      BY <2>3, <2>4 DEF TurnInv, AgentInv
    <3> QED
      BY <2>2, <3>1 DEF RunningIn, History
  <2> QED
    BY <2>2, <2>4
<1> QED
  BY <1>1, <1>2, NextFlow DEF Flow

\* The thread of what runs stays bound.
LEMMA BoundTurnStep ==
    ASSUME TypeOK, ImageInv, ThreadInv, PrivateInv, AgentInv, FrontierInv, Sending, TurnInv, [Next]_vars,
           NEW t \in alive'
    PROVE  tthread'[t] = dbThread' /\ dbThread' # 0
<1>0. \A u \in alive : u \in 1..nturn
  BY DEF AgentInv
<1>1. CASE StartTurn /\ NewTurn(active, threadID)
  <2>1. threadID = dbThread /\ dbThread # 0
    BY <1>1, StartsInThread
  <2>2. UNCHANGED dbThread
    BY <1>1 DEF StartTurn, storeVars, roomRow
  <2> QED
    BY <1>0, <1>1, <2>1, <2>2, NewTurnFacts DEF TurnInv
<1>2. CASE AskTurn /\ NewTurn(call.msg, threadID)
  <2>1. threadID = dbThread /\ dbThread # 0 /\ alive = {}
    BY <1>2, AsksInThread
  <2>2. UNCHANGED dbThread
    BY <1>2 DEF AskTurn, storeVars, roomRow
  <2> QED
    BY <1>2, <2>1, <2>2, NewTurnFacts
<1>3. CASE alive' \subseteq alive
  <2>1. tthread[t] = dbThread /\ dbThread # 0 /\ t \in 1..nturn
    BY <1>0, <1>3 DEF TurnInv
  <2>2. tthread'[t] = tthread[t]
    BY <2>1, NextTurnsKept DEF TurnsKept, PrivateInv, HistoryInv
  <2>3. ~BindNewThread
    BY <2>1 DEF BindNewThread, TurnInv
  <2>4. ~Owner
    BY <1>3, InputAtIdle DEF TurnInv, At
  <2>5. UNCHANGED dbThread
    <3>1. ThreadMove
      BY NextThread DEF FrontierInv
    <3> QED
      BY <2>3, <2>4, <3>1 DEF ThreadMove, storeVars, roomRow
  <2> QED
    BY <2>1, <2>2, <2>5
<1> QED
  BY <1>1, <1>2, <1>3, AliveStep

\* The private turn that is hidden has ended.
LEMMA HiddenIsOver ==
    ASSUME TypeOK, PrivateInv, AgentInv, HideInv, TurnInv, [Next]_vars, NEW t \in alive'
    PROVE  t \notin hidden'
<1>0. \A u \in alive : u \in 1..nturn
  BY DEF AgentInv
<1>1. CASE OnQuestionEnd /\ hidden' = hidden \cup {questionTurn}
  <2>1. PICK e \in Received : e.kind \in Terminal /\ ForQuestion(e) /\ Taken
    BY <1>1 DEF OnQuestionEnd
  <2>2. events # <<>> /\ e = Head(events)
    BY <2>1 DEF Received
  <2>3. events \in Seq(TurnEvents \cup RuntimeEvents)
    BY DEF TypeOK, AgentTypeOK
  <2>4. 1 \in 1..Len(events) /\ e = events[1]
    BY <2>2, <2>3
  <2>5. Over(e.turn)
    BY <2>1, <2>4 DEF AgentInv
  <2>6. e.turn = questionTurn
    BY <2>1, <2>5 DEF ForQuestion, Over
  <2>7. UNCHANGED alive
    BY <2>1 DEF Taken, turnVars
  <2> QED
    BY <1>1, <2>5, <2>6, <2>7 DEF Over, TurnInv
<1>2. CASE ReconcilePrivate /\ hidden' = hidden \cup Unexplained(threadID, InHistory)
  <2>1. UNCHANGED alive
    BY <1>2 DEF ReconcilePrivate, agentVars, turnVars
  <2>2. UNCHANGED hidden \/ Unexplained(threadID, InHistory) \cap SeenRunning = {}
    BY <1>2 DEF ReconcilePrivate, ClosePrivateTurns, StoreFails, storeVars, privateRows
  <2>3. t \in InHistory => t \in SeenRunning
    BY <2>1 DEF TurnInv, SeenRunning, InHistory
  <2>4. t \notin hidden
    BY <2>1 DEF TurnInv
  <2>5. t \in Unexplained(threadID, InHistory) => t \in InHistory
    BY DEF Unexplained
  <2> QED
    BY <1>2, <2>2, <2>3, <2>4, <2>5
<1>3. CASE UNCHANGED hidden
  <2>1. \A u \in hidden : u \in 1..nturn
    BY DEF HideInv, QuestionTurns
  <2>2. CASE alive' \subseteq alive
    BY <1>3, <2>2 DEF TurnInv
  <2>3. CASE \E o, th : NewTurn(o, th)
    <3>1. t \in alive \/ t = nturn'
      BY <2>3 DEF NewTurn
    <3>2. nturn' \notin 1..nturn
      BY <2>3, NewTurnFacts
    <3> QED
      BY <1>3, <2>1, <3>1, <3>2 DEF TurnInv
  <2> QED
    BY <2>2, <2>3, AliveStep
<1> QED
  BY <1>1, <1>2, <1>3, JournalMove

\* Recovery sees what runs as running.
LEMMA SeenStep ==
    ASSUME TypeOK, PrivateInv, AgentInv, TurnInv, [Next]_vars, NEW t \in alive' \cap InHistory'
    PROVE  "running" \in hist'[t]
<1>1. CASE alive' \subseteq alive
  <2>1. t \in alive /\ t \in Turns /\ tstate[t] = "running"
    BY <1>1 DEF TypeOK, AgentTypeOK, AgentInv
  <2>2. CASE hist' = ZeroMemory.hist
    BY <2>1, <2>2 DEF ZeroMemory, InHistory
  <2>3. CASE hist' = Told
    <3>1. hist'[t] = hist[t] \/ "running" \in hist'[t]
      BY <2>1, <2>3 DEF Told
    <3>2. hist'[t] = hist[t] => t \in InHistory
      BY <2>1 DEF InHistory
    <3> QED
      BY <2>1, <3>1, <3>2 DEF TurnInv
  <2>4. CASE UNCHANGED hist
    BY <2>1, <2>4 DEF TurnInv, InHistory
  <2> QED
    BY <2>2, <2>3, <2>4, NextHist DEF HistStep
<1>2. CASE StartTurn \/ AskTurn
  <2>1. call.pc \notin HistLabels
    BY <1>2 DEF StartTurn, AskTurn, At, HistLabels
  <2>2. InHistory = {}
    BY <2>1 DEF PrivateInv, HistoryInv
  <2>3. UNCHANGED hist
    BY <1>2 DEF StartTurn, AskTurn
  <2> QED
    BY <2>2, <2>3 DEF InHistory
<1> QED
  BY <1>1, <1>2, AliveStep

\* A private turn runs alone.
LEMMA AloneStep ==
    ASSUME TypeOK, ImageInv, ThreadInv, PrivateInv, AgentInv, FrontierInv, Sending, TurnInv, [Next]_vars,
           NEW t \in alive' \cap QuestionTurns'
    PROVE  alive' = {t}
<1>0. \A u \in alive : u \in 1..nturn
  BY DEF AgentInv
<1>1. TurnsKept
  BY NextTurnsKept DEF PrivateInv, HistoryInv
<1>2. CASE alive' \subseteq alive
  <2>1. t \in alive /\ t \in 1..nturn /\ towner'[t] = towner[t]
    BY <1>0, <1>1, <1>2 DEF TurnsKept
  <2>2. t \in QuestionTurns
    BY <2>1 DEF QuestionTurns
  <2> QED
    BY <1>2, <2>1, <2>2 DEF TurnInv
<1>3. CASE StartTurn /\ NewTurn(active, threadID)
  <2>1. active \in Work
    <3>1. call.pc \in SendLabels
      BY <1>3 DEF StartTurn, At, SendLabels
    <3>2. queue \in Seq(Work) /\ active \in Work \cup {NoMsg}
      BY DEF TypeOK, MemoryTypeOK
    <3> QED
      BY <3>1, <3>2 DEF Sending
  <2>2. active \notin Questions
    BY <2>1, AgentAssumption DEF Msgs
  <2>3. t # nturn'
    BY <1>3, <2>2, NewTurnFacts DEF QuestionTurns
  <2>4. t \in alive
    BY <1>3, <2>3, NewTurnFacts
  <2>5. t \in QuestionTurns
    BY <1>0, <1>1, <2>4 DEF QuestionTurns, TurnsKept
  <2> QED
    BY <1>3, <2>4, <2>5, StartsInThread
<1>4. CASE AskTurn /\ NewTurn(call.msg, threadID)
  <2>1. alive = {}
    BY <1>4, AsksInThread
  <2> QED
    BY <1>4, <2>1, NewTurnFacts
<1> QED
  BY <1>2, <1>3, <1>4, AliveStep

LEMMA BindThreadStep ==
    ASSUME TypeOK, ThreadInv, FrontierInv, TurnInv, [Next]_vars, call'.pc = "bindThread"
    PROVE  dbThread' = 0
<1>1. CASE StartThread
  <2>1. dbThread = 0
    BY <1>1 DEF StartThread, ThreadInv
  <2> QED
    BY <1>1, <2>1 DEF StartThread, SetRoomStatus, StoreFails, storeVars, roomRow
<1>2. CASE UNCHANGED call /\ ~StartThread
  <2>1. At("bindThread") /\ dbThread = 0
    BY <1>2 DEF TurnInv, At
  <2>2. AppServer \/ UNCHANGED vars
    BY <1>2, <2>1, NextFlow, InputAtIdle DEF Flow, At, ReconcileItems, ReconcileControls
  <2> QED
    BY <2>1, <2>2 DEF AppServer, vars, storeVars, roomRow
<1> QED
  BY <1>1, <1>2, NextFlow, ClientHandler DEF Flow

LEMMA TurnInvStep ==
    ASSUME TypeOK, ImageInv, ThreadInv, PrivateInv, AgentInv, FrontierInv, HideInv, Sending, TurnInv, [Next]_vars
    PROVE  TurnInv'
<1>1. /\ session' = "down" => alive' = {}
      /\ call'.pc = "down" => session' = "down"
  BY SessionTurnStep
<1>2. call'.pc = "bindThread" => dbThread' = 0
  BY BindThreadStep
<1>3. call'.pc = "askTurn" => alive' = {} /\ threadReady'
  BY AskTurnStep
<1>4. \A t \in alive' : tthread'[t] = dbThread' /\ dbThread' # 0 /\ t \notin hidden'
  BY BoundTurnStep, HiddenIsOver
<1>5. \A t \in alive' \cap InHistory' : "running" \in hist'[t]
  BY SeenStep
<1>6. \A t \in alive' \cap QuestionTurns' : alive' = {t}
  BY AloneStep
<1> QED
  BY <1>1, <1>2, <1>3, <1>4, <1>5, <1>6 DEF TurnInv, At

\* A prompt nobody has decided on has one turn at most, and none before it is sent.
LEMMA FewTurns ==
    ASSUME TypeOK, ResendInv, NEW m \in Work, ~DecidedOn(m)
    PROVE  /\ \A t, u \in TurnsOf(m) : t = u
           /\ ~Spent(m) => TurnsOf(m) = {}
<1>1. Retries(m) = {}
  BY DEF Retries, DecidedOn
<1>2. Cardinality(Retries(m)) = 0
  BY <1>1, FS_EmptySet
<1>3. nturn \in Nat
  BY DEF TypeOK, AgentTypeOK
<1>4. IsFiniteSet(TurnsOf(m))
  <2>1. IsFiniteSet(1..nturn)
    BY <1>3, FS_Interval
  <2>2. TurnsOf(m) \in SUBSET (1..nturn)
    BY DEF TurnsOf
  <2> QED
    BY <2>1, <2>2, FS_Subset
<1>5. Cardinality(TurnsOf(m)) \in Nat
  BY <1>4, FS_CardinalityType
<1>6. Cardinality(TurnsOf(m)) <= 1 /\ (~Spent(m) => Cardinality(TurnsOf(m)) <= 0)
  BY <1>2 DEF ResendInv
<1>7. ~Spent(m) => TurnsOf(m) = {}
  BY <1>4, <1>5, <1>6, FS_EmptySet
<1>8. ASSUME NEW t \in TurnsOf(m), NEW u \in TurnsOf(m), t # u PROVE FALSE
  <2>1. TurnsOf(m) # {}
    BY <1>8
  <2>2. Cardinality(TurnsOf(m)) = 1
    <3>1. Cardinality(TurnsOf(m)) # 0
      BY <1>4, <2>1, FS_EmptySet
    <3> QED
      BY <1>5, <1>6, <3>1
  <2>3. PICK x : TurnsOf(m) = {x}
    BY <1>4, <2>2, FS_Singleton
  <2> QED
    BY <1>8, <2>3
<1> QED
  BY <1>7, <1>8

\* Decisions are recorded once and for all.
LEMMA DecisionStep ==
    ASSUME TypeOK, MessageInv, [Next]_vars,
           \A r \in Recovers : raction[r] = "none" => rtarget[r] = NoMsg
    PROVE  /\ \A r \in Recovers : raction'[r] = "none" => rtarget'[r] = NoMsg
           /\ \A m \in Msgs : DecidedOn(m) => DecidedOn(m)'
<1>0. /\ rtarget \in [Recovers -> Msgs \cup {NoMsg}] /\ raction \in [Recovers -> Actions]
      /\ NoMsg \notin Msgs
  BY StoreAssumption DEF TypeOK, StoreTypeOK
<1>1. CASE UNCHANGED reviewRows
  BY <1>1 DEF reviewRows, DecidedOn
<1>2. CASE Transacts \/ Dispatches \/ \E n \in Prompts : Submit(n)
  BY <1>1, <1>2, ReviewRowsKept DEF Dispatches, BeginDispatch, MoveMessage, Submit, AcceptMessage
<1>3. ASSUME NEW r \in Recovers, NEW n, NEW a \in {"retry", "skip", "continue"}, Decided(r, n, a)
      PROVE  /\ \A x \in Recovers : raction'[x] = "none" => rtarget'[x] = NoMsg
             /\ \A m \in Msgs : DecidedOn(m) => DecidedOn(m)'
  <2>1. /\ raction[r] = "none" /\ raction' = [raction EXCEPT ![r] = a]
        /\ rtarget' = [rtarget EXCEPT ![r] = n]
    BY <1>3 DEF Decided
  <2>2. rtarget[r] = NoMsg
    BY <2>1
  <2>3. \A x \in Recovers : x # r => rtarget'[x] = rtarget[x] /\ raction'[x] = raction[x]
    BY <1>0, <2>1
  <2>4. raction'[r] # "none"
    BY <1>0, <2>1
  <2> QED
    BY <1>0, <2>2, <2>3, <2>4 DEF DecidedOn
<1>4. CASE Decides
  <2>1. PICK r \in Recovers : Resolve(r)
    BY <1>4 DEF Decides
  <2>2. \E n : \E a \in {"retry", "skip", "continue"} : Decided(r, n, a)
    BY <2>1 DEF Resolve, RetryPrompt, RetryControl, SkipReviewed, ContinueReviewed
  <2> QED
    BY <1>3, <2>2
<1> QED
  BY <1>2, <1>4, NextTransacts

\* A decision leaves every other live row alone.
LEMMA DecisionTarget ==
    ASSUME TypeOK, Decides, NEW m \in LiveWork, m \notin LiveWork'
    PROVE  DecidedOn(m)' /\ mstate[m] = "needs-review"
<1>0. /\ rtarget \in [Recovers -> Msgs \cup {NoMsg}] /\ mstate \in [Msgs -> RequestStates]
      /\ m \in Work /\ Work \cap Controls = {} /\ m \in Msgs
  BY StoreAssumption DEF TypeOK, StoreTypeOK, LiveWork, Msgs
<1>1. PICK r \in Recovers : Resolve(r)
  BY DEF Decides
<1>2. ASSUME NEW n \in Msgs, NEW a, Decided(r, n, a) PROVE rtarget'[r] = n /\ mstate[n] = "needs-review"
  BY <1>0, <1>2 DEF Decided
<1>3. ASSUME NEW n \in Msgs, n = m, NEW a, Decided(r, n, a) PROVE DecidedOn(m)' /\ mstate[m] = "needs-review"
  BY <1>2, <1>3 DEF DecidedOn
<1>4. mstate'[m] # mstate[m]
  BY <1>0 DEF LiveWork
<1>5. CASE \E n \in Work : RetryPrompt(r, n)
  BY <1>0, <1>3, <1>4, <1>5 DEF RetryPrompt, Msgs
<1>6. CASE \E c \in Controls : RetryControl(r, c)
  BY <1>0, <1>4, <1>6 DEF RetryControl, Msgs
<1>7. CASE \E n \in Work \cup Controls : SkipReviewed(r, n)
  BY <1>0, <1>3, <1>4, <1>7 DEF SkipReviewed, Msgs
<1>8. CASE \E n \in Work \cup Controls, p \in Replacements : ContinueReviewed(r, n, p)
  <2>1. PICK n \in Work \cup Controls, p \in Replacements : ContinueReviewed(r, n, p)
    BY <1>8
  <2>2. mstate[p] = "absent" /\ mstate' = [mstate EXCEPT ![n] = "failed", ![p] = "queued"] /\ Decided(r, n, "continue")
    BY <2>1 DEF ContinueReviewed
  <2>3. m # p
    BY <2>2 DEF LiveWork, LiveStates
  <2>4. n = m
    BY <1>0, <1>4, <2>2, <2>3
  <2> QED
    BY <1>3, <2>2, <2>4, <1>0
<1> QED
  BY <1>1, <1>5, <1>6, <1>7, <1>8 DEF Resolve

\* A prompt stops being live by a decision, by its turn's proven end, or by
\* being given up as not sent.
LEMMA LeavesLive ==
    ASSUME TypeOK, MessageInv, AgentInv, NamedTurns, ToldInv, [Next]_vars, NEW m \in LiveWork, m \notin LiveWork'
    PROVE  Decides \/ (FailTurn /\ m = active) \/ Over(mturn[m])
<1> USE DEF At
<1>0. /\ mstate \in [Msgs -> RequestStates] /\ m \in Work /\ mstate[m] \in LiveStates
      /\ Work \subseteq Msgs /\ Controls \subseteq Msgs /\ Work \cap Controls = {}
      /\ Notes \subseteq Msgs /\ Work \cap Notes = {}
  BY StoreAssumption DEF TypeOK, StoreTypeOK, Msgs, LiveWork
<1>1. mstate'[m] # mstate[m] /\ mstate'[m] \notin LiveStates
  BY <1>0 DEF LiveWork
<1>2. ASSUME NEW x, NEW s, mstate' = [mstate EXCEPT ![x] = s] PROVE x = m /\ s \notin LiveStates
  BY <1>0, <1>1, <1>2
<1>3. ASSUME NEW x, NEW from, NEW s, MoveMessage(x, from, s) PROVE x = m /\ s \notin LiveStates
  BY <1>2, <1>3 DEF MoveMessage
<1>4. CASE OnTurnEnd
  <2>1. PICK e \in Received :
          /\ e.kind \in Terminal
          /\ FinishTurn(e.turn, IF fault THEN "failed" ELSE e.kind) \/ StoreFails
    BY <1>4 DEF OnTurnEnd
  <2>2. e = events[1] /\ 1 \in 1..Len(events)
    <3>1. events # <<>> /\ e = Head(events) /\ events \in Seq(TurnEvents \cup RuntimeEvents)
      BY <2>1 DEF Received, TypeOK, AgentTypeOK
    <3> QED
      BY <3>1, EmptySeq, HeadTailProperties, LenProperties
  <2>3. Over(e.turn)
    BY <2>1, <2>2 DEF AgentInv
  <2>4. FinishTurn(e.turn, IF fault THEN "failed" ELSE e.kind)
    BY <1>1, <2>1 DEF StoreFails, storeVars, messageRows
  <2>5. mturn[m] = e.turn
    BY <1>3, <2>4 DEF FinishTurn
  <2> QED
    BY <2>3, <2>5
<1>5. CASE SettleActive
  <2>1. \/ UNCHANGED storeVars \/ StoreFails
        \/ MarkNeedsReview(active)
        \/ \E s \in ProvenEnd : FinishTurn(activeTurn, s)
    BY <1>5 DEF SettleActive
  <2>2. ~(UNCHANGED storeVars \/ StoreFails)
    BY <1>1 DEF StoreFails, storeVars, messageRows
  <2>3. ~MarkNeedsReview(active)
    BY <1>3 DEF MarkNeedsReview, LiveStates
  <2>4. PICK s \in ProvenEnd : FinishTurn(activeTurn, s)
    BY <2>1, <2>2, <2>3
  <2>5. mturn[m] = activeTurn
    BY <1>3, <2>4 DEF FinishTurn
  <2>6. activeTurn # 0 /\ s \in hist[activeTurn] \cap Terminal /\ activeTurn \in Turns
    BY <2>4, StoreAssumption DEF ProvenEnd, TypeOK, MemoryTypeOK, Turns
  <2> QED
    BY <2>5, <2>6 DEF ToldInv
<1>6. CASE FailTurn /\ FailDispatch(active)
  BY <1>3, <1>6 DEF FailDispatch
<1>7. CASE Transacts /\ ~OnTurnEnd /\ ~SettleActive /\ ~(FailTurn /\ FailDispatch(active))
  <2>1. ~(UNCHANGED storeVars \/ StoreFails)
    BY <1>1 DEF StoreFails, storeVars, messageRows
  <2>2. ASSUME NEW n \in Notes, AppendNote(n) PROVE FALSE
    BY <1>0, <1>2, <2>2 DEF AppendNote
  <2>3. ASSUME NEW c \in Controls, NEW t, AcceptControl(c, t) PROVE FALSE
    BY <1>0, <1>2, <2>3 DEF AcceptControl
  <2>4. ASSUME NEW x, MarkNeedsReview(x) PROVE FALSE
    BY <1>3, <2>4 DEF MarkNeedsReview, LiveStates
  <2>5. ASSUME NEW x, NEW t, BindRunningTurn(x, t) PROVE FALSE
    BY <1>3, <2>5 DEF BindRunningTurn, LiveStates
  <2>6. ASSUME NEW c \in Controls, NEW o, FinishControl(c, o) PROVE FALSE
    BY <1>0, <1>3, <2>6 DEF FinishControl
  <2>7. ASSUME NEW x, NEW y, BeginPrivateTurn(x, y) \/ EndPrivateTurn(x, y) PROVE UNCHANGED mstate
    BY <2>7 DEF BeginPrivateTurn, EndPrivateTurn, messageRows
  <2>8. ASSUME NEW x, RecordCompletedItem(x) \/ SetRoomStatus(x) \/ BindThread(x) \/ RepairThread(x)
               \/ MarkThreadNeedsRepair \/ ResetUnusedThread
        PROVE  UNCHANGED mstate
    BY <2>8 DEF RecordCompletedItem, SetRoomStatus, BindThread, RepairThread, MarkThreadNeedsRepair,
       ResetUnusedThread, messageRows
  <2>9. ASSUME NEW x, NEW y, NEW z, ClosePrivateTurns(x, y, z) PROVE UNCHANGED mstate
    BY <2>7, <2>9 DEF ClosePrivateTurns, storeVars, messageRows
  <2> QED
    BY <1>1, <1>7, <2>1, <2>2, <2>3, <2>4, <2>5, <2>6, <2>7, <2>8, <2>9 DEF Transacts
<1>8. CASE Dispatches
  BY <1>3, <1>8 DEF Dispatches, BeginDispatch, LiveStates
<1>9. CASE \E p \in Prompts : Submit(p)
  <2>1. PICK p \in Prompts : AcceptMessage(p)
    BY <1>9 DEF Submit
  <2>2. p = m /\ mstate[p] = "absent"
    BY <1>2, <2>1 DEF AcceptMessage
  <2> QED
    BY <1>0, <2>2 DEF LiveStates
<1> QED
  BY <1>4, <1>5, <1>6, <1>7, <1>8, <1>9, NextTransacts

\* The turn that is being sent belongs to a live prompt.
LEMMA SendsLive ==
    ASSUME TypeOK, Sending, call.pc \in SendLabels
    PROVE  active \in Work /\ active \in LiveWork /\ mstate[active] = "dispatching"
<1>1. queue \in Seq(Work) /\ queue # <<>> /\ Head(queue) = active /\ mstate[active] = "dispatching"
  BY DEF Sending, TypeOK, MemoryTypeOK
<1>2. active \in Work
  BY <1>1
<1> QED
  BY <1>1, <1>2 DEF LiveWork, LiveStates

\* What runs belongs to a live prompt, or to one that was decided on.
LEMMA OwnersStep ==
    ASSUME TypeOK, MessageInv, Sending, AgentInv, PrivateInv, ToldInv, ResendInv, OwnerInv, [Next]_vars,
           NEW t \in alive' \ QuestionTurns', NEW m, m = towner'[t]
    PROVE  m \in LiveWork' \/ (m \in Work /\ DecidedOn(m)')
<1>0. /\ \A u \in alive : u \in 1..nturn
      /\ TurnsKept
      /\ \A n \in Msgs : DecidedOn(n) => DecidedOn(n)'
  BY NextTurnsKept, DecisionStep DEF AgentInv, PrivateInv, HistoryInv, OwnerInv
<1>1. CASE t \in alive
  <2>1. t \in 1..nturn /\ t \notin QuestionTurns /\ towner'[t] = towner[t]
    <3>1. t \in 1..nturn /\ nturn' \in Nat /\ nturn <= nturn' /\ nturn \in Nat
      BY <1>0, <1>1 DEF TurnsKept, TypeOK, AgentTypeOK
    <3>2. t \in 1..nturn' /\ towner'[t] = towner[t]
      BY <1>0, <3>1 DEF TurnsKept
    <3> QED
      BY <3>1, <3>2 DEF QuestionTurns
  <2>2. m = towner[t]
    BY <2>1
  <2>3. m \in Work /\ m \in Msgs /\ (m \in LiveWork \/ DecidedOn(m))
    BY <1>1, <2>1, <2>2 DEF OwnerInv, LiveWork, Msgs
  <2>4. m \in LiveWork' \/ DecidedOn(m)'
    <3>1. CASE DecidedOn(m)
      BY <1>0, <2>3, <3>1
    <3>2. CASE ~DecidedOn(m) /\ m \notin LiveWork'
      <4>1. m \in LiveWork
        BY <2>3, <3>2
      <4>2. t \in TurnsOf(m)
        BY <2>1, <2>2 DEF TurnsOf
      <4>3. CASE Decides
        BY <3>2, <4>1, <4>3, DecisionTarget
      <4>4. CASE FailTurn /\ m = active
        BY <3>2, <4>2, <4>4 DEF FailTurn, OwnerInv
      <4>5. CASE Over(mturn[m])
        <5>1. mturn[m] # 0 /\ mturn[m] \in 1..nturn
          BY <4>5 DEF Over
        <5>2. mturn[m] \in TurnsOf(m)
          BY <2>3, <5>1 DEF OwnerInv, TurnsOf
        <5>3. mturn[m] = t
          BY <2>3, <3>2, <4>2, <5>2, FewTurns
        <5> QED
          BY <1>1, <4>5, <5>3 DEF Over
      <4> QED
        BY <3>2, <4>1, <4>3, <4>4, <4>5, LeavesLive DEF PrivateInv
    <3> QED
      BY <3>1, <3>2
  <2> QED
    BY <2>3, <2>4
<1>2. CASE StartTurn /\ NewTurn(active, threadID)
  <2>1. call.pc \in SendLabels /\ UNCHANGED mstate
    BY <1>2 DEF StartTurn, At, SendLabels, storeVars, messageRows
  <2>2. active \in LiveWork'
    BY <2>1, SendsLive DEF LiveWork
  <2>3. t \in alive \/ t = nturn'
    BY <1>2, NewTurnFacts
  <2> QED
    BY <1>1, <1>2, <2>2, <2>3, NewTurnFacts
<1>3. CASE AskTurn /\ NewTurn(call.msg, threadID)
  <2>1. call.msg \in Questions
    BY <1>3 DEF AskTurn, TypeOK, HandlerTypeOK
  <2>2. t \in alive \/ t = nturn'
    BY <1>3, NewTurnFacts
  <2>3. nturn' \in QuestionTurns'
    BY <1>3, <2>1, NewTurnFacts DEF QuestionTurns
  <2> QED
    BY <1>1, <2>2, <2>3
<1> QED
  BY <1>1, <1>2, <1>3, AliveStep

\* The turn a row or a handler names is one of its prompt.
LEMMA RowOwnersStep ==
    ASSUME TypeOK, MessageInv, Sending, PrivateInv, OwnerInv, [Next]_vars
    PROVE  /\ \A m \in Work : mturn'[m] # 0 => towner'[mturn'[m]] = m
           /\ call'.pc = "bindTurn" => towner'[call'.turn] = active'
<1> USE DEF At
<1>0. TurnsKept
  BY NextTurnsKept DEF PrivateInv, HistoryInv
<1>1. ASSUME NEW m \in Work, NEW x, x = mturn'[m], x # 0 PROVE towner'[x] = m
  <2>1. CASE x = mturn[m]
    <3>1. towner[x] = m /\ x \in 1..nturn
      BY <1>1, <2>1 DEF OwnerInv, PrivateInv, NamedTurns, RoomTurn
    <3> QED
      BY <1>0, <3>1 DEF TurnsKept
  <2>2. CASE BindTurn /\ x # mturn[m]
    <3>1. BindRunningTurn(active, call.turn)
      BY <1>1, <2>2 DEF BindTurn, StoreFails, storeVars, messageRows
    <3>2. mturn \in [Msgs -> 0..MaxTurns] /\ m \in Msgs
      BY DEF TypeOK, StoreTypeOK, Msgs
    <3>3. m = active /\ x = call.turn
      BY <1>1, <2>2, <3>1, <3>2 DEF BindRunningTurn
    <3>4. towner[x] = m /\ x \in 1..nturn
      BY <2>2, <3>3 DEF BindTurn, OwnerInv, PrivateInv, NamedTurns, RoomTurn
    <3> QED
      BY <1>0, <3>4 DEF TurnsKept
  <2>3. CASE TurnRowsKept
    BY <1>1, <2>1, <2>3 DEF TurnRowsKept
  <2> QED
    BY <2>1, <2>2, <2>3, NextRows DEF RowsStep, RowsKept
<1>2. ASSUME call'.pc = "bindTurn", NEW x, x = call'.turn PROVE towner'[x] = active'
  <2>1. CASE StartTurn
    <3>1. NewTurn(active, threadID) /\ x = nturn' /\ active' = active
      BY <1>2, <2>1, TurnIsKnown DEF TurnStarted, StartTurn, activeVars
    <3> QED
      BY <3>1, NewTurnFacts
  <2>2. CASE UNCHANGED call
    <3>1. towner[x] = active /\ x \in 1..nturn /\ call.pc = "bindTurn"
      BY <1>2, <2>2 DEF OwnerInv, PrivateInv, NamedTurns, RoomTurn
    <3>2. AppServer \/ UNCHANGED vars
      BY <2>2, <3>1, NextFlow, InputAtIdle DEF Flow, ReconcileItems, ReconcileControls, StartTurn
    <3>3. UNCHANGED active
      BY <3>2 DEF AppServer, vars, stateVars
    <3> QED
      BY <1>0, <3>1, <3>3 DEF TurnsKept
  <2> QED
    BY <1>2, <2>1, <2>2, NextFlow DEF Flow
<1> QED
  BY <1>1, <1>2

\* What was not sent has no turn.
LEMMA NotSentStep ==
    ASSUME TypeOK, MessageInv, Sending, ResendInv, OwnerInv, [Next]_vars, call'.pc = "failDispatch"
    PROVE  UNCHANGED active /\ (DecidedOn(active)' \/ TurnsOf(active)' = {})
<1> USE DEF At
<1>0. PICK m : m = active
  OBVIOUS
<1>1. CASE StartTurn
  <2>1. call.pc = "startTurn" /\ call.pc \in SendLabels
    BY <1>1 DEF StartTurn, SendLabels
  <2>2. m \in Work /\ ~Spent(m)
    BY <1>0, <2>1, SendsLive DEF Spent
  <2>3. UNCHANGED <<active, rtarget>>
    BY <1>1 DEF StartTurn, activeVars, storeVars, reviewRows
  <2>4. CallNotSent
    <3>1. /\ call \in [pc : Labels, origin : Origins, expired : BOOLEAN, notSent : BOOLEAN,
                       msg : Msgs \cup Questions \cup {NoMsg}, outcome : Outcomes, turn : Nat]
          /\ call'.pc \notin {"bindTurn", "review"}
      BY DEF TypeOK, HandlerTypeOK, CallRecords
    <3> QED
      BY <1>1, <3>1, PcAfter, LabelsType DEF StartTurn
  <2>5. TurnsOf(m)' = TurnsOf(m)
    BY <2>4 DEF CallNotSent, turnVars, TurnsOf
  <2>6. ~DecidedOn(m) => TurnsOf(m) = {}
    BY <2>2, FewTurns
  <2>7. DecidedOn(m) => DecidedOn(m)'
    BY <2>3 DEF DecidedOn
  <2>8. DecidedOn(m)' \/ TurnsOf(m)' = {}
    BY <2>5, <2>6, <2>7
  <2> QED
    BY <1>0, <2>3, <2>8 DEF DecidedOn, TurnsOf
<1>2. CASE UNCHANGED call /\ ~StartTurn
  <2>1. call.pc = "failDispatch" /\ (DecidedOn(m) \/ TurnsOf(m) = {})
    BY <1>0, <1>2 DEF OwnerInv
  <2>2. AppServer \/ UNCHANGED vars
    BY <1>2, <2>1, NextFlow, InputAtIdle DEF Flow, ReconcileItems, ReconcileControls
  <2>3. UNCHANGED <<active, rtarget>>
    BY <2>2 DEF AppServer, vars, stateVars, storeVars, reviewRows
  <2>4. m \in Work
    BY <1>0, <2>1, SendsLive DEF SendLabels
  <2>5. TurnsOf(m)' = TurnsOf(m)
    BY <1>2, <2>4, TurnsOfStep
  <2>6. DecidedOn(m)' \/ TurnsOf(m)' = {}
    BY <2>1, <2>3, <2>5 DEF DecidedOn
  <2> QED
    BY <1>0, <2>3, <2>6 DEF DecidedOn, TurnsOf
<1> QED
  BY <1>1, <1>2, NextFlow DEF Flow

LEMMA OwnerInvStep ==
    ASSUME TypeOK, MessageInv, Sending, AgentInv, PrivateInv, ToldInv, ResendInv, OwnerInv, [Next]_vars
    PROVE  OwnerInv'
<1>1. \A t \in alive' \ QuestionTurns' : towner'[t] \in LiveWork' \/ (towner'[t] \in Work /\ \E r \in Recovers : rtarget'[r] = towner'[t])
  BY OwnersStep DEF DecidedOn
<1>2. /\ \A m \in Work : mturn'[m] # 0 => towner'[mturn'[m]] = m
      /\ call'.pc = "bindTurn" => towner'[call'.turn] = active'
  BY RowOwnersStep
<1>3. call'.pc = "failDispatch" => (DecidedOn(active) \/ TurnsOf(active) = {})'
  BY NotSentStep DEF DecidedOn, TurnsOf
<1>4. \A r \in Recovers : raction'[r] = "none" => rtarget'[r] = NoMsg
  BY DecisionStep DEF OwnerInv
<1> QED
  BY <1>1, <1>2, <1>3, <1>4 DEF OwnerInv, DecidedOn, At

\* Outside its handlers the coordinator takes no link of one, and without a
\* daemon nothing but its start changes the handler.
LEMMA AtRest ==
    ASSUME call.pc \in {"down", "idle", "exiting"} PROVE ~Continue
<1> USE DEF At
<1>1. ~(DispatchNext \/ StartTurn \/ BindTurn \/ FailTurn \/ ReviewTurn \/ ReviewStatus \/ SendControl \/ EndControl)
  BY DEF DispatchNext, StartTurn, BindTurn, FailTurn, ReviewTurn, ReviewStatus, SendControl, EndControl
<1>2. ~(ResolveLoad \/ RetryCall \/ RetryFinish \/ ResolveReload \/ ResolveReady \/ RecoverLoad \/ MarkRepair)
  BY DEF ResolveLoad, RetryCall, RetryFinish, ResolveReload, ResolveReady, RecoverLoad, MarkRepair
<1>3. ~(SetRecovering \/ StartThread \/ BindNewThread \/ ReadThread \/ ResumeThread \/ ReconcilePrivate)
  BY DEF SetRecovering, StartThread, BindNewThread, ReadThread, ResumeThread, ReconcilePrivate
<1>4. ~(ReconcileItems \/ SettleActive \/ ReconcileControls \/ Recovered)
  BY DEF ReconcileItems, SettleActive, ReconcileControls, Recovered
<1>5. ~(AskTurn \/ AskUndo \/ FaultReady \/ FaultStatus \/ LostTurn)
  BY DEF AskTurn, AskUndo, FaultReady, FaultStatus, LostTurn
<1> QED
  BY <1>1, <1>2, <1>3, <1>4, <1>5 DEF Continue

LEMMA DownStays ==
    ASSUME TypeOK, [Next]_vars, call.pc = "down", ~StartDaemon PROVE UNCHANGED call
<1>1. ~Client /\ ~HandleEvent /\ ~StartupRecover
  BY InputAtIdle
<1>2. ~Exit /\ ~Crash
  BY DEF Exit, Crash, At
<1>3. ~Continue
  BY AtRest
<1>4. Owner => UNCHANGED call
  BY DEF Owner, RepairMark, RepairCreate, RepairBind, RepairBegins, RepairUse, ResetAtStartup, Offline
<1>5. AppServer \/ UNCHANGED vars => UNCHANGED call
  BY DEF AppServer, vars
<1> QED
  BY <1>1, <1>2, <1>3, <1>4, <1>5 DEF Next

\* In a calm that lasts, no session dies or is replaced.
LEMMA CalmMove ==
    ASSUME TypeOK, CalmInv, [Next]_vars, Calm'
    PROVE  /\ Calm /\ UNCHANGED glitches /\ ~late'
           /\ call'.pc # "down" => session' = "up"
           /\ ~(AppServer /\ (SessionDies \/ (SessionReplaced /\ ~At("down"))))
<1>0. glitches \in Nat /\ deaths \in Nat
  BY DEF TypeOK, AgentTypeOK
<1>1. CASE UNCHANGED <<session, late, glitches, deaths>> /\ ~(AppServer /\ (SessionDies \/ (SessionReplaced /\ ~At("down")))) /\ ~StartDaemon
  <2>1. Calm
    BY <1>1 DEF Calm
  <2>2. ~late /\ (call.pc # "down" => session = "up")
    BY <2>1 DEF CalmInv, At
  <2>3. call.pc = "down" => call'.pc = "down"
    BY <1>1, DownStays
  <2> QED
    BY <1>1, <2>1, <2>2, <2>3
<1>2. ~(UNCHANGED <<session, deaths>> /\ glitches' = glitches + 1)
  BY <1>0 DEF Calm
<1>3. ~(AppServer /\ SessionDies)
  <2> SUFFICES ASSUME AppServer, SessionDies PROVE FALSE
    OBVIOUS
  <2>1. UNCHANGED glitches /\ ((late /\ UNCHANGED deaths) \/ deaths' = deaths + 1)
    BY DEF SessionDies, ProcessGone
  <2>2. late /\ Calm
    BY <1>0, <2>1 DEF Calm
  <2> QED
    BY <2>2 DEF CalmInv
<1>4. ~(AppServer /\ SessionReplaced /\ ~At("down"))
  <2> SUFFICES ASSUME AppServer, SessionReplaced, ~At("down") PROVE FALSE
    OBVIOUS
  <2>1. Calm /\ session = "down"
    BY DEF SessionReplaced, faultVars, Calm
  <2> QED
    BY <2>1 DEF CalmInv
<1>5. CASE StartDaemon
  <2>1. Calm /\ UNCHANGED <<glitches, late>> /\ session' = "up"
    BY <1>5 DEF StartDaemon, faultVars, Calm
  <2> QED
    BY <1>3, <1>4, <2>1 DEF CalmInv
<1>6. CASE (Exit \/ Crash) /\ DaemonGone
  <2>1. UNCHANGED <<glitches, deaths>> /\ ~late' /\ call'.pc = "down"
    BY <1>6, NextFlow DEF DaemonGone, ProcessGone, Idle
  <2>2. Calm
    BY <2>1 DEF Calm
  <2> QED
    BY <1>3, <1>4, <2>1, <2>2
<1> QED
  BY <1>1, <1>2, <1>3, <1>4, <1>5, <1>6, NextSession DEF SessionMove

LEMMA CalmEvents ==
    ASSUME TypeOK, CalmInv, [Next]_vars, Calm', NEW i \in 1..Len(events')
    PROVE  events'[i].kind \notin {"unavailable", "ready"}
<1>0. \A j \in 1..Len(events) : events[j].kind \notin {"unavailable", "ready"}
  BY CalmMove DEF CalmInv
<1>1. CASE UNCHANGED events
  BY <1>0, <1>1
<1>2. CASE events # <<>> /\ events' = Tail(events)
  BY <1>0, <1>2, TakenEvents
<1>3. ASSUME NEW e \in TurnEvents, events' = Append(events, e) PROVE events'[i].kind \notin {"unavailable", "ready"}
  <2>1. e.kind \notin {"unavailable", "ready"}
    BY <1>3 DEF TurnEvents, Terminal
  <2> QED
    BY <1>0, <1>3, <2>1, AppendedEvents
<1>4. ASSUME NEW t \in Turns \cup {0}, NEW k, (k \in Terminal \cup {"item"} /\ t # 0) \/ k = "fault"
      PROVE  Event(k, t) \in TurnEvents
  BY <1>4, StoreAssumption DEF Event, TurnEvents, Turns
<1>5. alive \subseteq Turns /\ 0 \notin Turns /\ Endings \subseteq Terminal
  BY AgentAssumption DEF TypeOK, AgentTypeOK, Turns
<1>6. ASSUME NEW t \in alive, ItemCompletes(t) PROVE events'[i].kind \notin {"unavailable", "ready"}
  BY <1>3, <1>4, <1>5, <1>6 DEF ItemCompletes, Emit
<1>7. ASSUME NEW t \in alive, NEW how \in Endings, TurnEnds(t, how) PROVE events'[i].kind \notin {"unavailable", "ready"}
  BY <1>3, <1>4, <1>5, <1>7 DEF TurnEnds, Emit
<1>8. ASSUME NEW t \in alive \cup {0}, AgentFault(t) PROVE events'[i].kind \notin {"unavailable", "ready"}
  BY <1>3, <1>4, <1>5, <1>8 DEF AgentFault, Emit
<1>9. events' = <<>> => FALSE
  BY LenProperties, EmptySeq
<1>10. CASE AppServer
  <2>1. ~SessionDies /\ ~(~At("down") /\ SessionReplaced)
    BY <1>10, CalmMove
  <2> QED
    BY <1>6, <1>7, <1>8, <1>10, <2>1 DEF AppServer
<1> QED
  BY <1>1, <1>2, <1>9, <1>10, NextAgent DEF AgentMove

\* With every call a success, StartTurn and AskTurn start their turn.
LEMMA CalmStarts ==
    ASSUME TypeOK, CalmInv, [Next]_vars, Calm'
    PROVE  /\ StartTurn => TurnStarted(active, threadID) /\ call'.pc = "bindTurn" /\ call'.turn = nturn'
           /\ AskTurn => /\ TurnStarted(call.msg, threadID) /\ call' = Idle
                         /\ question' = call.msg /\ questionTurn' = nturn'
<1>0. UNCHANGED glitches /\ glitches \in Nat /\ (call.pc # "down" => session = "up") /\ call \in CallRecords
  BY CalmMove DEF CalmInv, TypeOK, AgentTypeOK, HandlerTypeOK, At
<1>1. ~Glitch
  BY <1>0 DEF Glitch
<1>2. session = "up" => ~CallNotSent /\ ~CallUnknown /\ ~CallTimedOut
  BY <1>1 DEF CallNotSent, CallUnknown, CallTimedOut
<1>3. ASSUME NEW o, NEW th PROVE ~TurnStartLost(o, th) /\ ~TurnStartTimedOut(o, th)
  BY <1>1 DEF TurnStartLost, TurnStartTimedOut
<1>4. ASSUME StartTurn PROVE TurnStarted(active, threadID) /\ call'.pc = "bindTurn" /\ call'.turn = nturn'
  <2>1. session = "up"
    BY <1>0, <1>4 DEF StartTurn, At
  <2>2. TurnStarted(active, threadID) /\ call' = [call EXCEPT !.pc = "bindTurn", !.turn = nturn']
    BY <1>2, <1>3, <1>4, <2>1 DEF StartTurn
  <2> QED
    BY <1>0, <2>2 DEF CallRecords
<1>5. ASSUME AskTurn PROVE /\ TurnStarted(call.msg, threadID) /\ call' = Idle
                           /\ question' = call.msg /\ questionTurn' = nturn'
  <2>1. session = "up"
    BY <1>0, <1>5 DEF AskTurn, At
  <2> QED
    BY <1>2, <1>3, <1>5, <2>1 DEF AskTurn
<1> QED
  BY <1>4, <1>5

\* The coordinator hears of no death and of no new session.
LEMMA CalmHears ==
    ASSUME TypeOK, CalmInv, Calm PROVE ~OnUnavailable /\ ~OnReady
<1>1. ASSUME NEW e \in Received PROVE e.kind \notin {"unavailable", "ready"}
  <2>1. events # <<>> /\ e = Head(events) /\ events \in Seq(TurnEvents \cup RuntimeEvents)
    BY <1>1 DEF Received, TypeOK, AgentTypeOK
  <2>2. e = events[1] /\ 1 \in 1..Len(events)
    BY <2>1, EmptySeq, HeadTailProperties, LenProperties
  <2> QED
    BY <2>2 DEF CalmInv
<1> QED
  BY <1>1 DEF OnUnavailable, OnReady

\* Which event a label of handleAgentEvent comes from.
LEMMA EventHandler ==
    ASSUME TypeOK, HandleEvent
    PROVE  /\ call'.pc = "lostTurn" => OnUnavailable
           /\ call'.pc = "recover" => OnReady
           /\ call'.pc = "faultReady" => OnTurnEnd
<1> USE PcAfter, LabelsType
<1>0. call.pc = "idle"
  BY InputAtIdle
<1>1. CASE OnIgnored
  BY <1>0, <1>1 DEF OnIgnored
<1>2. CASE OnItem
  BY <1>0, <1>2 DEF OnItem
<1>3. CASE OnFault
  BY <1>0, <1>3 DEF OnFault
<1>4. CASE OnQuestionEnd
  BY <1>4 DEF OnQuestionEnd
<1>5. CASE OnUnavailable
  BY <1>0, <1>5 DEF OnUnavailable
<1>6. CASE OnReady
  BY <1>6 DEF OnReady
<1>7. CASE OnTurnEnd
  BY <1>7 DEF OnTurnEnd, AfterTurn
<1> QED
  BY <1>1, <1>2, <1>3, <1>4, <1>5, <1>6, <1>7 DEF HandleEvent

\* Nothing is in doubt, and before the startup Recover nothing is under way.
LEMMA CalmDoubt ==
    ASSUME TypeOK, CalmInv, [Next]_vars, Calm'
    PROVE  /\ call'.pc \notin {"failDispatch", "review", "lostTurn"}
           /\ call'.pc = "finishControl" => call'.outcome # "needs-review"
<1> USE DEF At
<1>0. /\ Calm /\ UNCHANGED glitches /\ glitches \in Nat /\ (call.pc # "down" => session = "up") /\ call \in CallRecords
      /\ call.pc \notin {"failDispatch", "review", "lostTurn"}
      /\ call.pc = "finishControl" => call.outcome # "needs-review"
  BY CalmMove DEF CalmInv, TypeOK, AgentTypeOK, HandlerTypeOK
<1>1. call'.pc \notin {"failDispatch", "review", "lostTurn"}
  <2>1. StartTurn => call'.pc = "bindTurn"
    BY CalmStarts
  <2>2. HandleEvent => call'.pc # "lostTurn"
    BY <1>0, EventHandler, CalmHears
  <2> QED
    BY <1>0, <2>1, <2>2, NextFlow DEF Flow
<1>2. ASSUME call'.pc = "finishControl" PROVE call'.outcome # "needs-review"
  <2>1. CASE UNCHANGED call
    BY <1>0, <1>2, <2>1
  <2>2. CASE Client
    <3>1. PICK c \in Controls, t \in 1..nturn : Control(c, t)
      BY <1>2, <2>2, ClientHandler
    <3>2. \/ call' = Handler("control", "command", c)
          \/ call' = [Handler("finishControl", "command", c) EXCEPT !.outcome = "failed"]
      BY <3>1 DEF Control
    <3>3. call'.outcome \in {"none", "failed"}
      BY <3>2 DEF Handler, Idle
    <3> QED
      BY <3>3
  <2>3. CASE SendControl
    <3>1. session = "up"
      BY <1>0, <2>3 DEF SendControl
    <3>2. ~CallNotSent /\ ~CallUnknown /\ ~CallTimedOut
      BY <1>0, <3>1 DEF CallNotSent, CallUnknown, CallTimedOut, Glitch
    <3>3. call' = [call EXCEPT !.pc = "finishControl", !.outcome = "completed"]
      BY <2>3, <3>2 DEF SendControl, ControlCall
    <3> QED
      BY <1>0, <3>3 DEF CallRecords
  <2> QED
    BY <1>2, <2>1, <2>2, <2>3, NextFlow DEF Flow
<1> QED
  BY <1>1, <1>2

LEMMA CalmStartup ==
    ASSUME TypeOK, CalmInv, [Next]_vars, Calm', ~booted'
    PROVE  active' = NoMsg /\ question' = NoMsg /\ call'.pc \in {"down", "idle", "exiting"}
<1> USE DEF At
<1>1. CASE Exit \/ Crash
  BY <1>1, NextFlow DEF Exit, Crash, DaemonGone, NoActive, Idle
<1>2. CASE ~booted
  <2>1. Calm /\ active = NoMsg /\ question = NoMsg /\ call.pc \in {"down", "idle", "exiting"}
    BY <1>2, CalmMove DEF CalmInv
  <2>2. ~Continue
    BY <2>1, AtRest
  <2>3. ~Client /\ ~StartupRecover
    BY <1>2 DEF Client, Submit, Note, Control, Resolve, Ask, MayResolve, Serving, StartupRecover
  <2>4. CASE Owner \/ AppServer \/ UNCHANGED vars
    BY <2>1, <2>4 DEF Owner, RepairMark, RepairCreate, RepairBind, RepairBegins, RepairUse, ResetAtStartup, Offline, AppServer, vars,
       stateVars, questionVars
  <2>5. CASE StartDaemon
    BY <2>1, <2>5 DEF StartDaemon, Idle, stateVars, questionVars
  <2>6. CASE HandleEvent
    <3>0. call.pc = "idle"
      BY <2>6, InputAtIdle
    <3>1. ~OnUnavailable /\ ~OnReady
      BY <2>1, CalmHears
    <3>2. ~OnTurnEnd /\ ~OnQuestionEnd
      BY <2>1 DEF OnTurnEnd, OnQuestionEnd, ForActive, ForQuestion
    <3>3. CASE OnIgnored
      BY <2>1, <3>3 DEF OnIgnored, stateVars, questionVars
    <3>4. CASE OnItem
      BY <2>1, <3>0, <3>4 DEF OnItem, stateVars, questionVars, Exiting, Idle
    <3>5. CASE OnFault
      BY <2>1, <3>5 DEF OnFault, questionVars, Exiting, Idle
    <3> QED
      BY <2>6, <3>1, <3>2, <3>3, <3>4, <3>5 DEF HandleEvent
  <2> QED
    BY <1>1, <2>2, <2>3, <2>4, <2>5, <2>6 DEF Next
<1>3. CASE booted /\ ~Exit /\ ~Crash
  <2>1. ~(Client \/ Owner \/ AppServer \/ StartDaemon \/ StartupRecover \/ UNCHANGED vars)
    BY <1>3 DEF Client, Submit, Note, Control, Resolve, Ask, Owner, Offline, RepairMark, RepairCreate, RepairBind, RepairBegins, RepairUse,
       ResetAtStartup, AppServer, StartDaemon, StartupRecover, vars
  <2>2. ~HandleEvent
    BY <1>3 DEF HandleEvent, OnIgnored, OnItem, OnTurnEnd, OnFault, OnQuestionEnd, OnUnavailable, OnReady
  <2>3. ~Continue
    BY <1>3 DEF Continue, DispatchNext, StartTurn, BindTurn, FailTurn, ReviewTurn, ReviewStatus, SendControl,
       EndControl, ResolveLoad, RetryCall, RetryFinish, ResolveReload, ResolveReady, RecoverLoad, MarkRepair,
       SetRecovering, StartThread, BindNewThread, ReadThread, ResumeThread, ReconcilePrivate, ReconcileItems,
       SettleActive, ReconcileControls, Recovered, AskTurn, AskUndo, FaultReady, FaultStatus, LostTurn
  <2> QED
    BY <1>3, <2>1, <2>2, <2>3 DEF Next
<1> QED
  BY <1>1, <1>2, <1>3

\* Where the active prompt and its turn can change.
LEMMA ActiveChanges ==
    ASSUME [Next]_vars, active' # active \/ activeTurn' # activeTurn
    PROVE  \/ DispatchNext /\ CanDispatch
           \/ BindTurn /\ UNCHANGED active /\ activeTurn' = call.turn
           \/ FailTurn \/ OnTurnEnd \/ SettleActive
           \/ ResolveLoad \/ ResolveReload \/ RecoverLoad \/ Exit \/ Crash
<1> USE DEF stateVars, activeVars
<1>1. ~(Client \/ Owner \/ AppServer \/ StartDaemon \/ StartupRecover \/ UNCHANGED vars)
  BY DEF Client, Submit, Note, Control, Resolve, Ask, Owner, Offline, RepairMark, RepairCreate, RepairBind, RepairBegins, RepairUse,
     ResetAtStartup, AppServer, StartDaemon, StartupRecover, vars
<1>2. ~(OnIgnored \/ OnItem \/ OnFault \/ OnQuestionEnd \/ OnUnavailable \/ OnReady)
  BY DEF OnIgnored, OnItem, OnFault, OnQuestionEnd, OnUnavailable, OnReady
<1>3. CASE DispatchNext
  BY <1>3 DEF DispatchNext
<1>4. CASE BindTurn
  BY <1>4 DEF BindTurn
<1>5. ~(StartTurn \/ ReviewTurn \/ ReviewStatus \/ SendControl \/ EndControl \/ RetryCall \/ RetryFinish)
  BY DEF StartTurn, ReviewTurn, ReviewStatus, SendControl, EndControl, RetryCall, RetryFinish
<1>6. ~(ResolveReady \/ MarkRepair \/ SetRecovering \/ StartThread \/ BindNewThread \/ ReadThread \/ ResumeThread)
  BY DEF ResolveReady, MarkRepair, SetRecovering, StartThread, BindNewThread, ReadThread, ResumeThread
<1>7. ~(ReconcilePrivate \/ ReconcileItems \/ ReconcileControls \/ Recovered \/ AskTurn \/ AskUndo)
  BY DEF ReconcilePrivate, ReconcileItems, ReconcileControls, Recovered, AskTurn, AskUndo
<1>8. ~(FaultReady \/ FaultStatus \/ LostTurn)
  BY DEF FaultReady, FaultStatus, LostTurn
<1> QED
  BY <1>1, <1>2, <1>3, <1>4, <1>5, <1>6, <1>7, <1>8 DEF Next, Continue, HandleEvent

LEMMA FaultFalls ==
    ASSUME [Next]_vars, fault, ~fault' PROVE FaultReady \/ OnUnavailable \/ Exit \/ Crash
<1> USE DEF flagVars
<1>1. ~(Client \/ Owner \/ AppServer \/ StartDaemon \/ StartupRecover \/ UNCHANGED vars)
  BY DEF Client, Submit, Note, Control, Resolve, Ask, Owner, Offline, RepairMark, RepairCreate, RepairBind, RepairBegins, RepairUse,
     ResetAtStartup, AppServer, StartDaemon, StartupRecover, vars
<1>2. ~(OnIgnored \/ OnItem \/ OnTurnEnd \/ OnFault \/ OnQuestionEnd \/ OnReady)
  BY DEF OnIgnored, OnItem, OnTurnEnd, OnFault, OnQuestionEnd, OnReady
<1>3. Continue => FaultReady
  BY DEF Continue, DispatchNext, StartTurn, BindTurn, FailTurn, ReviewTurn, ReviewStatus, SendControl,
     EndControl, ResolveLoad, RetryCall, RetryFinish, ResolveReload, ResolveReady, RecoverLoad, MarkRepair,
     SetRecovering, StartThread, BindNewThread, ReadThread, ResumeThread, ReconcilePrivate, ReconcileItems,
     SettleActive, ReconcileControls, Recovered, AskTurn, AskUndo, FaultStatus, LostTurn
<1> QED
  BY <1>1, <1>2, <1>3 DEF Next, HandleEvent

\* How the coordinator gets to a still link.
LEMMA StillReached ==
    ASSUME TypeOK, [Next]_vars, call.pc \notin StillLabels, call'.pc \in StillLabels
    PROVE  Decides \/ OnReady \/ OnTurnEnd \/ StartupRecover \/ (DispatchNext /\ CanDispatch)
<1> USE DEF At, StillLabels
<1>1. ~(ResolveLoad \/ RetryCall \/ RetryFinish \/ ResolveReload \/ ResolveReady \/ RecoverLoad \/ SetRecovering)
  BY DEF ResolveLoad, RetryCall, RetryFinish, ResolveReload, ResolveReady, RecoverLoad, SetRecovering
<1>2. ~(StartThread \/ BindNewThread \/ ReadThread \/ ResumeThread \/ ReconcilePrivate \/ ReconcileItems)
  BY DEF StartThread, BindNewThread, ReadThread, ResumeThread, ReconcilePrivate, ReconcileItems
<1>3. ~(SettleActive \/ ReconcileControls \/ Recovered)
  BY DEF SettleActive, ReconcileControls, Recovered
<1>4. CASE Client \/ HandleEvent
  <2>1. call.pc = "idle"
    BY <1>4, InputAtIdle
  <2>2. ~(DispatchNext \/ StartTurn \/ FailTurn \/ ReviewTurn \/ EndControl \/ SendControl \/ FaultReady \/ AskTurn)
    BY <2>1, AtRest DEF Continue
  <2>3. \/ Client /\ call'.pc = "resolveLoad"
        \/ HandleEvent /\ call'.pc \in {"recover", "faultReady"}
        \/ StartupRecover
    BY <1>1, <1>2, <1>3, <2>1, <2>2, NextFlow DEF Flow
  <2>4. Client /\ call'.pc = "resolveLoad" => Decides
    BY ClientHandler
  <2>5. HandleEvent /\ call'.pc \in {"recover", "faultReady"} => OnReady \/ OnTurnEnd
    BY EventHandler
  <2> QED
    BY <2>3, <2>4, <2>5
<1>6. CASE DispatchNext
  <2>1. ~(\E err : Return(err))
    BY PcAfter
  <2> QED
    BY <1>6, <2>1 DEF DispatchNext
<1> QED
  BY <1>1, <1>2, <1>3, <1>4, <1>6, NextFlow DEF Flow

LEMMA NoneRuns == ASSUME alive' = {} PROVE OneKnown'
  BY DEF OneKnown

\* dispatchNext starts a turn where nothing runs.
LEMMA StartKnown ==
    ASSUME TypeOK, Sending, ActiveInv, ImageInv, RowInv, FrontierInv, CalmInv, Next, Calm', StartTurn
    PROVE  OneKnown'
<1> USE DEF At
<1>1. call.pc = "startTurn" /\ Loaded
  BY DEF StartTurn, Loaded, LoadedLabels
<1>2. TurnStarted(active, threadID) /\ call'.pc = "bindTurn" /\ call'.turn = nturn'
  BY CalmStarts
<1>3. alive = {}
  BY <1>1, CalmMove DEF CalmInv, OneKnown, StillLabels
<1>4. alive' = {nturn'}
  BY <1>2, <1>3, NewTurnFacts DEF TurnStarted
<1>5. active \in Work /\ active \in LiveWork /\ mstate[active] = "dispatching" /\ active # NoMsg
  BY <1>1, SendsLive, StoreAssumption DEF SendLabels, Msgs
<1>6. activeTurn = 0
  BY <1>5 DEF RowInv
<1>7. question = NoMsg
  BY <1>5 DEF FrontierInv, Asking
<1>8. UNCHANGED <<active, activeTurn, question, mstate>>
  BY DEF StartTurn, activeVars, questionVars, storeVars, messageRows
<1>9. \A c \in Controls : mstate[c] # "needs-review"
  BY <1>1 DEF ImageInv, NoPending, PendingControl
<1>10. \A m \in Work : mstate[m] # "needs-review"
  <2> SUFFICES ASSUME NEW m \in Work, mstate[m] = "needs-review" PROVE FALSE
    OBVIOUS
  <2>1. m \in LiveWork
    BY DEF LiveWork, LiveStates
  <2> QED
    BY <1>1, <1>5, <2>1 DEF ActiveInv
<1> QED
  BY <1>2, <1>4, <1>5, <1>6, <1>7, <1>8, <1>9, <1>10 DEF OneKnown, StillLabels

\* So does startQuestion.
LEMMA AskKnown ==
    ASSUME TypeOK, FrontierInv, PrivateInv, TurnInv, CalmInv, Next, Calm', AskTurn PROVE OneKnown'
<1> USE DEF At
<1>1. call.pc = "askTurn" /\ Asking
  BY DEF AskTurn, Asking
<1>2. TurnStarted(call.msg, threadID) /\ call' = Idle /\ question' = call.msg /\ questionTurn' = nturn'
  BY CalmStarts
<1>3. threadReady /\ alive = {} /\ OpenHere
  BY <1>1, AsksInThread DEF PrivateInv, JournalInv, OpenHere
<1>4. alive' = {nturn'}
  BY <1>2, <1>3, NewTurnFacts DEF TurnStarted
<1>5. question' # NoMsg
  BY <1>1, <1>2, AgentAssumption DEF TypeOK, HandlerTypeOK
<1>6. active = NoMsg /\ NoReview
  BY <1>1, <1>3 DEF FrontierInv
<1>7. UNCHANGED <<active, mstate>>
  BY DEF AskTurn, activeVars, storeVars, messageRows
<1>8. \A m \in Work : mstate[m] # "needs-review"
  BY <1>6 DEF NoReview, LiveWork, LiveStates
<1>9. call'.pc = "idle"
  BY <1>2, PcAfter
<1> QED
  BY <1>2, <1>4, <1>5, <1>6, <1>7, <1>8, <1>9 DEF OneKnown, StillLabels, NoReview

\* While a turn runs nobody decides, no end of it is heard, nothing is
\* dispatched and the daemon is past its startup.
LEMMA NothingElse ==
    ASSUME TypeOK, AgentInv, CalmInv, Calm, [Next]_vars, alive # {}
    PROVE  /\ ~Decides /\ ~OnTurnEnd /\ ~OnQuestionEnd /\ ~OnUnavailable /\ ~OnReady
           /\ ~StartupRecover /\ ~(DispatchNext /\ CanDispatch)
<1>0. OneKnown
  BY DEF CalmInv
<1>1. ~Decides
  <2> SUFFICES ASSUME NEW r \in Recovers, Resolve(r) PROVE FALSE
    BY DEF Decides
  <2>1. ~fault
    BY DEF Resolve, MayResolve
  <2>2. \E m \in Work \cup Controls : mstate[m] = "needs-review"
    BY DEF Resolve, RetryPrompt, RetryControl, SkipReviewed, ContinueReviewed, Decided
  <2> QED
    BY <1>0, <2>1, <2>2 DEF OneKnown
<1>2. ASSUME NEW e \in Received, e.kind \in Terminal PROVE e.turn # 0 /\ e.turn \notin alive
  <2>1. events # <<>> /\ e = Head(events) /\ events \in Seq(TurnEvents \cup RuntimeEvents)
    BY <1>2 DEF Received, TypeOK, AgentTypeOK
  <2>2. e = events[1] /\ 1 \in 1..Len(events)
    BY <2>1, EmptySeq, HeadTailProperties, LenProperties
  <2> QED
    BY <1>2, <2>2 DEF AgentInv, Over
<1>3. ~OnTurnEnd
  BY <1>0, <1>2 DEF OnTurnEnd, ForActive, OneKnown
<1>4. ~OnQuestionEnd
  BY <1>0, <1>2 DEF OnQuestionEnd, ForQuestion, OneKnown
<1>5. ~StartupRecover
  BY <1>0 DEF StartupRecover, CalmInv, OneKnown
<1>6. ~(DispatchNext /\ CanDispatch)
  BY <1>0 DEF CanDispatch, OneKnown
<1> QED
  BY <1>1, <1>3, <1>4, <1>5, <1>6, CalmHears

\* A step that starts nothing leaves the one turn known.
LEMMA OtherKnown ==
    ASSUME TypeOK, MessageInv, Sending, AgentInv, RowInv, CalmInv, [Next]_vars, Calm', ~StartTurn, ~AskTurn
    PROVE  OneKnown'
<1> USE DEF At
<1>0. SUFFICES ASSUME alive' # {} PROVE OneKnown'
  BY NoneRuns
<1>1. Calm /\ alive' \subseteq alive /\ alive # {}
  BY <1>0, CalmMove, AliveStep
<1>2. OneKnown /\ call.pc \notin StillLabels \cup {"failDispatch", "review", "lostTurn"}
  BY <1>1 DEF CalmInv, OneKnown
<1>3. /\ ~Decides /\ ~OnTurnEnd /\ ~OnQuestionEnd /\ ~OnUnavailable /\ ~OnReady
      /\ ~StartupRecover /\ ~(DispatchNext /\ CanDispatch)
  BY <1>1, NothingElse
<1>4. ~Exit /\ ~Crash
  BY <1>0 DEF Exit, Crash, DaemonGone, ProcessGone
<1>5. ~(FailTurn \/ SettleActive \/ ResolveLoad \/ ResolveReload \/ RecoverLoad \/ FaultReady \/ ReviewTurn \/ LostTurn)
  BY <1>2 DEF FailTurn, SettleActive, ResolveLoad, ResolveReload, RecoverLoad, FaultReady, ReviewTurn, LostTurn,
     StillLabels
<1>6. call'.pc \notin StillLabels
  BY <1>2, <1>3, StillReached
<1>7. UNCHANGED questionVars
  BY <1>3, <1>4, QuestionMove
<1>8. UNCHANGED active /\ (UNCHANGED activeTurn \/ (BindTurn /\ activeTurn' = call.turn))
  BY <1>3, <1>4, <1>5, ActiveChanges
<1>9. active' # NoMsg /\ activeTurn' # 0 => alive' \subseteq {activeTurn'}
  BY <1>1, <1>2, <1>8 DEF OneKnown, BindTurn
<1>10. call'.pc = "bindTurn" => UNCHANGED call
  BY NextFlow DEF Flow
<1>11. \A c \in Controls : mstate'[c] # "needs-review"
  BY <1>1, <1>2, ReviewMove DEF OneKnown, CalmInv, StillLabels
<1>12. ASSUME NEW m \in Work, mstate'[m] = "needs-review" PROVE fault'
  <2>0. (fault => fault') /\ m \in Msgs /\ mstate \in [Msgs -> RequestStates]
    BY <1>3, <1>4, <1>5, FaultFalls DEF TypeOK, StoreTypeOK, Msgs
  <2>1. mstate[m] = "needs-review" => fault'
    BY <1>1, <1>2, <2>0 DEF OneKnown
  <2>2. ActiveMove
    BY NextActive DEF RowInv
  <2>3. m \in LiveWork'
    BY <1>12 DEF LiveWork, LiveStates
  <2>4. CASE LiveRowsKept
    BY <1>12, <2>1, <2>3, <2>4 DEF LiveRowsKept
  <2>5. CASE BindRunningTurn(active, call.turn)
    BY <1>12, <2>0, <2>1, <2>5 DEF BindRunningTurn, MoveMessage
  <2>6. CASE OnFault /\ active \in Work
    BY <2>6, StoreAssumption DEF OnFault, Msgs
  <2> QED
    BY <1>3, <1>5, <2>2, <2>4, <2>5, <2>6 DEF ActiveMove, Dispatches
<1> QED
  BY <1>1, <1>2, <1>6, <1>7, <1>8, <1>9, <1>10, <1>11, <1>12 DEF OneKnown, questionVars

LEMMA CalmInvStep ==
    ASSUME TypeOK, MessageInv, Sending, ActiveInv, ImageInv, PrivateInv, AgentInv, RowInv, FrontierInv, TurnInv,
           CalmInv, [Next]_vars
    PROVE  CalmInv'
<1> USE DEF At
<1> SUFFICES ASSUME Calm' PROVE CalmInv'
  BY DEF CalmInv
<1>1. ~late' /\ (call'.pc # "down" => session' = "up")
  BY CalmMove
<1>2. \A i \in 1..Len(events') : events'[i].kind \notin {"unavailable", "ready"}
  BY CalmEvents
<1>3. /\ call'.pc \notin {"failDispatch", "review", "lostTurn"}
      /\ call'.pc = "finishControl" => call'.outcome # "needs-review"
  BY CalmDoubt
<1>4. ~booted' => active' = NoMsg /\ question' = NoMsg /\ call'.pc \in {"down", "idle", "exiting"}
  BY CalmStartup
<1>5. OneKnown'
  <2>1. CASE StartTurn
    BY <2>1, StartKnown DEF Next, Continue
  <2>2. CASE AskTurn
    BY <2>2, AskKnown DEF Next, Continue
  <2> QED
    BY <2>1, <2>2, OtherKnown
<1> QED
  BY <1>1, <1>2, <1>3, <1>4, <1>5 DEF CalmInv

OneInv == TurnInv /\ OwnerInv /\ CalmInv

LEMMA OneInit == ASSUME Init PROVE OneInv
<1>1. /\ alive = {} /\ nturn = 0 /\ session = "down" /\ call.pc = "down" /\ ~late /\ events = <<>>
      /\ active = NoMsg /\ question = NoMsg /\ ~booted
      /\ mturn = [m \in Msgs |-> 0] /\ raction = [r \in Recovers |-> "none"] /\ rtarget = [r \in Recovers |-> NoMsg]
  BY DEF Init, StoreInit, AgentInit, Idle
<1>2. \A i \in 1..Len(events) : FALSE
  BY <1>1
<1>3. TurnInv
  BY <1>1 DEF TurnInv, At
<1>4. OwnerInv
  BY <1>1 DEF OwnerInv, At, Msgs
<1>5. CalmInv
  BY <1>1, <1>2 DEF CalmInv, OneKnown, StillLabels, At
<1> QED
  BY <1>3, <1>4, <1>5 DEF OneInv

LEMMA OneAlways == Spec => []OneInv
<1>1. Init => OneInv
  BY OneInit
<1>2. TypeOK /\ ActiveInv /\ ImageInv /\ ThreadInv /\ QueueInv /\ PrivateInv /\ OutcomeInv /\ ResendInv
        /\ OneInv /\ [Next]_vars => OneInv'
  <2> SUFFICES ASSUME TypeOK, ActiveInv, ImageInv, ThreadInv, QueueInv, PrivateInv, OutcomeInv, ResendInv,
                      OneInv, [Next]_vars
               PROVE  OneInv'
    OBVIOUS
  <2>1. MessageInv /\ Sending /\ AgentInv /\ ToldInv /\ RowInv /\ FrontierInv /\ HideInv
    BY DEF QueueInv, OutcomeInv
  <2>2. TurnInv /\ OwnerInv /\ CalmInv
    BY DEF OneInv
  <2>3. TurnInv'
    BY <2>1, <2>2, TurnInvStep
  <2>4. OwnerInv'
    BY <2>1, <2>2, OwnerInvStep
  <2>5. CalmInv'
    BY <2>1, <2>2, CalmInvStep
  <2> QED
    BY <2>3, <2>4, <2>5 DEF OneInv
<1> QED
  BY <1>1, <1>2, TypeCorrect, ActiveAlways, ImageAlways, ThreadAlways, QueueAlways, PrivateAlways, OutcomeAlways,
     ResendAlways, PTL DEF Spec

\* In every room: whatever crashes and whatever is lost, the App Server runs a
\* second turn beside another only after a call went wrong or its process died,
\* and after somebody decided about the prompt of one of the two.
THEOREM OneTurnAtATimeAlways == Spec => []OneTurnAtATime
<1>1. ASSUME TypeOK, ActiveInv, PrivateInv, OutcomeInv, ResendInv, OneInv PROVE OneTurnAtATime
  <2> SUFFICES ASSUME NEW t \in alive, NEW u \in alive, t # u
               PROVE  glitches + deaths > 0 /\ \E r \in Recovers : rtarget[r] \in {towner[t], towner[u]}
    BY DEF OneTurnAtATime
  <2>0. TurnInv /\ OwnerInv /\ CalmInv /\ AgentInv
    BY <1>1 DEF OneInv, OutcomeInv
  <2>1. glitches + deaths > 0
    <3>1. ~Calm
      BY <2>0 DEF CalmInv, OneKnown
    <3>2. glitches \in Nat /\ deaths \in Nat
      BY <1>1 DEF TypeOK, AgentTypeOK
    <3> QED
      BY <3>1, <3>2 DEF Calm
  <2>2. t \notin QuestionTurns /\ u \notin QuestionTurns
    BY <2>0 DEF TurnInv
  <2>3. CASE DecidedOn(towner[t]) \/ DecidedOn(towner[u])
    BY <2>1, <2>3 DEF DecidedOn
  <2>4. CASE ~DecidedOn(towner[t]) /\ ~DecidedOn(towner[u])
    <3>1. towner[t] \in LiveWork /\ towner[u] \in LiveWork
      BY <2>0, <2>2, <2>4 DEF OwnerInv
    <3>2. towner[t] = towner[u] /\ towner[t] \in Work
      BY <1>1, <3>1 DEF ActiveInv, SingleActive, LiveWork
    <3>3. t \in TurnsOf(towner[t]) /\ u \in TurnsOf(towner[t])
      BY <2>0, <3>2 DEF TurnsOf, AgentInv
    <3> QED
      BY <1>1, <2>4, <3>2, <3>3, FewTurns
  <2> QED
    BY <2>3, <2>4
<1> QED
  BY <1>1, TypeCorrect, ActiveAlways, PrivateAlways, OutcomeAlways, ResendAlways, OneAlways, PTL

----------------------------------------------------------------------------
\* MemoryMatchesStore.

\* The links behind a reading of the rows.
ReadLabels ==
    {"setRecovering", "startThread", "bindThread", "readThread", "resumeThread", "private", "items",
     "settle", "controls", "recovered", "resolveReady"}

\* Somebody has decided about a control.
ControlDecided == \E r \in Recovers : rtarget[r] \in Controls

\* MemoryMatchesStore is not inductive: it is about the end of a handler, and
\* most of it is lost while the room is frozen.  A ready room holds a prompt
\* that is live in the store, and the queue still has one that is being sent.
HeldInv ==
    /\ status = "ready" \/ At("resolveReady") => active \in LiveWork \cup {NoMsg}
    /\ call.pc \in {"recovered", "faultReady"} => active = NoMsg
    /\ status = "ready" => activeState # "needs-review"
    /\ status = "ready" /\ activeState = "dispatching" => queue # <<>> /\ Head(queue) = active
    /\ call.pc \in {"lostTurn", "retry", "retryFinish"} => status # "ready"
    /\ \A m \in Work : mstate[m] = "running" => mturn[m] # 0

\* The queue holds queued rows only, behind the one that is being sent.
SoundInv == \A i \in 1..Len(queue) :
    queue[i] \in QueuedWork \/ (i = 1 /\ queue[i] = active /\ activeTurn = 0)

\* What the coordinator knows of a fault comes from a fault.
FaultInv ==
    /\ fault => faults > 0
    /\ At("faultReady") => faults > 0
    /\ \A i \in 1..Len(events) : events[i].kind = "fault" => faults > 0

\* The controls in memory are those LoadRecoveryImage would read; so they are
\* as long as nobody has decided about one, and as long as no fault lets the
\* room become ready without reading the rows again.
Exact == \A c \in Controls : pending[c] = (IF PendingControl(c) THEN mstate[c] ELSE "none")
ExactInv ==
    /\ call.pc \in {"retry", "retryFinish"} => ControlDecided
    /\ At("resolveLoad") /\ call.msg # NoMsg => ControlDecided
    /\ ~ControlDecided /\ Loaded => Exact
    /\ faults = 0 /\ (status = "ready" \/ call.pc \in ReadLabels) => Exact

\* How a transaction moves the row of a prompt.
RowMove(m) ==
    \/ mstate'[m] = mstate[m]
    \/ mstate[m] \in {"dispatching", "running"} /\ mstate'[m] \in LiveStates
    \/ mstate[m] = "dispatching" /\ FailTurn /\ FailDispatch(active) /\ m = active
    \/ /\ mstate[m] \in {"running", "needs-review"}
       /\ (OnTurnEnd \/ SettleActive) /\ \E t : \E o \in Terminal : FinishTurn(t, o)

\* The transactions of the store move a prompt's row in these ways only.
LEMMA TransactsRow ==
    ASSUME StoreTypeOK, Transacts, NEW m \in Work PROVE RowMove(m)
<1> USE DEF RowMove
<1>0. /\ mstate \in [Msgs -> RequestStates] /\ m \in Msgs /\ m \notin Controls /\ m \notin Notes
  BY StoreAssumption DEF StoreTypeOK, Msgs
<1>1. ASSUME NEW x, NEW s, mstate' = [mstate EXCEPT ![x] = s] PROVE (m # x => mstate'[m] = mstate[m]) /\ (m = x => mstate'[m] = s)
  BY <1>0, <1>1
<1>2. UNCHANGED mstate => RowMove(m)
  OBVIOUS
<1>3. CASE UNCHANGED storeVars \/ StoreFails
  BY <1>2, <1>3 DEF storeVars, messageRows, StoreFails
<1>4. CASE (\E n \in Notes : AppendNote(n)) \/ \E c \in Controls : \E t : AcceptControl(c, t)
  BY <1>0, <1>1, <1>4 DEF AppendNote, AcceptControl
<1>5. CASE \E x : MarkNeedsReview(x) \/ \E t : BindRunningTurn(x, t)
  <2>1. PICK x, s : mstate[x] \in {"dispatching", "running"} /\ s \in LiveStates /\ mstate' = [mstate EXCEPT ![x] = s]
    BY <1>5 DEF MarkNeedsReview, BindRunningTurn, MoveMessage, LiveStates
  <2> QED
    BY <1>1, <2>1
<1>6. CASE FailTurn /\ FailDispatch(active)
  BY <1>1, <1>6 DEF FailDispatch, MoveMessage
<1>7. CASE \E c \in Controls, o \in {"failed", "completed", "needs-review"} : FinishControl(c, o)
  BY <1>0, <1>1, <1>7 DEF FinishControl, MoveMessage
<1>8. CASE (OnTurnEnd \/ SettleActive) /\ \E t : \E o \in Terminal : FinishTurn(t, o)
  <2>0. PICK t, o : FinishTurn(t, o)
    BY <1>8
  <2>1. PICK x \in Work : mstate[x] \in {"running", "needs-review"} /\ mstate' = [mstate EXCEPT ![x] = o]
    BY <2>0 DEF FinishTurn, MoveMessage
  <2> QED
    BY <1>1, <1>8, <2>1
<1>9. CASE \/ \E x : RecordCompletedItem(x) \/ SetRoomStatus(x) \/ BindThread(x) \/ RepairThread(x)
           \/ MarkThreadNeedsRepair \/ ResetUnusedThread
  BY <1>2, <1>9 DEF RecordCompletedItem, SetRoomStatus, BindThread, RepairThread,
     MarkThreadNeedsRepair, ResetUnusedThread, messageRows
<1>10. CASE \E x, y : BeginPrivateTurn(x, y) \/ EndPrivateTurn(x, y)
  BY <1>2, <1>10 DEF BeginPrivateTurn, EndPrivateTurn, messageRows
<1>11. CASE \E x, y, z : ClosePrivateTurns(x, y, z)
  BY <1>3, <1>10, <1>11 DEF ClosePrivateTurns
<1> QED
  BY <1>3, <1>4, <1>5, <1>6, <1>7, <1>8, <1>9, <1>10, <1>11 DEF Transacts

\* A queued prompt leaves the queue of the store when it is dispatched.
LEMMA QueuedStays ==
    ASSUME TypeOK, MessageInv, [Next]_vars, NEW m \in QueuedWork
    PROVE  m \in QueuedWork' \/ (Dispatches /\ m = Head(queue))
<1>0. StoreTypeOK /\ m \in Work /\ m \in Msgs /\ mstate \in [Msgs -> RequestStates] /\ mstate[m] = "queued" /\ Work \subseteq Msgs
  BY DEF TypeOK, StoreTypeOK, QueuedWork, Msgs
<1>1. mstate'[m] = "queued" => m \in QueuedWork'
  BY <1>0 DEF QueuedWork
<1>2. CASE Transacts
  <2>1. RowMove(m)
    BY <1>0, <1>2, TransactsRow
  <2> QED
    BY <1>0, <1>1, <2>1 DEF RowMove
<1>3. CASE Dispatches
  BY <1>0, <1>1, <1>3 DEF Dispatches, BeginDispatch, MoveMessage
<1>4. CASE \E x \in Prompts : Submit(x)
  BY <1>0, <1>1, <1>4 DEF Submit, AcceptMessage
<1>5. ASSUME NEW x, NEW s, mstate[x] = "needs-review", mstate' = [mstate EXCEPT ![x] = s] PROVE mstate'[m] = "queued"
  BY <1>0, <1>5
<1>6. CASE Decides
  <2>1. PICK r \in Recovers : Resolve(r)
    BY <1>6 DEF Decides
  <2>2. ASSUME NEW x, RetryPrompt(r, x) \/ RetryControl(r, x) \/ SkipReviewed(r, x) PROVE mstate'[m] = "queued"
    BY <1>5, <2>2 DEF RetryPrompt, RetryControl, SkipReviewed, Decided
  <2>3. ASSUME NEW x, NEW p \in Replacements, ContinueReviewed(r, x, p) PROVE mstate'[m] = "queued"
    <3>1. mstate[x] = "needs-review" /\ mstate[p] = "absent" /\ mstate' = [mstate EXCEPT ![x] = "failed", ![p] = "queued"]
      BY <2>3 DEF ContinueReviewed, Decided
    <3> QED
      BY <1>0, <3>1
  <2> QED
    BY <1>1, <2>1, <2>2, <2>3 DEF Resolve
<1> QED
  BY <1>2, <1>3, <1>4, <1>6, NextTransacts

\* A live prompt in memory stays live, or is let go, or is decided on.
LEMMA ActiveStays ==
    ASSUME TypeOK, MessageInv, [Next]_vars, active \in LiveWork, active \notin LiveWork'
    PROVE  Decides \/ NoActive
<1>0. StoreTypeOK /\ active \in Work /\ active \in Msgs /\ mstate \in [Msgs -> RequestStates] /\ mstate[active] \in LiveStates
  BY DEF TypeOK, StoreTypeOK, LiveWork, Msgs
<1>1. mstate'[active] \notin LiveStates
  BY <1>0 DEF LiveWork
<1>2. CASE Transacts
  <2>1. RowMove(active)
    BY <1>0, <1>2, TransactsRow
  <2>2. ~UNCHANGED storeVars /\ ~StoreFails /\ ~MarkNeedsReview(active)
    BY <1>0, <1>1 DEF storeVars, messageRows, StoreFails, MarkNeedsReview, MoveMessage, LiveStates
  <2>3. FailTurn => NoActive
    BY <2>2 DEF FailTurn
  <2>4. OnTurnEnd => NoActive
    BY <2>2 DEF OnTurnEnd
  <2>5. SettleActive => NoActive
    BY <2>2 DEF SettleActive
  <2> QED
    BY <1>0, <1>1, <2>1, <2>3, <2>4, <2>5 DEF RowMove
<1>3. ~Dispatches
  <2> SUFFICES ASSUME Dispatches PROVE FALSE
    OBVIOUS
  <2>1. active = NoMsg
    BY DEF Dispatches, CanDispatch
  <2> QED
    BY <1>0, <2>1, StoreAssumption
<1>4. CASE \E x \in Prompts : Submit(x)
  BY <1>0, <1>1, <1>4 DEF Submit, AcceptMessage, LiveStates
<1> QED
  BY <1>2, <1>3, <1>4, NextTransacts

\* Where the active prompt and the queue change, and how.
MemoryMove ==
    \/ UNCHANGED <<activeVars, queue>>
    \/ UNCHANGED activeVars /\ \E m \in Prompts : Submit(m) /\ queue' = Append(queue, m)
    \/ Dispatches /\ activeState' = "dispatching" /\ activeTurn' = 0 /\ UNCHANGED queue
    \/ BindTurn /\ queue' = Tail(queue) /\ UNCHANGED active /\ activeState' = "running"
    \/ FailTurn /\ queue' = Tail(queue) /\ NoActive
    \/ ReviewTurn /\ queue' = Tail(queue) /\ UNCHANGED <<active, activeTurn, status>>
    \/ /\ SettleActive \/ LostTurn \/ (OnFault /\ status' # "ready")
       /\ UNCHANGED <<active, activeTurn, queue>> /\ activeState' = "needs-review"
    \/ (OnTurnEnd \/ SettleActive) /\ NoActive /\ UNCHANGED queue
    \/ (ResolveLoad \/ ResolveReload \/ RecoverLoad) /\ ReadsImage /\ status' # "ready"
    \/ (Exit \/ Crash) /\ NoActive /\ queue' = <<>> /\ status' # "ready"

\* Every step changes the memory of the active prompt in one of these ways.
LEMMA NextMemory == ASSUME [Next]_vars PROVE MemoryMove
<1> USE DEF MemoryMove, stateVars, activeVars
<1>1. CASE Client
  BY <1>1 DEF Client, Submit, Note, Control, Resolve, Ask
<1>2. CASE Owner \/ AppServer \/ StartDaemon \/ StartupRecover \/ UNCHANGED vars
  BY <1>2 DEF Owner, Offline, RepairMark, RepairCreate, RepairBind, RepairBegins, RepairUse, ResetAtStartup,
     AppServer, StartDaemon, StartupRecover, vars
<1>3. CASE OnIgnored \/ OnItem \/ OnQuestionEnd \/ OnUnavailable \/ OnReady
  BY <1>3 DEF OnIgnored, OnItem, OnQuestionEnd, OnUnavailable, OnReady
<1>4. CASE OnTurnEnd
  BY <1>4 DEF OnTurnEnd
<1>5. CASE OnFault
  BY <1>5 DEF OnFault
<1>6. CASE DispatchNext
  BY <1>6 DEF DispatchNext, Dispatches
<1>7. CASE BindTurn \/ FailTurn \/ ReviewTurn
  BY <1>7 DEF BindTurn, FailTurn, ReviewTurn, Dequeue
<1>8. CASE StartTurn \/ ReviewStatus \/ SendControl \/ EndControl \/ RetryCall \/ RetryFinish \/ ResolveReady
  BY <1>8 DEF StartTurn, ReviewStatus, SendControl, EndControl, RetryCall, RetryFinish, ResolveReady
<1>9. CASE ResolveLoad \/ ResolveReload
  BY <1>9 DEF ResolveLoad, ResolveReload, ReadsImage
<1>10. CASE RecoverLoad
  BY <1>10 DEF RecoverLoad, ReadsImage
<1>11. CASE MarkRepair \/ SetRecovering \/ StartThread \/ BindNewThread \/ ReadThread \/ ResumeThread
  BY <1>11 DEF MarkRepair, SetRecovering, StartThread, BindNewThread, ReadThread, ResumeThread
<1>12. CASE SettleActive
  BY <1>12 DEF SettleActive
<1>13. CASE ReconcilePrivate \/ ReconcileItems \/ ReconcileControls \/ Recovered
  BY <1>13 DEF ReconcilePrivate, ReconcileItems, ReconcileControls, Recovered
<1>14. CASE AskTurn \/ AskUndo \/ FaultReady \/ FaultStatus
  BY <1>14 DEF AskTurn, AskUndo, FaultReady, FaultStatus
<1>15. CASE LostTurn
  BY <1>15 DEF LostTurn
<1>16. CASE Exit \/ Crash
  BY <1>16 DEF Exit, Crash, DaemonGone, ZeroMemory
<1> QED
  BY <1>1, <1>2, <1>3, <1>4, <1>5, <1>6, <1>7, <1>8, <1>9, <1>10, <1>11, <1>12, <1>13, <1>14, <1>15, <1>16
     DEF Next, Continue, HandleEvent

\* Three links make the room ready.
LEMMA ReadyAgain ==
    ASSUME [Next]_vars, status # "ready", status' = "ready"
    PROVE  (ResolveReady /\ activeState \in {"none", "running"}) \/ Recovered \/ FaultReady
<1>1. ~Quiet
  BY DEF Quiet
<1>2. ~(Client \/ HandleEvent)
  BY <1>1, InputQuiet
<1>3. ~(\/ DispatchNext \/ StartTurn \/ BindTurn \/ FailTurn \/ ReviewTurn \/ ReviewStatus
        \/ SendControl \/ EndControl
        \/ ResolveLoad \/ RetryCall \/ RetryFinish \/ ResolveReload
        \/ AskTurn \/ AskUndo \/ FaultStatus \/ LostTurn)
  BY <1>1, TurnQuiet
<1>4. ~(\/ RecoverLoad \/ MarkRepair \/ SetRecovering \/ ReadThread \/ ResumeThread
        \/ ReconcilePrivate \/ ReconcileItems \/ SettleActive)
  BY <1>1, RecoverQuiet
<1>5. ~(AppServer \/ StartDaemon \/ StartupRecover \/ Exit \/ Crash \/ UNCHANGED vars)
  BY <1>1, LifeQuiet
<1>6. ~(StartThread \/ BindNewThread \/ ReconcileControls \/ Owner)
  BY DEF StartThread, BindNewThread, ReconcileControls, Owner, Offline, RepairMark, RepairCreate, RepairBind, RepairBegins, RepairUse,
     ResetAtStartup, stateVars
<1>7. ResolveReady => activeState \in {"none", "running"}
  BY DEF ResolveReady
<1> QED
  BY <1>2, <1>3, <1>4, <1>5, <1>6, <1>7 DEF Next, Continue

\* A decision leaves the room frozen.
LEMMA DecisionFreezes ==
    ASSUME TypeOK, Decides
    PROVE  status' # "ready" /\ call'.pc \in {"resolveLoad", "idle"}
<1>1. PICK r \in Recovers : Resolve(r)
  BY DEF Decides
<1>2. ASSUME NEW c \in Controls \cup {NoMsg}, AfterDecision(c) PROVE call'.pc \in {"resolveLoad", "idle"}
  BY <1>2, PcAfter, LabelsType DEF AfterDecision
<1> QED
  BY <1>1, <1>2 DEF Resolve

\* How resolve comes to its last links.
LEMMA ResolveReads ==
    ASSUME TypeOK, (ResolveLoad /\ call'.pc \in {"resolveReady", "retry"}) \/ (ResolveReload /\ call'.pc = "resolveReady")
    PROVE  ReadsImage /\ status' # "ready"
<1>1. ~\E err : Return(err)
  BY PcAfter
<1> QED
  BY <1>1 DEF ResolveLoad, ResolveReload, ReadsImage

\* What a reading of the rows finds active is live.
LEMMA ReadsLive ==
    ASSUME TypeOK, ReadsImage PROVE active' \in LiveWork' \cup {NoMsg}
<1>1. LiveWork' = LiveWork
  BY DEF ReadsImage, storeVars, messageRows, LiveWork
<1> QED
  BY <1>1 DEF ReadsImage, LoadImage, FirstAccepted

\* First part of HeldInv: the prompt a ready room holds is live.
LEMMA HeldActive ==
    ASSUME TypeOK, MessageInv, HeldInv, [Next]_vars, status' = "ready" \/ call'.pc = "resolveReady"
    PROVE  active' \in LiveWork' \cup {NoMsg}
<1>1. ~Decides
  BY DecisionFreezes
<1>2. CASE ReadsImage
  BY <1>2, ReadsLive
<1>3. CASE active' = active /\ ~ReadsImage
  <2>1. ASSUME status' = "ready" PROVE active \in LiveWork \cup {NoMsg}
    <3>1. status = "ready" \/ ResolveReady \/ Recovered \/ FaultReady
      BY <2>1, ReadyAgain
    <3> QED
      BY <3>1 DEF HeldInv, At, ResolveReady, Recovered, FaultReady
  <2>2. ASSUME call'.pc = "resolveReady" PROVE active \in LiveWork \cup {NoMsg}
    <3>1. UNCHANGED call
      BY <1>3, <2>2, NextFlow, ResolveReads DEF Flow
    <3> QED
      BY <2>2, <3>1 DEF HeldInv, At
  <2>3. active \in LiveWork \cup {NoMsg}
    BY <2>1, <2>2
  <2> QED
    BY <1>1, <1>3, <2>3, ActiveStays DEF NoActive
<1>4. CASE active' # active /\ ~ReadsImage
  <2>1. active' = NoMsg \/ Dispatches
    BY <1>4, NextMemory DEF MemoryMove, NoActive, activeVars
  <2>2. ASSUME Dispatches PROVE active' \in LiveWork'
    <3>1. Head(queue) \in Work /\ mstate \in [Msgs -> RequestStates] /\ Work \subseteq Msgs
      BY <2>2, HeadTailProperties DEF Dispatches, CanDispatch, TypeOK, MemoryTypeOK, StoreTypeOK, Msgs
    <3>2. mstate'[Head(queue)] = "dispatching" /\ active' = Head(queue)
      BY <2>2, <3>1 DEF Dispatches, BeginDispatch, MoveMessage
    <3> QED
      BY <3>1, <3>2 DEF LiveWork, LiveStates
  <2> QED
    BY <2>1, <2>2
<1> QED
  BY <1>2, <1>3, <1>4

\* Second part: a room made ready after a settlement holds nothing.
LEMMA HeldNothing ==
    ASSUME TypeOK, HeldInv, [Next]_vars, call'.pc \in {"recovered", "faultReady"}
    PROVE  active' = NoMsg
<1>1. CASE UNCHANGED call
  <2>1. ~(Client \/ HandleEvent \/ Owner \/ ReconcileItems \/ ReconcileControls)
    BY <1>1, InputAtIdle DEF ReconcileItems, ReconcileControls, At
  <2>2. active = NoMsg
    BY <1>1 DEF HeldInv
  <2>3. ASSUME active' # active PROVE FALSE
    <3>1. DispatchNext \/ BindTurn \/ FailTurn \/ OnTurnEnd \/ SettleActive \/ ResolveLoad \/ ResolveReload
          \/ RecoverLoad \/ Exit \/ Crash
      BY <2>3, ActiveChanges
    <3>2. ~(DispatchNext \/ BindTurn \/ FailTurn \/ SettleActive \/ ResolveLoad \/ ResolveReload \/ RecoverLoad)
      BY <1>1 DEF DispatchNext, BindTurn, FailTurn, SettleActive, ResolveLoad, ResolveReload, RecoverLoad, At
    <3>3. ~(Exit \/ Crash)
      BY DEF Exit, Crash, DaemonGone, Idle
    <3> QED
      BY <2>1, <3>1, <3>2, <3>3 DEF HandleEvent
  <2> QED
    BY <2>2, <2>3
<1>2. CASE HandleEvent /\ call'.pc = "faultReady"
  <2>1. OnTurnEnd
    BY <1>2, EventHandler
  <2>2. call' # Exiting
    BY PcAfter
  <2> QED
    BY <2>1, <2>2 DEF OnTurnEnd, NoActive
<1>3. CASE ReconcileControls /\ call'.pc = "recovered" /\ ~UNCHANGED call
  <2>1. ~\E err : Return(err)
    BY PcAfter
  <2> QED
    BY <1>3, <2>1 DEF ReconcileControls, activeVars
<1> QED
  BY <1>1, <1>2, <1>3, NextFlow DEF Flow

\* Third and fourth part: the state of the prompt, and its place in the queue.
LEMMA HeldState ==
    ASSUME TypeOK, DurableInv, BacklogInv, RowInv, HeldInv, [Next]_vars, status' = "ready"
    PROVE  /\ activeState' # "needs-review"
           /\ activeState' = "dispatching" => queue' # <<>> /\ Head(queue') = active'
<1>0. queue \in Seq(Work)
  BY DEF TypeOK, MemoryTypeOK
<1>1. CASE status # "ready"
  <2>1. (ResolveReady /\ activeState \in {"none", "running"}) \/ Recovered \/ FaultReady
    BY <1>1, ReadyAgain
  <2>2. UNCHANGED activeVars
    BY <2>1 DEF ResolveReady, Recovered, FaultReady
  <2>3. activeState \in {"none", "running"}
    BY <2>1 DEF HeldInv, RowInv, Recovered, FaultReady, At
  <2> QED
    BY <2>2, <2>3 DEF activeVars
<1>2. CASE status = "ready"
  <2>1. ~(ReviewTurn \/ SettleActive \/ LostTurn)
    BY <1>2 DEF DurableInv, NotReadyLabels, BacklogInv, FrozenLabels, HeldInv, ReviewTurn, SettleActive, LostTurn, At
  <2>2. activeState # "needs-review" /\ (activeState = "dispatching" => queue # <<>> /\ Head(queue) = active)
    BY <1>2 DEF HeldInv
  <2>3. CASE UNCHANGED <<activeVars, queue>>
    BY <2>2, <2>3 DEF activeVars
  <2>4. ASSUME UNCHANGED activeVars, NEW m \in Prompts, queue' = Append(queue, m)
        PROVE  /\ activeState' # "needs-review"
               /\ activeState' = "dispatching" => queue' # <<>> /\ Head(queue') = active'
    <3>1. queue # <<>> => queue' # <<>> /\ Head(queue') = Head(queue)
      BY <1>0, <2>4, AppendProperties, HeadTailAppend DEF Work
    <3> QED
      BY <2>2, <2>4, <3>1 DEF activeVars
  <2>5. CASE Dispatches /\ activeState' = "dispatching" /\ UNCHANGED queue
    BY <2>5 DEF Dispatches, CanDispatch
  <2>6. CASE activeState' = "running" \/ NoActive
    BY <2>6 DEF NoActive
  <2> QED
    BY <2>1, <2>3, <2>4, <2>5, <2>6, NextMemory DEF MemoryMove
<1> QED
  BY <1>1, <1>2

\* Fifth part: these links belong to a frozen room.
LEMMA HeldLinks ==
    ASSUME TypeOK, HeldInv, [Next]_vars, call'.pc \in {"lostTurn", "retry", "retryFinish"}
    PROVE  status' # "ready"
<1>1. CASE UNCHANGED call
  <2>1. status # "ready"
    BY <1>1 DEF HeldInv
  <2>2. ~(ResolveReady \/ Recovered \/ FaultReady)
    BY <1>1 DEF ResolveReady, Recovered, FaultReady, At
  <2> QED
    BY <2>1, <2>2, ReadyAgain
<1>2. CASE HandleEvent /\ call'.pc = "lostTurn"
  BY <1>2, EventHandler DEF OnUnavailable
<1>3. CASE ResolveLoad /\ call'.pc = "retry"
  BY <1>3, ResolveReads
<1>4. CASE RetryCall
  BY <1>4 DEF RetryCall, HeldInv, At, stateVars
<1> QED
  BY <1>1, <1>2, <1>3, <1>4, NextFlow DEF Flow

\* Sixth part: a row is marked running with the turn it runs as.
LEMMA RunningHasTurn ==
    ASSUME TypeOK, MessageInv, Sending, RowInv, HeldInv, [Next]_vars, NEW m \in Work, mstate'[m] = "running"
    PROVE  mturn'[m] # 0
<1>0. /\ mstate \in [Msgs -> RequestStates] /\ mturn \in [Msgs -> 0..MaxTurns] /\ m \in Msgs /\ Work \subseteq Msgs
      /\ call.pc = "bindTurn" => call.turn \in Turns
  BY HandlerTypeSplit DEF TypeOK, StoreTypeOK, Msgs, CallOK, At
<1>1. CASE LiveRowsKept
  <2>1. m \in LiveWork'
    BY DEF LiveWork, LiveStates
  <2> QED
    BY <1>1, <2>1 DEF LiveRowsKept, HeldInv
<1>2. ASSUME NEW x, NEW s, s # "running", mstate' = [mstate EXCEPT ![x] = s], UNCHANGED mturn PROVE mturn'[m] # 0
  BY <1>0, <1>2 DEF HeldInv
<1>3. CASE Dispatches
  BY <1>2, <1>3 DEF Dispatches, BeginDispatch, MoveMessage
<1>4. CASE BindTurn /\ BindRunningTurn(active, call.turn)
  <2>1. /\ mstate' = [mstate EXCEPT ![active] = "running"] /\ mturn' = [mturn EXCEPT ![active] = call.turn]
        /\ call.turn \in Turns
    BY <1>0, <1>4 DEF BindTurn, At, BindRunningTurn, MoveMessage
  <2>2. call.turn # 0
    BY <2>1 DEF Turns
  <2> QED
    BY <1>0, <2>1, <2>2 DEF HeldInv
<1>5. CASE MarkNeedsReview(active)
  BY <1>2, <1>5 DEF MarkNeedsReview, MoveMessage
<1> QED
  BY <1>1, <1>3, <1>4, <1>5, NextActive DEF ActiveMove, RowInv

\* Every step keeps HeldInv.
LEMMA HeldInvStep ==
    ASSUME TypeOK, MessageInv, Sending, DurableInv, BacklogInv, RowInv, HeldInv, [Next]_vars
    PROVE  HeldInv'
<1>1. (status = "ready" \/ At("resolveReady") => active \in LiveWork \cup {NoMsg})'
  BY HeldActive DEF At
<1>2. (call.pc \in {"recovered", "faultReady"} => active = NoMsg)'
  BY HeldNothing
<1>3. /\ (status = "ready" => activeState # "needs-review")'
      /\ (status = "ready" /\ activeState = "dispatching" => queue # <<>> /\ Head(queue) = active)'
  BY HeldState
<1>4. (call.pc \in {"lostTurn", "retry", "retryFinish"} => status # "ready")'
  BY HeldLinks
<1>5. (\A m \in Work : mstate[m] = "running" => mturn[m] # 0)'
  BY RunningHasTurn
<1> QED
  BY <1>1, <1>2, <1>3, <1>4, <1>5 DEF HeldInv

\* A prompt that is let go had its turn, or leaves the queue as well.
LEMMA LetGoHadTurn ==
    ASSUME TypeOK, AgentInv, OnTurnEnd \/ SettleActive, NoActive, active # NoMsg PROVE activeTurn # 0
<1>1. CASE OnTurnEnd
  <2>1. PICK e \in Received : e.kind \in Terminal /\ ForActive(e)
    BY <1>1 DEF OnTurnEnd
  <2>2. e.turn \in Turns
    BY <2>1, TurnEventType
  <2> QED
    BY <2>1, <2>2 DEF ForActive, Turns
<1>2. CASE SettleActive
  <2>1. ProvenEnd # {}
    BY <1>2 DEF SettleActive, NoActive, activeVars
  <2> QED
    BY <2>1 DEF ProvenEnd
<1> QED
  BY <1>1, <1>2

\* Every step keeps the queue sound.
LEMMA SoundInvStep ==
    ASSUME TypeOK, MessageInv, AgentInv, Sorted, SoundInv, [Next]_vars PROVE SoundInv'
<1>0. /\ queue \in Seq(Work) /\ Len(queue) \in Nat /\ \A i \in 1..Len(queue) : queue[i] \in Work
      /\ NoMsg \notin Work /\ StoreTypeOK /\ mseq \in [Work -> Nat]
  BY LenProperties, ElementOfSeq, StoreAssumption DEF TypeOK, MemoryTypeOK, StoreTypeOK, Msgs
<1>1. ASSUME UNCHANGED queue,
             ~Dispatches,
             \A i \in 1..Len(queue) : queue[i] = active /\ activeTurn = 0 => active' = active /\ activeTurn' = 0
      PROVE  SoundInv'
  <2> SUFFICES ASSUME NEW i \in 1..Len(queue)
               PROVE  queue[i] \in QueuedWork' \/ (i = 1 /\ queue[i] = active' /\ activeTurn' = 0)
    BY <1>1 DEF SoundInv
  <2>1. queue[i] \in QueuedWork => queue[i] \in QueuedWork'
    BY <1>1, QueuedStays
  <2> QED
    BY <1>1, <2>1 DEF SoundInv
<1>2. CASE UNCHANGED <<activeVars, queue>> /\ ~Dispatches
  BY <1>1, <1>2 DEF activeVars
<1>3. ASSUME UNCHANGED activeVars, NEW m \in Prompts, Submit(m), queue' = Append(queue, m) PROVE SoundInv'
  <2>1. /\ Len(queue') = Len(queue) + 1 /\ queue'[Len(queue) + 1] = m
        /\ \A i \in 1..Len(queue) : queue'[i] = queue[i]
    BY <1>0, <1>3, AppendProperties DEF Work
  <2>2. m \in QueuedWork'
    BY <1>0, <1>3 DEF Submit, AcceptMessage, StoreTypeOK, QueuedWork, Work, Msgs
  <2>3. ~Dispatches
    BY <1>3 DEF Dispatches, DispatchNext, Submit, Serving, At
  <2>4. ASSUME NEW i \in 1..Len(queue)
        PROVE  queue'[i] \in QueuedWork' \/ (i = 1 /\ queue'[i] = active' /\ activeTurn' = 0)
    BY <1>3, <2>1, <2>3, QueuedStays DEF SoundInv, activeVars
  <2> QED
    BY <1>0, <2>1, <2>2, <2>4 DEF SoundInv
<1>4. CASE Dispatches /\ activeTurn' = 0 /\ UNCHANGED queue
  <2>1. active = NoMsg /\ active' = Head(queue) /\ queue # <<>>
    BY <1>4 DEF Dispatches, CanDispatch
  <2>2. Head(queue) = queue[1]
    BY <1>0, <2>1, TailElements
  <2> SUFFICES ASSUME NEW i \in 1..Len(queue)
               PROVE  queue[i] \in QueuedWork' \/ (i = 1 /\ queue[i] = active' /\ activeTurn' = 0)
    BY <1>4 DEF SoundInv
  <2>3. queue[i] \in QueuedWork
    BY <1>0, <2>1 DEF SoundInv
  <2>4. i # 1 => queue[i] # queue[1]
    BY <1>0 DEF Sorted
  <2> QED
    BY <1>4, <2>1, <2>2, <2>3, <2>4, QueuedStays
<1>5. ASSUME queue' = Tail(queue), BindTurn \/ FailTurn \/ ReviewTurn PROVE SoundInv'
  <2>1. ~Dispatches /\ queue # <<>>
    BY <1>5, HandlerTypeSplit DEF Dispatches, DispatchNext, BindTurn, FailTurn, ReviewTurn, At, TypeOK, CallOK
  <2> SUFFICES ASSUME NEW i \in 1..Len(queue') PROVE queue'[i] \in QueuedWork'
    BY DEF SoundInv
  <2>2. i + 1 \in 1..Len(queue) /\ queue'[i] = queue[i + 1] /\ i + 1 # 1
    BY <1>0, <1>5, <2>1, TailElements
  <2>3. queue[i + 1] \in QueuedWork
    BY <2>2 DEF SoundInv
  <2> QED
    BY <2>1, <2>2, <2>3, QueuedStays
<1>6. CASE UNCHANGED <<active, activeTurn, queue>> /\ ~Dispatches
  BY <1>1, <1>6
<1>7. CASE (OnTurnEnd \/ SettleActive) /\ NoActive /\ UNCHANGED queue
  <2>1. ~Dispatches
    BY <1>7, InputAtIdle DEF Dispatches, DispatchNext, SettleActive, HandleEvent, At
  <2>2. active # NoMsg => activeTurn # 0
    BY <1>7, LetGoHadTurn
  <2> QED
    BY <1>0, <1>1, <1>7, <2>1, <2>2
<1>8. CASE ReadsImage
  <2>1. queue' \in InAcceptedOrder(QueuedWork) /\ QueuedWork' = QueuedWork /\ QueuedWork \subseteq Work
    BY <1>8 DEF ReadsImage, LoadImage, storeVars, messageRows, QueuedWork
  <2> QED
    BY <1>0, <2>1, OrderCovers DEF SoundInv
<1>9. CASE queue' = <<>>
  BY <1>9, EmptySeq DEF SoundInv
<1>10. Dispatches => activeTurn' = 0 /\ UNCHANGED queue
  <2> SUFFICES ASSUME Dispatches PROVE activeTurn' = 0 /\ UNCHANGED queue
    OBVIOUS
  <2>1. mstate' # mstate
    BY <1>0, HeadTailProperties DEF Dispatches, CanDispatch, BeginDispatch, MoveMessage, StoreTypeOK, Msgs
  <2>2. ~StoreFails /\ ~UNCHANGED storeVars
    BY <2>1 DEF StoreFails, storeVars, messageRows
  <2> QED
    BY <2>2 DEF Dispatches, DispatchNext
<1> QED
  BY <1>2, <1>3, <1>4, <1>5, <1>6, <1>7, <1>8, <1>9, <1>10, NextMemory DEF MemoryMove

\* Faults are only counted up.
LEMMA FaultsGrow ==
    ASSUME TypeOK, [Next]_vars PROVE faults \in Nat /\ faults' \in Nat /\ faults <= faults'
<1>0. faults \in Nat
  BY DEF TypeOK, AgentTypeOK
<1>1. CASE \E t : AgentFault(t)
  BY <1>0, <1>1 DEF AgentFault
<1>2. CASE UNCHANGED faults
  BY <1>0, <1>2
<1>3. UNCHANGED agentVars \/ UNCHANGED faultVars \/ Taken \/ Glitch => UNCHANGED faults
  BY DEF agentVars, faultVars, Taken, Glitch
<1>4. CallDone \/ CallNotSent \/ CallUnknown \/ CallTimedOut => UNCHANGED faults
  BY <1>3 DEF CallDone, CallNotSent, CallUnknown, CallTimedOut
<1>5. ThreadStarted \/ ThreadStartLost \/ ThreadStartTimedOut => UNCHANGED faults
  BY <1>3 DEF ThreadStarted, ThreadStartLost, ThreadStartTimedOut, faultVars
<1>6. \A o, th : TurnStarted(o, th) \/ TurnStartLost(o, th) \/ TurnStartTimedOut(o, th) => UNCHANGED faults
  BY <1>3 DEF TurnStarted, TurnStartLost, TurnStartTimedOut, faultVars
<1>7. \A l : ControlCall(l) => UNCHANGED faults
  BY <1>4 DEF ControlCall
<1>8. HandleEvent => Taken
  BY DEF HandleEvent, OnIgnored, OnItem, OnTurnEnd, OnFault, OnQuestionEnd, OnUnavailable, OnReady
<1>9. CASE Client \/ Owner \/ HandleEvent
  BY <1>2, <1>3, <1>8, <1>9 DEF Client, Submit, Note, Control, Resolve, Ask, Owner, RepairMark, RepairCreate, RepairBind, RepairBegins, RepairUse,
     ResetAtStartup, faultVars
<1>10. CASE StartTurn \/ AskTurn \/ SendControl \/ RetryCall \/ StartThread \/ ReadThread \/ ResumeThread
  BY <1>2, <1>3, <1>4, <1>5, <1>6, <1>7, <1>10
     DEF StartTurn, AskTurn, SendControl, RetryCall, StartThread, ReadThread, ResumeThread
<1>11. CASE SettleActive
  BY <1>2, <1>3, <1>11 DEF SettleActive
<1>12. CASE DispatchNext \/ BindTurn \/ FailTurn \/ ReviewTurn \/ ReviewStatus \/ EndControl \/ ResolveLoad
  BY <1>2, <1>3, <1>12 DEF DispatchNext, BindTurn, FailTurn, ReviewTurn, ReviewStatus, EndControl, ResolveLoad
<1>13. CASE RetryFinish \/ ResolveReload \/ ResolveReady \/ RecoverLoad \/ MarkRepair \/ SetRecovering \/ BindNewThread
  BY <1>2, <1>3, <1>13 DEF RetryFinish, ResolveReload, ResolveReady, RecoverLoad, MarkRepair, SetRecovering, BindNewThread
<1>14. CASE ReconcilePrivate \/ ReconcileItems \/ ReconcileControls \/ Recovered \/ AskUndo \/ FaultReady
            \/ FaultStatus \/ LostTurn
  BY <1>2, <1>3, <1>14 DEF ReconcilePrivate, ReconcileItems, ReconcileControls, Recovered, AskUndo, FaultReady,
     FaultStatus, LostTurn
<1>15. CASE AppServer
  BY <1>1, <1>2, <1>15 DEF AppServer, ItemCompletes, TurnEnds, SessionDies, SessionReplaced, ProcessGone, faultVars
<1>16. CASE StartDaemon \/ StartupRecover \/ Exit \/ Crash \/ UNCHANGED vars
  BY <1>2, <1>3, <1>16 DEF StartDaemon, StartupRecover, Exit, Crash, DaemonGone, ProcessGone, vars, faultVars
<1> QED
  BY <1>9, <1>10, <1>11, <1>12, <1>13, <1>14, <1>15, <1>16 DEF Next, Continue

\* A fault event is emitted by a fault.
LEMMA FaultEvents ==
    ASSUME TypeOK, FaultInv, [Next]_vars, NEW i \in 1..Len(events'), events'[i].kind = "fault"
    PROVE  faults' > 0
<1>0. faults \in Nat /\ faults' \in Nat /\ faults <= faults' /\ \A j \in 1..Len(events) : events[j].kind = "fault" => faults > 0
  BY FaultsGrow DEF FaultInv
<1>1. CASE UNCHANGED events
  BY <1>0, <1>1
<1>2. CASE events # <<>> /\ events' = Tail(events)
  BY <1>0, <1>2, TakenEvents
<1>3. ASSUME NEW e \in TurnEvents \cup RuntimeEvents, events' = Append(events, e), e.kind # "fault" PROVE faults' > 0
  BY <1>0, <1>3, AppendedEvents
<1>4. ASSUME NEW t \in Turns, NEW k \in Terminal \cup {"item"}
      PROVE  Event(k, t) \in TurnEvents /\ Event(k, t).kind # "fault"
  BY <1>4, StoreAssumption DEF Event, TurnEvents, Turns, Terminal
<1>5. alive \subseteq Turns /\ Endings \subseteq Terminal
  BY AgentAssumption DEF TypeOK, AgentTypeOK
<1>6. ASSUME NEW t \in alive, ItemCompletes(t) PROVE faults' > 0
  BY <1>3, <1>4, <1>5, <1>6 DEF ItemCompletes, Emit
<1>7. ASSUME NEW t \in alive, NEW how \in Endings, TurnEnds(t, how) PROVE faults' > 0
  BY <1>3, <1>4, <1>5, <1>7 DEF TurnEnds, Emit
<1>8. ASSUME NEW t, AgentFault(t) PROVE faults' > 0
  BY <1>0, <1>8 DEF AgentFault
<1>9. CASE SessionDies \/ SessionReplaced
  BY <1>3, <1>9 DEF SessionDies, SessionReplaced, Event, RuntimeEvents
<1>10. events' = <<>> => FALSE
  BY LenProperties, EmptySeq
<1>11. CASE AppServer
  BY <1>6, <1>7, <1>8, <1>9, <1>11 DEF AppServer
<1> QED
  BY <1>1, <1>2, <1>10, <1>11, NextAgent DEF AgentMove

\* Every step keeps FaultInv.
LEMMA FaultInvStep == ASSUME TypeOK, FaultInv, [Next]_vars PROVE FaultInv'
<1>0. faults \in Nat /\ faults' \in Nat /\ faults <= faults'
  BY FaultsGrow
<1>1. ASSUME fault' PROVE faults' > 0
  <2>1. CASE fault
    BY <1>0, <2>1 DEF FaultInv
  <2>2. CASE ~fault
    <3>1. OnFault
      BY <1>1, <2>2, FaultRises
    <3>2. PICK e \in Received : e.kind = "fault"
      BY <3>1 DEF OnFault
    <3>3. events # <<>> /\ e = Head(events)
      BY <3>2 DEF Received
    <3>4. Len(events) \in Nat \ {0} /\ Head(events) = events[1]
      BY <3>3, EmptySeq DEF TypeOK, AgentTypeOK
    <3> QED
      BY <1>0, <3>2, <3>3, <3>4 DEF FaultInv
  <2> QED
    BY <2>1, <2>2
<1>2. ASSUME call'.pc = "faultReady" PROVE faults' > 0
  <2>1. CASE UNCHANGED call
    BY <1>0, <1>2, <2>1 DEF FaultInv, At
  <2>2. CASE HandleEvent
    <3>1. OnTurnEnd
      BY <1>2, <2>2, EventHandler
    <3>2. call' # Exiting
      BY <1>2, PcAfter
    <3>3. call' = AfterTurn
      BY <3>1, <3>2 DEF OnTurnEnd
    <3>4. fault
      BY <1>2, <3>3, PcAfter, LabelsType DEF AfterTurn
    <3> QED
      BY <1>0, <3>4 DEF FaultInv
  <2> QED
    BY <1>2, <2>1, <2>2, NextFlow DEF Flow
<1> QED
  BY <1>1, <1>2, FaultEvents DEF FaultInv, At

\* The rows of the controls stay as they are.
ControlRowsSame == \A c \in Controls : mstate'[c] = mstate[c]

\* The transactions about anything else leave the rows of the controls alone.
LEMMA OtherRows ==
    ASSUME StoreTypeOK,
           \/ UNCHANGED storeVars \/ StoreFails
           \/ \E m : /\ m \notin Controls
                     /\ \/ AcceptMessage(m) \/ AppendNote(m) \/ BeginDispatch(m) \/ FailDispatch(m)
                        \/ MarkNeedsReview(m) \/ \E t : BindRunningTurn(m, t)
           \/ \E t, o : FinishTurn(t, o)
           \/ \E x : RecordCompletedItem(x) \/ SetRoomStatus(x) \/ BindThread(x) \/ RepairThread(x)
           \/ \E x, y : BeginPrivateTurn(x, y) \/ EndPrivateTurn(x, y)
           \/ \E x, y, z : ClosePrivateTurns(x, y, z)
           \/ MarkThreadNeedsRepair \/ ResetUnusedThread
    PROVE  ControlRowsSame
<1>0. /\ mstate \in [Msgs -> RequestStates] /\ Controls \subseteq Msgs /\ Work \cap Controls = {}
  BY StoreAssumption DEF StoreTypeOK, Msgs
<1>1. UNCHANGED mstate => ControlRowsSame
  BY DEF ControlRowsSame
<1>2. ASSUME NEW x, NEW s, x \notin Controls, mstate' = [mstate EXCEPT ![x] = s] PROVE ControlRowsSame
  BY <1>0, <1>2 DEF ControlRowsSame
<1>3. CASE UNCHANGED storeVars \/ StoreFails
  BY <1>1, <1>3 DEF StoreFails, storeVars, messageRows
<1>4. CASE \E m : /\ m \notin Controls
                  /\ \/ AcceptMessage(m) \/ AppendNote(m) \/ BeginDispatch(m) \/ FailDispatch(m)
                     \/ MarkNeedsReview(m) \/ \E t : BindRunningTurn(m, t)
  BY <1>2, <1>4 DEF AcceptMessage, AppendNote, BeginDispatch, FailDispatch, MarkNeedsReview, BindRunningTurn, MoveMessage
<1>5. ASSUME NEW t, NEW o, FinishTurn(t, o) PROVE ControlRowsSame
  <2>1. PICK x \in Work : mstate' = [mstate EXCEPT ![x] = o]
    BY <1>5 DEF FinishTurn, MoveMessage
  <2> QED
    BY <1>0, <1>2, <2>1
<1>6. CASE \/ \E x : RecordCompletedItem(x) \/ SetRoomStatus(x) \/ BindThread(x) \/ RepairThread(x)
           \/ MarkThreadNeedsRepair \/ ResetUnusedThread
  BY <1>1, <1>6 DEF RecordCompletedItem, SetRoomStatus, BindThread, RepairThread, MarkThreadNeedsRepair,
     ResetUnusedThread, messageRows
<1>7. CASE \E x, y : BeginPrivateTurn(x, y) \/ EndPrivateTurn(x, y)
  BY <1>1, <1>7 DEF BeginPrivateTurn, EndPrivateTurn, messageRows
<1>8. CASE \E x, y, z : ClosePrivateTurns(x, y, z)
  BY <1>3, <1>7, <1>8 DEF ClosePrivateTurns
<1> QED
  BY <1>3, <1>4, <1>5, <1>6, <1>7, <1>8

\* So they do, but where the coordinator writes the field too, where a retry
\* ends, and where a decision is about a control.
LEMMA ControlRowsMove ==
    ASSUME TypeOK, [Next]_vars, ~ControlFields, ~RetryFinish, ~Decides PROVE ControlRowsSame
<1> USE OtherRows
<1>0. StoreTypeOK /\ active \notin Controls /\ (Work \cup Notes) \cap Controls = {} /\ Prompts \subseteq Work
  BY StoreAssumption DEF TypeOK, MemoryTypeOK, Msgs, Work
<1>1. CASE Client
  <2>1. (\E m \in Prompts : AcceptMessage(m)) \/ (\E n \in Notes : AppendNote(n))
        \/ \E x, y : BeginPrivateTurn(x, y)
    BY <1>1 DEF Client, ControlFields, Decides, Submit, Note, Ask
  <2> QED
    BY <1>0, <2>1
<1>2. CASE OnIgnored \/ OnItem \/ OnQuestionEnd \/ OnUnavailable \/ OnReady \/ OnTurnEnd \/ OnFault
  BY <1>0, <1>2 DEF OnIgnored, OnItem, OnQuestionEnd, OnUnavailable, OnReady, OnTurnEnd, OnFault
<1>3. CASE DispatchNext
  <2>1. StoreFails \/ UNCHANGED storeVars \/ (queue # <<>> /\ BeginDispatch(Head(queue)))
    BY <1>3 DEF DispatchNext, CanDispatch
  <2>2. queue # <<>> => Head(queue) \in Work
    BY HeadTailProperties DEF TypeOK, MemoryTypeOK
  <2> QED
    BY <1>0, <2>1, <2>2
<1>4. CASE StartTurn \/ BindTurn \/ FailTurn \/ ReviewTurn \/ ReviewStatus \/ SendControl
  BY <1>0, <1>4 DEF StartTurn, BindTurn, FailTurn, ReviewTurn, ReviewStatus, SendControl
<1>5. CASE ResolveLoad \/ RetryCall \/ ResolveReload \/ ResolveReady
  BY <1>0, <1>5 DEF ResolveLoad, RetryCall, ResolveReload, ResolveReady
<1>6. CASE RecoverLoad \/ MarkRepair \/ SetRecovering \/ StartThread \/ BindNewThread
  BY <1>0, <1>6 DEF RecoverLoad, MarkRepair, SetRecovering, StartThread, BindNewThread
<1>7. CASE ReadThread \/ ResumeThread \/ ReconcilePrivate \/ ReconcileItems \/ SettleActive
  BY <1>0, <1>7 DEF ReadThread, ResumeThread, ReconcilePrivate, ReconcileItems, SettleActive
<1>8. CASE Recovered \/ AskTurn \/ AskUndo \/ FaultReady \/ FaultStatus \/ LostTurn
  BY <1>0, <1>8 DEF Recovered, AskTurn, AskUndo, FaultReady, FaultStatus, LostTurn
<1>9. CASE Owner
  BY <1>0, <1>9 DEF Owner, RepairMark, RepairCreate, RepairBind, RepairBegins, RepairUse, ResetAtStartup
<1>10. CASE AppServer \/ StartDaemon \/ StartupRecover \/ Exit \/ Crash \/ UNCHANGED vars
  BY <1>0, <1>10 DEF AppServer, StartDaemon, StartupRecover, Exit, Crash, DaemonGone, vars
<1> QED
  BY <1>1, <1>2, <1>3, <1>4, <1>5, <1>6, <1>7, <1>8, <1>9, <1>10 DEF Next, HandleEvent, Continue, ControlFields

\* A decision that moves the row of a control is recorded as one about a control.
LEMMA DecidesControl ==
    ASSUME TypeOK, Decides PROVE ControlDecided' \/ ControlRowsSame
<1>0. /\ mstate \in [Msgs -> RequestStates] /\ Controls \subseteq Msgs /\ Work \cap Controls = {} /\ Replacements \subseteq Work
      /\ rtarget \in [Recovers -> Msgs \cup {NoMsg}]
  BY StoreAssumption DEF TypeOK, StoreTypeOK, Msgs, Work
<1>1. PICK r \in Recovers : Resolve(r)
  BY DEF Decides
<1>2. ASSUME NEW c \in Controls, NEW a, Decided(r, c, a) PROVE ControlDecided'
  <2>1. rtarget'[r] = c
    BY <1>0, <1>2 DEF Decided
  <2> QED
    BY <2>1 DEF ControlDecided
<1>3. ASSUME NEW m \in Work, RetryPrompt(r, m) \/ SkipReviewed(r, m) PROVE ControlRowsSame
  BY <1>0, <1>3 DEF RetryPrompt, SkipReviewed, ControlRowsSame
<1>4. ASSUME NEW m \in Work, NEW p \in Replacements, ContinueReviewed(r, m, p) PROVE ControlRowsSame
  <2>1. mstate' = [mstate EXCEPT ![m] = "failed", ![p] = "queued"]
    BY <1>4 DEF ContinueReviewed
  <2> QED
    BY <1>0, <2>1 DEF ControlRowsSame
<1>5. ASSUME NEW c \in Controls, RetryControl(r, c) \/ SkipReviewed(r, c) \/ \E p \in Replacements : ContinueReviewed(r, c, p)
      PROVE  ControlDecided'
  BY <1>2, <1>5 DEF RetryControl, SkipReviewed, ContinueReviewed
<1> QED
  BY <1>1, <1>3, <1>4, <1>5 DEF Resolve

\* The field and the row of a control are written together.
LEMMA ExactFields == ASSUME TypeOK, MessageInv, Exact, ControlFields PROVE Exact'
<1>0. /\ mstate \in [Msgs -> RequestStates] /\ Controls \subseteq Msgs
      /\ pending \in [Controls -> {"none", "dispatching", "needs-review"}]
  BY DEF TypeOK, MemoryTypeOK, StoreTypeOK, Msgs
<1>1. ASSUME NEW c \in Controls, NEW s, NEW p,
             mstate' = [mstate EXCEPT ![c] = s], pending' = [pending EXCEPT ![c] = p],
             p = IF s \in {"dispatching", "needs-review"} THEN s ELSE "none"
      PROVE  Exact'
  BY <1>0, <1>1 DEF Exact, PendingControl
<1>2. CASE UNCHANGED <<mstate, pending>>
  BY <1>2 DEF Exact, PendingControl
<1>3. StoreFails \/ UNCHANGED storeVars => UNCHANGED mstate
  BY DEF StoreFails, storeVars, messageRows
<1>4. ASSUME NEW c \in Controls, NEW t, Control(c, t) PROVE Exact'
  BY <1>1, <1>4 DEF Control, AcceptControl
<1>5. CASE EndControl
  <2>1. call.msg \in Controls /\ call.outcome \in {"failed", "completed", "needs-review"}
    BY <1>5, CallFields DEF EndControl, MessageInv, TypeOK, HandlerTypeOK, Outcomes, At
  <2>2. CASE FinishControl(call.msg, call.outcome)
             /\ pending' = [pending EXCEPT ![call.msg] = IF call.outcome = "needs-review" THEN "needs-review" ELSE "none"]
    BY <1>1, <2>1, <2>2 DEF FinishControl, MoveMessage
  <2>3. CASE StoreFails /\ UNCHANGED pending
    BY <1>2, <1>3, <2>3
  <2> QED
    BY <1>5, <2>2, <2>3 DEF EndControl
<1>6. CASE ReconcileControls
  <2>1. ASSUME NEW c \in Controls, MarkNeedsReview(c), pending' = [pending EXCEPT ![c] = "needs-review"] PROVE Exact'
    BY <1>1, <2>1 DEF MarkNeedsReview, MoveMessage
  <2>2. CASE (StoreFails \/ UNCHANGED storeVars) /\ UNCHANGED pending
    BY <1>2, <1>3, <2>2
  <2> QED
    BY <1>6, <2>1, <2>2 DEF ReconcileControls
<1> QED
  BY <1>4, <1>5, <1>6 DEF ControlFields

\* A reading of the rows makes the controls exact.
LEMMA ExactReads == ASSUME ReadsImage PROVE Exact'
  BY DEF ReadsImage, LoadImage, Exact, PendingControl, storeVars, messageRows

\* What keeps the controls exact.
LEMMA ExactStep ==
    ASSUME TypeOK, MessageInv, Exact, [Next]_vars, ~RetryFinish, ~(Exit \/ Crash), ~Decides \/ ControlRowsSame
    PROVE  Exact'
<1>1. CASE ReadsImage
  BY <1>1, ExactReads
<1>2. CASE ControlFields
  BY <1>2, ExactFields
<1>3. CASE ~ReadsImage /\ ~ControlFields
  <2>1. ControlRowsSame
    BY <1>3, ControlRowsMove
  <2>2. UNCHANGED pending
    <3>1. CASE Owner
      BY <3>1 DEF Owner, Offline, RepairMark, RepairCreate, RepairBind, RepairBegins, RepairUse, ResetAtStartup, stateVars
    <3> QED
      BY <1>3, <3>1, ControlStep
  <2> QED
    BY <2>1, <2>2 DEF Exact, PendingControl, ControlRowsSame
<1> QED
  BY <1>1, <1>2, <1>3

\* Decisions are not taken back.
LEMMA DecidedStays ==
    ASSUME TypeOK, MessageInv, OwnerInv, [Next]_vars, ControlDecided PROVE ControlDecided'
<1>1. PICK c \in Controls : DecidedOn(c)
  BY DEF ControlDecided, DecidedOn
<1>2. DecidedOn(c)'
  BY <1>1, DecisionStep DEF OwnerInv, Msgs
<1> QED
  BY <1>2 DEF ControlDecided, DecidedOn

\* resolve is about a control only after a decision about it.
LEMMA RetryIsDecided ==
    ASSUME TypeOK, Decides, call'.pc = "resolveLoad", call'.msg # NoMsg PROVE ControlDecided'
<1>0. rtarget \in [Recovers -> Msgs \cup {NoMsg}]
  BY DEF TypeOK, StoreTypeOK
<1>1. PICK r \in Recovers : Resolve(r)
  BY DEF Decides
<1>2. ~AfterDecision(NoMsg)
  <2> SUFFICES ASSUME AfterDecision(NoMsg) PROVE FALSE
    OBVIOUS
  <2>1. call' \in {Idle, Handler("resolveLoad", "command", NoMsg)}
    BY DEF AfterDecision
  <2> QED
    BY <2>1, PcAfter, HandlerIsCall, LabelsType
<1>3. PICK c \in Controls : RetryControl(r, c)
  BY <1>1, <1>2 DEF Resolve
<1>4. rtarget'[r] = c
  BY <1>0, <1>3 DEF RetryControl, Decided
<1> QED
  BY <1>4 DEF ControlDecided

\* The links that retry a control are reached by a decision about it.
LEMMA RetryLinks ==
    ASSUME TypeOK, MessageInv, OwnerInv, ExactInv, [Next]_vars
    PROVE  /\ call'.pc \in {"retry", "retryFinish"} => ControlDecided'
           /\ call'.pc = "resolveLoad" /\ call'.msg # NoMsg => ControlDecided'
<1>1. ControlDecided => ControlDecided'
  BY DecidedStays
<1>2. ASSUME call'.pc \in {"retry", "retryFinish"} PROVE ControlDecided'
  <2>1. CASE UNCHANGED call
    BY <1>1, <1>2, <2>1 DEF ExactInv
  <2>2. CASE ResolveLoad /\ call'.pc = "retry"
    <3>1. ~\E err : Return(err)
      BY <1>2, PcAfter
    <3>2. Goto(IF call.msg = NoMsg THEN "resolveReady" ELSE "retry") /\ At("resolveLoad")
      BY <2>2, <3>1 DEF ResolveLoad
    <3>3. call.msg # NoMsg
      BY <2>2, <3>2, PcAfter, LabelsType
    <3> QED
      BY <1>1, <3>2, <3>3 DEF ExactInv
  <2>3. CASE RetryCall
    BY <1>1, <2>3 DEF RetryCall, ExactInv, At
  <2> QED
    BY <1>2, <2>1, <2>2, <2>3, NextFlow DEF Flow
<1>3. ASSUME call'.pc = "resolveLoad", call'.msg # NoMsg PROVE ControlDecided'
  <2>1. CASE UNCHANGED call
    BY <1>1, <1>3, <2>1 DEF ExactInv, At
  <2>2. CASE Client
    BY <1>3, <2>2, ClientHandler, RetryIsDecided
  <2> QED
    BY <1>3, <2>1, <2>2, NextFlow DEF Flow
<1> QED
  BY <1>2, <1>3

\* Without a decision about a control the fields stay exact.
LEMMA UndecidedExact ==
    ASSUME TypeOK, MessageInv, OwnerInv, ExactInv, [Next]_vars, ~ControlDecided', Loaded' PROVE Exact'
<1>1. ~ControlDecided
  BY DecidedStays
<1>2. CASE ReadsImage
  BY <1>2, ExactReads
<1>3. CASE Loaded
  <2>1. Exact
    BY <1>1, <1>3 DEF ExactInv
  <2>2. ~RetryFinish
    BY <1>1 DEF ExactInv, RetryFinish, At
  <2>3. ~(Exit \/ Crash)
    BY DEF Exit, Crash, DaemonGone, NoActive, Loaded, LoadedLabels, ZeroMemory, Idle
  <2>4. ~Decides \/ ControlRowsSame
    BY DecidesControl
  <2> QED
    BY <2>1, <2>2, <2>3, <2>4, ExactStep
<1> QED
  BY <1>2, <1>3, LoadedStep

\* Nor does a decision matter where the rows are read before the room is ready.
LEMMA FaultlessExact ==
    ASSUME TypeOK, MessageInv, HeldInv, FaultInv, ExactInv, [Next]_vars,
           faults' = 0, status' = "ready" \/ call'.pc \in ReadLabels
    PROVE  Exact'
<1>1. faults = 0
  BY FaultsGrow
<1>2. CASE ReadsImage
  BY <1>2, ExactReads
<1>3. CASE ~ReadsImage
  <2>1. ASSUME status' = "ready" PROVE status = "ready" \/ call.pc \in ReadLabels
    <3>1. ~FaultReady
      BY <1>1 DEF FaultReady, FaultInv
    <3> QED
      BY <2>1, <3>1, ReadyAgain DEF ResolveReady, Recovered, At, ReadLabels
  <2>2. ASSUME call'.pc \in ReadLabels PROVE call.pc \in ReadLabels
    <3> USE DEF ReadLabels
    <3>1. ~(RecoverLoad /\ call'.pc = "setRecovering")
      <4> SUFFICES ASSUME RecoverLoad, call'.pc = "setRecovering" PROVE FALSE
        OBVIOUS
      <4>1. ~\E err : Return(err)
        BY PcAfter
      <4> QED
        BY <1>3, <4>1 DEF RecoverLoad, ReadsImage
    <3>2. ~((ResolveLoad \/ ResolveReload) /\ call'.pc = "resolveReady")
      BY <1>3, ResolveReads
    <3> QED
      BY <2>2, <3>1, <3>2, NextFlow
         DEF Flow, SetRecovering, StartThread, BindNewThread, ReadThread, ResumeThread, ReconcilePrivate,
             ReconcileItems, SettleActive, ReconcileControls, At
  <2>3. Exact
    BY <1>1, <2>1, <2>2 DEF ExactInv
  <2>4. ~Decides
    BY DecisionFreezes DEF ReadLabels
  <2>5. ~RetryFinish
    <3> SUFFICES ASSUME RetryFinish PROVE FALSE
      OBVIOUS
    <3>1. call.pc = "retryFinish" /\ UNCHANGED status
      BY DEF RetryFinish, At, stateVars
    <3>2. status' # "ready"
      BY <3>1 DEF HeldInv
    <3>3. call'.pc \in {"resolveReload", "idle", "exiting"}
      BY PcAfter, LabelsType DEF RetryFinish
    <3> QED
      BY <3>2, <3>3 DEF ReadLabels
  <2>6. ~(Exit \/ Crash)
    BY DEF Exit, Crash, DaemonGone, ZeroMemory, Idle, ReadLabels
  <2> QED
    BY <2>3, <2>4, <2>5, <2>6, ExactStep
<1> QED
  BY <1>2, <1>3

\* Every step keeps ExactInv.
LEMMA ExactInvStep ==
    ASSUME TypeOK, MessageInv, OwnerInv, HeldInv, FaultInv, ExactInv, [Next]_vars PROVE ExactInv'
  BY RetryLinks, UndecidedExact, FaultlessExact DEF ExactInv, At

\* A sorted sequence of exactly the prompts of S is what ORDER BY returns.
LEMMA ExactOrder ==
    ASSUME StoreTypeOK, NEW S, S \subseteq Work, NEW s \in Seq(Work),
           \A i \in 1..Len(s) : s[i] \in S,
           \A i, j \in 1..Len(s) : i < j => mseq[s[i]] < mseq[s[j]],
           \A m \in S : \E i \in 1..Len(s) : s[i] = m
    PROVE  s \in InAcceptedOrder(S)
<1> DEFINE n == Len(s)
<1>0. n \in Nat /\ s \in [1..n -> S] /\ mseq \in [Work -> Nat]
  BY LenProperties DEF StoreTypeOK
<1> HIDE DEF n
<1>1. \A i, j \in 1..n : s[i] = s[j] => i = j
  <2> SUFFICES ASSUME NEW i \in 1..n, NEW j \in 1..n, s[i] = s[j], i # j PROVE FALSE
    OBVIOUS
  <2>1. mseq[s[i]] \in Nat /\ mseq[s[j]] \in Nat
    BY <1>0
  <2>2. i < j \/ j < i
    BY <1>0
  <2> QED
    BY <1>0, <2>1, <2>2 DEF n
<1>2. s \in Bijection(1..n, S)
  BY <1>0, <1>1 DEF n, Bijection, Injection, IsInjective, Surjection
<1>3. Cardinality(S) = n
  BY <1>0, <1>2, FS_CountingElements DEF ExistsBijection
<1> QED
  BY <1>0, <1>3 DEF n, InAcceptedOrder

\* A sequence is its head and what follows.
LEMMA HeadThenTail ==
    ASSUME NEW s \in Seq(Work), s # <<>> PROVE s = <<Head(s)>> \o Tail(s)
<1> DEFINE h == <<Head(s)>>
           t == Tail(s)
           c == h \o t
<1>1. /\ Head(s) \in Work /\ t \in Seq(Work) /\ Len(t) = Len(s) - 1
      /\ Len(s) \in Nat \ {0} /\ Head(s) = s[1]
      /\ \A i \in 1..Len(s) : i # 1 => t[i - 1] = s[i]
  BY HeadTailProperties, TailElements
<1>2. h \in Seq(Work) /\ Len(h) = 1 /\ h[1] = Head(s)
  BY <1>1
<1> HIDE DEF h, t
<1>3. /\ c \in Seq(Work) /\ Len(c) = Len(h) + Len(t)
      /\ \A i \in 1..Len(h) + Len(t) :
            c[i] = IF i <= Len(h) THEN h[i] ELSE t[i - Len(h)]
  BY <1>1, <1>2, ConcatProperties, Zenon
<1> HIDE DEF c
<1>4. Len(c) = Len(s) /\ \A i \in 1..Len(s) : s[i] = c[i]
  BY <1>1, <1>2, <1>3
<1>5. s = c
  BY <1>3, <1>4, SeqEqual, Zenon
<1> QED
  BY <1>5 DEF c, h, t

\* With exact controls and a live prompt the queue is what would be read.
LEMMA QueueMatches ==
    ASSUME TypeOK, QueueInv, RowInv, HeldInv, SoundInv, status = "ready", Exact
    PROVE  \E q \in InAcceptedOrder(QueuedWork) :
              queue = (IF activeState = "dispatching" THEN <<active>> ELSE <<>>) \o q
<1>0. /\ queue \in Seq(Work) /\ Len(queue) \in Nat /\ \A i \in 1..Len(queue) : queue[i] \in Work
      /\ NoMsg \notin Work /\ StoreTypeOK /\ QueuedWork \subseteq Work /\ LiveWork \cap QueuedWork = {}
      /\ active \in LiveWork \cup {NoMsg}
  BY LenProperties, ElementOfSeq, StoreAssumption
     DEF TypeOK, MemoryTypeOK, Msgs, QueuedWork, LiveWork, LiveStates, HeldInv
<1>1. Covered
  <2>1. ~StaleActive /\ ~StaleControl
    BY <1>0 DEF StaleActive, StaleControl, LiveWork, Exact
  <2> QED
    BY <2>1 DEF QueueInv, CoverInv, Loaded
<1>2. \A i, j \in 1..Len(queue) : i < j => mseq[queue[i]] < mseq[queue[j]]
  BY DEF QueueInv, Sorted
<1>3. CASE activeState = "dispatching"
  <2>1. queue # <<>> /\ Head(queue) = active /\ active \in LiveWork
    BY <1>0, <1>3 DEF HeldInv, RowInv
  <2>2. /\ Tail(queue) \in Seq(Work) /\ Len(Tail(queue)) = Len(queue) - 1 /\ queue[1] = active
        /\ \A i \in 1..Len(Tail(queue)) : i + 1 \in 1..Len(queue) /\ Tail(queue)[i] = queue[i + 1]
        /\ \A i \in 1..Len(queue) : i # 1 => i - 1 \in 1..Len(Tail(queue)) /\ Tail(queue)[i - 1] = queue[i]
    BY <1>0, <2>1, HeadTailProperties, TailElements
  <2>3. \A i \in 1..Len(Tail(queue)) : Tail(queue)[i] \in QueuedWork
    <3> SUFFICES ASSUME NEW i \in 1..Len(Tail(queue)) PROVE Tail(queue)[i] \in QueuedWork
      OBVIOUS
    <3>1. i + 1 # 1
      BY <1>0, <2>2
    <3> QED
      BY <2>2, <3>1 DEF SoundInv
  <2>4. \A i, j \in 1..Len(Tail(queue)) : i < j => mseq[Tail(queue)[i]] < mseq[Tail(queue)[j]]
    <3> SUFFICES ASSUME NEW i \in 1..Len(Tail(queue)), NEW j \in 1..Len(Tail(queue)), i < j
                 PROVE  mseq[Tail(queue)[i]] < mseq[Tail(queue)[j]]
      OBVIOUS
    <3>1. i + 1 < j + 1
      BY <1>0, <2>2
    <3> QED
      BY <1>2, <2>2, <3>1
  <2>5. \A m \in QueuedWork : \E i \in 1..Len(Tail(queue)) : Tail(queue)[i] = m
    <3> SUFFICES ASSUME NEW m \in QueuedWork PROVE \E i \in 1..Len(Tail(queue)) : Tail(queue)[i] = m
      OBVIOUS
    <3>1. PICK i \in 1..Len(queue) : queue[i] = m
      BY <1>1 DEF Covered, InQueue
    <3>2. i # 1
      BY <1>0, <2>1, <2>2, <3>1
    <3> QED
      BY <2>2, <3>1, <3>2
  <2>6. Tail(queue) \in InAcceptedOrder(QueuedWork)
    BY <1>0, <2>2, <2>3, <2>4, <2>5, ExactOrder
  <2>7. queue = <<active>> \o Tail(queue)
    BY <1>0, <2>1, HeadThenTail
  <2> QED
    BY <1>3, <2>6, <2>7
<1>4. CASE activeState # "dispatching"
  <2>1. \A i \in 1..Len(queue) : queue[i] \in QueuedWork
    <3> SUFFICES ASSUME NEW i \in 1..Len(queue), queue[i] = active, activeTurn = 0 PROVE FALSE
      BY DEF SoundInv
    <3>1. active \in LiveWork /\ active \in Work
      BY <1>0
    <3>2. mstate[active] = activeState /\ mturn[active] = 0
      BY <3>1 DEF RowInv
    <3>3. mstate[active] = "running"
      BY <1>4, <3>1, <3>2 DEF LiveWork, LiveStates, HeldInv
    <3> QED
      BY <3>1, <3>2, <3>3 DEF HeldInv
  <2>2. queue \in InAcceptedOrder(QueuedWork)
    BY <1>0, <1>1, <1>2, <2>1, ExactOrder DEF Covered, InQueue
  <2>3. queue = <<>> \o queue
    BY <1>0, ConcatEmptySeq
  <2> QED
    BY <1>4, <2>2, <2>3
<1> QED
  BY <1>3, <1>4

\* The four together, as they are proved.
MemoryInv == HeldInv /\ SoundInv /\ FaultInv /\ ExactInv

\* The invariant holds in a new room.
LEMMA MemoryInit == ASSUME Init PROVE MemoryInv
<1>1. /\ call.pc = "down" /\ call.msg = NoMsg /\ status = "boot" /\ active = NoMsg /\ activeState = "none"
      /\ queue = <<>> /\ events = <<>> /\ ~fault /\ \A m \in Msgs : mstate[m] = "absent"
  BY DEF Init, StoreInit, AgentInit, ZeroMemory, Idle
<1>2. Len(queue) = 0 /\ Len(events) = 0
  BY <1>1
<1>3. HeldInv
  BY <1>1 DEF HeldInv, At, Msgs
<1>4. SoundInv /\ FaultInv
  BY <1>1, <1>2 DEF SoundInv, FaultInv, At
<1>5. ExactInv
  BY <1>1 DEF ExactInv, At, Loaded, LoadedLabels, ReadLabels
<1> QED
  BY <1>3, <1>4, <1>5 DEF MemoryInv

\* The invariant holds in every room.
LEMMA MemoryAlways == Spec => []MemoryInv
<1>1. Init => MemoryInv
  BY MemoryInit
<1>2. TypeOK /\ QueueInv /\ DurableInv /\ BacklogInv /\ OutcomeInv /\ OneInv /\ MemoryInv /\ [Next]_vars
         => MemoryInv'
  BY HeldInvStep, SoundInvStep, FaultInvStep, ExactInvStep DEF MemoryInv, QueueInv, OutcomeInv, OneInv
<1> QED
  BY <1>1, <1>2, TypeCorrect, QueueAlways, DurableAlways, BacklogAlways, OutcomeAlways, OneAlways, PTL DEF Spec

\* A ready coordinator that waits for input has in memory what a restart would
\* read from the database, for any number of prompts, controls, decisions and
\* failures: the active prompt with its state and turn always, the controls
\* and the queue unless a fault has let the room become ready with a decision
\* about a control unread.
THEOREM MemoryMatchesStoreAlways == Spec => []MemoryMatchesStore
<1>1. ASSUME TypeOK, ActiveInv, QueueInv, RowInv, MemoryInv PROVE MemoryMatchesStore
  <2> SUFFICES ASSUME status = "ready"
               PROVE  /\ LiveWork = {active} \ {NoMsg}
                      /\ active # NoMsg => mstate[active] = activeState /\ mturn[active] = activeTurn
                      /\ ~DecisionUnread =>
                            /\ Exact
                            /\ \E q \in InAcceptedOrder(QueuedWork) :
                                  queue = (IF activeState = "dispatching" THEN <<active>> ELSE <<>>) \o q
    BY DEF MemoryMatchesStore, Exact
  <2>1. LiveWork \subseteq {active} /\ active \in LiveWork \cup {NoMsg} /\ NoMsg \notin LiveWork
    BY <1>1, StoreAssumption DEF ActiveInv, Loaded, MemoryInv, HeldInv, LiveWork, Msgs
  <2>2. active # NoMsg => mstate[active] = activeState /\ mturn[active] = activeTurn
    BY <1>1, <2>1 DEF RowInv
  <2>3. ASSUME ~DecisionUnread PROVE Exact
    <3>1. faults \in Nat
      BY <1>1 DEF TypeOK, AgentTypeOK
    <3>2. faults = 0 \/ ~ControlDecided
      BY <2>3, <3>1 DEF DecisionUnread, ControlDecided
    <3> QED
      BY <1>1, <3>2 DEF MemoryInv, ExactInv, Loaded
  <2> QED
    BY <1>1, <2>1, <2>2, <2>3, QueueMatches DEF MemoryInv
<1> QED
  BY <1>1, TypeCorrect, ActiveAlways, QueueAlways, OutcomeAlways, MemoryAlways, PTL DEF OutcomeInv
=============================================================================
