------------------------- MODULE CoordinatorProofs -------------------------
(***************************************************************************)
(* Type correctness of the room.  First what the coordinator's two         *)
(* neighbours preserve: every transaction of RoomStore keeps the types of  *)
(* the rows and (except BeginDispatch) lets the set of prompts that occupy *)
(* the room only shrink; every step of the App Server, the runtime and the *)
(* calls to them keeps the types of AgentRuntime's variables.  Then what   *)
(* each handler does to the store, and the types of all variables.         *)
(***************************************************************************)
EXTENDS Coordinator, FiniteSetTheorems, SequenceTheorems, TLAPS

----------------------------------------------------------------------------
(* Transactions.                                                           *)

\* The prompts in progress after a step were in progress before it.
LiveShrinks == LiveWork' \subseteq LiveWork

\* A fresh database has well-typed rows.
LEMMA StoreInitType == StoreInit => StoreTypeOK
  BY StoreAssumption DEF StoreInit, StoreTypeOK, RequestStates, RoomStates,
     Actions, Msgs, Work

\* Sets of prompts have a natural number of elements.
LEMMA WorkCardinality ==
    ASSUME NEW S, S \subseteq Work
    PROVE  IsFiniteSet(S) /\ Cardinality(S) \in Nat
  BY StoreAssumption, FS_Subset, FS_CardinalityType

\* allocateSeq returns a natural number.
LEMMA NextSeqType == NextSeq \in Nat
<1> DEFINE S == {m \in Work : mstate[m] # "absent"}
<1>1. Cardinality(S) \in Nat
  BY WorkCardinality, S \subseteq Work
<1> QED
  BY <1>1 DEF NextSeq

\* The list LoadRecoveryImage returns for a set of prompts is a sequence.
LEMMA OrderedIsSeq ==
    ASSUME NEW S, S \subseteq Work, NEW q \in InAcceptedOrder(S)
    PROVE  q \in Seq(Work)
<1>1. Cardinality(S) \in Nat
  BY WorkCardinality
<1>2. q \in [1..Cardinality(S) -> S]
  BY DEF InAcceptedOrder
<1>3. q \in [1..Cardinality(S) -> Work]
  BY <1>2
<1> QED
  BY <1>1, <1>3

\* AcceptMessage keeps the types and starts nothing.
LEMMA AcceptMessageType ==
    ASSUME StoreTypeOK, NEW m \in Work, AcceptMessage(m)
    PROVE  StoreTypeOK' /\ LiveShrinks
  BY NextSeqType, StoreAssumption DEF AcceptMessage, StoreTypeOK, LiveShrinks, LiveWork,
     LiveStates, RequestStates, Msgs, Work, roomRow, privateRows, reviewRows

\* AppendNote keeps the types and starts nothing.
LEMMA AppendNoteType ==
    ASSUME StoreTypeOK, NEW n \in Notes, AppendNote(n)
    PROVE  StoreTypeOK' /\ LiveShrinks
  BY StoreAssumption DEF AppendNote, StoreTypeOK, LiveShrinks, LiveWork, LiveStates,
     RequestStates, Terminal, Msgs, Work, roomRow, privateRows, reviewRows

\* AcceptControl keeps the types and starts no prompt.
LEMMA AcceptControlType ==
    ASSUME StoreTypeOK, NEW c \in Controls, NEW t \in 0..MaxTurns, AcceptControl(c, t)
    PROVE  StoreTypeOK' /\ LiveShrinks
  BY StoreAssumption DEF AcceptControl, StoreTypeOK, LiveShrinks, LiveWork, LiveStates,
     RequestStates, Msgs, Work, roomRow, privateRows, reviewRows

\* updateMessageAndBinding moves a message to a state of RequestState.
LEMMA MoveMessageType ==
    ASSUME StoreTypeOK, NEW m, NEW from, NEW to \in RequestStates,
           MoveMessage(m, from, to), UNCHANGED mturn
    PROVE  StoreTypeOK'
  BY DEF MoveMessage, StoreTypeOK, roomRow, privateRows, reviewRows

\* A message that moves from a state in progress starts nothing new.
LEMMA MoveMessageShrinks ==
    ASSUME StoreTypeOK, NEW m, NEW from, from \subseteq LiveStates, NEW to,
           MoveMessage(m, from, to)
    PROVE  LiveShrinks
  BY DEF MoveMessage, StoreTypeOK, LiveShrinks, LiveWork, Msgs

\* BindRunningTurn stores a turn id.
LEMMA BindRunningTurnType ==
    ASSUME StoreTypeOK, NEW m, NEW t \in 0..MaxTurns, BindRunningTurn(m, t)
    PROVE  StoreTypeOK' /\ LiveShrinks
  BY MoveMessageShrinks DEF BindRunningTurn, MoveMessage, StoreTypeOK, RequestStates,
     LiveStates, roomRow, privateRows, reviewRows

\* FinishTurn ends a prompt that was in progress.
LEMMA FinishTurnType ==
    ASSUME StoreTypeOK, NEW t, NEW outcome \in Terminal, FinishTurn(t, outcome)
    PROVE  /\ StoreTypeOK' /\ LiveShrinks
           /\ \E m \in LiveWork : m \notin LiveWork'
<1>1. PICK m \in Work : /\ MoveMessage(m, {"running", "needs-review"}, outcome)
                        /\ UNCHANGED mturn
  BY DEF FinishTurn
<1>2. StoreTypeOK'
  BY <1>1, MoveMessageType DEF RequestStates
<1>3. LiveShrinks
  BY <1>1, MoveMessageShrinks DEF LiveStates
<1>4. m \in LiveWork /\ m \notin LiveWork'
  BY <1>1, StoreAssumption DEF MoveMessage, LiveWork, LiveStates, Terminal, StoreTypeOK, Msgs
<1> QED
  BY <1>2, <1>3, <1>4

\* The remaining transactions on bindings end or suspend what was in progress.
LEMMA BindingMovesType ==
    ASSUME StoreTypeOK, NEW m,
           \/ FailDispatch(m)
           \/ MarkNeedsReview(m)
           \/ \E o \in {"failed", "completed", "needs-review"} : FinishControl(m, o)
    PROVE  StoreTypeOK' /\ LiveShrinks
<1>1. PICK from, to : /\ from \subseteq LiveStates /\ to \in RequestStates
                      /\ MoveMessage(m, from, to) /\ UNCHANGED mturn
  BY DEF FailDispatch, MarkNeedsReview, FinishControl, LiveStates, RequestStates, Terminal
<1> QED
  BY <1>1, MoveMessageType, MoveMessageShrinks

\* BeginDispatch puts exactly one more prompt in progress.
LEMMA BeginDispatchType ==
    ASSUME StoreTypeOK, NEW m \in Work, BeginDispatch(m)
    PROVE  StoreTypeOK' /\ LiveWork' \subseteq LiveWork \cup {m}
<1>1. StoreTypeOK'
  BY MoveMessageType DEF BeginDispatch, RequestStates, LiveStates
<1> QED
  BY <1>1 DEF BeginDispatch, MoveMessage, StoreTypeOK, LiveWork, Msgs

\* RecordCompletedItem touches only the event log.
LEMMA RecordCompletedItemType ==
    ASSUME StoreTypeOK, NEW t \in Turns, RecordCompletedItem(t)
    PROVE  StoreTypeOK' /\ LiveShrinks
  BY DEF RecordCompletedItem, StoreTypeOK, LiveShrinks, LiveWork, messageRows, roomRow,
     privateRows, reviewRows

\* The transactions on the room row leave every message alone.
LEMMA RoomRowType ==
    ASSUME StoreTypeOK,
           \/ \E s \in RoomStates : SetRoomStatus(s)
           \/ MarkThreadNeedsRepair
           \/ \E th \in 0..MaxThreads : BindThread(th) \/ RepairThread(th)
           \/ ResetUnusedThread
    PROVE  StoreTypeOK' /\ LiveShrinks
  BY StoreAssumption DEF SetRoomStatus, MarkThreadNeedsRepair, BindThread, RepairThread,
     ResetUnusedThread, StoreTypeOK, RoomStates, LiveShrinks, LiveWork, messageRows,
     privateRows, reviewRows

\* A /recover decision ends, requeues or re-sends what awaited review.
LEMMA ResolveReviewType ==
    ASSUME StoreTypeOK, NEW r \in Recovers,
           \/ \E m \in Work : RetryPrompt(r, m)
           \/ \E c \in Controls : RetryControl(r, c)
           \/ \E m \in Work \cup Controls : SkipReviewed(r, m)
           \/ \E m \in Work \cup Controls, p \in Replacements : ContinueReviewed(r, m, p)
    PROVE  StoreTypeOK' /\ LiveShrinks
<1> USE StoreAssumption DEF Decided, StoreTypeOK, LiveShrinks, LiveWork, LiveStates,
        RequestStates, Terminal, Actions, Msgs, roomRow, privateRows
<1>1. CASE \E m \in Work : RetryPrompt(r, m)
  BY <1>1 DEF RetryPrompt
<1>2. CASE \E c \in Controls : RetryControl(r, c)
  BY <1>2 DEF RetryControl, Work
<1>3. CASE \E m \in Work \cup Controls : SkipReviewed(r, m)
  BY <1>3 DEF SkipReviewed, Work
<1>4. CASE \E m \in Work \cup Controls, p \in Replacements : ContinueReviewed(r, m, p)
  BY <1>4, NextSeqType DEF ContinueReviewed, Work
<1> QED
  BY <1>1, <1>2, <1>3, <1>4

\* The journal of private turns holds turns and leaves every message alone.
LEMMA PrivateJournalType ==
    ASSUME StoreTypeOK, NEW th \in 0..MaxThreads, NEW turns \in SUBSET Turns, NEW running,
           \/ BeginPrivateTurn(th, turns)
           \/ EndPrivateTurn(th, turns)
           \/ ClosePrivateTurns(th, turns, running)
    PROVE  StoreTypeOK' /\ LiveShrinks
<1> USE StoreAssumption DEF StoreTypeOK, LiveShrinks, LiveWork, messageRows, roomRow,
        reviewRows
<1>1. CASE BeginPrivateTurn(th, turns)
  BY <1>1 DEF BeginPrivateTurn
<1>2. ASSUME NEW T \in SUBSET Turns, EndPrivateTurn(th, T)
      PROVE  StoreTypeOK' /\ LiveShrinks
  BY <1>2 DEF EndPrivateTurn
<1>3. CASE ClosePrivateTurns(th, turns, running)
  <2>1. Unexplained(th, turns) \subseteq Turns
    BY DEF Unexplained
  <2> QED
    BY <1>2, <1>3, <2>1 DEF ClosePrivateTurns, storeVars, privateRows
<1> QED
  BY <1>1, <1>2, <1>3

\* Any transaction but BeginDispatch, with arguments of the right type.
StoreStep(Ids) ==
    \/ UNCHANGED storeVars
    \/ \E m \in Work : AcceptMessage(m)
    \/ \E n \in Notes : AppendNote(n)
    \/ \E c \in Controls, t \in 0..MaxTurns : AcceptControl(c, t)
    \/ \E m \in Ids : FailDispatch(m) \/ MarkNeedsReview(m)
    \/ \E m \in Ids, o \in {"failed", "completed", "needs-review"} : FinishControl(m, o)
    \/ \E m \in Ids, t \in Turns : BindRunningTurn(m, t)
    \/ \E t \in 0..MaxTurns, o \in Terminal : FinishTurn(t, o)
    \/ \E t \in Turns : RecordCompletedItem(t)
    \/ \E s \in RoomStates : SetRoomStatus(s)
    \/ MarkThreadNeedsRepair
    \/ \E th \in 0..MaxThreads : BindThread(th) \/ RepairThread(th)
    \/ ResetUnusedThread
    \/ \E r \in Recovers :
          \/ \E m \in Work : RetryPrompt(r, m)
          \/ \E c \in Controls : RetryControl(r, c)
          \/ \E m \in Work \cup Controls : SkipReviewed(r, m)
          \/ \E m \in Work \cup Controls, p \in Replacements : ContinueReviewed(r, m, p)
    \/ \E th \in 0..MaxThreads, T, R \in SUBSET Turns :
          BeginPrivateTurn(th, T) \/ EndPrivateTurn(th, T) \/ ClosePrivateTurns(th, T, R)

\* Every such transaction keeps the types and puts no prompt in progress.
LEMMA StoreStepType ==
    ASSUME StoreTypeOK, NEW Ids, StoreStep(Ids)
    PROVE  StoreTypeOK' /\ LiveShrinks
<1>1. CASE UNCHANGED storeVars
  BY <1>1 DEF storeVars, messageRows, roomRow, privateRows, reviewRows, StoreTypeOK,
     LiveShrinks, LiveWork
<1>2. CASE \E m \in Work : AcceptMessage(m)
  BY <1>2, AcceptMessageType
<1>3. CASE \E n \in Notes : AppendNote(n)
  BY <1>3, AppendNoteType
<1>4. CASE \E c \in Controls, t \in 0..MaxTurns : AcceptControl(c, t)
  BY <1>4, AcceptControlType
<1>5. CASE \E m \in Ids : FailDispatch(m) \/ MarkNeedsReview(m)
  BY <1>5, BindingMovesType
<1>6. CASE \E m \in Ids, o \in {"failed", "completed", "needs-review"} : FinishControl(m, o)
  BY <1>6, BindingMovesType
<1>7. CASE \E m \in Ids, t \in Turns : BindRunningTurn(m, t)
  <2>1. Turns \subseteq 0..MaxTurns
    BY StoreAssumption DEF Turns
  <2> QED
    BY <1>7, <2>1, BindRunningTurnType
<1>8. CASE \E t \in 0..MaxTurns, o \in Terminal : FinishTurn(t, o)
  BY <1>8, FinishTurnType
<1>9. CASE \E t \in Turns : RecordCompletedItem(t)
  BY <1>9, RecordCompletedItemType
<1>10. CASE \/ \E s \in RoomStates : SetRoomStatus(s)
            \/ MarkThreadNeedsRepair
            \/ \E th \in 0..MaxThreads : BindThread(th) \/ RepairThread(th)
            \/ ResetUnusedThread
  BY <1>10, RoomRowType
<1>11. CASE \E r \in Recovers :
          \/ \E m \in Work : RetryPrompt(r, m)
          \/ \E c \in Controls : RetryControl(r, c)
          \/ \E m \in Work \cup Controls : SkipReviewed(r, m)
          \/ \E m \in Work \cup Controls, p \in Replacements : ContinueReviewed(r, m, p)
  BY <1>11, ResolveReviewType
<1>12. CASE \E th \in 0..MaxThreads, T, R \in SUBSET Turns :
          BeginPrivateTurn(th, T) \/ EndPrivateTurn(th, T) \/ ClosePrivateTurns(th, T, R)
  BY <1>12, PrivateJournalType
<1> QED
  BY <1>1, <1>2, <1>3, <1>4, <1>5, <1>6, <1>7, <1>8, <1>9, <1>10, <1>11, <1>12
     DEF StoreStep

----------------------------------------------------------------------------
(* The App Server.                                                         *)

\* Owners of turns: messages and questions.
Owners == Msgs \cup Questions \cup {NoMsg}

\* A fresh runtime is well typed.
LEMMA AgentInitType == AgentInit => AgentTypeOK
<1> SUFFICES ASSUME AgentInit PROVE AgentTypeOK
  OBVIOUS
<1>1. late \in BOOLEAN
  BY Zenon DEF AgentInit
<1>2. titem \in [Turns -> BOOLEAN]
  BY DEF AgentInit
<1>3. events \in Seq(TurnEvents \cup RuntimeEvents)
  BY EmptySeq DEF AgentInit
<1> QED
  BY <1>1, <1>2, <1>3, StoreAssumption DEF AgentInit, AgentTypeOK, TurnStates

\* A call that creates nothing keeps the types, however it ends.
LEMMA CallType ==
    ASSUME AgentTypeOK, CallNotSent \/ CallDone \/ CallUnknown \/ CallTimedOut
    PROVE  AgentTypeOK'
<1>1. late' \in BOOLEAN
  BY Zenon DEF AgentTypeOK, CallNotSent, CallDone, CallUnknown, CallTimedOut, agentVars
<1>2. glitches' \in Nat /\ deaths' \in Nat /\ faults' \in Nat
  BY DEF AgentTypeOK, CallNotSent, CallDone, CallUnknown, CallTimedOut, Glitch,
     agentVars, faultVars
<1>3. UNCHANGED <<session, events, nthread, turnVars>>
  BY DEF CallNotSent, CallDone, CallUnknown, CallTimedOut, agentVars
<1> QED
  BY <1>1, <1>2, <1>3 DEF AgentTypeOK, turnVars

\* turn/start, answered or not, adds one well-typed turn.
LEMMA TurnStartType ==
    ASSUME AgentTypeOK, NEW o \in Owners, NEW th \in 0..MaxThreads,
           TurnStarted(o, th) \/ TurnStartLost(o, th) \/ TurnStartTimedOut(o, th)
    PROVE  AgentTypeOK' /\ nturn' \in Turns
<1>1. NewTurn(o, th)
  BY DEF TurnStarted, TurnStartLost, TurnStartTimedOut
<1>2. nturn' \in Turns /\ nturn' \in 0..MaxTurns
  BY <1>1, StoreAssumption DEF NewTurn, AgentTypeOK, Turns
<1>3. /\ alive' \subseteq Turns
      /\ tstate' \in [Turns -> TurnStates]
      /\ towner' \in [Turns -> Owners]
      /\ tthread' \in [Turns -> 0..MaxThreads]
      /\ titem' \in [Turns -> BOOLEAN]
  BY <1>1, <1>2 DEF NewTurn, AgentTypeOK, TurnStates, Owners
<1>4. late' \in BOOLEAN
  BY Zenon DEF TurnStarted, TurnStartLost, TurnStartTimedOut, AgentTypeOK
<1>5. /\ session' = session /\ events' = events /\ nthread' = nthread
      /\ glitches' \in Nat /\ deaths' \in Nat /\ faults' \in Nat
  BY DEF TurnStarted, TurnStartLost, TurnStartTimedOut, Glitch, AgentTypeOK, faultVars
<1> QED
  BY <1>2, <1>3, <1>4, <1>5 DEF AgentTypeOK, Owners

\* thread/start, answered or not, adds one thread.
LEMMA ThreadStartType ==
    ASSUME AgentTypeOK, ThreadStarted \/ ThreadStartLost \/ ThreadStartTimedOut
    PROVE  AgentTypeOK' /\ nthread' \in Threads
<1>1. late' \in BOOLEAN
  BY Zenon DEF AgentTypeOK, ThreadStarted, ThreadStartLost, ThreadStartTimedOut
<1>2. /\ nthread' \in 0..MaxThreads /\ nthread' \in Threads
      /\ glitches' \in Nat /\ deaths' \in Nat /\ faults' \in Nat
  BY StoreAssumption DEF AgentTypeOK, ThreadStarted, ThreadStartLost,
     ThreadStartTimedOut, Glitch, faultVars, Threads
<1>3. UNCHANGED <<session, events, turnVars>>
  BY DEF ThreadStarted, ThreadStartLost, ThreadStartTimedOut
<1> QED
  BY <1>1, <1>2, <1>3 DEF AgentTypeOK, turnVars

\* An emitted event is a well-typed element of a well-typed channel.
LEMMA AppendEventType ==
    ASSUME AgentTypeOK, NEW e \in TurnEvents \cup RuntimeEvents
    PROVE  Append(events, e) \in Seq(TurnEvents \cup RuntimeEvents)
  BY AppendProperties DEF AgentTypeOK

\* A process that is gone leaves well-typed history behind.
LEMMA ProcessGoneType ==
    ASSUME AgentTypeOK, ProcessGone
    PROVE  /\ session' \in {"up", "down"} /\ late' \in BOOLEAN
           /\ nthread' \in 0..MaxThreads /\ nturn' \in 0..MaxTurns
           /\ alive' \subseteq Turns
           /\ tstate' \in [Turns -> TurnStates]
           /\ towner' \in [Turns -> Owners]
           /\ tthread' \in [Turns -> 0..MaxThreads]
           /\ titem' \in [Turns -> BOOLEAN]
           /\ glitches' \in Nat /\ faults' \in Nat
<1>1. PICK f \in [alive -> Fates] :
         tstate' = [t \in Turns |-> IF t \in alive THEN f[t] ELSE tstate[t]]
  BY DEF ProcessGone
<1>2. tstate' \in [Turns -> TurnStates]
  BY <1>1, AgentAssumption DEF AgentTypeOK, TurnStates
<1> QED
  BY <1>2 DEF ProcessGone, AgentTypeOK, Owners

\* The App Server's own steps and the replacement of a session.
LEMMA AgentStepType ==
    ASSUME AgentTypeOK,
           \/ \E t \in alive : ItemCompletes(t)
           \/ \E t \in alive, how \in Endings : TurnEnds(t, how)
           \/ \E t \in alive \cup {0} : AgentFault(t)
           \/ SessionDies
           \/ SessionReplaced
    PROVE  AgentTypeOK'
<1>1. ASSUME NEW t \in alive, ItemCompletes(t) PROVE AgentTypeOK'
  <2>1. Event("item", t) \in TurnEvents
    BY StoreAssumption DEF Event, TurnEvents, AgentTypeOK, Turns
  <2>2. events' \in Seq(TurnEvents \cup RuntimeEvents)
    BY <1>1, <2>1, AppendEventType DEF ItemCompletes, Emit
  <2> QED
    BY <1>1, <2>2 DEF ItemCompletes, AgentTypeOK, faultVars
<1>2. ASSUME NEW t \in alive, NEW how \in Endings, TurnEnds(t, how) PROVE AgentTypeOK'
  <2>0. how \in Terminal
    BY AgentAssumption
  <2>1. Event(how, t) \in TurnEvents
    BY <2>0, StoreAssumption DEF Event, TurnEvents, AgentTypeOK, Turns
  <2>2. events' \in Seq(TurnEvents \cup RuntimeEvents)
    BY <1>2, <2>1, AppendEventType DEF TurnEnds, Emit
  <2> QED
    BY <1>2, <2>0, <2>2 DEF TurnEnds, AgentTypeOK, faultVars, TurnStates
<1>3. ASSUME NEW t \in alive \cup {0}, AgentFault(t) PROVE AgentTypeOK'
  <2>1. Event("fault", t) \in TurnEvents
    BY StoreAssumption DEF Event, TurnEvents, AgentTypeOK, Turns
  <2>2. events' \in Seq(TurnEvents \cup RuntimeEvents)
    BY <1>3, <2>1, AppendEventType DEF AgentFault, Emit
  <2> QED
    BY <1>3, <2>2 DEF AgentFault, AgentTypeOK, turnVars
<1>4. ASSUME SessionDies PROVE AgentTypeOK'
  <2>1. Event("unavailable", 0) \in RuntimeEvents
    BY DEF Event, RuntimeEvents
  <2>2. events' \in Seq(TurnEvents \cup RuntimeEvents)
    BY <1>4, <2>1, AppendEventType DEF SessionDies
  <2>3. deaths' \in Nat
    BY <1>4 DEF SessionDies, AgentTypeOK
  <2> QED
    BY <1>4, <2>2, <2>3, ProcessGoneType DEF SessionDies, AgentTypeOK, Owners
<1>5. ASSUME SessionReplaced PROVE AgentTypeOK'
  <2>1. Event("ready", 0) \in RuntimeEvents
    BY DEF Event, RuntimeEvents
  <2>2. events' \in Seq(TurnEvents \cup RuntimeEvents)
    BY <1>5, <2>1, AppendEventType DEF SessionReplaced
  <2> QED
    BY <1>5, <2>2 DEF SessionReplaced, AgentTypeOK, turnVars, faultVars
<1> QED
  BY <1>1, <1>2, <1>3, <1>4, <1>5

----------------------------------------------------------------------------
\* The effect of each step on the store.

\* The message a handler works on is a message, a question or none.
LEMMA CallFields ==
    ASSUME TypeOK
    PROVE  /\ call.msg \in Owners /\ call.turn \in Nat /\ call.outcome \in Outcomes
           /\ active \in Owners /\ threadID \in 0..MaxThreads
           /\ activeTurn \in 0..MaxTurns /\ questionTurn \in 0..MaxTurns
  BY DEF TypeOK, MemoryTypeOK, HandlerTypeOK, CallRecords, Owners, Msgs

\* Failed transactions change nothing.
LEMMA StoreFailsStep == StoreFails => StoreStep(Owners)
  BY DEF StoreFails, StoreStep

\* The clients' commands run one transaction or none.
LEMMA ClientStoreStep == ASSUME TypeOK, Client PROVE StoreStep(Owners)
<1>1. CASE \E m \in Prompts : Submit(m)
  BY <1>1 DEF Submit, StoreStep, Work
<1>2. CASE \E n \in Notes : Note(n)
  BY <1>2 DEF Note, StoreStep
<1>3. CASE \E c \in Controls, t \in 1..nturn : Control(c, t)
  <2>1. 1..nturn \subseteq 0..MaxTurns
    BY StoreAssumption DEF TypeOK, AgentTypeOK
  <2> QED
    BY <1>3, <2>1 DEF Control, StoreStep
<1>4. CASE \E r \in Recovers : Resolve(r)
  BY <1>4 DEF Resolve, StoreStep
<1>5. CASE \E q \in Questions : Ask(q)
  <2>1. History(threadID) \in SUBSET Turns
    BY StoreAssumption DEF History, Turns, TypeOK, AgentTypeOK
  <2> QED
    BY <1>5, <2>1, CallFields DEF Ask, StoreStep
<1> QED
  BY <1>1, <1>2, <1>3, <1>4, <1>5 DEF Client

\* The owner's offline commands change the room row.
LEMMA OwnerStoreStep == ASSUME TypeOK, Owner PROVE StoreStep(Owners)
<1>1. CASE RepairCreate \/ RepairBind
  <2>1. repairs.thread \in 0..MaxThreads
    BY DEF TypeOK, HandlerTypeOK
  <2> QED
    BY <1>1, <2>1 DEF RepairCreate, RepairBind, StoreStep
<1>2. CASE RepairUse
  <2>1. 1..nthread \subseteq 0..MaxThreads
    BY StoreAssumption DEF TypeOK, AgentTypeOK
  <2> QED
    BY <1>2, <2>1 DEF RepairUse, StoreStep
<1>3. CASE RepairMark
  BY <1>3 DEF RepairMark, StoreStep
<1>4. CASE ResetAtStartup
  BY <1>4 DEF ResetAtStartup, StoreStep
<1> QED
  BY <1>1, <1>2, <1>3, <1>4 DEF Owner

\* BeginDispatch is only ever called by DispatchNext, on the head of the queue.
LEMMA DispatchStoreStep ==
    ASSUME TypeOK, DispatchNext
    PROVE  \/ StoreStep(Owners) /\ UNCHANGED active
           \/ /\ CanDispatch /\ BeginDispatch(Head(queue))
              /\ Head(queue) \in Work
              /\ active' = Head(queue)
<1>1. CASE CanDispatch /\ StoreOk /\ BeginDispatch(Head(queue)) /\ active' = Head(queue)
  <2>1. queue \in Seq(Work) /\ queue # <<>>
    BY <1>1 DEF TypeOK, MemoryTypeOK, CanDispatch
  <2> QED
    BY <1>1, <2>1, HeadTailProperties
<1>2. CASE UNCHANGED storeVars /\ UNCHANGED active
  BY <1>2 DEF StoreStep
<1> QED
  BY <1>1, <1>2, StoreFailsStep DEF DispatchNext, StoreFails, activeVars

\* The links of the dispatch and control handlers.
LEMMA TurnStoreStep ==
    ASSUME TypeOK,
           \/ StartTurn \/ BindTurn \/ FailTurn \/ ReviewTurn \/ ReviewStatus
           \/ SendControl \/ EndControl
    PROVE  StoreStep(Owners)
<1> USE CallFields, StoreFailsStep
<1>1. CASE StartTurn \/ SendControl
  BY <1>1 DEF StartTurn, SendControl, StoreStep
<1>2. CASE BindTurn
  <2>1. call.turn \in Turns
    BY <1>2 DEF BindTurn, TypeOK, HandlerTypeOK
  <2> QED
    BY <1>2, <2>1 DEF BindTurn, StoreStep
<1>3. CASE FailTurn
  BY <1>3 DEF FailTurn, StoreStep
<1>4. CASE ReviewTurn
  BY <1>4 DEF ReviewTurn, StoreStep
<1>5. CASE ReviewStatus
  BY <1>5 DEF ReviewStatus, StoreStep, RoomStates
<1>6. CASE EndControl
  <2>1. call.outcome \in {"failed", "completed", "needs-review"}
    BY <1>6 DEF EndControl, TypeOK, HandlerTypeOK, Outcomes
  <2> QED
    BY <1>6, <2>1 DEF EndControl, StoreStep
<1> QED
  BY <1>1, <1>2, <1>3, <1>4, <1>5, <1>6

\* The links of the resolve handler.
LEMMA ResolveStoreStep ==
    ASSUME TypeOK,
           ResolveLoad \/ RetryCall \/ RetryFinish \/ ResolveReload \/ ResolveReady
    PROVE  StoreStep(Owners)
<1> USE CallFields, StoreFailsStep
<1>1. CASE ResolveLoad
  BY <1>1 DEF ResolveLoad, StoreStep
<1>2. CASE RetryCall
  BY <1>2 DEF RetryCall, StoreStep
<1>3. CASE RetryFinish
  <2>1. call.outcome \in {"failed", "completed", "needs-review"}
    BY <1>3 DEF RetryFinish, TypeOK, HandlerTypeOK, Outcomes
  <2> QED
    BY <1>3, <2>1 DEF RetryFinish, StoreStep
<1>4. CASE ResolveReload
  BY <1>4 DEF ResolveReload, StoreStep
<1>5. CASE ResolveReady
  BY <1>5 DEF ResolveReady, StoreStep, RoomStates
<1> QED
  BY <1>1, <1>2, <1>3, <1>4, <1>5

\* The links of recover, up to the thread.
LEMMA ThreadStoreStep ==
    ASSUME TypeOK,
           \/ RecoverLoad \/ MarkRepair \/ SetRecovering \/ StartThread
           \/ BindNewThread \/ ReadThread \/ ResumeThread
    PROVE  StoreStep(Owners)
<1> USE CallFields, StoreFailsStep
<1>1. CASE RecoverLoad
  BY <1>1 DEF RecoverLoad, StoreStep
<1>2. CASE MarkRepair
  BY <1>2 DEF MarkRepair, StoreStep
<1>3. CASE SetRecovering
  BY <1>3 DEF SetRecovering, StoreStep, RoomStates
<1>4. CASE StartThread
  BY <1>4 DEF StartThread, StoreStep, RoomStates
<1>5. CASE BindNewThread
  <2>1. call.turn \in 0..MaxThreads
    BY <1>5, StoreAssumption DEF BindNewThread, TypeOK, HandlerTypeOK, Threads
  <2> QED
    BY <1>5, <2>1 DEF BindNewThread, StoreStep
<1>6. CASE ReadThread
  BY <1>6 DEF ReadThread, StoreStep
<1>7. CASE ResumeThread
  BY <1>7 DEF ResumeThread, StoreStep
<1> QED
  BY <1>1, <1>2, <1>3, <1>4, <1>5, <1>6, <1>7

\* The links of recover that reconcile the thread's history with the store.
LEMMA ReconcileStoreStep ==
    ASSUME TypeOK,
           \/ ReconcilePrivate \/ ReconcileItems \/ SettleActive
           \/ ReconcileControls \/ Recovered
    PROVE  StoreStep(Owners)
<1> USE CallFields, StoreFailsStep
<1>1. CASE ReconcilePrivate
  <2>1. InHistory \in SUBSET Turns /\ SeenRunning \in SUBSET Turns
    BY DEF InHistory, SeenRunning
  <2> QED
    BY <1>1, <2>1 DEF ReconcilePrivate, StoreStep
<1>2. CASE ReconcileItems
  BY <1>2 DEF ReconcileItems, MissingItems, StoreStep
<1>3. CASE SettleActive
  <2>1. ProvenEnd \subseteq Terminal
    BY DEF ProvenEnd
  <2> QED
    BY <1>3, <2>1 DEF SettleActive, StoreStep
<1>4. CASE ReconcileControls
  BY <1>4 DEF ReconcileControls, StoreStep, Owners, Msgs
<1>5. CASE Recovered
  BY <1>5 DEF Recovered, StoreStep, RoomStates
<1> QED
  BY <1>1, <1>2, <1>3, <1>4, <1>5

\* The links of startQuestion and of the event handlers.
LEMMA EventLinkStoreStep ==
    ASSUME TypeOK, AskTurn \/ AskUndo \/ FaultReady \/ FaultStatus \/ LostTurn
    PROVE  StoreStep(Owners)
<1> USE CallFields, StoreFailsStep
<1>1. CASE AskTurn
  BY <1>1 DEF AskTurn, StoreStep
<1>2. CASE AskUndo
  BY <1>2 DEF AskUndo, StoreStep
<1>3. CASE FaultReady \/ FaultStatus
  BY <1>3 DEF FaultReady, FaultStatus, StoreStep, RoomStates
<1>4. CASE LostTurn
  BY <1>4 DEF LostTurn, StoreStep
<1> QED
  BY <1>1, <1>2, <1>3, <1>4

\* An event that is received is well typed; item and turn events of the
\* active turn or the question name a turn.
LEMMA ReceivedType ==
    ASSUME TypeOK, NEW e \in Received
    PROVE  /\ e \in TurnEvents \cup RuntimeEvents
           /\ events # <<>> /\ At("idle")
           /\ Tail(events) \in Seq(TurnEvents \cup RuntimeEvents)
<1>1. e = Head(events) /\ events # <<>> /\ At("idle")
  BY DEF Received
<1>2. events \in Seq(TurnEvents \cup RuntimeEvents)
  BY DEF TypeOK, AgentTypeOK
<1> QED
  BY <1>1, <1>2, HeadTailProperties

\* Items and ends of turns name a turn.
LEMMA TurnEventType ==
    ASSUME TypeOK, NEW e \in Received, e.kind \in {"item"} \cup Terminal
    PROVE  e.turn \in Turns
  BY ReceivedType DEF TurnEvents, RuntimeEvents, Terminal

\* The handlers of agent events.
LEMMA EventStoreStep == ASSUME TypeOK, HandleEvent PROVE StoreStep(Owners)
<1> USE CallFields, StoreFailsStep
<1>1. CASE OnIgnored
  BY <1>1 DEF OnIgnored, StoreStep
<1>2. CASE OnItem
  <2>1. PICK e \in Received : /\ e.kind = "item"
                              /\ StoreFails \/ RecordCompletedItem(e.turn)
    BY <1>2 DEF OnItem
  <2>2. e.turn \in Turns
    BY <2>1, TurnEventType
  <2> QED
    BY <2>1, <2>2 DEF StoreStep
<1>3. CASE OnTurnEnd
  <2>1. PICK e \in Received :
           /\ e.kind \in Terminal
           /\ StoreFails \/ FinishTurn(e.turn, IF fault THEN "failed" ELSE e.kind)
    BY <1>3 DEF OnTurnEnd
  <2>2. e.turn \in 0..MaxTurns
    BY <2>1, TurnEventType, StoreAssumption DEF Turns
  <2>3. (IF fault THEN "failed" ELSE e.kind) \in Terminal
    BY <2>1 DEF Terminal
  <2> QED
    BY <2>1, <2>2, <2>3 DEF StoreStep
<1>4. CASE OnFault
  BY <1>4 DEF OnFault, StoreStep
<1>5. CASE OnQuestionEnd
  <2>1. PICK e \in Received :
           /\ e.kind \in Terminal /\ ForQuestion(e)
           /\ StoreFails \/ EndPrivateTurn(threadID, {questionTurn})
    BY <1>5 DEF OnQuestionEnd
  <2>2. {questionTurn} \in SUBSET Turns
    BY <2>1, TurnEventType, StoreAssumption DEF Turns, ForQuestion
  <2> QED
    BY <2>1, <2>2 DEF StoreStep
<1>6. CASE OnUnavailable
  BY <1>6 DEF OnUnavailable, StoreStep, RoomStates
<1>7. CASE OnReady
  BY <1>7 DEF OnReady, StoreStep
<1> QED
  BY <1>1, <1>2, <1>3, <1>4, <1>5, <1>6, <1>7 DEF HandleEvent

\* Every step but a dispatch is a well-typed transaction or leaves the store
\* alone.
LEMMA NextStoreStep ==
    ASSUME TypeOK, [Next]_vars
    PROVE  StoreStep(Owners) \/ DispatchNext
<1>1. CASE Continue
  BY <1>1, TurnStoreStep, ResolveStoreStep, ThreadStoreStep, ReconcileStoreStep,
     EventLinkStoreStep DEF Continue
<1>2. CASE AppServer
  BY <1>2 DEF AppServer, StoreStep
<1>3. CASE StartDaemon \/ StartupRecover \/ Exit \/ Crash
  BY <1>3 DEF StartDaemon, StartupRecover, Exit, Crash, DaemonGone, StoreStep
<1>4. CASE UNCHANGED vars
  BY <1>4 DEF vars, StoreStep
<1> QED
  BY <1>1, <1>2, <1>3, <1>4, ClientStoreStep, OwnerStoreStep, EventStoreStep DEF Next

\* The rows of the store stay well typed.
LEMMA StoreTypeStep == ASSUME TypeOK, [Next]_vars PROVE StoreTypeOK'
<1>1. StoreTypeOK
  BY DEF TypeOK
<1>2. CASE DispatchNext
  BY <1>1, <1>2, DispatchStoreStep, StoreStepType, BeginDispatchType
<1> QED
  BY <1>1, <1>2, NextStoreStep, StoreStepType

----------------------------------------------------------------------------
\* The effect of each step on the runtime.

\* An event that is taken leaves the rest of the runtime alone.
LEMMA TakenType == ASSUME TypeOK, NEW e \in Received, Taken PROVE AgentTypeOK'
<1>1. events' \in Seq(TurnEvents \cup RuntimeEvents)
  BY ReceivedType DEF Taken
<1> QED
  BY <1>1 DEF Taken, TypeOK, AgentTypeOK, turnVars, faultVars

\* A step that leaves the runtime alone keeps its types.
LEMMA AgentUnchanged == ASSUME TypeOK, UNCHANGED agentVars PROVE AgentTypeOK'
  BY DEF TypeOK, AgentTypeOK, agentVars, turnVars, faultVars

\* The calls the handlers make.
LEMMA CallsAgentType ==
    ASSUME TypeOK,
           \/ StartTurn \/ SendControl \/ RetryCall \/ StartThread \/ ReadThread
           \/ ResumeThread \/ SettleActive \/ AskTurn
    PROVE  AgentTypeOK'
<1>0. AgentTypeOK
  BY DEF TypeOK
<1> USE CallFields, CallType, <1>0
<1>1. CASE StartTurn
  BY <1>1, TurnStartType DEF StartTurn
<1>2. CASE SendControl
  BY <1>2 DEF SendControl, ControlCall
<1>3. CASE RetryCall
  BY <1>3, AgentUnchanged DEF RetryCall, ControlCall
<1>4. CASE StartThread
  BY <1>4, ThreadStartType DEF StartThread
<1>5. CASE ReadThread
  BY <1>5 DEF ReadThread
<1>6. CASE ResumeThread
  BY <1>6 DEF ResumeThread
<1>7. CASE SettleActive
  <2>1. glitches' \in Nat /\ deaths' \in Nat /\ faults' \in Nat
    BY <1>7, SMTT(30) DEF SettleActive, Glitch, faultVars, AgentTypeOK
  <2>2. UNCHANGED <<session, events, late, nthread, turnVars>>
    BY <1>7 DEF SettleActive
  <2> QED
    BY <2>1, <2>2 DEF AgentTypeOK, turnVars
<1>8. CASE AskTurn
  BY <1>8, TurnStartType DEF AskTurn
<1> QED
  BY <1>1, <1>2, <1>3, <1>4, <1>5, <1>6, <1>7, <1>8

\* The daemon's life and the owner's repairs.
LEMMA LifeAgentType ==
    ASSUME TypeOK, StartDaemon \/ StartupRecover \/ Exit \/ Crash \/ Owner
    PROVE  AgentTypeOK'
<1>1. CASE StartDaemon
  BY <1>1 DEF StartDaemon, TypeOK, AgentTypeOK, turnVars, faultVars
<1>2. CASE StartupRecover
  BY <1>2, AgentUnchanged DEF StartupRecover
<1>3. CASE Exit \/ Crash
  <2>1. ProcessGone /\ events' = <<>> /\ UNCHANGED deaths
    BY <1>3 DEF Exit, Crash, DaemonGone
  <2>2. events' \in Seq(TurnEvents \cup RuntimeEvents)
    BY <2>1, EmptySeq
  <2>3. deaths' \in Nat
    BY <2>1 DEF TypeOK, AgentTypeOK
  <2> QED
    BY <2>1, <2>2, <2>3, ProcessGoneType DEF TypeOK, AgentTypeOK, Owners
<1>4. CASE RepairCreate
  <2>1. nthread' \in 0..MaxThreads
    BY <1>4, StoreAssumption DEF RepairCreate, TypeOK, AgentTypeOK
  <2> QED
    BY <1>4, <2>1 DEF RepairCreate, TypeOK, AgentTypeOK, turnVars, faultVars
<1>5. CASE RepairMark \/ RepairBind \/ RepairUse \/ ResetAtStartup
  BY <1>5, AgentUnchanged DEF RepairMark, RepairBind, RepairUse, ResetAtStartup
<1> QED
  BY <1>1, <1>2, <1>3, <1>4, <1>5 DEF Owner

\* The runtime's variables stay well typed.
LEMMA AgentTypeStep == ASSUME TypeOK, [Next]_vars PROVE AgentTypeOK'
<1>1. CASE Client
  BY <1>1, AgentUnchanged DEF Client, Submit, Note, Control, Resolve, Ask
<1>2. CASE HandleEvent
  BY <1>2, TakenType DEF HandleEvent, OnIgnored, OnItem, OnTurnEnd, OnFault,
     OnQuestionEnd, OnUnavailable, OnReady
<1>3. CASE AppServer
  <2>1. AgentTypeOK
    BY DEF TypeOK
  <2> QED
    BY <1>3, <2>1, AgentStepType DEF AppServer
<1>4. CASE UNCHANGED vars
  BY <1>4, AgentUnchanged DEF vars
<1>5. CASE \/ DispatchNext \/ BindTurn \/ FailTurn \/ ReviewTurn \/ ReviewStatus
           \/ EndControl \/ ResolveLoad \/ RetryFinish \/ ResolveReload \/ ResolveReady
  BY <1>5, AgentUnchanged DEF DispatchNext, BindTurn, FailTurn, ReviewTurn, ReviewStatus,
     EndControl, ResolveLoad, RetryFinish, ResolveReload, ResolveReady
<1>6. CASE \/ RecoverLoad \/ MarkRepair \/ SetRecovering \/ BindNewThread
           \/ ReconcilePrivate \/ ReconcileItems \/ ReconcileControls \/ Recovered
           \/ AskUndo \/ FaultReady \/ FaultStatus \/ LostTurn
  BY <1>6, AgentUnchanged DEF RecoverLoad, MarkRepair, SetRecovering, BindNewThread,
     ReconcilePrivate, ReconcileItems, ReconcileControls, Recovered, AskUndo, FaultReady,
     FaultStatus, LostTurn
<1> QED
  BY <1>1, <1>2, <1>3, <1>4, <1>5, <1>6, CallsAgentType, LifeAgentType DEF Next, Continue

----------------------------------------------------------------------------
\* The effect of each step on the coordinator's memory.

\* coordinatorState and the open question have their types.
StateTypeOK ==
    /\ status \in RoomStates \cup {"boot"}
    /\ threadID \in 0..MaxThreads
    /\ active \in Work \cup {NoMsg}
    /\ activeState \in LiveStates \cup {"none"}
    /\ activeTurn \in 0..MaxTurns
    /\ pending \in [Controls -> {"none", "dispatching", "needs-review"}]
    /\ queue \in Seq(Work)
    /\ question \in Questions \cup {NoMsg}
    /\ questionTurn \in 0..MaxTurns

\* The flags are Boolean.
FlagsTypeOK ==
    /\ fault \in BOOLEAN /\ threadReady \in BOOLEAN /\ readySeen \in BOOLEAN
    /\ uncertain \in BOOLEAN

\* Together they are the type of the memory.
LEMMA MemoryTypeSplit == MemoryTypeOK <=> StateTypeOK /\ FlagsTypeOK
  BY DEF MemoryTypeOK, StateTypeOK, FlagsTypeOK

\* A handler that sets no flag keeps them Boolean.
LEMMA FlagsUnchanged == ASSUME FlagsTypeOK, UNCHANGED flagVars PROVE FlagsTypeOK'
  BY Zenon DEF FlagsTypeOK, flagVars

\* The flags stay Boolean.
LEMMA FlagsTypeStep == ASSUME FlagsTypeOK, [Next]_vars PROVE FlagsTypeOK'
<1>1. CASE Client \/ Owner \/ AppServer \/ StartDaemon \/ StartupRecover
  BY <1>1, FlagsUnchanged DEF Client, Submit, Note, Control, Resolve, Ask, Owner, Offline,
     RepairMark, RepairCreate, RepairBind, RepairBegins, RepairUse, ResetAtStartup, AppServer, StartDaemon,
     StartupRecover
<1>2. CASE Exit \/ Crash
  BY <1>2, Zenon DEF Exit, Crash, DaemonGone, FlagsTypeOK
<1>3. CASE UNCHANGED vars
  BY <1>3, FlagsUnchanged DEF vars
<1>4. CASE \/ DispatchNext \/ StartTurn \/ BindTurn \/ FailTurn \/ ReviewTurn
           \/ ReviewStatus \/ SendControl \/ EndControl \/ ResolveLoad \/ RetryCall
           \/ RetryFinish \/ ResolveReload \/ ResolveReady
  BY <1>4, FlagsUnchanged DEF DispatchNext, StartTurn, BindTurn, FailTurn, ReviewTurn,
     ReviewStatus, SendControl, EndControl, ResolveLoad, RetryCall, RetryFinish,
     ResolveReload, ResolveReady
<1>5. CASE RecoverLoad
  BY <1>5, Zenon DEF RecoverLoad, FlagsTypeOK
<1>6. CASE MarkRepair
  BY <1>6, Zenon DEF MarkRepair, FlagsTypeOK
<1>7. CASE ReconcileControls
  BY <1>7, Zenon DEF ReconcileControls, FlagsTypeOK
<1>8. CASE \/ SetRecovering \/ StartThread \/ BindNewThread \/ ReadThread \/ ResumeThread
           \/ ReconcilePrivate \/ ReconcileItems \/ SettleActive \/ Recovered
           \/ AskTurn \/ AskUndo \/ FaultStatus \/ LostTurn
  BY <1>8, FlagsUnchanged DEF SetRecovering, StartThread, BindNewThread, ReadThread,
     ResumeThread, ReconcilePrivate, ReconcileItems, SettleActive, Recovered, AskTurn,
     AskUndo, FaultStatus, LostTurn
<1>9. CASE FaultReady
  BY <1>9, Zenon DEF FaultReady, FlagsTypeOK
<1>10. CASE OnFault
  BY <1>10, Zenon DEF OnFault, FlagsTypeOK
<1>11. CASE OnUnavailable
  BY <1>11, Zenon DEF OnUnavailable, FlagsTypeOK
<1>12. CASE OnReady
  BY <1>12, Zenon DEF OnReady, FlagsTypeOK
<1>13. CASE OnIgnored \/ OnItem \/ OnTurnEnd \/ OnQuestionEnd
  BY <1>13, FlagsUnchanged DEF OnIgnored, OnItem, OnTurnEnd, OnQuestionEnd
<1> QED
  BY <1>1, <1>2, <1>3, <1>4, <1>5, <1>6, <1>7, <1>8, <1>9, <1>10, <1>11, <1>12, <1>13
     DEF Next, Continue, HandleEvent

\* A handler that leaves the state alone keeps its type.
LEMMA StateUnchanged ==
    ASSUME StateTypeOK, UNCHANGED stateVars, UNCHANGED questionVars
    PROVE  StateTypeOK'
  BY DEF StateTypeOK, stateVars, questionVars

\* loadRecovery copies a well-typed image.
LEMMA LoadImageType ==
    ASSUME TypeOK, LoadImage
    PROVE  /\ threadID' \in 0..MaxThreads
           /\ active' \in Work \cup {NoMsg}
           /\ activeState' \in LiveStates \cup {"none"}
           /\ activeTurn' \in 0..MaxTurns
           /\ pending' \in [Controls -> {"none", "dispatching", "needs-review"}]
           /\ queue' \in Seq(Work)
<1>1. StoreTypeOK
  BY DEF TypeOK
<1>2. PICK m \in FirstAccepted(LiveWork) :
         /\ active' = m
         /\ activeState' = IF m = NoMsg THEN "none" ELSE mstate[m]
         /\ activeTurn' = IF m = NoMsg THEN 0 ELSE mturn[m]
  BY DEF LoadImage
<1>3. m = NoMsg \/ (m \in LiveWork /\ m # NoMsg)
  BY <1>2, StoreAssumption DEF FirstAccepted, LiveWork, Msgs
<1>4. /\ active' \in Work \cup {NoMsg}
      /\ activeState' \in LiveStates \cup {"none"}
      /\ activeTurn' \in 0..MaxTurns
  BY <1>1, <1>2, <1>3, StoreAssumption DEF LiveWork, StoreTypeOK, Msgs
<1>5. queue' \in Seq(Work)
  <2>1. QueuedWork \subseteq Work
    BY DEF QueuedWork
  <2> QED
    BY <2>1, OrderedIsSeq DEF LoadImage
<1>6. pending' \in [Controls -> {"none", "dispatching", "needs-review"}]
  BY DEF LoadImage, PendingControl
<1> QED
  BY <1>1, <1>4, <1>5, <1>6 DEF LoadImage, StoreTypeOK

\* queue[1:] of a queue that is not empty.
LEMMA DequeueType ==
    ASSUME TypeOK, Dequeue,
           call.pc \in {"startTurn", "bindTurn", "failDispatch", "review"}
    PROVE  queue' \in Seq(Work)
  BY HeadTailProperties DEF Dequeue, TypeOK, MemoryTypeOK, HandlerTypeOK

\* The commands of clients keep the state well typed.
LEMMA ClientStateType == ASSUME TypeOK, StateTypeOK, Client PROVE StateTypeOK'
<1>1. ASSUME NEW m \in Prompts, Submit(m) PROVE StateTypeOK'
  <2>1. queue' \in Seq(Work)
    BY <1>1, AppendProperties DEF Submit, StateTypeOK, Work
  <2> QED
    BY <1>1, <2>1 DEF Submit, StateTypeOK, activeVars, questionVars
<1>2. CASE (\E n \in Notes : Note(n)) \/ (\E q \in Questions : Ask(q))
  BY <1>2, StateUnchanged DEF Note, Ask
<1>3. ASSUME NEW c \in Controls, NEW t, Control(c, t) PROVE StateTypeOK'
  BY <1>3 DEF Control, StateTypeOK, activeVars, questionVars
<1>4. ASSUME NEW r, Resolve(r) PROVE StateTypeOK'
  BY <1>4 DEF Resolve, StateTypeOK, activeVars, questionVars, RoomStates
<1> QED
  BY <1>1, <1>2, <1>3, <1>4 DEF Client

\* The links of dispatchNext and handleControl keep the state well typed.
LEMMA TurnStateType ==
    ASSUME TypeOK, StateTypeOK,
           \/ DispatchNext \/ StartTurn \/ BindTurn \/ FailTurn \/ ReviewTurn
           \/ ReviewStatus \/ SendControl \/ EndControl
    PROVE  StateTypeOK'
<1> USE StoreAssumption DEF activeVars, questionVars, RoomStates, LiveStates
<1>1. CASE DispatchNext
  <2>1. active' \in Work \cup {NoMsg}
    BY <1>1, DispatchStoreStep DEF StateTypeOK
  <2>2. /\ activeState' \in LiveStates \cup {"none"}
        /\ activeTurn' \in 0..MaxTurns
    BY <1>1 DEF DispatchNext, StateTypeOK
  <2> QED
    BY <1>1, <2>1, <2>2 DEF DispatchNext, StateTypeOK
<1>2. CASE StartTurn
  BY <1>2 DEF StartTurn, StateTypeOK
<1>3. CASE BindTurn
  <2>1. queue' \in Seq(Work)
    BY <1>3, DequeueType DEF BindTurn, At, StateTypeOK
  <2>2. call.turn \in 0..MaxTurns
    BY <1>3 DEF BindTurn, TypeOK, HandlerTypeOK, Turns
  <2> QED
    BY <1>3, <2>1, <2>2 DEF BindTurn, StateTypeOK
<1>4. CASE FailTurn
  <2>1. queue' \in Seq(Work)
    BY <1>4, DequeueType DEF FailTurn, At, StateTypeOK
  <2> QED
    BY <1>4, <2>1 DEF FailTurn, NoActive, StateTypeOK
<1>5. CASE ReviewTurn
  <2>1. queue' \in Seq(Work)
    BY <1>5, DequeueType DEF ReviewTurn, At, StateTypeOK
  <2> QED
    BY <1>5, <2>1 DEF ReviewTurn, StateTypeOK
<1>6. CASE ReviewStatus
  BY <1>6, StateUnchanged DEF ReviewStatus
<1>7. CASE SendControl
  BY <1>7 DEF SendControl, StateTypeOK
<1>8. CASE EndControl
  BY <1>8 DEF EndControl, StateTypeOK
<1> QED
  BY <1>1, <1>2, <1>3, <1>4, <1>5, <1>6, <1>7, <1>8

\* The links of resolve and recover keep the state well typed.
LEMMA RecoverStateType ==
    ASSUME TypeOK, StateTypeOK,
           \/ ResolveLoad \/ RetryCall \/ RetryFinish \/ ResolveReload \/ ResolveReady
           \/ RecoverLoad \/ MarkRepair \/ SetRecovering \/ StartThread \/ BindNewThread
           \/ ReadThread \/ ResumeThread \/ ReconcilePrivate \/ ReconcileItems
           \/ SettleActive \/ ReconcileControls \/ Recovered
    PROVE  StateTypeOK'
<1> USE StoreAssumption DEF activeVars, questionVars, RoomStates, LiveStates
<1>1. CASE ResolveLoad
  BY <1>1, LoadImageType DEF ResolveLoad, StateTypeOK, stateVars
<1>2. CASE ResolveReload
  BY <1>2, LoadImageType DEF ResolveReload, StateTypeOK, stateVars
<1>3. CASE RecoverLoad
  BY <1>3, LoadImageType DEF RecoverLoad, StateTypeOK
<1>4. CASE \/ RetryCall \/ RetryFinish \/ SetRecovering \/ StartThread \/ ReadThread
           \/ ResumeThread \/ ReconcilePrivate \/ ReconcileItems
  BY <1>4, StateUnchanged DEF RetryCall, RetryFinish, SetRecovering, StartThread,
     ReadThread, ResumeThread, ReconcilePrivate, ReconcileItems
<1>5. CASE ResolveReady \/ MarkRepair \/ Recovered
  BY <1>5 DEF ResolveReady, MarkRepair, Recovered, StateTypeOK
<1>6. CASE BindNewThread
  <2>1. call.turn \in 0..MaxThreads
    BY <1>6 DEF BindNewThread, TypeOK, HandlerTypeOK, Threads
  <2> QED
    BY <1>6, <2>1 DEF BindNewThread, StateTypeOK
<1>7. CASE SettleActive
  BY <1>7 DEF SettleActive, NoActive, StateTypeOK
<1>8. CASE ReconcileControls
  BY <1>8 DEF ReconcileControls, StateTypeOK
<1> QED
  BY <1>1, <1>2, <1>3, <1>4, <1>5, <1>6, <1>7, <1>8

\* The event handlers and the question keep the state well typed.
LEMMA EventStateType ==
    ASSUME TypeOK, StateTypeOK,
           \/ HandleEvent \/ AskTurn \/ AskUndo \/ FaultReady \/ FaultStatus \/ LostTurn
    PROVE  StateTypeOK'
<1> USE StoreAssumption DEF activeVars, questionVars, RoomStates, LiveStates
<1>1. CASE OnIgnored \/ OnItem \/ OnReady \/ FaultStatus
  BY <1>1, StateUnchanged DEF OnIgnored, OnItem, OnReady, FaultStatus
<1>2. CASE OnTurnEnd
  BY <1>2 DEF OnTurnEnd, NoActive, StateTypeOK
<1>3. CASE OnFault
  BY <1>3 DEF OnFault, StateTypeOK
<1>4. CASE OnQuestionEnd
  BY <1>4 DEF OnQuestionEnd, StateTypeOK
<1>5. CASE OnUnavailable
  BY <1>5 DEF OnUnavailable, StateTypeOK
<1>6. CASE FaultReady \/ LostTurn \/ AskUndo
  BY <1>6 DEF FaultReady, LostTurn, AskUndo, StateTypeOK
<1>7. CASE AskTurn
  <2>1. At("askTurn") => call.msg \in Questions
    BY DEF TypeOK, HandlerTypeOK
  <2>2. TurnStarted(call.msg, threadID) => nturn' \in 0..MaxTurns
    BY CallFields, TurnStartType DEF Turns, TypeOK
  <2> QED
    BY <1>7, <2>1, <2>2 DEF AskTurn, StateTypeOK
<1> QED
  BY <1>1, <1>2, <1>3, <1>4, <1>5, <1>6, <1>7 DEF HandleEvent

\* coordinatorState and the open question stay well typed.
LEMMA StateTypeStep == ASSUME TypeOK, [Next]_vars PROVE StateTypeOK'
<1>1. StateTypeOK
  BY MemoryTypeSplit DEF TypeOK
<1>2. CASE Owner \/ AppServer \/ StartDaemon \/ StartupRecover
  BY <1>1, <1>2, StateUnchanged DEF Owner, Offline, RepairMark, RepairCreate, RepairBind, RepairBegins, RepairUse,
     ResetAtStartup, AppServer, StartDaemon, StartupRecover
<1>3. CASE Exit \/ Crash
  <2>1. <<>> \in Seq(Work)
    BY EmptySeq
  <2>2. ZeroMemory.pending \in [Controls -> {"none", "dispatching", "needs-review"}]
    BY DEF ZeroMemory
  <2>3. ZeroMemory.status = "boot"
    BY DEF ZeroMemory
  <2>4. /\ status' = ZeroMemory.status /\ threadID' = 0
        /\ active' = NoMsg /\ activeState' = "none" /\ activeTurn' = 0
        /\ pending' = ZeroMemory.pending /\ queue' = <<>>
        /\ question' = NoMsg /\ questionTurn' = 0
    BY <1>3, Zenon DEF Exit, Crash, DaemonGone, NoActive
  <2> QED
    BY <2>1, <2>2, <2>3, <2>4, StoreAssumption DEF StateTypeOK
<1>4. CASE UNCHANGED vars
  BY <1>1, <1>4, StateUnchanged DEF vars
<1> QED
  BY <1>1, <1>2, <1>3, <1>4, ClientStateType, TurnStateType, RecoverStateType,
     EventStateType DEF Next, Continue

----------------------------------------------------------------------------
\* The effect of each step on the handler under way.

\* The handler finds what it needs.
CallOK ==
    /\ call \in CallRecords
    /\ At("bindTurn") => call.turn \in Turns
    /\ At("bindThread") => call.turn \in Threads
    /\ At("finishControl") \/ At("retryFinish") => call.outcome # "none"
    /\ At("askTurn") => call.msg \in Questions
    /\ call.pc \in {"startTurn", "bindTurn", "failDispatch", "review"} => queue # <<>>

\* The repair under way knows the thread it is about to bind.
RepairsOK ==
    /\ repairs \in [begun : Nat, at : {"none", "start", "bind"}, thread : 0..MaxThreads]
    /\ repairs.at = "bind" => repairs.thread \in Threads

\* The bookkeeping has its types.
BooksOK ==
    /\ hist \in [Turns -> SUBSET HistoryMarks]
    /\ booted \in BOOLEAN
    /\ asked \subseteq Questions
    /\ crashes \in Nat /\ storeFailures \in Nat
    /\ RepairsOK

\* The labels at which CallOK asks for more than the record's type.
Delicate == {"startTurn", "bindTurn", "failDispatch", "review", "bindThread",
             "finishControl", "retryFinish", "askTurn"}
Plain == Labels \ Delicate

\* Together they are the type of the handler.
LEMMA HandlerTypeSplit == HandlerTypeOK <=> CallOK /\ BooksOK
  BY DEF HandlerTypeOK, CallOK, BooksOK, RepairsOK

\* No handler, and a handler that starts.
LEMMA HandlerIsCall ==
    ASSUME NEW l \in Labels, NEW o \in Origins, NEW m \in Owners
    PROVE  /\ Handler(l, o, m) \in CallRecords
           /\ Handler(l, o, m).pc = l /\ Handler(l, o, m).msg = m
           /\ Handler(l, o, m).outcome = "none"
           /\ Idle \in CallRecords /\ Idle.pc = "idle"
           /\ Exiting \in CallRecords /\ Exiting.pc = "exiting"
<1>1. Idle \in CallRecords /\ Idle.pc = "idle" /\ Idle.outcome = "none"
  BY DEF Idle, CallRecords, Labels, Origins, Outcomes
<1>2. Exiting \in CallRecords /\ Exiting.pc = "exiting"
  BY <1>1 DEF Exiting, CallRecords, Labels
<1>3. Handler(l, o, m) \in CallRecords
  BY <1>1 DEF Handler, CallRecords, Owners
<1>4. /\ Handler(l, o, m).pc = l /\ Handler(l, o, m).msg = m
      /\ Handler(l, o, m).outcome = "none"
  BY <1>1 DEF Handler, CallRecords
<1> QED
  BY <1>1, <1>2, <1>3, <1>4

\* At most labels the record's type is enough.
LEMMA PlainIsOK ==
    ASSUME call' \in CallRecords, call'.pc \in Plain
    PROVE  CallOK'
  BY DEF CallOK, Plain, Delicate, At

\* A handler that returns leaves an idle or an exiting coordinator.
LEMMA ReturnIsOK == ASSUME NEW err, Return(err) PROVE CallOK'
<1>1. call' \in {Idle, Exiting}
  BY DEF Return
<1>2. /\ Idle \in CallRecords /\ Idle.pc = "idle"
      /\ Exiting \in CallRecords /\ Exiting.pc = "exiting"
  BY HandlerIsCall DEF Labels, Origins, Owners
<1> QED
  BY <1>1, <1>2, PlainIsOK DEF Plain, Labels, Delicate

\* So does a handler that ends at once.
LEMMA IdleIsOK == ASSUME call' \in {Idle, Exiting} PROVE CallOK'
<1>1. /\ Idle \in CallRecords /\ Idle.pc = "idle"
      /\ Exiting \in CallRecords /\ Exiting.pc = "exiting"
  BY HandlerIsCall DEF Labels, Origins, Owners
<1> QED
  BY <1>1, PlainIsOK DEF Plain, Labels, Delicate

\* A handler that starts at a plain label.
LEMMA HandlerIsOK ==
    ASSUME NEW l \in Plain, NEW o \in Origins, NEW m \in Owners, call' = Handler(l, o, m)
    PROVE  CallOK'
  BY HandlerIsCall, PlainIsOK DEF Plain

\* The next link, with the rest of the record as it was.
LEMMA GotoFields ==
    ASSUME CallOK, NEW l \in Labels, Goto(l)
    PROVE  /\ call' \in CallRecords /\ call'.pc = l
           /\ call'.turn = call.turn /\ call'.outcome = call.outcome
           /\ call'.msg = call.msg
  BY DEF CallOK, Goto, CallRecords

\* The next link is a plain one.
LEMMA GotoIsOK == ASSUME CallOK, NEW l \in Plain, Goto(l) PROVE CallOK'
  BY GotoFields, PlainIsOK DEF Plain

\* A label that is plain by inspection.
LEMMA PlainLabels ==
    /\ {"idle", "exiting", "down", "dispatch", "reviewStatus", "control", "resolveLoad",
        "retry", "resolveReload", "resolveReady", "recover", "markRepair", "setRecovering",
        "startThread", "readThread", "resumeThread", "private", "items", "settle",
        "controls", "recovered", "askUndo", "faultReady", "faultStatus", "lostTurn"}
       \subseteq Plain
    /\ Plain \subseteq Labels /\ Delicate \subseteq Labels
  BY DEF Plain, Delicate, Labels

\* The commands of clients start a handler or none.
LEMMA ClientCallType == ASSUME TypeOK, CallOK, Client PROVE CallOK'
<1> USE PlainLabels
<1>1. ASSUME NEW m \in Prompts, Submit(m) PROVE CallOK'
  BY <1>1, HandlerIsOK DEF Submit, Origins, Owners
<1>2. ASSUME NEW n \in Notes, Note(n) PROVE CallOK'
  BY <1>2 DEF Note, CallOK, At, stateVars
<1>3. ASSUME NEW c \in Controls, NEW t, Control(c, t) PROVE CallOK'
  <2>1. c \in Owners
    BY DEF Owners, Msgs
  <2>2. CASE call' = Handler("control", "command", c)
    BY <2>1, <2>2, HandlerIsOK DEF Origins
  <2>3. CASE call' = [Handler("finishControl", "command", c) EXCEPT !.outcome = "failed"]
    <3>1. Handler("finishControl", "command", c) \in CallRecords
          /\ Handler("finishControl", "command", c).pc = "finishControl"
      BY <2>1, HandlerIsCall DEF Labels, Origins
    <3>2. /\ call' \in CallRecords /\ call'.pc = "finishControl"
          /\ call'.outcome = "failed"
      BY <2>3, <3>1 DEF CallRecords, Outcomes
    <3> QED
      BY <3>2 DEF CallOK, At
  <2> QED
    BY <1>3, <2>2, <2>3 DEF Control
<1>4. ASSUME NEW r \in Recovers, Resolve(r) PROVE CallOK'
  <2>1. \E c \in Controls \cup {NoMsg} : AfterDecision(c)
    BY <1>4 DEF Resolve
  <2>2. Controls \cup {NoMsg} \subseteq Owners
    BY DEF Owners, Msgs
  <2> QED
    BY <2>1, <2>2, HandlerIsOK, IdleIsOK DEF AfterDecision, Origins
<1>5. ASSUME NEW q \in Questions, Ask(q) PROVE CallOK'
  <2>1. q \in Owners
    BY DEF Owners
  <2>2. call' = Handler("askTurn", "command", q)
    BY <1>5 DEF Ask
  <2>3. call' \in CallRecords /\ call'.pc = "askTurn" /\ call'.msg = q
    BY <2>1, <2>2, HandlerIsCall DEF Labels, Origins
  <2> QED
    BY <2>3 DEF CallOK, At
<1> QED
  BY <1>1, <1>2, <1>3, <1>4, <1>5 DEF Client

\* The links of dispatchNext.
LEMMA TurnCallType ==
    ASSUME TypeOK, CallOK,
           DispatchNext \/ StartTurn \/ BindTurn \/ FailTurn \/ ReviewTurn \/ ReviewStatus
    PROVE  CallOK'
<1> USE PlainLabels, ReturnIsOK, GotoIsOK
<1>1. CASE DispatchNext
  <2>1. CASE Goto("startTurn") /\ CanDispatch /\ UNCHANGED queue
    <3>1. call' \in CallRecords /\ call'.pc = "startTurn"
      BY <2>1, GotoFields DEF Delicate
    <3> QED
      BY <2>1, <3>1 DEF CallOK, At, CanDispatch
  <2> QED
    BY <1>1, <2>1 DEF DispatchNext
<1>2. CASE StartTurn
  <2>0. queue # <<>> /\ UNCHANGED queue
    BY <1>2 DEF StartTurn, CallOK, At
  <2>1. CASE /\ TurnStarted(active, threadID)
             /\ call' = [call EXCEPT !.pc = "bindTurn", !.turn = nturn']
    <3>1. nturn' \in Turns
      BY <2>1, CallFields, TurnStartType DEF TypeOK
    <3>2. nturn' \in Nat /\ "bindTurn" \in Labels
      BY <3>1 DEF Turns, Labels
    <3>3. /\ call' \in CallRecords /\ call'.pc = "bindTurn" /\ call'.turn \in Turns
      BY <2>1, <3>1, <3>2 DEF CallOK, CallRecords
    <3> QED
      BY <2>0, <3>3 DEF CallOK, At
  <2>2. CASE Goto("failDispatch") \/ Goto("review")
    <3>1. call' \in CallRecords /\ call'.pc \in {"failDispatch", "review"}
      BY <2>2, GotoFields DEF Delicate
    <3> QED
      BY <2>0, <3>1 DEF CallOK, At
  <2>3. CASE call' = [call EXCEPT !.pc = "review", !.expired = TRUE]
    <3>1. call' \in CallRecords /\ call'.pc = "review"
      BY <2>3, ZenonT(30) DEF CallOK, CallRecords, Labels
    <3> QED
      BY <2>0, <3>1 DEF CallOK, At
  <2>4. CASE call' = [call EXCEPT !.pc = "failDispatch", !.expired = TRUE]
    <3>1. call' \in CallRecords /\ call'.pc = "failDispatch"
      BY <2>4, ZenonT(30) DEF CallOK, CallRecords, Labels
    <3> QED
      BY <2>0, <3>1 DEF CallOK, At
  <2> QED
    BY <1>2, <2>1, <2>2, <2>3, <2>4 DEF StartTurn
<1>3. CASE BindTurn
  BY <1>3 DEF BindTurn
<1>4. CASE FailTurn
  <2>1. CASE call' = [call EXCEPT !.pc = "dispatch", !.notSent = TRUE]
    <3>1. call' \in CallRecords /\ call'.pc = "dispatch"
      BY <2>1, ZenonT(30) DEF CallOK, CallRecords, Labels
    <3> QED
      BY <3>1, PlainIsOK
  <2> QED
    BY <1>4, <2>1 DEF FailTurn
<1>5. CASE ReviewTurn
  BY <1>5 DEF ReviewTurn
<1>6. CASE ReviewStatus
  BY <1>6 DEF ReviewStatus
<1> QED
  BY <1>1, <1>2, <1>3, <1>4, <1>5, <1>6

\* A control or retry call ends with an outcome.
LEMMA ControlCallType ==
    ASSUME CallOK, NEW l \in Labels, ControlCall(l)
    PROVE  call' \in CallRecords /\ call'.pc = l /\ call'.outcome # "none"
<1>1. CASE \E o \in Outcomes \ {"none"} : call' = [call EXCEPT !.pc = l, !.outcome = o]
  BY <1>1 DEF CallOK, CallRecords
<1>2. CASE call' = [call EXCEPT !.pc = l, !.expired = TRUE, !.outcome = "needs-review"]
  BY <1>2 DEF CallOK, CallRecords, Outcomes
<1>3. CASE call' = [call EXCEPT !.pc = l, !.expired = TRUE, !.outcome = "failed"]
  BY <1>3 DEF CallOK, CallRecords, Outcomes
<1> QED
  BY <1>1, <1>2, <1>3 DEF ControlCall, Outcomes

\* The links of handleControl and resolve.
LEMMA ControlCallStep ==
    ASSUME TypeOK, CallOK,
           \/ SendControl \/ EndControl \/ ResolveLoad \/ RetryCall \/ RetryFinish
           \/ ResolveReload \/ ResolveReady
    PROVE  CallOK'
<1> USE PlainLabels, ReturnIsOK, GotoIsOK
<1>1. CASE SendControl
  <2>1. /\ call' \in CallRecords /\ call'.pc = "finishControl" /\ call'.outcome # "none"
    BY <1>1, ControlCallType DEF SendControl, Delicate
  <2> QED
    BY <2>1 DEF CallOK, At
<1>2. CASE EndControl
  BY <1>2 DEF EndControl
<1>3. CASE ResolveLoad
  BY <1>3 DEF ResolveLoad
<1>4. CASE RetryCall
  <2>1. CASE call' = [call EXCEPT !.pc = "retryFinish", !.outcome = "failed"]
    BY <2>1 DEF CallOK, At, CallRecords, Outcomes, Labels
  <2>2. CASE ControlCall("retryFinish")
    <3>1. /\ call' \in CallRecords /\ call'.pc = "retryFinish" /\ call'.outcome # "none"
      BY <2>2, ControlCallType DEF Delicate
    <3> QED
      BY <3>1 DEF CallOK, At
  <2> QED
    BY <1>4, <2>1, <2>2 DEF RetryCall
<1>5. CASE RetryFinish
  BY <1>5 DEF RetryFinish
<1>6. CASE ResolveReload
  BY <1>6 DEF ResolveReload
<1>7. CASE ResolveReady
  BY <1>7 DEF ResolveReady
<1> QED
  BY <1>1, <1>2, <1>3, <1>4, <1>5, <1>6, <1>7

\* The links of recover.
LEMMA RecoverCallStep ==
    ASSUME TypeOK, CallOK,
           \/ RecoverLoad \/ MarkRepair \/ SetRecovering \/ StartThread \/ BindNewThread
           \/ ReadThread \/ ResumeThread \/ ReconcilePrivate \/ ReconcileItems
           \/ SettleActive \/ ReconcileControls \/ Recovered
    PROVE  CallOK'
<1> USE PlainLabels, ReturnIsOK, GotoIsOK
<1>0. CASE call' = [call EXCEPT !.pc = "markRepair", !.expired = TRUE]
  <2>1. call' \in CallRecords /\ call'.pc = "markRepair"
    BY <1>0, ZenonT(30) DEF CallOK, CallRecords, Labels
  <2> QED
    BY <2>1, PlainIsOK
<1>1. CASE RecoverLoad
  BY <1>1 DEF RecoverLoad
<1>2. CASE MarkRepair
  BY <1>2 DEF MarkRepair
<1>3. CASE SetRecovering
  BY <1>3 DEF SetRecovering
<1>4. CASE StartThread
  <2>1. CASE ThreadStarted /\ call' = [call EXCEPT !.pc = "bindThread", !.turn = nthread']
    <3>1. nthread' \in Threads
      BY <2>1, ThreadStartType DEF TypeOK
    <3>2. nthread' \in Nat /\ "bindThread" \in Labels
      BY <3>1 DEF Threads, Labels
    <3>3. /\ call' \in CallRecords /\ call'.pc = "bindThread" /\ call'.turn \in Threads
      BY <2>1, <3>1, <3>2 DEF CallOK, CallRecords
    <3> QED
      BY <3>3 DEF CallOK, At
  <2> QED
    BY <1>0, <1>4, <2>1 DEF StartThread
<1>5. CASE BindNewThread
  BY <1>5 DEF BindNewThread
<1>6. CASE ReadThread
  BY <1>0, <1>6 DEF ReadThread
<1>7. CASE ResumeThread
  BY <1>7 DEF ResumeThread
<1>8. CASE ReconcilePrivate
  BY <1>8 DEF ReconcilePrivate
<1>9. CASE ReconcileItems
  <2>1. CASE UNCHANGED call /\ UNCHANGED queue
    BY <2>1 DEF CallOK, At
  <2> QED
    BY <1>9, <2>1 DEF ReconcileItems, stateVars
<1>10. CASE SettleActive
  BY <1>10 DEF SettleActive
<1>11. CASE ReconcileControls
  <2>1. CASE UNCHANGED call /\ UNCHANGED queue
    BY <2>1 DEF CallOK, At
  <2> QED
    BY <1>11, <2>1 DEF ReconcileControls
<1>12. CASE Recovered
  BY <1>12 DEF Recovered
<1> QED
  BY <1>1, <1>2, <1>3, <1>4, <1>5, <1>6, <1>7, <1>8, <1>9, <1>10, <1>11, <1>12

\* The links of the question and the event handlers.
LEMMA EventCallStep ==
    ASSUME TypeOK, CallOK,
           \/ HandleEvent \/ AskTurn \/ AskUndo \/ FaultReady \/ FaultStatus \/ LostTurn
    PROVE  CallOK'
<1> USE PlainLabels, IdleIsOK, GotoIsOK
<1>0. ASSUME NEW l \in Plain, NEW o \in Origins, call' = Handler(l, o, NoMsg)
      PROVE  CallOK'
  BY <1>0, HandlerIsOK DEF Owners
<1>1. CASE UNCHANGED call /\ UNCHANGED queue
  BY <1>1 DEF CallOK, At
<1>2. CASE OnIgnored \/ OnItem
  BY <1>1, <1>2 DEF OnIgnored, OnItem, stateVars
<1>3. CASE OnTurnEnd
  BY <1>0, <1>3 DEF OnTurnEnd, AfterTurn, Origins
<1>4. CASE OnFault
  BY <1>0, <1>4 DEF OnFault, Origins
<1>5. CASE OnQuestionEnd
  BY <1>0, <1>5 DEF OnQuestionEnd, Origins
<1>6. CASE OnUnavailable
  BY <1>0, <1>1, <1>6 DEF OnUnavailable, Origins
<1>7. CASE OnReady
  BY <1>0, <1>7 DEF OnReady, Origins
<1>8. CASE AskTurn
  BY <1>8 DEF AskTurn
<1>9. CASE AskUndo \/ FaultReady \/ FaultStatus \/ LostTurn
  BY <1>9 DEF AskUndo, FaultReady, FaultStatus, LostTurn
<1> QED
  BY <1>2, <1>3, <1>4, <1>5, <1>6, <1>7, <1>8, <1>9 DEF HandleEvent

\* The handler under way finds what it needs after every step.
LEMMA CallTypeStep == ASSUME TypeOK, [Next]_vars PROVE CallOK'
<1>1. CallOK
  BY HandlerTypeSplit DEF TypeOK
<1>2. CASE UNCHANGED call /\ UNCHANGED queue
  BY <1>1, <1>2 DEF CallOK, At
<1>3. CASE Owner \/ AppServer \/ UNCHANGED vars
  BY <1>2, <1>3 DEF Owner, Offline, RepairMark, RepairCreate, RepairBind, RepairBegins, RepairUse, ResetAtStartup,
     AppServer, vars, stateVars
<1>4. CASE StartDaemon
  BY <1>4, IdleIsOK DEF StartDaemon
<1>5. CASE StartupRecover
  BY <1>5, HandlerIsOK, PlainLabels DEF StartupRecover, Origins, Owners
<1>6. CASE Exit \/ Crash
  <2>1. call' = [Idle EXCEPT !.pc = "down"]
    BY <1>6 DEF Exit, Crash, DaemonGone
  <2>2. Idle \in CallRecords /\ "down" \in Labels
    BY HandlerIsCall DEF Labels, Origins, Owners
  <2>3. call' \in CallRecords /\ call'.pc = "down"
    BY <2>1, <2>2 DEF CallRecords
  <2> QED
    BY <2>3, PlainIsOK, PlainLabels
<1> QED
  BY <1>1, <1>3, <1>4, <1>5, <1>6, ClientCallType, TurnCallType, ControlCallStep,
     RecoverCallStep, EventCallStep DEF Next, Continue

\* A transaction, failed or not, counts to a natural number.
LEMMA StoreCounts ==
    ASSUME storeFailures \in Nat, StoreOk \/ StoreFails \/ UNCHANGED storeFailures
    PROVE  storeFailures' \in Nat
  BY DEF StoreOk, StoreFails

\* What recover has been told stays a set of marks.
LEMMA HistTypeStep ==
    ASSUME TypeOK, hist' \in {hist, Told, ZeroMemory.hist}
    PROVE  hist' \in [Turns -> SUBSET HistoryMarks]
<1>1. hist \in [Turns -> SUBSET HistoryMarks]
  BY DEF TypeOK, HandlerTypeOK
<1>2. Told \in [Turns -> SUBSET HistoryMarks]
  <2>1. \A t \in History(threadID) : tstate[t] \in HistoryMarks
    BY StoreAssumption DEF TypeOK, AgentTypeOK, History, TurnStates, HistoryMarks, Turns
  <2>2. "item" \in HistoryMarks
    BY DEF HistoryMarks
  <2> QED
    BY <1>1, <2>1, <2>2 DEF Told
<1>3. ZeroMemory.hist \in [Turns -> SUBSET HistoryMarks]
  BY DEF ZeroMemory
<1> QED
  BY <1>1, <1>2, <1>3

\* Each step changes the history only in one of these ways.
LEMMA HistSteps == ASSUME TypeOK, [Next]_vars PROVE hist' \in {hist, Told, ZeroMemory.hist}
<1>1. CASE \/ Client \/ Owner \/ HandleEvent \/ AppServer \/ StartDaemon
           \/ StartupRecover \/ UNCHANGED vars
  BY <1>1 DEF Client, Submit, Note, Control, Resolve, Ask, Owner, Offline, RepairMark,
     RepairCreate, RepairBind, RepairBegins, RepairUse, ResetAtStartup, HandleEvent, OnIgnored, OnItem, OnTurnEnd,
     OnFault, OnQuestionEnd, OnUnavailable, OnReady, AppServer, StartDaemon,
     StartupRecover, vars
<1>2. CASE Exit \/ Crash
  BY <1>2 DEF Exit, Crash, DaemonGone
<1>3. CASE \/ DispatchNext \/ StartTurn \/ BindTurn \/ FailTurn \/ ReviewTurn
           \/ ReviewStatus \/ SendControl \/ EndControl \/ ResolveLoad \/ RetryCall
           \/ RetryFinish \/ ResolveReload \/ ResolveReady
  BY <1>3 DEF DispatchNext, StartTurn, BindTurn, FailTurn, ReviewTurn, ReviewStatus,
     SendControl, EndControl, ResolveLoad, RetryCall, RetryFinish, ResolveReload,
     ResolveReady
<1>4. CASE \/ RecoverLoad \/ MarkRepair \/ SetRecovering \/ StartThread \/ BindNewThread
           \/ ReadThread \/ ResumeThread
  BY <1>4 DEF RecoverLoad, MarkRepair, SetRecovering, StartThread, BindNewThread,
     ReadThread, ResumeThread
<1>5. CASE \/ ReconcilePrivate \/ ReconcileItems \/ SettleActive \/ ReconcileControls
           \/ Recovered \/ AskTurn \/ AskUndo \/ FaultReady \/ FaultStatus \/ LostTurn
  BY <1>5 DEF ReconcilePrivate, ReconcileItems, SettleActive, ReconcileControls, Recovered,
     AskTurn, AskUndo, FaultReady, FaultStatus, LostTurn
<1> QED
  BY <1>1, <1>2, <1>3, <1>4, <1>5 DEF Next, Continue

\* The counters stay natural numbers.
LEMMA CounterSteps ==
    ASSUME TypeOK, [Next]_vars
    PROVE  crashes' \in Nat /\ storeFailures' \in Nat
<1>0. crashes \in Nat /\ storeFailures \in Nat
  BY DEF TypeOK, HandlerTypeOK
<1> USE StoreCounts, <1>0
<1>1. CASE Client \/ AppServer \/ StartDaemon \/ StartupRecover \/ UNCHANGED vars
  BY <1>1 DEF Client, Submit, Note, Control, Resolve, Ask, AppServer, StartDaemon,
     StartupRecover, vars, boundVars
<1>2. CASE Exit \/ Crash
  BY <1>2 DEF Exit, Crash, DaemonGone
<1>3. CASE Owner
  BY <1>3 DEF Owner, Offline, RepairMark, RepairCreate, RepairBind, RepairBegins, RepairUse, ResetAtStartup
<1>4. CASE \/ DispatchNext \/ StartTurn \/ BindTurn \/ FailTurn \/ ReviewTurn
           \/ ReviewStatus \/ SendControl \/ EndControl
  BY <1>4 DEF DispatchNext, StartTurn, BindTurn, FailTurn, ReviewTurn, ReviewStatus,
     SendControl, EndControl, boundVars
<1>5. CASE \/ ResolveLoad \/ RetryCall \/ RetryFinish \/ ResolveReload \/ ResolveReady
  BY <1>5 DEF ResolveLoad, RetryCall, RetryFinish, ResolveReload, ResolveReady, boundVars
<1>6. CASE \/ RecoverLoad \/ MarkRepair \/ SetRecovering \/ StartThread \/ BindNewThread
           \/ ReadThread \/ ResumeThread
  BY <1>6 DEF RecoverLoad, MarkRepair, SetRecovering, StartThread, BindNewThread,
     ReadThread, ResumeThread, boundVars
<1>7. CASE \/ ReconcilePrivate \/ ReconcileItems \/ SettleActive \/ ReconcileControls
           \/ Recovered \/ AskTurn \/ AskUndo \/ FaultReady \/ FaultStatus \/ LostTurn
  BY <1>7 DEF ReconcilePrivate, ReconcileItems, SettleActive, ReconcileControls, Recovered,
     AskTurn, AskUndo, FaultReady, FaultStatus, LostTurn, boundVars
<1>8. CASE HandleEvent
  BY <1>8 DEF HandleEvent, OnIgnored, OnItem, OnTurnEnd, OnFault, OnQuestionEnd,
     OnUnavailable, OnReady, boundVars
<1> QED
  BY <1>1, <1>2, <1>3, <1>4, <1>5, <1>6, <1>7, <1>8 DEF Next, Continue

\* Only the owner touches the account of repairs.
LEMMA RepairsKept == ASSUME [Next]_vars PROVE Owner \/ UNCHANGED repairs
<1>1. CASE Client \/ AppServer \/ StartDaemon \/ StartupRecover \/ UNCHANGED vars
  BY <1>1 DEF Client, Submit, Note, Control, Resolve, Ask, AppServer, StartDaemon,
     StartupRecover, vars, boundVars
<1>2. CASE Exit \/ Crash
  BY <1>2 DEF Exit, Crash, DaemonGone
<1>3. CASE \/ DispatchNext \/ StartTurn \/ BindTurn \/ FailTurn \/ ReviewTurn
           \/ ReviewStatus \/ SendControl \/ EndControl
  BY <1>3 DEF DispatchNext, StartTurn, BindTurn, FailTurn, ReviewTurn, ReviewStatus,
     SendControl, EndControl, boundVars
<1>4. CASE \/ ResolveLoad \/ RetryCall \/ RetryFinish \/ ResolveReload \/ ResolveReady
  BY <1>4 DEF ResolveLoad, RetryCall, RetryFinish, ResolveReload, ResolveReady, boundVars
<1>5. CASE \/ RecoverLoad \/ MarkRepair \/ SetRecovering \/ StartThread \/ BindNewThread
           \/ ReadThread \/ ResumeThread
  BY <1>5 DEF RecoverLoad, MarkRepair, SetRecovering, StartThread, BindNewThread,
     ReadThread, ResumeThread, boundVars
<1>6. CASE \/ ReconcilePrivate \/ ReconcileItems \/ SettleActive \/ ReconcileControls
           \/ Recovered \/ AskTurn \/ AskUndo \/ FaultReady \/ FaultStatus \/ LostTurn
  BY <1>6 DEF ReconcilePrivate, ReconcileItems, SettleActive, ReconcileControls, Recovered,
     AskTurn, AskUndo, FaultReady, FaultStatus, LostTurn, boundVars
<1>7. CASE HandleEvent
  BY <1>7 DEF HandleEvent, OnIgnored, OnItem, OnTurnEnd, OnFault, OnQuestionEnd,
     OnUnavailable, OnReady, boundVars
<1> QED
  BY <1>1, <1>2, <1>3, <1>4, <1>5, <1>6, <1>7 DEF Next, Continue

\* The account of repairs stays well typed.
LEMMA RepairsStep == ASSUME TypeOK, [Next]_vars PROVE RepairsOK'
<1> DEFINE Links == {"none", "start", "bind"}
<1>0. RepairsOK /\ nthread \in Nat /\ MaxThreads \in Nat
  BY StoreAssumption DEF TypeOK, HandlerTypeOK, AgentTypeOK, RepairsOK
<1>1. /\ repairs.begun \in Nat /\ repairs.at \in Links /\ repairs.thread \in 0..MaxThreads
      /\ repairs = [begun |-> repairs.begun, at |-> repairs.at, thread |-> repairs.thread]
  BY <1>0 DEF RepairsOK
<1>2. ASSUME NEW b \in Nat, NEW l \in Links, NEW th \in 0..MaxThreads,
             repairs' = [begun |-> b, at |-> l, thread |-> th], l = "bind" => th \in Threads
      PROVE  RepairsOK'
  BY <1>2 DEF RepairsOK
<1>3. CASE UNCHANGED repairs
  BY <1>0, <1>3 DEF RepairsOK
<1>4. CASE RepairMark \/ RepairUse \/ ResetAtStartup
  <2>1. PICK l \in {"start", "none"} : repairs' = [repairs EXCEPT !.begun = @ + 1, !.at = l]
    BY <1>4 DEF RepairMark, RepairUse, ResetAtStartup, RepairBegins
  <2>2. repairs' = [begun |-> repairs.begun + 1, at |-> l, thread |-> repairs.thread]
    BY <1>1, <2>1
  <2> QED
    BY <1>1, <1>2, <2>2
<1>5. CASE RepairCreate \/ RepairBind
  <2>1. CASE RepairEnds
    <3>1. repairs' = [begun |-> repairs.begun, at |-> "none", thread |-> 0]
      BY <1>1, <2>1 DEF RepairEnds
    <3> QED
      BY <1>0, <1>1, <1>2, <3>1
  <2>2. CASE nthread < MaxThreads /\ repairs' = [repairs EXCEPT !.at = "bind", !.thread = nthread + 1]
    <3>1. repairs' = [begun |-> repairs.begun, at |-> "bind", thread |-> nthread + 1]
      BY <1>1, <2>2
    <3>2. nthread + 1 \in Threads /\ nthread + 1 \in 0..MaxThreads
      BY <1>0, <2>2 DEF Threads
    <3> QED
      BY <1>1, <1>2, <3>1, <3>2
  <2> QED
    BY <1>5, <2>1, <2>2 DEF RepairCreate, RepairBind
<1> QED
  BY <1>3, <1>4, <1>5, RepairsKept DEF Owner

\* booted stays Boolean and only questions are asked.
LEMMA BootedAskedSteps ==
    ASSUME TypeOK, [Next]_vars
    PROVE  booted' \in BOOLEAN /\ asked' \subseteq Questions
<1>0. booted \in BOOLEAN /\ asked \subseteq Questions
  BY DEF TypeOK, HandlerTypeOK
<1>1. CASE UNCHANGED <<booted, asked>>
  BY <1>0, <1>1
<1>2. CASE StartupRecover
  <2>1. booted' = TRUE /\ UNCHANGED asked
    BY <1>2 DEF StartupRecover
  <2> QED
    BY <1>0, <2>1
<1>3. CASE Exit \/ Crash
  <2>1. booted' = FALSE /\ UNCHANGED asked
    BY <1>3 DEF Exit, Crash, DaemonGone
  <2> QED
    BY <1>0, <2>1
<1>4. ASSUME NEW q \in Questions, Ask(q) PROVE booted' \in BOOLEAN /\ asked' \subseteq Questions
  BY <1>0, <1>4 DEF Ask
<1>5. CASE \/ Owner \/ HandleEvent \/ AppServer \/ StartDaemon \/ UNCHANGED vars
           \/ (\E m \in Prompts : Submit(m)) \/ (\E n \in Notes : Note(n))
           \/ (\E c \in Controls, t \in 1..nturn : Control(c, t))
           \/ (\E r \in Recovers : Resolve(r))
  BY <1>1, <1>5 DEF Submit, Note, Control, Resolve, Owner, Offline, RepairMark,
     RepairCreate, RepairBind, RepairBegins, RepairUse, ResetAtStartup, HandleEvent, OnIgnored, OnItem, OnTurnEnd,
     OnFault, OnQuestionEnd, OnUnavailable, OnReady, AppServer, StartDaemon, vars
<1>6. CASE \/ DispatchNext \/ StartTurn \/ BindTurn \/ FailTurn \/ ReviewTurn
           \/ ReviewStatus \/ SendControl \/ EndControl \/ ResolveLoad \/ RetryCall
           \/ RetryFinish \/ ResolveReload \/ ResolveReady
  BY <1>1, <1>6 DEF DispatchNext, StartTurn, BindTurn, FailTurn, ReviewTurn, ReviewStatus,
     SendControl, EndControl, ResolveLoad, RetryCall, RetryFinish, ResolveReload,
     ResolveReady
<1>7. CASE \/ RecoverLoad \/ MarkRepair \/ SetRecovering \/ StartThread \/ BindNewThread
           \/ ReadThread \/ ResumeThread \/ ReconcilePrivate \/ ReconcileItems
           \/ SettleActive \/ ReconcileControls \/ Recovered \/ AskTurn \/ AskUndo
           \/ FaultReady \/ FaultStatus \/ LostTurn
  BY <1>1, <1>7 DEF RecoverLoad, MarkRepair, SetRecovering, StartThread, BindNewThread,
     ReadThread, ResumeThread, ReconcilePrivate, ReconcileItems, SettleActive,
     ReconcileControls, Recovered, AskTurn, AskUndo, FaultReady, FaultStatus, LostTurn
<1> QED
  BY <1>2, <1>3, <1>4, <1>5, <1>6, <1>7 DEF Next, Client, Continue

\* A daemon that is not running is well typed.
LEMMA InitType == Init => TypeOK
<1> SUFFICES ASSUME Init PROVE TypeOK
  OBVIOUS
<1>1. StoreTypeOK /\ AgentTypeOK
  BY StoreInitType, AgentInitType DEF Init
<1>2. FlagsTypeOK
  BY Zenon DEF Init, FlagsTypeOK
<1>3. StateTypeOK
  <2>1. <<>> \in Seq(Work)
    BY EmptySeq
  <2>2. /\ status = "boot" /\ threadID = 0
        /\ active = NoMsg /\ activeState = "none" /\ activeTurn = 0
        /\ pending = [c \in Controls |-> "none"] /\ queue = <<>>
        /\ question = NoMsg /\ questionTurn = 0
    BY DEF Init, ZeroMemory
  <2> QED
    BY <2>1, <2>2, StoreAssumption DEF StateTypeOK
<1>4. CallOK
  <2>1. call = [Idle EXCEPT !.pc = "down"]
    BY DEF Init
  <2>2. Idle \in CallRecords /\ "down" \in Labels
    BY HandlerIsCall DEF Labels, Origins, Owners
  <2>3. call \in CallRecords /\ call.pc = "down"
    BY <2>1, <2>2 DEF CallRecords
  <2> QED
    BY <2>3 DEF CallOK, At
<1>5. BooksOK
  <2>1. booted \in BOOLEAN
    BY Zenon DEF Init
  <2>2. hist \in [Turns -> SUBSET HistoryMarks]
    BY DEF Init, ZeroMemory
  <2>3. asked = {} /\ crashes = 0 /\ storeFailures = 0
    BY Zenon DEF Init
  <2>4. repairs = [begun |-> 0, at |-> "none", thread |-> 0]
    BY Zenon DEF Init
  <2>5. RepairsOK
    BY <2>4, StoreAssumption DEF RepairsOK
  <2> QED
    BY <2>1, <2>2, <2>3, <2>5 DEF BooksOK
<1> QED
  BY <1>1, <1>2, <1>3, <1>4, <1>5, MemoryTypeSplit, HandlerTypeSplit DEF TypeOK

\* Every step keeps every variable well typed.
LEMMA TypeStep == ASSUME TypeOK, [Next]_vars PROVE TypeOK'
<1>1. FlagsTypeOK
  BY MemoryTypeSplit DEF TypeOK
<1>2. StateTypeOK' /\ FlagsTypeOK'
  BY <1>1, StateTypeStep, FlagsTypeStep
<1>3. MemoryTypeOK'
  BY <1>2 DEF MemoryTypeOK, StateTypeOK, FlagsTypeOK
<1>4. BooksOK'
  BY HistSteps, HistTypeStep, CounterSteps, RepairsStep, BootedAskedSteps DEF BooksOK
<1>5. HandlerTypeOK'
  BY <1>4, CallTypeStep DEF HandlerTypeOK, CallOK, BooksOK, RepairsOK
<1> QED
  BY <1>3, <1>5, StoreTypeStep, AgentTypeStep DEF TypeOK

\* Type correctness: whatever the clients, the App Server, the database and
\* crashes do, every row and every field keeps its type, and each handler
\* finds the turn, thread, outcome and queue head it goes on with.
THEOREM TypeCorrect == Spec => []TypeOK
  BY InitType, TypeStep, PTL DEF Spec
=============================================================================
