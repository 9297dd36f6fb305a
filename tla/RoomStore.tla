----------------------------- MODULE RoomStore -----------------------------
(***************************************************************************)
(* The durable half of a room: the rows of internal/store (SQLite) that    *)
(* the coordinator reads and writes, and the transactions over them.  Each *)
(* Go method is one SQL transaction (Store.transact), so it is one action  *)
(* here: a guard, the rows it changes, and UNCHANGED for the tables it     *)
(* leaves alone.  A failed transaction has no effect.                      *)
(*                                                                         *)
(* Message bodies, actors and digests are abstracted away.  A message is   *)
(* its client message id; a turn and a thread are numbered in the order    *)
(* the App Server creates them, and 0 is SQL NULL.  accepted_seq is kept   *)
(* for the rows whose order matters (kind prompt or recovery-prompt).      *)
(***************************************************************************)
EXTENDS Integers, Sequences, FiniteSets

CONSTANTS
    Prompts,        \* client ids of messages of kind "prompt"
    Replacements,   \* client ids of messages of kind "recovery-prompt"
    Controls,       \* client ids of steer and cancel controls
    Notes,          \* client ids of notes
    Recovers,       \* client ids of /recover decisions
    NoMsg,          \* "no message"
    MaxTurns,       \* bound: turns the App Server may create
    MaxThreads      \* bound: threads the App Server may create

Work    == Prompts \cup Replacements
Msgs    == Work \cup Controls \cup Notes
Turns   == 1..MaxTurns
Threads == 1..MaxThreads

ASSUME StoreAssumption ==
    /\ IsFiniteSet(Work)
    /\ MaxTurns \in Nat
    /\ MaxThreads \in Nat
    /\ NoMsg \notin Msgs
    /\ Prompts \cap Replacements = {}
    /\ Work \cap Controls = {}
    /\ Notes \cap (Work \cup Controls) = {}

Terminal == {"completed", "failed", "interrupted"}
LiveStates == {"dispatching", "running", "needs-review"}
RequestStates == {"absent", "queued"} \cup LiveStates \cup Terminal

VARIABLES
    mstate,     \* messages.state = turn_bindings.state ("absent": no row)
    mturn,      \* turn_bindings.codex_turn_id
    mseq,       \* messages.accepted_seq of work, in acceptance order
    dbStatus,   \* rooms.status
    dbThread,   \* rooms.codex_thread_id
    recorded,   \* turns with an item/completed row in room_events
    frontier,   \* thread of the private_turn_frontiers row, 0 if none
    baseline,   \* its baseline turns
    hidden,     \* turns in private_turns
    rtarget,    \* recovery_results.target_message_id
    raction     \* recovery_results.action ("none": not decided)

messageRows == <<mstate, mturn, mseq>>
roomRow     == <<dbStatus, dbThread>>
privateRows == <<frontier, baseline, hidden>>
reviewRows  == <<rtarget, raction>>
storeVars   == <<messageRows, roomRow, recorded, privateRows, reviewRows>>

RoomStates == {"ready", "recovering", "thread-needs-repair"}
Actions == {"none", "retry", "skip", "continue"}

StoreTypeOK ==
    /\ mstate \in [Msgs -> RequestStates]
    /\ mturn \in [Msgs -> 0..MaxTurns]
    /\ mseq \in [Work -> Nat]
    /\ dbStatus \in RoomStates
    /\ dbThread \in 0..MaxThreads
    /\ recorded \subseteq Turns
    /\ frontier \in 0..MaxThreads
    /\ baseline \subseteq Turns
    /\ hidden \subseteq Turns
    /\ rtarget \in [Recovers -> Msgs \cup {NoMsg}]
    /\ raction \in [Recovers -> Actions]

StoreInit ==
    /\ mstate = [m \in Msgs |-> "absent"]
    /\ mturn = [m \in Msgs |-> 0]
    /\ mseq = [m \in Work |-> 0]
    /\ dbStatus = "ready"
    /\ dbThread = 0
    /\ recorded = {}
    /\ frontier = 0
    /\ baseline = {}
    /\ hidden = {}
    /\ rtarget = [r \in Recovers |-> NoMsg]
    /\ raction = [r \in Recovers |-> "none"]

----------------------------------------------------------------------------
(* What LoadRecoveryImage reads.                                           *)

LiveWork == {m \in Work : mstate[m] \in LiveStates}
QueuedWork == {m \in Work : mstate[m] = "queued"}

\* ORDER BY accepted_seq
InAcceptedOrder(S) ==
    {q \in [1..Cardinality(S) -> S] :
        \A i, j \in 1..Cardinality(S) : i < j => mseq[q[i]] < mseq[q[j]]}

\* ORDER BY accepted_seq LIMIT 1, or no row
FirstAccepted(S) ==
    IF S = {} THEN {NoMsg}
    ELSE {m \in S : \A n \in S : mseq[m] <= mseq[n]}

\* rows of kind steer or cancel still in doubt
PendingControl(c) == mstate[c] \in {"dispatching", "needs-review"}

----------------------------------------------------------------------------
(* Transactions on messages and turn bindings.                             *)

\* allocateSeq: the next accepted_seq of the room
NextSeq == 1 + Cardinality({m \in Work : mstate[m] # "absent"})

\* AcceptMessage of a new client id; a known id changes nothing
AcceptMessage(m) ==
    /\ mstate[m] = "absent"
    /\ mstate' = [mstate EXCEPT ![m] = "queued"]
    /\ mseq' = [mseq EXCEPT ![m] = NextSeq]
    /\ UNCHANGED <<mturn, roomRow, recorded, privateRows, reviewRows>>

\* AppendNote: accepted and completed at once, no binding
AppendNote(n) ==
    /\ mstate[n] = "absent"
    /\ mstate' = [mstate EXCEPT ![n] = "completed"]
    /\ UNCHANGED <<mturn, mseq, roomRow, recorded, privateRows, reviewRows>>

\* AcceptControl: bound at once to the turn the sender expects
AcceptControl(c, t) ==
    /\ mstate[c] = "absent"
    /\ mstate' = [mstate EXCEPT ![c] = "dispatching"]
    /\ mturn' = [mturn EXCEPT ![c] = t]
    /\ UNCHANGED <<mseq, roomRow, recorded, privateRows, reviewRows>>

\* updateMessageAndBinding: compare-and-set of a message's state
MoveMessage(m, from, to) ==
    /\ mstate[m] \in from
    /\ mstate' = [mstate EXCEPT ![m] = to]
    /\ UNCHANGED <<mseq, roomRow, recorded, privateRows, reviewRows>>

BeginDispatch(m) == MoveMessage(m, {"queued"}, "dispatching") /\ UNCHANGED mturn
FailDispatch(m)  == MoveMessage(m, {"dispatching"}, "failed") /\ UNCHANGED mturn
FinishControl(c, outcome) ==
    MoveMessage(c, {"dispatching"}, outcome) /\ UNCHANGED mturn
MarkNeedsReview_Requeues(m) ==     \* mutant: ambiguous delivery is retried
    MoveMessage(m, {"dispatching", "running"}, "queued") /\ UNCHANGED mturn
MarkNeedsReview(m) ==
    MoveMessage(m, {"dispatching", "running"}, "needs-review") /\ UNCHANGED mturn
BindRunningTurn(m, t) ==
    /\ MoveMessage(m, {"dispatching"}, "running")
    /\ mturn' = [mturn EXCEPT ![m] = t]

\* FinishTurn finds the prompt by its turn id
FinishTurn(t, outcome) ==
    \E m \in Work :
        /\ mturn[m] = t
        /\ MoveMessage(m, {"running", "needs-review"}, outcome)
        /\ UNCHANGED mturn

\* RecordCompletedItem: inserted once per (thread, turn, item)
RecordCompletedItem(t) ==
    /\ recorded' = recorded \cup {t}
    /\ UNCHANGED <<messageRows, roomRow, privateRows, reviewRows>>

----------------------------------------------------------------------------
(* Transactions on the room row.                                           *)

SetRoomStatus(s) ==
    /\ dbStatus' = s
    /\ UNCHANGED <<messageRows, dbThread, recorded, privateRows, reviewRows>>

BindThread(th) ==
    /\ dbThread' = th
    /\ UNCHANGED <<messageRows, dbStatus, recorded, privateRows, reviewRows>>

MarkThreadNeedsRepair ==
    /\ dbStatus # "thread-needs-repair"
    /\ SetRoomStatus("thread-needs-repair")

RepairThread(th) ==
    /\ dbThread' = th
    /\ dbStatus' = "recovering"
    /\ UNCHANGED <<messageRows, recorded, privateRows, reviewRows>>

HasAgentActivity ==
    \/ \E m \in Work \cup Controls : mstate[m] # "absent"
    \/ \E r \in Recovers : raction[r] # "none"
    \/ recorded # {}

\* Only for a thread no message has ever used
ResetUnusedThread ==
    /\ dbThread # 0
    /\ ~HasAgentActivity
    /\ dbThread' = 0
    /\ dbStatus' = "ready"
    /\ UNCHANGED <<messageRows, recorded, privateRows, reviewRows>>

----------------------------------------------------------------------------
(* ResolveReview: one /recover decision r about a message in needs-review. *)

\* inserts the decision itself
Decided(r, m, action) ==
    /\ raction[r] = "none"
    /\ mstate[m] = "needs-review"
    /\ rtarget' = [rtarget EXCEPT ![r] = m]
    /\ raction' = [raction EXCEPT ![r] = action]
    /\ UNCHANGED <<roomRow, recorded, privateRows>>

\* a prompt returns to the queue with its old accepted_seq and no turn
RetryPrompt(r, m) ==
    /\ Decided(r, m, "retry")
    /\ mstate' = [mstate EXCEPT ![m] = "queued"]
    /\ mturn' = [mturn EXCEPT ![m] = 0]
    /\ UNCHANGED mseq

RetryControl(r, c) ==
    /\ Decided(r, c, "retry")
    /\ mstate' = [mstate EXCEPT ![c] = "dispatching"]
    /\ UNCHANGED <<mturn, mseq>>

SkipReviewed(r, m) ==
    /\ Decided(r, m, "skip")
    /\ mstate' = [mstate EXCEPT ![m] = "failed"]
    /\ UNCHANGED <<mturn, mseq>>

ContinueReviewed_TakesPlace(r, m, p) ==     \* mutant: p takes m's place in line
    /\ Decided(r, m, "continue")
    /\ m \in Work /\ mstate[p] = "absent"
    /\ mstate' = [mstate EXCEPT ![m] = "failed", ![p] = "queued"]
    /\ mseq' = [mseq EXCEPT ![p] = mseq[m]]
    /\ UNCHANGED mturn

\* skip, and a recovery-prompt p is queued behind everything accepted
ContinueReviewed(r, m, p) ==
    /\ Decided(r, m, "continue")
    /\ mstate[p] = "absent"
    /\ mstate' = [mstate EXCEPT ![m] = "failed", ![p] = "queued"]
    /\ mseq' = [mseq EXCEPT ![p] = NextSeq]
    /\ UNCHANGED mturn

----------------------------------------------------------------------------
(* The journal of private (read-only question) turns.                      *)

\* the frontier row's primary key is the room: a second one is an error
BeginPrivateTurn(th, turns) ==
    /\ frontier = 0
    /\ frontier' = th
    /\ baseline' = turns
    /\ UNCHANGED <<messageRows, roomRow, recorded, hidden, reviewRows>>

EndPrivateTurn(th, turns) ==
    /\ hidden' = hidden \cup turns
    /\ IF frontier = th THEN frontier' = 0 /\ baseline' = {}
                        ELSE UNCHANGED <<frontier, baseline>>
    /\ UNCHANGED <<messageRows, roomRow, recorded, reviewRows>>

\* PrivateTurns: close the frontier of a thread whose history holds turns,
\* unless one of the unexplained turns may still run
Unexplained(th, turns) == IF frontier = th THEN turns \ baseline ELSE {}

ClosePrivateTurns(th, turns, running) ==
    /\ Unexplained(th, turns) \cap running = {}
    /\ IF frontier = th THEN EndPrivateTurn(th, Unexplained(th, turns))
                        ELSE UNCHANGED storeVars
=============================================================================
