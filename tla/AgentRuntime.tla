---------------------------- MODULE AgentRuntime ----------------------------
(***************************************************************************)
(* The Codex App Server as the room sees it through codex.Runtime: one     *)
(* session at a time that dies and is replaced, threads and turns, calls   *)
(* whose delivery may be refused, unknown or late, and one FIFO channel of *)
(* events towards the coordinator.  The App Server itself is not in the    *)
(* repository: which turns run and how they end is its free choice.        *)
(***************************************************************************)
EXTENDS RoomStore

CONSTANTS
    Questions,      \* ids of private read-only questions
    EventBound,     \* bound: events in flight (a full channel blocks the sender)
    MaxGlitches,    \* bound: calls refused, lost or timed out by a live session
    MaxDeaths,      \* bound: spontaneous deaths of the App Server
    MaxFaults,      \* bound: unsupported requests and protocol errors
    Endings,        \* how a turn may end, a subset of Terminal
    Fates           \* what history may say of a turn its process took along

ASSUME AgentAssumption ==
    /\ EventBound \in Nat
    /\ MaxGlitches \in Nat
    /\ MaxDeaths \in Nat
    /\ MaxFaults \in Nat
    /\ Endings \subseteq Terminal
    /\ Fates \subseteq Terminal \cup {"running", "lost"}
    /\ Questions \cap Msgs = {}
    /\ NoMsg \notin Questions

VARIABLES
    session,    \* "up": Runtime.adapter is set, calls go through
    events,     \* Runtime.events: the FIFO channel to the coordinator
    late,       \* a reply may still come to a call that has timed out
    nthread,    \* threads created so far
    nturn,      \* turns created so far
    alive,      \* turns the current App Server process executes
    tstate,     \* state of each turn in the thread's history
    towner,     \* the message or question each turn was started for
    tthread,    \* its thread
    titem,      \* whether its (single) item is complete
    glitches, deaths, faults    \* how often each has happened

turnVars  == <<nturn, alive, tstate, towner, tthread, titem>>
faultVars == <<glitches, deaths, faults>>
agentVars == <<session, events, late, nthread, turnVars, faultVars>>

TurnEvents == [kind : {"item"} \cup Terminal, turn : Turns]
              \cup [kind : {"fault"}, turn : 0..MaxTurns]
RuntimeEvents == [kind : {"unavailable", "ready"}, turn : {0}]
Event(k, t) == [kind |-> k, turn |-> t]

TurnStates == {"none", "running", "lost"} \cup Terminal

AgentTypeOK ==
    /\ session \in {"up", "down"}
    /\ events \in Seq(TurnEvents \cup RuntimeEvents)
    /\ late \in BOOLEAN
    /\ nthread \in 0..MaxThreads
    /\ nturn \in 0..MaxTurns
    /\ alive \subseteq Turns
    /\ tstate \in [Turns -> TurnStates]
    /\ towner \in [Turns -> Msgs \cup Questions \cup {NoMsg}]
    /\ tthread \in [Turns -> 0..MaxThreads]
    /\ titem \in [Turns -> BOOLEAN]
    /\ glitches \in Nat /\ deaths \in Nat /\ faults \in Nat

AgentInit ==
    /\ session = "down"
    /\ events = <<>>
    /\ late = FALSE
    /\ nthread = 0
    /\ nturn = 0
    /\ alive = {}
    /\ tstate = [t \in Turns |-> "none"]
    /\ towner = [t \in Turns |-> NoMsg]
    /\ tthread = [t \in Turns |-> 0]
    /\ titem = [t \in Turns |-> FALSE]
    /\ glitches = 0
    /\ deaths = 0
    /\ faults = 0

----------------------------------------------------------------------------
(* What thread/read and thread/resume return.                              *)

History(th) ==
    {t \in 1..nturn : tthread[t] = th /\ tstate[t] # "lost"}
RunningIn(th) == {t \in History(th) : tstate[t] = "running"}

----------------------------------------------------------------------------
(* Outcomes of a call, as mutationError classifies them.                   *)

Glitch ==
    /\ glitches < MaxGlitches
    /\ glitches' = glitches + 1
    /\ UNCHANGED <<deaths, faults>>

\* no session, or a failure before the first byte was written
CallNotSent ==
    /\ \/ session = "down" /\ UNCHANGED faultVars
       \/ session = "up" /\ Glitch
    /\ UNCHANGED <<session, events, late, nthread, turnVars>>

\* answered with success; nothing in the model depends on the effect
CallDone == session = "up" /\ UNCHANGED agentVars

\* an error reply, or the connection is lost after the request was written
CallUnknown ==
    /\ session = "up"
    /\ Glitch
    /\ UNCHANGED <<session, events, late, nthread, turnVars>>

\* the caller's deadline passes first; an answer may follow
CallTimedOut ==
    /\ session = "up"
    /\ Glitch
    /\ late' = TRUE
    /\ UNCHANGED <<session, events, nthread, turnVars>>

NewTurn(owner, th) ==
    /\ nturn < MaxTurns
    /\ nturn' = nturn + 1
    /\ alive' = alive \cup {nturn'}
    /\ tstate' = [tstate EXCEPT ![nturn'] = "running"]
    /\ towner' = [towner EXCEPT ![nturn'] = owner]
    /\ tthread' = [tthread EXCEPT ![nturn'] = th]
    /\ UNCHANGED titem

\* turn/start answered: the turn nturn' exists and its id is known
TurnStarted(owner, th) ==
    /\ session = "up"
    /\ NewTurn(owner, th)
    /\ UNCHANGED <<session, events, late, nthread, faultVars>>

\* turn/start was written, the turn exists, its id is not known
TurnStartLost(owner, th) ==
    /\ session = "up"
    /\ Glitch
    /\ NewTurn(owner, th)
    /\ UNCHANGED <<session, events, late, nthread>>

TurnStartTimedOut(owner, th) ==
    /\ session = "up"
    /\ Glitch
    /\ late' = TRUE
    /\ NewTurn(owner, th)
    /\ UNCHANGED <<session, events, nthread>>

ThreadStarted ==
    /\ session = "up"
    /\ nthread < MaxThreads
    /\ nthread' = nthread + 1
    /\ UNCHANGED <<session, events, late, turnVars, faultVars>>

ThreadStartLost ==
    /\ session = "up"
    /\ Glitch
    /\ nthread < MaxThreads
    /\ nthread' = nthread + 1
    /\ UNCHANGED <<session, events, late, turnVars>>

ThreadStartTimedOut ==
    /\ session = "up"
    /\ Glitch
    /\ late' = TRUE
    /\ nthread < MaxThreads
    /\ nthread' = nthread + 1
    /\ UNCHANGED <<session, events, turnVars>>

----------------------------------------------------------------------------
(* Steps of the App Server and of Runtime.run.                             *)

Emit(e) == Len(events) < EventBound /\ events' = Append(events, e)

ItemCompletes(t) ==
    /\ t \in alive /\ ~titem[t]
    /\ titem' = [titem EXCEPT ![t] = TRUE]
    /\ Emit(Event("item", t))
    /\ UNCHANGED <<session, late, nthread, nturn, alive, tstate, towner,
                   tthread, faultVars>>

TurnEnds(t, how) ==
    /\ t \in alive
    /\ alive' = alive \ {t}
    /\ tstate' = [tstate EXCEPT ![t] = how]
    /\ Emit(Event(how, t))
    /\ UNCHANGED <<session, late, nthread, nturn, towner, tthread, titem,
                   faultVars>>

\* unsupported-server-request names its turn; a protocol-error may name none
AgentFault(t) ==
    /\ session = "up" /\ faults < MaxFaults
    /\ t \in alive \cup {0}
    /\ faults' = faults + 1
    /\ Emit(Event("fault", t))
    /\ UNCHANGED <<session, late, nthread, turnVars, glitches, deaths>>

\* the process is gone: each turn it ran is in history with some fate
ProcessGone ==
    /\ \E f \in [alive -> Fates] :
          tstate' = [t \in Turns |-> IF t \in alive THEN f[t] ELSE tstate[t]]
    /\ alive' = {}
    /\ session' = "down"
    /\ late' = FALSE
    /\ UNCHANGED <<nthread, nturn, towner, tthread, titem, glitches, faults>>

\* forwardSession, removeSession, drainFailedSession: events already read
\* stay in front of runtime-unavailable.  A reply to a timed-out call has an
\* unknown id, which also ends the session.
SessionDies ==
    /\ session = "up"
    /\ \/ late /\ UNCHANGED deaths
       \/ ~late /\ deaths < MaxDeaths /\ deaths' = deaths + 1
    /\ ProcessGone
    /\ events' = Append(events, Event("unavailable", 0))

\* supervisor.Start succeeds after the backoff
SessionReplaced ==
    /\ session = "down"
    /\ session' = "up"
    /\ events' = Append(events, Event("ready", 0))
    /\ UNCHANGED <<late, nthread, turnVars, faultVars>>
=============================================================================
