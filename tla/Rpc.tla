-------------------------------- MODULE Rpc --------------------------------
(***************************************************************************)
(* One session's JSON-RPC client.  Callers register a pending call, take   *)
(* the writer gate, write one line and wait; a single reader delivers      *)
(* replies, pushes notifications into bounded channels and admits reverse  *)
(* requests, each answered by a handler.  The first error is terminal: it  *)
(* fails every pending call, cancels the reader and closes the pipes.      *)
(*                                                                         *)
(* The coordinator consumes the notifications, and not while it is inside  *)
(* a call of its own.  The channels between reader and coordinator are one *)
(* queue of ChainCap places.                                               *)
(***************************************************************************)
EXTENDS Naturals, Sequences, FiniteSets

CONSTANTS
    Calls,          \* requests to the App Server
    CoordCalls,     \* those the coordinator makes, one at a time
    Deadlines,      \* those whose context has a deadline
    Requests,       \* ids of reverse requests
    NoCall, Handler,
    ChainCap,       \* places between the reader and the coordinator
    MaxNotes,       \* bound: notifications and reverse requests of the App Server
    WireCap,        \* bound: lines in the pipe from the App Server
    MaxFaults       \* bound: calls and writes that fail, bad and unasked lines

ASSUME RpcAssumption ==
    /\ CoordCalls \subseteq Calls /\ Deadlines \subseteq Calls
    /\ NoCall \notin Calls /\ Handler \notin Calls \cup {NoCall}
    /\ ChainCap \in Nat /\ MaxNotes \in Nat /\ WireCap \in Nat /\ MaxFaults \in Nat

VARIABLES
    at,         \* where Call is: idle, gate, writing, record, failed, waiting, receive, done
    phase,      \* pendingCall.phase
    pending,    \* RPCClient.pending
    held,       \* calls with a quarantined response
    box,        \* what was sent to pendingCall.response, a channel of one place
    sends,      \* how often
    wrote,      \* bytes writeJSONL reports: 0 none, 1 some, 2 all
    werr,       \* and its error
    result,     \* what the adapter makes of the call
    expired,    \* calls whose context is done
    gate,       \* who took the token of writerGate
    terminal,   \* terminalErr
    reader,     \* Run
    line,       \* the message the reader holds
    active,     \* serverActive
    handler,    \* the goroutine of the reverse request
    events,     \* notifications on their way to the coordinator
    closed,     \* Run has returned: events and done are closed
    wire,       \* the pipe from the App Server
    reached,    \* calls of which some byte reached the App Server
    asked,      \* calls the App Server received whole and has not answered
    notes,      \* notifications and reverse requests of the App Server
    faults

callVars   == <<at, phase, pending, held, box, sends, wrote, werr, result, expired>>
readerVars == <<reader, line, active, handler, events, closed>>
serverVars == <<wire, reached, asked, notes>>
vars == <<callVars, gate, terminal, readerVars, serverVars, faults>>

Phases    == {"preWrite", "inDirectWrite", "writeDone", "rejected"}
Terminals == {"eof", "wire", "unknownID", "duplicate", "busy", "context", "write"}
Answers   == {"reply"}
Results   == {"none", "ok", "rpcError", "notSent", "unknown"}

Fault  == faults < MaxFaults /\ faults' = faults + 1
Smooth == UNCHANGED faults

Open(c) == at[c] \notin {"idle", "done"}
CoordinatorBusy == \E c \in CoordCalls : Open(c)
Stopped == terminal # "none"      \* the pipes are closed, runCtx is cancelled

----------------------------------------------------------------------------
(* Helpers of the client.                                                  *)

\* mutationError, certainNotSentError
Certain_OfAnyError(w, err) == err \notin {"eof", "wire", "unknownID", "duplicate"}   \* mutant
Certain(w, err) == w = 0 /\ err \notin {"eof", "wire", "unknownID", "duplicate"}
Certainty(w, err) == IF Certain(w, err) THEN "notSent" ELSE "unknown"

Decoded(w, answer) ==
    CASE answer = "reply"    -> "ok"
      [] answer = "rpcError" -> "rpcError"
      [] OTHER               -> Certainty(w, answer)

\* Call returns and its pendingCall and its context are forgotten
Return(c, r) ==
    /\ at' = [at EXCEPT ![c] = "done"]
    /\ result' = [result EXCEPT ![c] = r]
    /\ phase' = [phase EXCEPT ![c] = "preWrite"]
    /\ wrote' = [wrote EXCEPT ![c] = 0] /\ werr' = [werr EXCEPT ![c] = "none"]
    /\ expired' = expired \ {c}

Goes(c, place) ==
    /\ at' = [at EXCEPT ![c] = place]
    /\ UNCHANGED <<result, phase, wrote, werr, expired>>

\* send answer to the response channels of the calls in C
Sent(C, answer) ==
    /\ box' = [c \in Calls |-> IF c \in C THEN answer[c] ELSE box[c]]
    /\ sends' = [c \in Calls |-> IF c \in C THEN sends[c] + 1 ELSE sends[c]]

\* failAll, once P is what is left in pending; own are answers sent before it
FailAll(err, P, C, own) ==
    /\ terminal' = IF Stopped THEN terminal ELSE err
    /\ pending' = IF Stopped THEN P ELSE {}
    /\ Sent(IF Stopped THEN C ELSE C \cup P,
            [c \in Calls |-> IF c \in C THEN own ELSE err])

----------------------------------------------------------------------------
(* Call.                                                                   *)

Register(c) ==
    /\ at[c] = "idle" /\ (c \in CoordCalls => ~CoordinatorBusy)
    /\ \/ /\ Stopped
          /\ Return(c, Certainty(0, terminal))
          /\ UNCHANGED pending
       \/ /\ ~Stopped
          /\ pending' = pending \cup {c}
          /\ Goes(c, "gate")
    /\ UNCHANGED <<held, box, sends, gate, terminal,
                   readerVars, serverVars, faults>>

\* finishPreWriteFailure: the line cannot be marshalled or is too long
PreWriteFailure(c) ==
    /\ at[c] = "gate" /\ Fault
    /\ \/ c \in pending /\ Return(c, "notSent") /\ pending' = pending \ {c}
       \/ c \notin pending /\ Goes(c, "receive") /\ UNCHANGED pending
    /\ UNCHANGED <<held, box, sends, gate, terminal,
                   readerVars, serverVars>>

WriteErr(c) == {err \in {"context"} : c \in expired} \cup {err \in {terminal} : Stopped}

Wrote(c, w, err) ==
    /\ wrote' = [wrote EXCEPT ![c] = w]
    /\ werr' = [werr EXCEPT ![c] = err]
    /\ at' = [at EXCEPT ![c] = "record"]

\* writeJSONL takes the gate, checks the context and the client under it, and
\* beginPendingWrite; or an error ends the wait for the gate
BeginWrite(c) ==
    /\ at[c] = "gate"
    /\ \/ /\ gate = NoCall /\ WriteErr(c) = {} /\ c \in pending
          /\ gate' = c
          /\ phase' = [phase EXCEPT ![c] = "inDirectWrite"]
          /\ at' = [at EXCEPT ![c] = "writing"]
          /\ UNCHANGED <<wrote, werr>>
       \/ /\ \E err \in WriteErr(c) : Wrote(c, 0, err)
          /\ UNCHANGED <<gate, phase>>
    /\ UNCHANGED <<pending, held, box, sends, result, expired, terminal,
                   readerVars, serverVars, faults>>

\* writer.Write, which no context interrupts
Write(c) ==
    /\ at[c] = "writing" /\ gate' = NoCall
    /\ \/ /\ ~Stopped /\ Smooth
          /\ Wrote(c, 2, "none")
          /\ reached' = reached \cup {c} /\ asked' = asked \cup {c}
       \/ /\ IF Stopped THEN Smooth ELSE Fault
          /\ \E w \in {0, 1} :
                /\ Wrote(c, w, "write")
                /\ reached' = IF w = 1 THEN reached \cup {c} ELSE reached
          /\ UNCHANGED asked
    /\ UNCHANGED <<phase, pending, held, box, sends, result, expired, terminal,
                   readerVars, wire, notes>>

AfterWrite(c) == IF werr[c] = "none" THEN "waiting" ELSE "failed"

\* recordWriteOutcome
RecordWriteOutcome(c) ==
    /\ at[c] = "record"
    /\ at' = [at EXCEPT ![c] = AfterWrite(c)]
    /\ \/ c \notin pending /\ UNCHANGED <<phase, pending, held, box, sends, terminal>>
       \/ /\ c \in pending
          /\ phase' = [phase EXCEPT ![c] = "writeDone"]
          /\ held' = held \ {c}
          /\ \/ c \notin held /\ UNCHANGED <<pending, box, sends, terminal>>
             \/ /\ c \in held /\ wrote[c] > 0
                /\ pending' = pending \ {c}
                /\ Sent({c}, [d \in Calls |-> "reply"])
                /\ UNCHANGED terminal
             \/ /\ c \in held /\ wrote[c] = 0
                /\ FailAll("unknownID", pending \ {c}, {c}, "unknownID")
    /\ UNCHANGED <<wrote, werr, result, expired, gate, readerVars, serverVars, faults>>

\* the write failed: a context error before the first byte is the caller's own
WriteFailed(c) ==
    /\ at[c] = "failed"
    /\ \/ wrote[c] = 0 /\ werr[c] = "context"
          /\ pending' = pending \ {c} /\ UNCHANGED <<terminal, box, sends>>
       \/ ~(wrote[c] = 0 /\ werr[c] = "context")
          /\ FailAll(werr[c], pending \ {c}, {}, werr[c])
    /\ \/ c \in pending /\ Return(c, Certainty(wrote[c], werr[c]))
       \/ c \notin pending /\ Goes(c, "receive")
    /\ UNCHANGED <<held, gate, readerVars, serverVars, faults>>

Receive(c) ==
    /\ at[c] \in {"waiting", "receive"} /\ box[c] # "empty"
    /\ Return(c, Decoded(wrote[c], box[c]))
    /\ box' = [box EXCEPT ![c] = "empty"]
    /\ UNCHANGED <<pending, held, sends, gate,
                   terminal, readerVars, serverVars, faults>>

MayGiveUp_Never(c) == FALSE      \* mutant: the wait does not look at the context
MayGiveUp(c) == c \in expired

\* the context ends; a call that is no longer pending has its answer coming
GiveUp(c) ==
    /\ at[c] = "waiting" /\ MayGiveUp(c)
    /\ \/ /\ c \in pending /\ pending' = pending \ {c}
          /\ Return(c, Certainty(wrote[c], "context"))
       \/ c \notin pending /\ Goes(c, "receive") /\ UNCHANGED pending
    /\ UNCHANGED <<held, box, sends, gate, terminal,
                   readerVars, serverVars, faults>>

Expire(c) ==
    /\ c \in Deadlines \ expired /\ Open(c)
    /\ expired' = expired \cup {c}
    /\ UNCHANGED <<at, phase, pending, held, box, sends, wrote, werr, result, gate,
                   terminal, readerVars, serverVars, faults>>

----------------------------------------------------------------------------
(* Run.                                                                    *)

Ended(err) ==
    /\ FailAll(err, pending, {}, err)
    /\ reader' = "ended" /\ line' = "none"

NextLine == wire' = Tail(wire)

\* deliverResponse
Deliverable_AnyPhase(c) == c \in pending      \* mutant: a reply before the write counts
Deliverable(c) == c \in pending /\ phase[c] = "writeDone" /\ wrote[c] > 0
Left_StillPending(c) == pending      \* mutant: the delivered call stays in the map
Left(c) == pending \ {c}

DeliverResponse(c, answer) ==
    /\ reader = "read" /\ ~Stopped /\ wire # <<>> /\ Head(wire) = <<answer, c>>
    /\ NextLine
    /\ \/ /\ Deliverable(c)
          /\ pending' = Left(c)
          /\ Sent({c}, [d \in Calls |-> answer])
          /\ UNCHANGED <<phase, held, terminal, reader, line>>
       \/ /\ ~Deliverable(c) /\ c \in pending \ held /\ phase[c] = "inDirectWrite"
          /\ held' = held \cup {c}
          /\ UNCHANGED <<phase, pending, box, sends, terminal, reader, line>>
       \/ /\ ~Deliverable(c) /\ c \in pending /\ phase[c] # "inDirectWrite"
          /\ phase' = [phase EXCEPT ![c] = IF @ = "preWrite" THEN "rejected" ELSE @]
          /\ FailAll("unknownID", pending \ {c}, {c}, "unknownID")
          /\ reader' = "ended" /\ line' = "none" /\ UNCHANGED held
       \/ /\ ~Deliverable(c) /\ (c \notin pending \/ c \in held)
          /\ Ended("unknownID") /\ UNCHANGED <<phase, held>>
    /\ UNCHANGED <<at, wrote, werr, result, expired, gate, active, handler, events, closed,
                   reached, asked, notes, faults>>

\* a notification, or a reverse request with admitServerRequest
ReadLine ==
    /\ reader = "read" /\ ~Stopped /\ wire # <<>> /\ NextLine
    /\ \/ /\ Head(wire) = <<"note">>
          /\ reader' = "push" /\ line' = "note"
          /\ UNCHANGED <<pending, box, sends, terminal, active>>
       \/ \E q \in Requests :
             /\ Head(wire) = <<"request", q>>
             /\ \/ active = {} /\ active' = {q} /\ reader' = "push" /\ line' = q
                   /\ UNCHANGED <<pending, box, sends, terminal>>
                \/ active # {} /\ UNCHANGED active
                   /\ Ended(IF q \in active THEN "duplicate" ELSE "busy")
       \/ Head(wire) = <<"bad">> /\ Ended("wire") /\ UNCHANGED active
    /\ UNCHANGED <<at, phase, held, wrote, werr, result, expired, gate, handler,
                   events, closed, reached, asked, notes, faults>>

HasPlace == events < ChainCap

\* the reader waits for a place, and starts the handler of a reverse request
Push ==
    /\ reader = "push"
    /\ \/ /\ ~Stopped /\ HasPlace
          /\ events' = events + 1
          /\ reader' = "read" /\ line' = "none"
          /\ handler' = IF line = "note" THEN handler ELSE "callback"
          /\ UNCHANGED <<pending, box, sends, terminal, active>>
       \/ /\ Stopped /\ Ended("context")
          /\ active' = IF line = "note" THEN active ELSE {}
          /\ UNCHANGED <<events, handler>>
    /\ UNCHANGED <<at, phase, held, wrote, werr, result, expired, gate, closed,
                   serverVars, faults>>

Interrupted_Never == FALSE      \* mutant: the pipes stay open, the read goes on
Interrupted == Stopped

\* closeTransport ends a read that waits for the App Server
ReadClosed ==
    /\ reader = "read" /\ Interrupted
    /\ Ended("eof")
    /\ UNCHANGED <<at, phase, held, wrote, werr, result, expired, gate, active,
                   handler, events, closed, serverVars, faults>>

\* the handler: the answer is always a rejection
Answer ==
    /\ \/ /\ handler = "callback" /\ Stopped
          /\ handler' = "none" /\ active' = {}
          /\ UNCHANGED <<gate, pending, box, sends, terminal, faults>>
       \/ /\ handler = "callback" /\ gate = NoCall /\ ~Stopped
          /\ gate' = Handler /\ handler' = "writing"
          /\ UNCHANGED <<active, pending, box, sends, terminal, faults>>
       \/ /\ handler = "writing"
          /\ gate' = NoCall /\ handler' = "none" /\ active' = {}
          /\ \/ ~Stopped /\ Smooth /\ UNCHANGED <<pending, box, sends, terminal>>
             \/ (IF Stopped THEN Smooth ELSE Fault)
                /\ FailAll("write", pending, {}, "write")
    /\ UNCHANGED <<at, phase, held, wrote, werr, result, expired, reader, line,
                   events, closed, serverVars>>

\* Run returns once the handler is gone
RunReturns ==
    /\ reader = "ended" /\ handler = "none" /\ ~closed
    /\ closed' = TRUE
    /\ UNCHANGED <<callVars, gate, terminal, reader, line, active, handler, events,
                   serverVars, faults>>

\* the session's owner cancels Run's context: the watcher fails everything
Cancel ==
    /\ ~Stopped
    /\ FailAll("context", pending, {}, "context")
    /\ UNCHANGED <<at, phase, held, wrote, werr, result, expired, gate, readerVars,
                   serverVars, faults>>

\* the coordinator takes the next notification
Consume ==
    /\ events > 0 /\ ~CoordinatorBusy
    /\ events' = events - 1
    /\ UNCHANGED <<callVars, gate, terminal, reader, line, active, handler, closed,
                   serverVars, faults>>

----------------------------------------------------------------------------
(* The App Server.                                                         *)

Emit(message) == ~Stopped /\ Len(wire) < WireCap /\ wire' = Append(wire, message)

Reply(c) ==
    /\ c \in asked /\ asked' = asked \ {c}
    /\ \E answer \in Answers : Emit(<<answer, c>>)
    /\ UNCHANGED <<callVars, gate, terminal, readerVars, reached, notes, faults>>

\* a notification or a reverse request
Notify ==
    /\ notes < MaxNotes /\ notes' = notes + 1
    /\ Emit(<<"note">>) \/ \E q \in Requests : Emit(<<"request", q>>)
    /\ UNCHANGED <<callVars, gate, terminal, readerVars, reached, asked, faults>>

\* a reply nobody asked for, a line that cannot be decoded, the end of the pipe
Misbehave ==
    /\ Fault
    /\ \/ \E c \in Calls : Emit(<<"reply", c>>)
       \/ Emit(<<"bad">>)
    /\ UNCHANGED <<callVars, gate, terminal, readerVars, reached, asked, notes>>

----------------------------------------------------------------------------
Init ==
    /\ at = [c \in Calls |-> "idle"] /\ phase = [c \in Calls |-> "preWrite"]
    /\ pending = {} /\ held = {} /\ box = [c \in Calls |-> "empty"]
    /\ sends = [c \in Calls |-> 0] /\ wrote = [c \in Calls |-> 0]
    /\ werr = [c \in Calls |-> "none"] /\ result = [c \in Calls |-> "none"]
    /\ expired = {} /\ gate = NoCall /\ terminal = "none" /\ reader = "read"
    /\ line = "none" /\ active = {} /\ handler = "none" /\ events = 0
    /\ closed = FALSE /\ wire = <<>> /\ reached = {} /\ asked = {}
    /\ notes = 0 /\ faults = 0

CallStep(c) ==
    \/ BeginWrite(c) \/ Write(c) \/ RecordWriteOutcome(c)
    \/ WriteFailed(c) \/ Receive(c) \/ GiveUp(c)
ReaderStep ==
    \/ \E c \in Calls, answer \in Answers : DeliverResponse(c, answer)
    \/ ReadLine \/ Push \/ ReadClosed \/ RunReturns

Next ==
    \/ \E c \in Calls : Register(c) \/ PreWriteFailure(c) \/ CallStep(c) \/ Expire(c) \/ Reply(c)
    \/ ReaderStep \/ Answer \/ Cancel \/ Consume
    \/ Notify \/ Misbehave

Spec == Init /\ [][Next]_vars

\* Goroutines go on, deadlines pass, and the App Server reads its input and
\* answers what it read.  Nobody must call, notify,
\* cancel or fail.
FairSpec ==
    /\ Spec
    /\ \A c \in Calls : WF_vars(CallStep(c)) /\ WF_vars(Reply(c))
    /\ \A c \in Deadlines : WF_vars(Expire(c))
    /\ WF_vars(ReaderStep) /\ WF_vars(Answer) /\ WF_vars(Consume)

----------------------------------------------------------------------------
\* The types of the variables.
TypeOK ==
    /\ at \in [Calls -> {"idle", "gate", "writing", "record", "failed",
                         "waiting", "receive", "done"}]
    /\ phase \in [Calls -> Phases] /\ pending \subseteq Calls /\ held \subseteq Calls
    /\ box \in [Calls -> {"empty"} \cup Answers \cup Terminals]
    /\ sends \in [Calls -> Nat] /\ wrote \in [Calls -> 0..2]
    /\ werr \in [Calls -> {"none"} \cup Terminals] /\ result \in [Calls -> Results]
    /\ expired \subseteq Calls /\ gate \in Calls \cup {NoCall, Handler}
    /\ terminal \in {"none"} \cup Terminals /\ reader \in {"read", "push", "ended"}
    /\ line \in {"none", "note"} \cup Requests /\ active \subseteq Requests
    /\ handler \in {"none", "callback", "writing"} /\ events \in 0..ChainCap
    /\ closed \in BOOLEAN /\ reached \subseteq Calls /\ asked \subseteq Calls
    /\ notes \in 0..MaxNotes /\ faults \in 0..MaxFaults
    /\ wire \in Seq((Answers \X Calls) \cup ({"request"} \X Requests)
                    \cup {<<"note">>, <<"bad">>})

\* A call is answered once: the response channel has one place, so a second
\* send by the reader, failAll or the caller's own bookkeeping would block the
\* sender for ever (jsonrpc.go:412, :443, :535).
AnsweredOnce == \A c \in Calls : sends[c] <= 1

\* "Not sent" is the truth: the room fails such a prompt and lets the author
\* send it again, so no byte of it may have reached the App Server
\* (adapter.go:471).
NotSentIsTrue == \A c \in Calls : result[c] = "notSent" => c \notin reached

\* A call succeeds only after some of its request was written, whatever the
\* App Server sends unasked or too early (jsonrpc.go:398).
SuccessIsEarned == \A c \in Calls : result[c] = "ok" => c \in reached

\* The waiting cycle of the reader, the full channels and the coordinator.
WaitingCycle == reader = "push" /\ events = ChainCap /\ CoordinatorBusy

\* Every call returns: in the end none is open, also while the reader is stuck
\* behind full channels, but one without a deadline that waits in that cycle for
\* the reply behind the notifications (jsonrpc.go:169, coordinator.go:454, :477).
\* (A call is made once in a behaviour.)
CallsReturn ==
    <>[](\A c \in Calls : Open(c) => c \notin Deadlines /\ WaitingCycle)

\* After the first error the reader, the handler and every caller end, and
\* the channels close, wherever each of them was blocked (jsonrpc.go:165).
TerminalConverges ==
    <>[](Stopped => closed /\ \A c \in Calls : ~Open(c))
=============================================================================
