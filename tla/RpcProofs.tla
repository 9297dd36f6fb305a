------------------------------ MODULE RpcProofs ------------------------------
(***************************************************************************)
(* The client of one session, for any number of calls and any bounds: its  *)
(* types, and the invariant that makes an answer unique, "not sent" true   *)
(* and a success earned.                                                   *)
(***************************************************************************)
EXTENDS Rpc, SequenceTheorems, TLAPS

\* The life of a call: where it may be while it is pending.
Registered == {"gate", "writing", "record", "failed", "waiting"}

\* A call has one entry in the map or one answer in its channel, from Register
\* until it returns: whoever takes the entry out of the map sends the answer.
OneAnswer(c) ==
    /\ c \in pending => at[c] \in Registered /\ sends[c] = 0 /\ box[c] = "empty"
    /\ sends[c] <= 1
    /\ at[c] = "idle" => sends[c] = 0 /\ box[c] = "empty"
    /\ at[c] \in Registered \cup {"receive"} /\ c \notin pending => box[c] # "empty"

\* What the bytes written say about the App Server: a call that reports a byte
\* was read, and one that reports none and has not returned was not.
BytesAreTrue(c) ==
    /\ wrote[c] > 0 => c \in reached
    /\ at[c] # "done" /\ wrote[c] = 0 => c \notin reached
    /\ at[c] \in {"idle", "gate", "writing"} => wrote[c] = 0
    /\ at[c] = "failed" => werr[c] # "none"

\* What is in the channel and what was returned agree with the bytes.
AnswerIsTrue(c) ==
    /\ box[c] = "reply" => c \in reached
    /\ result[c] # "none" => at[c] = "done"
    /\ result[c] = "notSent" => c \notin reached
    /\ result[c] = "ok" => c \in reached

\* The inductive invariant.
RpcInv == \A c \in Calls : OneAnswer(c) /\ BytesAreTrue(c) /\ AnswerIsTrue(c)

\* A caller that waits without looking at its context any more (Call's last
\* receive, jsonrpc.go:288, :301, :365) has its answer in the channel: it cannot
\* wait for ever.
AnswerIsThere == \A c \in Calls : at[c] = "receive" => box[c] # "empty"

----------------------------------------------------------------------------
(* Types.                                                                  *)

Lines == (Answers \X Calls) \cup ({"request"} \X Requests) \cup {<<"note">>, <<"bad">>}

\* Sending answers keeps the types of the channels and their counters.
LEMMA SentType ==
    ASSUME TypeOK, NEW C, NEW answer,
           \A c \in Calls : c \in C => answer[c] \in Answers \cup Terminals,
           Sent(C, answer)
    PROVE  /\ box' \in [Calls -> {"empty"} \cup Answers \cup Terminals]
           /\ sends' \in [Calls -> Nat]
  BY DEF TypeOK, Sent

\* One answer, taken out of the map with its call.
LEMMA OneSentType ==
    ASSUME TypeOK, NEW c \in Calls, NEW answer \in Answers \cup Terminals,
           Sent({c}, [d \in Calls |-> answer])
    PROVE  /\ box' \in [Calls -> {"empty"} \cup Answers \cup Terminals]
           /\ sends' \in [Calls -> Nat]
  BY DEF TypeOK, Sent

\* failAll keeps the types it touches.
LEMMA FailAllType ==
    ASSUME TypeOK, NEW err \in Terminals, NEW P \in SUBSET Calls, NEW C,
           NEW own \in Terminals, FailAll(err, P, C, own)
    PROVE  /\ terminal' \in {"none"} \cup Terminals /\ pending' \subseteq Calls
           /\ box' \in [Calls -> {"empty"} \cup Answers \cup Terminals]
           /\ sends' \in [Calls -> Nat]
<1> DEFINE f == [c \in Calls |-> IF c \in C THEN own ELSE err]
<1>1. \E D : Sent(D, f)
  BY DEF FailAll
<1>2. \A c \in Calls : f[c] \in Answers \cup Terminals
  OBVIOUS
<1>3. /\ box' \in [Calls -> {"empty"} \cup Answers \cup Terminals]
      /\ sends' \in [Calls -> Nat]
  <2> HIDE DEF f
  <2> QED
    BY <1>1, <1>2, SentType
<1>4. terminal' \in {"none"} \cup Terminals /\ pending' \subseteq Calls
  BY DEF FailAll, TypeOK
<1> QED
  BY <1>3, <1>4

\* A call that returns, or goes on, keeps the types of the caller's state.
LEMMA ReturnType ==
    ASSUME TypeOK, NEW c \in Calls,
           \/ \E r \in Results : Return(c, r)
           \/ \E place \in Registered \cup {"receive"} : Goes(c, place)
    PROVE  /\ at' \in [Calls -> {"idle", "gate", "writing", "record", "failed",
                                 "waiting", "receive", "done"}]
           /\ phase' \in [Calls -> Phases] /\ wrote' \in [Calls -> 0..2]
           /\ werr' \in [Calls -> {"none"} \cup Terminals]
           /\ result' \in [Calls -> Results] /\ expired' \subseteq Calls
<1>1. CASE \E r \in Results : Return(c, r)
  BY <1>1 DEF TypeOK, Return, Phases
<1>2. CASE \E place \in Registered \cup {"receive"} : Goes(c, place)
  BY <1>2 DEF TypeOK, Goes, Registered
<1> QED
  BY <1>1, <1>2

\* mutationError names one of two results.
LEMMA CertaintyType ==
    ASSUME NEW w, NEW err
    PROVE  /\ Certainty(w, err) \in {"notSent", "unknown"} /\ Certainty(w, err) \in Results
           /\ Certainty(w, err) = "notSent" => w = 0
  BY DEF Certainty, Certain, Results

\* The type invariant in four parts.
CallTypes ==
    /\ at \in [Calls -> {"idle", "gate", "writing", "record", "failed",
                         "waiting", "receive", "done"}]
    /\ phase \in [Calls -> Phases] /\ held \subseteq Calls /\ wrote \in [Calls -> 0..2]
    /\ werr \in [Calls -> {"none"} \cup Terminals]
    /\ result \in [Calls -> Results] /\ expired \subseteq Calls
AnswerTypes ==
    /\ box \in [Calls -> {"empty"} \cup Answers \cup Terminals]
    /\ sends \in [Calls -> Nat] /\ pending \subseteq Calls
    /\ terminal \in {"none"} \cup Terminals
ReaderTypes ==
    /\ reader \in {"read", "push", "ended"} /\ line \in {"none", "note"} \cup Requests
    /\ active \subseteq Requests /\ handler \in {"none", "callback", "writing"}
    /\ events \in 0..ChainCap /\ closed \in BOOLEAN
ServerTypes ==
    /\ reached \subseteq Calls /\ asked \subseteq Calls /\ notes \in 0..MaxNotes
    /\ wire \in Seq(Lines)

LEMMA TypeParts ==
    /\ TypeOK <=> /\ CallTypes /\ AnswerTypes /\ ReaderTypes /\ ServerTypes
                  /\ gate \in Calls \cup {NoCall, Handler} /\ faults \in 0..MaxFaults
    /\ TypeOK' <=> /\ CallTypes' /\ AnswerTypes' /\ ReaderTypes' /\ ServerTypes'
                   /\ gate' \in Calls \cup {NoCall, Handler} /\ faults' \in 0..MaxFaults
  BY Zenon DEF TypeOK, CallTypes, AnswerTypes, ReaderTypes, ServerTypes, Lines

\* A step that leaves a part's variables alone keeps its types.
LEMMA PartsUnchanged ==
    ASSUME TypeOK
    PROVE  /\ UNCHANGED <<at, phase, held, wrote, werr, result, expired>> => CallTypes'
           /\ UNCHANGED <<box, sends, pending, terminal>> => AnswerTypes'
           /\ UNCHANGED readerVars => ReaderTypes'
           /\ UNCHANGED serverVars => ServerTypes'
           /\ UNCHANGED gate => gate' \in Calls \cup {NoCall, Handler}
           /\ UNCHANGED faults \/ Fault => faults' \in 0..MaxFaults
<1>1. UNCHANGED faults \/ Fault => faults' \in 0..MaxFaults
  BY RpcAssumption DEF TypeOK, Fault
<1> QED
  BY <1>1, Zenon, TypeParts DEF TypeOK, CallTypes, AnswerTypes, ReaderTypes, ServerTypes,
     readerVars, serverVars

LEMMA FailAllAnswerTypes ==
    ASSUME TypeOK, NEW err \in Terminals, NEW P \in SUBSET Calls, NEW C,
           NEW own \in Terminals, FailAll(err, P, C, own)
    PROVE  AnswerTypes'
  BY FailAllType DEF AnswerTypes

\* What writeJSONL reports has its types.
LEMMA WroteType ==
    ASSUME TypeOK, NEW c \in Calls, NEW w \in 0..2, NEW err \in {"none"} \cup Terminals,
           Wrote(c, w, err)
    PROVE  /\ at' \in [Calls -> {"idle", "gate", "writing", "record", "failed",
                                 "waiting", "receive", "done"}]
           /\ wrote' \in [Calls -> 0..2] /\ werr' \in [Calls -> {"none"} \cup Terminals]
  BY DEF TypeOK, Wrote

\* The steps of a caller before its line is written.
LEMMA BeforeWriteType ==
    ASSUME TypeOK, NEW c \in Calls,
           Register(c) \/ PreWriteFailure(c) \/ BeginWrite(c) \/ Expire(c)
    PROVE  TypeOK'
<1> USE PartsUnchanged, TypeParts, ReturnType, CertaintyType
<1>1. CASE Register(c)
  <2>1. CallTypes'
    BY <1>1 DEF Register, CallTypes, TypeOK, Registered
  <2>2. AnswerTypes'
    BY <1>1 DEF Register, AnswerTypes, TypeOK
  <2> QED
    BY <1>1, <2>1, <2>2 DEF Register
<1>2. CASE PreWriteFailure(c)
  <2>1. CallTypes'
    BY <1>2 DEF PreWriteFailure, CallTypes, TypeOK, Registered, Results
  <2>2. AnswerTypes'
    BY <1>2 DEF PreWriteFailure, AnswerTypes, TypeOK
  <2> QED
    BY <1>2, <2>1, <2>2 DEF PreWriteFailure
<1>3. CASE BeginWrite(c)
  <2>1. WriteErr(c) \subseteq Terminals
    BY DEF WriteErr, TypeOK, Terminals, Stopped
  <2>2. CallTypes'
    <3>1. CASE \E err \in WriteErr(c) : Wrote(c, 0, err) /\ UNCHANGED phase
      <4>1. PICK err \in {"none"} \cup Terminals : Wrote(c, 0, err)
        BY <2>1, <3>1
      <4>2. UNCHANGED <<phase, held, result, expired>>
        BY <1>3, <3>1 DEF BeginWrite
      <4> QED
        BY <4>1, <4>2, WroteType DEF CallTypes, TypeOK
    <3>2. CASE /\ phase' = [phase EXCEPT ![c] = "inDirectWrite"]
               /\ at' = [at EXCEPT ![c] = "writing"] /\ UNCHANGED <<wrote, werr>>
      BY <1>3, <3>2 DEF BeginWrite, CallTypes, TypeOK, Phases
    <3> QED
      BY <1>3, <3>1, <3>2 DEF BeginWrite
  <2>3. gate' \in Calls \cup {NoCall, Handler}
    BY <1>3 DEF BeginWrite, TypeOK
  <2>4. AnswerTypes' /\ ReaderTypes' /\ ServerTypes' /\ UNCHANGED faults
    BY <1>3 DEF BeginWrite
  <2> QED
    BY <2>2, <2>3, <2>4
<1>4. CASE Expire(c)
  <2>1. CallTypes'
    BY <1>4 DEF Expire, CallTypes, TypeOK
  <2> QED
    BY <1>4, <2>1 DEF Expire
<1> QED
  BY <1>1, <1>2, <1>3, <1>4

\* The write and what the caller makes of it.
LEMMA WriteType ==
    ASSUME TypeOK, NEW c \in Calls, Write(c) \/ RecordWriteOutcome(c) \/ WriteFailed(c),
           at[c] = "failed" => werr[c] # "none"
    PROVE  TypeOK'
<1> USE PartsUnchanged, TypeParts
<1>1. CASE Write(c)
  <2>1. CallTypes'
    <3>1. \E w \in 0..2, err \in {"none"} \cup Terminals : Wrote(c, w, err)
      BY <1>1 DEF Write, Terminals
    <3> QED
      BY <1>1, <3>1, WroteType DEF Write, CallTypes, TypeOK
  <2>2. ServerTypes'
    BY <1>1, Zenon DEF Write, ServerTypes, TypeOK, Lines
  <2>3. AnswerTypes' /\ ReaderTypes' /\ (UNCHANGED faults \/ Fault) /\ gate' = NoCall
    BY <1>1 DEF Write, Smooth
  <2> QED
    BY <2>1, <2>2, <2>3
<1>2. CASE RecordWriteOutcome(c)
  <2>1. CallTypes'
    BY <1>2 DEF RecordWriteOutcome, AfterWrite, CallTypes, TypeOK, Phases
  <2>2. AnswerTypes'
    <3>1. CASE FailAll("unknownID", pending \ {c}, {c}, "unknownID")
      BY <3>1, FailAllAnswerTypes DEF Terminals, TypeOK
    <3>2. CASE Sent({c}, [d \in Calls |-> "reply"]) /\ pending' = pending \ {c} /\ UNCHANGED terminal
      <4>1. "reply" \in Answers \cup Terminals
        BY DEF Answers
      <4> QED
        BY <3>2, <4>1, OneSentType DEF AnswerTypes, TypeOK
    <3>3. CASE UNCHANGED <<pending, box, sends, terminal>>
      BY <3>3
    <3> QED
      BY <1>2, <3>1, <3>2, <3>3 DEF RecordWriteOutcome
  <2> QED
    BY <1>2, <2>1, <2>2 DEF RecordWriteOutcome
<1>3. CASE WriteFailed(c)
  <2>1. CallTypes'
    BY <1>3, ReturnType, CertaintyType DEF WriteFailed, CallTypes, TypeOK
  <2>2. AnswerTypes'
    <3>1. CASE FailAll(werr[c], pending \ {c}, {}, werr[c]) /\ werr[c] \in Terminals
      BY <3>1, FailAllAnswerTypes DEF TypeOK
    <3>2. CASE pending' = pending \ {c} /\ UNCHANGED <<terminal, box, sends>>
      BY <3>2 DEF AnswerTypes, TypeOK
    <3> QED
      <4>1. at[c] = "failed" /\ werr[c] \in {"none"} \cup Terminals
        BY <1>3 DEF WriteFailed, TypeOK
      <4> QED
        BY <1>3, <3>1, <3>2, <4>1 DEF WriteFailed
  <2> QED
    BY <1>3, <2>1, <2>2 DEF WriteFailed
<1> QED
  BY <1>1, <1>2, <1>3

\* The caller's wait.
LEMMA WaitType ==
    ASSUME TypeOK, NEW c \in Calls, Receive(c) \/ GiveUp(c)
    PROVE  TypeOK'
<1> USE PartsUnchanged, TypeParts
<1>1. CASE Receive(c)
  <2>1. Decoded(wrote[c], box[c]) \in Results
    BY CertaintyType DEF Decoded, Results
  <2>2. CallTypes'
    BY <1>1, <2>1, ReturnType DEF Receive, CallTypes, TypeOK
  <2>3. AnswerTypes'
    BY <1>1 DEF Receive, AnswerTypes, TypeOK
  <2> QED
    BY <1>1, <2>2, <2>3 DEF Receive
<1>2. CASE GiveUp(c)
  <2>1. CallTypes'
    BY <1>2, ReturnType, CertaintyType DEF GiveUp, CallTypes, TypeOK, Registered
  <2>2. AnswerTypes'
    BY <1>2 DEF GiveUp, AnswerTypes, TypeOK
  <2> QED
    BY <1>2, <2>1, <2>2 DEF GiveUp
<1> QED
  BY <1>1, <1>2

\* The end of the reader keeps the types.
LEMMA EndedType ==
    ASSUME TypeOK, NEW err \in Terminals, Ended(err)
    PROVE  AnswerTypes' /\ reader' \in {"read", "push", "ended"} /\ line' = "none"
  BY FailAllAnswerTypes DEF Ended, TypeOK

\* The pipe loses its first line or gains one.
LEMMA WireType ==
    ASSUME TypeOK
    PROVE  /\ wire # <<>> /\ NextLine => wire' \in Seq(Lines)
           /\ \A m \in Lines : Emit(m) => wire' \in Seq(Lines)
<1>1. wire \in Seq(Lines)
  BY DEF TypeOK, Lines
<1>2. wire # <<>> /\ NextLine => wire' \in Seq(Lines)
  BY <1>1, HeadTailProperties DEF NextLine
<1>3. \A m \in Lines : Emit(m) => wire' \in Seq(Lines)
  BY <1>1, AppendProperties DEF Emit
<1> QED
  BY <1>2, <1>3

\* The reader's steps.
LEMMA DeliverType ==
    ASSUME TypeOK, NEW c \in Calls, NEW answer \in Answers, DeliverResponse(c, answer)
    PROVE  TypeOK'
<1>1. ServerTypes'
  BY WireType DEF DeliverResponse, ServerTypes, TypeOK
<1>2. UNCHANGED <<gate, faults>>
  BY DEF DeliverResponse
<1>3. CallTypes'
  BY DEF DeliverResponse, CallTypes, TypeOK, Phases
<1>4. AnswerTypes' /\ reader' \in {"read", "push", "ended"}
      /\ line' \in {"none", "note"} \cup Requests
  <2>1. CASE pending' = Left(c) /\ Sent({c}, [d \in Calls |-> answer])
             /\ UNCHANGED <<terminal, reader, line>>
    BY <2>1, OneSentType DEF AnswerTypes, TypeOK, Left
  <2>2. CASE UNCHANGED <<pending, box, sends, terminal, reader, line>>
    BY <2>2, PartsUnchanged DEF TypeOK
  <2>3. CASE FailAll("unknownID", pending \ {c}, {c}, "unknownID")
             /\ reader' = "ended" /\ line' = "none"
    BY <2>3, FailAllAnswerTypes DEF TypeOK, Terminals
  <2>4. CASE Ended("unknownID")
    BY <2>4, EndedType DEF Terminals
  <2> QED
    BY <2>1, <2>2, <2>3, <2>4 DEF DeliverResponse
<1>5. ReaderTypes'
  BY <1>4, Zenon DEF DeliverResponse, ReaderTypes, TypeOK
<1> QED
  BY <1>1, <1>2, <1>3, <1>4, <1>5, TypeParts, PartsUnchanged

LEMMA ReadLineType ==
    ASSUME TypeOK, ReadLine
    PROVE  TypeOK'
<1>1. ServerTypes'
  BY WireType DEF ReadLine, ServerTypes, TypeOK
<1>2. /\ AnswerTypes' /\ reader' \in {"read", "push", "ended"}
      /\ line' \in {"none", "note"} \cup Requests /\ active' \subseteq Requests
  <2>1. CASE UNCHANGED active /\ \E err \in Terminals : Ended(err)
    BY <2>1, EndedType DEF TypeOK
  <2>2. CASE /\ UNCHANGED <<pending, box, sends, terminal>> /\ reader' = "push"
             /\ \/ line' = "note" /\ UNCHANGED active
                \/ \E q \in Requests : line' = q /\ active' = {q}
    BY <2>2, PartsUnchanged DEF TypeOK
  <2> QED
    BY <2>1, <2>2 DEF ReadLine, Terminals
<1>3. ReaderTypes'
  BY <1>2, Zenon DEF ReadLine, ReaderTypes, TypeOK
<1>4. UNCHANGED <<at, phase, held, wrote, werr, result, expired, gate, faults>>
  BY DEF ReadLine
<1> QED
  BY <1>1, <1>2, <1>3, <1>4, TypeParts, PartsUnchanged

LEMMA PushType ==
    ASSUME TypeOK, Push
    PROVE  TypeOK'
<1>1. /\ AnswerTypes' /\ reader' \in {"read", "push", "ended"} /\ line' = "none"
      /\ active' \subseteq Requests /\ handler' \in {"none", "callback", "writing"}
      /\ events' \in 0..ChainCap
  <2>1. CASE Ended("context") /\ UNCHANGED <<events, handler>>
             /\ (active' = active \/ active' = {})
    BY <2>1, EndedType DEF TypeOK, Terminals
  <2>2. CASE /\ HasPlace /\ events' = events + 1 /\ reader' = "read" /\ line' = "none"
             /\ (handler' = handler \/ handler' = "callback")
             /\ UNCHANGED <<pending, box, sends, terminal, active>>
    BY <2>2, PartsUnchanged, RpcAssumption DEF TypeOK, HasPlace
  <2> QED
    BY <2>1, <2>2 DEF Push
<1>2. ReaderTypes'
  BY <1>1, Zenon DEF Push, ReaderTypes, TypeOK
<1> QED
  BY <1>1, <1>2, TypeParts, PartsUnchanged DEF Push

\* The other steps of the client: handler, watcher, coordinator, the end.
LEMMA ClientType ==
    ASSUME TypeOK, ReadClosed \/ Answer \/ RunReturns \/ Cancel \/ Consume
    PROVE  TypeOK'
<1>1. CASE ReadClosed
  <2>1. AnswerTypes' /\ reader' \in {"read", "push", "ended"} /\ line' = "none"
    BY <1>1, EndedType DEF ReadClosed, Terminals
  <2>2. ReaderTypes'
    BY <1>1, <2>1, Zenon DEF ReadClosed, ReaderTypes, TypeOK
  <2> QED
    BY <1>1, <2>1, <2>2, TypeParts, PartsUnchanged DEF ReadClosed
<1>2. CASE Answer
  <2>1. AnswerTypes'
    <3>1. CASE FailAll("write", pending, {}, "write")
      BY <3>1, FailAllAnswerTypes DEF TypeOK, Terminals
    <3> QED
      BY <1>2, <3>1, PartsUnchanged DEF Answer
  <2>2. /\ active' \subseteq Requests /\ handler' \in {"none", "callback", "writing"}
        /\ gate' \in Calls \cup {NoCall, Handler}
    BY <1>2 DEF Answer, TypeOK
  <2>3. ReaderTypes'
    BY <1>2, <2>2, Zenon DEF Answer, ReaderTypes, TypeOK
  <2>4. faults' = faults \/ Fault
    BY <1>2 DEF Answer, Smooth
  <2> QED
    BY <1>2, <2>1, <2>2, <2>3, <2>4, TypeParts, PartsUnchanged DEF Answer
<1>3. CASE RunReturns
  <2>1. ReaderTypes'
    BY <1>3, Zenon DEF RunReturns, ReaderTypes, TypeOK
  <2> QED
    BY <1>3, <2>1, TypeParts, PartsUnchanged DEF RunReturns, callVars
<1>4. CASE Cancel
  <2>1. AnswerTypes'
    BY <1>4, FailAllAnswerTypes DEF Cancel, TypeOK, Terminals
  <2> QED
    BY <1>4, <2>1, TypeParts, PartsUnchanged DEF Cancel
<1>5. CASE Consume
  <2>1. events' \in 0..ChainCap
    BY <1>5, RpcAssumption DEF Consume, TypeOK
  <2>2. ReaderTypes'
    BY <1>5, <2>1, Zenon DEF Consume, ReaderTypes, TypeOK
  <2> QED
    BY <1>5, <2>2, TypeParts, PartsUnchanged DEF Consume, callVars
<1> QED
  BY <1>1, <1>2, <1>3, <1>4, <1>5

\* The App Server's steps.
LEMMA ServerType ==
    ASSUME TypeOK, (\E c \in Calls : Reply(c)) \/ Notify \/ Misbehave
    PROVE  TypeOK'
<1>1. wire' \in Seq(Lines)
  BY WireType DEF Reply, Notify, Misbehave, Lines, Answers
<1>2. ServerTypes'
  BY <1>1, RpcAssumption DEF Reply, Notify, Misbehave, ServerTypes, TypeOK
<1>3. UNCHANGED <<callVars, gate, terminal, readerVars>> /\ (UNCHANGED faults \/ Fault)
  BY DEF Reply, Notify, Misbehave
<1> QED
  BY <1>2, <1>3, TypeParts, PartsUnchanged DEF callVars

----------------------------------------------------------------------------
(* The invariant.                                                          *)

\* What the invariant says of one call.
CallInv(c) == OneAnswer(c) /\ BytesAreTrue(c) /\ AnswerIsTrue(c)

\* A step that leaves a call alone, as its map entry, channel and bytes go.
LEMMA CallUntouched ==
    ASSUME NEW c \in Calls, CallInv(c),
           at'[c] = at[c], result'[c] = result[c], wrote'[c] = wrote[c], werr'[c] = werr[c],
           box'[c] = box[c], sends'[c] = sends[c],
           c \in pending' <=> c \in pending, c \in reached' <=> c \in reached
    PROVE  CallInv(c)'
  BY DEF CallInv, OneAnswer, BytesAreTrue, AnswerIsTrue

\* failAll and the answers sent with it: a call leaves the map exactly when
\* its channel is filled.
LEMMA FailAllKeeps ==
    ASSUME TypeOK, RpcInv, NEW err \in Terminals, NEW C \in SUBSET pending,
           FailAll(err, pending \ C, C, err), NEW c \in Calls,
           at'[c] = at[c], result'[c] = result[c], wrote'[c] = wrote[c], werr'[c] = werr[c],
           UNCHANGED reached
    PROVE  CallInv(c)'
<1>1. CallInv(c)
  BY DEF RpcInv, CallInv
<1>2. \/ /\ box'[c] = box[c] /\ sends'[c] = sends[c]
         /\ c \in pending' <=> c \in pending
      \/ /\ box'[c] = err /\ sends'[c] = sends[c] + 1
         /\ c \in pending /\ c \notin pending'
  BY DEF FailAll, Sent, TypeOK
<1> QED
  BY <1>1, <1>2 DEF CallInv, OneAnswer, BytesAreTrue, AnswerIsTrue, Terminals, Registered, TypeOK

\* One answer sent and its call taken out of the map.
LEMMA SentKeeps ==
    ASSUME TypeOK, RpcInv, NEW d \in pending, NEW answer \in Answers \cup Terminals,
           answer = "reply" => d \in reached,
           Sent({d}, [e \in Calls |-> answer]), pending' = pending \ {d}, NEW c \in Calls,
           UNCHANGED <<result, wrote, werr, reached>>,
           at'[c] = at[c]
    PROVE  CallInv(c)'
<1>1. CallInv(c)
  BY DEF RpcInv, CallInv
<1>2. \/ /\ c # d /\ box'[c] = box[c] /\ sends'[c] = sends[c]
         /\ c \in pending' <=> c \in pending
      \/ /\ c = d /\ box'[c] = answer /\ sends'[c] = sends[c] + 1
         /\ c \in pending /\ c \notin pending'
  BY DEF Sent, TypeOK
<1> QED
  BY <1>1, <1>2 DEF CallInv, OneAnswer, BytesAreTrue, AnswerIsTrue, Answers, Terminals,
     Registered, TypeOK

\* The steps of a caller d before its line is written.
LEMMA BeforeWriteInv ==
    ASSUME TypeOK, RpcInv, NEW d \in Calls,
           Register(d) \/ PreWriteFailure(d) \/ BeginWrite(d) \/ Expire(d), NEW c \in Calls
    PROVE  CallInv(c)'
<1> USE DEF TypeOK
<1>1. CallInv(c)
  BY DEF RpcInv, CallInv
<1>2. CASE c # d
  <2>1. /\ at'[c] = at[c] /\ result'[c] = result[c] /\ wrote'[c] = wrote[c]
        /\ werr'[c] = werr[c] /\ box'[c] = box[c] /\ sends'[c] = sends[c]
        /\ (c \in pending' <=> c \in pending) /\ UNCHANGED reached
    BY <1>2 DEF Register, PreWriteFailure, BeginWrite, Expire, Return, Goes, Wrote, serverVars
  <2> QED
    BY <1>1, <2>1, CallUntouched
<1>3. CASE c = d /\ Register(d)
  <2>1. CASE Stopped /\ Return(c, Certainty(0, terminal)) /\ UNCHANGED pending
    <3>1. result'[c] \in {"notSent", "unknown"} /\ at'[c] = "done" /\ wrote'[c] = 0
      BY <2>1, CertaintyType DEF Return
    <3> QED
      BY <1>1, <1>3, <2>1, <3>1 DEF Register, CallInv, OneAnswer, BytesAreTrue,
         AnswerIsTrue, Registered, serverVars
  <2>2. CASE pending' = pending \cup {c} /\ Goes(c, "gate")
    BY <1>1, <1>3, <2>2 DEF Register, Goes, CallInv, OneAnswer, BytesAreTrue,
       AnswerIsTrue, Registered, serverVars
  <2> QED
    BY <1>3, <2>1, <2>2 DEF Register
<1>4. CASE c = d /\ PreWriteFailure(d)
  BY <1>1, <1>4 DEF PreWriteFailure, Return, Goes, CallInv, OneAnswer, BytesAreTrue,
     AnswerIsTrue, Registered, serverVars
<1>5. CASE c = d /\ BeginWrite(d)
  BY <1>1, <1>5 DEF BeginWrite, Wrote, CallInv, OneAnswer, BytesAreTrue,
     AnswerIsTrue, Registered, serverVars
<1>6. CASE c = d /\ Expire(d)
  BY <1>1, <1>6, CallUntouched DEF Expire, serverVars
<1> QED
  BY <1>2, <1>3, <1>4, <1>5, <1>6

\* The write, and a caller's wait.
LEMMA WriteInv ==
    ASSUME TypeOK, RpcInv, NEW d \in Calls, Write(d) \/ Receive(d) \/ GiveUp(d), NEW c \in Calls
    PROVE  CallInv(c)'
<1> USE DEF TypeOK
<1>1. CallInv(c)
  BY DEF RpcInv, CallInv
<1>2. CASE c # d
  <2>1. /\ at'[c] = at[c] /\ result'[c] = result[c] /\ wrote'[c] = wrote[c]
        /\ werr'[c] = werr[c] /\ box'[c] = box[c] /\ sends'[c] = sends[c]
        /\ (c \in pending' <=> c \in pending) /\ (c \in reached' <=> c \in reached)
    BY <1>2 DEF Write, Receive, GiveUp, Return, Goes, Wrote, serverVars
  <2> QED
    BY <1>1, <2>1, CallUntouched
<1>3. CASE c = d /\ Write(d)
  BY <1>1, <1>3 DEF Write, Wrote, CallInv, OneAnswer, BytesAreTrue, AnswerIsTrue, Registered
<1>4. CASE c = d /\ Receive(d)
  <2>1. Decoded(wrote[c], box[c]) = "ok" => box[c] = "reply"
    BY CertaintyType DEF Decoded
  <2>2. Decoded(wrote[c], box[c]) = "notSent" => wrote[c] = 0
    BY CertaintyType DEF Decoded
  <2>3. /\ result'[c] = Decoded(wrote[c], box[c]) /\ at'[c] = "done" /\ wrote'[c] = 0
        /\ at[c] # "done" /\ box'[c] = "empty" /\ sends'[c] = sends[c] /\ c \notin pending'
        /\ UNCHANGED reached
    BY <1>1, <1>4 DEF Receive, Return, serverVars, CallInv, OneAnswer, Registered
  <2> QED
    BY <1>1, <2>1, <2>2, <2>3 DEF CallInv, OneAnswer, BytesAreTrue, AnswerIsTrue, Registered
<1>5. CASE c = d /\ GiveUp(d)
  BY <1>1, <1>5, CertaintyType DEF GiveUp, Return, Goes, CallInv, OneAnswer, BytesAreTrue,
     AnswerIsTrue, Registered, serverVars
<1> QED
  BY <1>2, <1>3, <1>4, <1>5

\* A failed write: the caller's own entry goes, and failAll answers the rest.
LEMMA WriteFailedInv ==
    ASSUME TypeOK, RpcInv, NEW d \in Calls, WriteFailed(d), NEW c \in Calls
    PROVE  CallInv(c)'
<1> USE DEF TypeOK
<1>1. CallInv(c) /\ CallInv(d) /\ werr[d] \in Terminals
  BY DEF RpcInv, CallInv, BytesAreTrue, WriteFailed
<1>2. /\ c # d => /\ at'[c] = at[c] /\ result'[c] = result[c] /\ wrote'[c] = wrote[c]
                  /\ werr'[c] = werr[c]
      /\ UNCHANGED reached
  BY DEF WriteFailed, Return, Goes, serverVars
<1>3. /\ c = d => box'[c] = box[c] /\ sends'[c] = sends[c] /\ c \notin pending'
      /\ c # d => \/ /\ box'[c] = box[c] /\ sends'[c] = sends[c]
                     /\ c \in pending' <=> c \in pending
                  \/ /\ box'[c] = werr[d] /\ sends'[c] = sends[c] + 1
                     /\ c \in pending /\ c \notin pending'
  BY DEF WriteFailed, FailAll, Sent
<1>4. CASE c # d
  BY <1>1, <1>2, <1>3, <1>4 DEF CallInv, OneAnswer, BytesAreTrue, AnswerIsTrue,
     Terminals, Registered
<1>5. CASE c = d
  BY <1>1, <1>2, <1>3, <1>5, CertaintyType DEF WriteFailed, Return, Goes, CallInv, OneAnswer,
     BytesAreTrue, AnswerIsTrue, Registered
<1> QED
  BY <1>4, <1>5

\* recordWriteOutcome: a quarantined reply is delivered, or fails the client.
LEMMA RecordInv ==
    ASSUME TypeOK, RpcInv, NEW d \in Calls, RecordWriteOutcome(d), NEW c \in Calls
    PROVE  CallInv(c)'
<1> DEFINE place == AfterWrite(d)
<1>1. CallInv(c) /\ CallInv(d)
  BY DEF RpcInv, CallInv
<1>2. /\ at' = [at EXCEPT ![d] = place] /\ place \in {"waiting", "failed"}
      /\ place = "failed" => werr[d] # "none"
      /\ at[d] = "record" /\ UNCHANGED <<wrote, werr, result, reached>>
  BY DEF RecordWriteOutcome, AfterWrite, serverVars
<1> HIDE DEF place
<1>3. \/ box'[c] = box[c] /\ sends'[c] = sends[c] /\ (c \in pending' <=> c \in pending)
      \/ /\ sends'[c] = sends[c] + 1 /\ c \in pending /\ c \notin pending'
         /\ box'[c] # "empty" /\ (box'[c] = "reply" => c \in reached)
  <2>1. CASE UNCHANGED <<pending, box, sends>>
    BY <2>1
  <2>2. CASE /\ d \in pending /\ wrote[d] > 0 /\ pending' = pending \ {d}
             /\ Sent({d}, [e \in Calls |-> "reply"])
    BY <1>1, <2>2 DEF Sent, CallInv, BytesAreTrue, TypeOK
  <2>3. CASE d \in pending /\ FailAll("unknownID", pending \ {d}, {d}, "unknownID")
    BY <2>3 DEF FailAll, Sent, TypeOK
  <2> QED
    BY <2>1, <2>2, <2>3 DEF RecordWriteOutcome
<1> QED
  BY <1>1, <1>2, <1>3 DEF CallInv, OneAnswer, BytesAreTrue, AnswerIsTrue, Registered, TypeOK

\* A reply from the wire: delivered, quarantined, or the end of the client.
LEMMA DeliverInv ==
    ASSUME TypeOK, RpcInv, NEW d \in Calls, NEW answer \in Answers, DeliverResponse(d, answer),
           NEW c \in Calls
    PROVE  CallInv(c)'
<1>1. CallInv(c) /\ CallInv(d)
  BY DEF RpcInv, CallInv
<1>2. UNCHANGED <<at, wrote, werr, result, reached>>
  BY DEF DeliverResponse
<1>3. CASE Deliverable(d) /\ pending' = Left(d) /\ Sent({d}, [e \in Calls |-> answer])
  <2>1. d \in pending /\ d \in reached /\ pending' = pending \ {d}
    BY <1>1, <1>3 DEF Deliverable, Left, CallInv, BytesAreTrue
  <2> QED
    BY <1>2, <1>3, <2>1, SentKeeps
<1>4. CASE UNCHANGED <<pending, box, sends>>
  BY <1>1, <1>2, <1>4, CallUntouched
<1>5. CASE d \in pending /\ FailAll("unknownID", pending \ {d}, {d}, "unknownID")
  BY <1>2, <1>5, FailAllKeeps DEF Terminals
<1>6. CASE FailAll("unknownID", pending, {}, "unknownID")
  <2>1. FailAll("unknownID", pending \ {}, {}, "unknownID")
    BY <1>6
  <2> QED
    BY <1>2, <2>1, FailAllKeeps DEF Terminals
<1> QED
  BY <1>3, <1>4, <1>5, <1>6 DEF DeliverResponse, Ended

\* Every other step leaves the calls alone or is one failAll.
LEMMA OthersInv ==
    ASSUME TypeOK, RpcInv, NEW c \in Calls,
           \/ ReadLine \/ Push \/ ReadClosed \/ RunReturns \/ Answer \/ Cancel \/ Consume
           \/ Notify \/ Misbehave \/ \E d \in Calls : Reply(d)
           \/ UNCHANGED vars
    PROVE  CallInv(c)'
<1>1. CallInv(c)
  BY DEF RpcInv, CallInv
<1>2. UNCHANGED <<at, wrote, werr, result, reached>>
  BY DEF ReadLine, Push, ReadClosed, RunReturns, Answer, Cancel, Consume, Notify, Misbehave,
     Reply, vars, callVars, serverVars
<1>3. CASE UNCHANGED <<pending, box, sends>>
  BY <1>1, <1>2, <1>3, CallUntouched
<1>4. CASE \E err \in Terminals : FailAll(err, pending, {}, err)
  <2>1. PICK err \in Terminals : FailAll(err, pending \ {}, {}, err)
    BY <1>4
  <2> QED
    BY <1>2, <2>1, FailAllKeeps
<1>5. \/ UNCHANGED <<pending, box, sends>>
      \/ \E err \in Terminals : FailAll(err, pending, {}, err)
  BY DEF ReadLine, Push, ReadClosed, RunReturns, Answer, Cancel, Consume, Notify, Misbehave,
     Reply, vars, callVars, Ended, Terminals
<1> QED
  BY <1>3, <1>4, <1>5

\* Types and invariant are kept together: a failed write fails the client with
\* the error it has, so the types need the invariant.
LEMMA InductiveStep ==
    ASSUME TypeOK, RpcInv, [Next]_vars
    PROVE  TypeOK' /\ RpcInv'
<1>1. TypeOK'
  <2>1. CASE UNCHANGED vars
    BY <2>1, TypeParts, PartsUnchanged DEF vars, callVars
  <2>2. ASSUME NEW c \in Calls, CallStep(c) PROVE TypeOK'
    <3>1. at[c] = "failed" => werr[c] # "none"
      BY DEF RpcInv, BytesAreTrue
    <3> QED
      BY <2>2, <3>1, BeforeWriteType, WriteType, WaitType DEF CallStep
  <2> QED
    BY <2>1, <2>2, BeforeWriteType, DeliverType, ReadLineType, PushType,
       ClientType, ServerType DEF Next, ReaderStep
<1>2. \A c \in Calls : CallInv(c)'
  BY BeforeWriteInv, WriteInv, WriteFailedInv, RecordInv, DeliverInv, OthersInv
     DEF Next, CallStep, ReaderStep
<1> QED
  BY <1>1, <1>2 DEF RpcInv, CallInv

\* Type correctness and the invariant hold of every run of the client.
LEMMA RpcInductive == Spec => [](TypeOK /\ RpcInv)
<1>1. Init => TypeOK
  <2> SUFFICES ASSUME Init PROVE TypeOK
    OBVIOUS
  <2>1. closed \in BOOLEAN
    BY Zenon DEF Init
  <2>2. wire \in Seq((Answers \X Calls) \cup ({"request"} \X Requests) \cup {<<"note">>, <<"bad">>})
    BY EmptySeq DEF Init
  <2> QED
    BY <2>1, <2>2, RpcAssumption DEF Init, TypeOK, Phases, Results
<1>2. Init => RpcInv
  BY DEF Init, RpcInv, OneAnswer, BytesAreTrue, AnswerIsTrue, Registered
<1> QED
  BY <1>1, <1>2, InductiveStep, PTL DEF Spec

\* Type correctness: the client keeps every variable in its type whatever the
\* App Server writes (jsonrpc.go:84, RPCClient).
THEOREM RpcTypeCorrect == Spec => []TypeOK
  BY RpcInductive, PTL

\* Every response channel is sent to once at most, for any number of calls:
\* no sender of deliverResponse, recordWriteOutcome or failAll ever blocks on
\* a full channel (jsonrpc.go:419, :447, :546).
THEOREM AnsweredOnceAlways == Spec => []AnsweredOnce
<1>1. RpcInv => AnsweredOnce
  BY DEF RpcInv, OneAnswer, AnsweredOnce
<1> QED
  BY <1>1, RpcInductive, PTL

\* A caller that has given up its context and waits for its answer has it
\* already (jsonrpc.go:288, :301, :365).
THEOREM AnswerIsThereAlways == Spec => []AnswerIsThere
<1>1. RpcInv => AnswerIsThere
  <2> SUFFICES ASSUME RpcInv, NEW c \in Calls, at[c] = "receive" PROVE box[c] # "empty"
    BY DEF AnswerIsThere
  <2>1. OneAnswer(c)
    BY DEF RpcInv
  <2> QED
    BY <2>1 DEF OneAnswer, Registered
<1> QED
  BY <1>1, RpcInductive, PTL

\* "Not sent" is true of every call that ends so, whatever failed and when
\* (certainNotSentError, adapter.go:484).
THEOREM NotSentIsTrueAlways == Spec => []NotSentIsTrue
<1>1. RpcInv => NotSentIsTrue
  BY DEF RpcInv, AnswerIsTrue, NotSentIsTrue
<1> QED
  BY <1>1, RpcInductive, PTL

\* No call succeeds by a reply that came before a byte of its request was
\* written, or that nobody asked for (deliverResponse, jsonrpc.go:388).
THEOREM SuccessIsEarnedAlways == Spec => []SuccessIsEarned
<1>1. RpcInv => SuccessIsEarned
  BY DEF RpcInv, AnswerIsTrue, SuccessIsEarned
<1> QED
  BY <1>1, RpcInductive, PTL
=============================================================================
