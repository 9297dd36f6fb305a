------------------------------ MODULE Delivery ------------------------------
(***************************************************************************)
(* How the events of a room reach one client and its submissions reach the *)
(* room: the coordinator commits an event and then publishes it; the hub   *)
(* has a bounded buffer per subscriber and closes a subscriber that is too *)
(* slow; a session replays the log up to a high-water mark, sends a        *)
(* snapshot of the live projection and then forwards its buffer; the       *)
(* client applies, saves its cursor, acknowledges, and after a lost        *)
(* connection comes back with its cursor and its unanswered submissions.   *)
(*                                                                         *)
(* Sessions share the log, the hub and the coordinator only, so the other  *)
(* clients appear as the events they cause (RoomEvent).  A connection that *)
(* its client gave up may live on in the daemon and still be served.       *)
(***************************************************************************)
EXTENDS Integers, Sequences, FiniteSets

CONSTANTS
    Msgs,               \* client message ids of this client's submissions
    NoMsg,
    Conns,              \* bound: connections known to the daemon at once
    NoConn,
    BufferSize,         \* hub.maxEvents
    PageSize,           \* events per page of a replay
    MaxEvents,          \* bound: durable events caused by others
    MaxRevs,            \* bound: revision of the live projection
    MaxBreaks,          \* bound: connections broken by network, timeout or error
    MaxFailures,        \* bound: requests answered with an error
    MaxRetries,         \* bound: submissions repeated by their author
    MaxOverflows,       \* bound: requests that find the outbound queue full
    MaxDaemonCrashes,   \* bound
    MaxClientCrashes    \* bound

ASSUME DeliveryAssumption ==
    /\ IsFiniteSet(Msgs) /\ NoMsg \notin Msgs
    /\ NoConn \notin Conns
    /\ BufferSize \in Nat \ {0} /\ PageSize \in Nat \ {0}
    /\ MaxEvents \in Nat /\ MaxRevs \in Nat /\ MaxBreaks \in Nat
    /\ MaxFailures \in Nat /\ MaxRetries \in Nat
    /\ MaxOverflows \in Nat
    /\ MaxDaemonCrashes \in Nat /\ MaxClientCrashes \in Nat

VARIABLES
    log,        \* room_events: the submission each event accepts, or NoMsg
    rev,        \* Projection.revision
    busy,       \* the event the coordinator has committed and not published
    conn,       \* the daemon's sessions and what is on the wire
    cphase,     \* the client: off, dial, hello, replay, ready
    con,        \* its connection
    cur, known,         \* Cursor in memory: LastAppliedSeq, RoomID # ""
    saved, savedKnown,  \* Cursor on disk
    probe,      \* the next connection only checks the room's identity
    order,      \* submissions without an answer
    crev,       \* projection.revision of the client
    applying,   \* an event rendered and not yet saved, or 0
    times,      \* how often each event was rendered
    entered,    \* submissions in the order they were typed
    excused,    \* submissions answered by an error or lost with the client
    breaks, failures, retries, overflows, daemonCrashes, clientCrashes

roomVars   == <<log, rev, busy>>
cursorVars == <<cur, known, saved, savedKnown>>
sentVars   == <<order, entered, excused>>
boundVars  == <<breaks, failures, retries, overflows, daemonCrashes, clientCrashes>>
vars == <<roomVars, conn, cphase, con, cursorVars, probe, crev, applying,
          times, sentVars, boundVars>>

----------------------------------------------------------------------------
(* Frames and connections.                                                 *)

Frame(k, n, m) == [kind |-> k, n |-> n, msg |-> m]
Durable(n)     == Frame("event", n, NoMsg)
Transient(n)   == Frame("delta", n, NoMsg)
ErrorFrame     == Frame("error", 0, NoMsg)
SubmitFrame(m) == Frame("submit", 0, m)
AckFrame(n)    == Frame("ack", n, NoMsg)

Free == [phase |-> "free", gone |-> FALSE, last |-> 0, high |-> 0, fence |-> 0,
         buf |-> <<>>, closed |-> FALSE, down |-> <<>>, up |-> <<>>,
         wait |-> NoMsg, ack |-> 0]

\* what is sent to a client that has left is lost
Send(r, f) == IF r.gone THEN r ELSE [r EXCEPT !.down = Append(@, f)]

\* ServeMember returns: the subscription is closed, unread requests are lost
Ended(r) ==
    IF r.gone THEN Free
    ELSE [Free EXCEPT !.phase = "ended", !.down = r.down, !.ack = r.ack]
Failed(r) == Ended(Send(r, ErrorFrame))

\* the client closes its end; what it wrote may still be read
Left(r) ==
    IF r.phase = "ended" THEN Free
    ELSE [r EXCEPT !.gone = TRUE, !.down = <<>>]

----------------------------------------------------------------------------
(* Hub.                                                                    *)

Subscribed_WhenLive(r) ==     \* mutant: Subscribe after the replay
    r.phase = "live" /\ ~r.closed
Subscribed(r) == r.phase \in {"subscribed", "paging", "live"} /\ ~r.closed

Deliver_Drops(r, b) ==     \* mutant: a full buffer loses the event
    IF Len(r.buf) >= BufferSize THEN r ELSE [r EXCEPT !.buf = Append(@, b)]
Deliver(r, b) ==
    IF Len(r.buf) >= BufferSize THEN [r EXCEPT !.closed = TRUE]
    ELSE [r EXCEPT !.buf = Append(@, b)]

Broadcast(b) ==
    [c \in Conns |-> IF Subscribed(conn[c]) THEN Deliver(conn[c], b) ELSE conn[c]]

----------------------------------------------------------------------------
(* Coordinator.                                                            *)

NoCall == [seq |-> 0, conn |-> NoConn]
CoordinatorIdle == busy = NoCall

SeqOf(m) == CHOOSE i \in 1..Len(log) : log[i] = m
Accepted(m) == \E i \in 1..Len(log) : log[i] = m

\* an event of the agent or of another client is committed
RoomEvent ==
    /\ CoordinatorIdle
    /\ Cardinality({i \in 1..Len(log) : log[i] = NoMsg}) < MaxEvents
    /\ log' = Append(log, NoMsg)
    /\ busy' = [seq |-> Len(log) + 1, conn |-> NoConn]
    /\ UNCHANGED <<rev, conn, cphase, con, cursorVars, probe, crev, applying,
                   times, sentVars, boundVars>>

\* Submit: a known id is not accepted again, its event is published again
AcceptSubmit(c) ==
    /\ CoordinatorIdle /\ conn[c].wait # NoMsg
    /\ IF Accepted(conn[c].wait)
       THEN /\ busy' = [seq |-> SeqOf(conn[c].wait), conn |-> c]
            /\ UNCHANGED log
       ELSE /\ busy' = [seq |-> Len(log) + 1, conn |-> c]
            /\ log' = Append(log, conn[c].wait)
    /\ UNCHANGED <<rev, conn, cphase, con, cursorVars, probe, crev, applying,
                   times, sentVars, boundVars>>

\* the session sends the response before it looks at its buffer again, so
\* what the handler still does after the acceptance is a RoomEvent
Answer(r) == [Send(r, Frame("reply", 0, r.wait)) EXCEPT !.wait = NoMsg]

Publish ==
    /\ ~CoordinatorIdle
    /\ LET told == Broadcast(Durable(busy.seq)) IN
       conn' = IF busy.conn = NoConn THEN told
               ELSE [told EXCEPT ![busy.conn] = Answer(@)]
    /\ busy' = NoCall
    /\ UNCHANGED <<log, rev, cphase, con, cursorVars, probe, crev, applying,
                   times, sentVars, boundVars>>

\* a store error, a dispatch error after the commit, or the deadline
FailRequest(c) ==
    /\ conn[c].wait # NoMsg
    /\ failures < MaxFailures
    /\ failures' = failures + 1
    /\ conn' = [conn EXCEPT ![c] = Answer(@)]
    /\ busy' = IF busy.conn = c THEN [busy EXCEPT !.conn = NoConn] ELSE busy
    /\ excused' = excused \cup {conn[c].wait}
    /\ UNCHANGED <<log, rev, cphase, con, cursorVars, probe, crev, applying,
                   times, order, entered, breaks, retries, overflows,
                   daemonCrashes, clientCrashes>>

\* Projection.Apply and PublishTransient
Delta ==
    /\ CoordinatorIdle /\ rev < MaxRevs
    /\ rev' = rev + 1
    /\ conn' = Broadcast(Transient(rev'))
    /\ UNCHANGED <<log, busy, cphase, con, cursorVars, probe, crev, applying,
                   times, sentVars, boundVars>>

\* sessions, hub and projection are gone; what is on the wire may arrive
DaemonCrash ==
    /\ daemonCrashes < MaxDaemonCrashes
    /\ daemonCrashes' = daemonCrashes + 1
    /\ rev' = 0 /\ busy' = NoCall
    /\ conn' = [c \in Conns |->
                   IF conn[c].phase = "free" THEN Free ELSE Ended(conn[c])]
    /\ UNCHANGED <<log, cphase, con, cursorVars, probe, crev, applying, times,
                   sentVars, breaks, failures, retries, overflows, clientCrashes>>

----------------------------------------------------------------------------
(* ServeMember and replay.                                                 *)

Session(r, c) ==
    /\ conn' = [conn EXCEPT ![c] = r]
    /\ UNCHANGED <<roomVars, cphase, con, cursorVars, probe, crev, applying,
                   times, sentVars, boundVars>>

Subscribe(c) ==
    /\ conn[c].phase = "hello"
    /\ Session([conn[c] EXCEPT !.phase = "subscribed"], c)

Welcome(c) ==
    LET r == conn[c]
        high == Len(log) IN
    /\ r.phase = "subscribed"
    /\ IF r.last > high THEN Session(Failed(r), c)
       ELSE Session([Send(r, Frame("welcome", high, NoMsg))
                        EXCEPT !.phase = "paging", !.high = high], c)

\* one page of events in (last, high]
PageEnd(r) == IF r.last + PageSize < r.high THEN r.last + PageSize ELSE r.high
Page(c) ==
    LET r == conn[c]
        events == [i \in 1..(PageEnd(r) - r.last) |-> Durable(r.last + i)] IN
    /\ r.phase = "paging" /\ r.last < r.high
    /\ IF r.closed THEN Session(Failed(r), c)
       ELSE Session([r EXCEPT !.last = PageEnd(r),
                              !.down = IF r.gone THEN @ ELSE @ \o events], c)

\* Coordinator.Snapshot is a command: it sees no half-finished handler
Snapshot(c) ==
    LET r == conn[c] IN
    /\ r.phase = "paging" /\ r.last >= r.high
    /\ CoordinatorIdle
    /\ Session([Send(r, Frame("snapshot", rev, NoMsg))
                   EXCEPT !.phase = "live", !.fence = rev], c)

\* the session loop takes one thing at a time
Looping(r) == r.phase = "live" /\ r.wait = NoMsg

Forward(c) ==
    LET r == conn[c]
        b == Head(r.buf)
        rest == [r EXCEPT !.buf = Tail(@)] IN
    /\ Looping(r) /\ r.buf # <<>>
    /\ IF b.kind = "delta" /\ b.n <= r.fence THEN Session(rest, c)
       ELSE Session(Send(rest, b), c)

SlowClient(c) ==
    /\ Looping(conn[c]) /\ conn[c].closed
    /\ Session(Failed(conn[c]), c)

\* dispatch; Store.Ack never goes back
Request(c) ==
    LET r == conn[c]
        f == Head(r.up)
        rest == [r EXCEPT !.up = Tail(@)] IN
    /\ Looping(r) /\ r.up # <<>>
    /\ \/ f.kind = "submit" /\ Session([rest EXCEPT !.wait = f.msg], c)
       \/ f.kind = "ack"
          /\ Session([rest EXCEPT !.ack = IF f.n < r.ack THEN r.ack ELSE f.n], c)

\* a session notices that its client has left
SessionEnds(c) ==
    /\ conn[c].gone /\ conn[c].wait = NoMsg
    /\ Session(Free, c)

\* an idle timer, a failed read of the store, a write that timed out
SessionFails(c) ==
    /\ conn[c].phase \in {"hello", "subscribed", "paging", "live"}
    /\ ~conn[c].gone /\ conn[c].wait = NoMsg
    /\ breaks < MaxBreaks
    /\ breaks' = breaks + 1
    /\ \/ conn' = [conn EXCEPT ![c] = Failed(@)]
       \/ conn' = [conn EXCEPT ![c] = Ended(@)]
    /\ UNCHANGED <<roomVars, cphase, con, cursorVars, probe, crev, applying,
                   times, sentVars, failures, retries, overflows, daemonCrashes,
                   clientCrashes>>

----------------------------------------------------------------------------
(* Client.                                                                 *)

ClientStart ==
    /\ cphase = "off"
    /\ cphase' = "dial"
    /\ cur' = saved /\ known' = savedKnown
    /\ probe' = savedKnown
    /\ crev' = 0
    /\ UNCHANGED <<roomVars, conn, con, saved, savedKnown, applying, times,
                   sentVars, boundVars>>

Dial(c) ==
    /\ cphase = "dial" /\ conn[c].phase = "free"
    /\ conn' = [conn EXCEPT ![c] = [Free EXCEPT
                   !.phase = "hello", !.last = IF probe THEN 0 ELSE cur]]
    /\ con' = c /\ cphase' = "hello"
    /\ UNCHANGED <<roomVars, cursorVars, probe, crev, applying, times,
                   sentVars, boundVars>>

\* session returns an error; Run waits and connects again
Leave ==
    /\ conn' = [conn EXCEPT ![con] = Left(@)]
    /\ con' = NoConn /\ cphase' = "dial"

\* the next frame on the client's connection
Arrives(f) ==
    /\ con # NoConn /\ applying = 0
    /\ conn[con].down # <<>>
    /\ f = Head(conn[con].down)
Frames == {conn[c].down[1] : c \in {d \in Conns : conn[d].down # <<>>}}
Taken == [conn[con] EXCEPT !.down = Tail(@)]
Take == conn' = [conn EXCEPT ![con] = Taken] /\ UNCHANGED <<con, cphase>>

\* whether the connection after a welcome is a probe again
StillProbing_Forever == probe     \* mutant
StillProbing == FALSE

OnWelcome ==
    /\ cphase = "hello"
    /\ \E f \in Frames :
          /\ Arrives(f) /\ f.kind = "welcome"
          /\ cur' = IF cur > f.n THEN 0 ELSE cur
    /\ known' = TRUE
    /\ probe' = StillProbing
    /\ IF probe
       THEN Leave /\ UNCHANGED <<saved, savedKnown>>
       ELSE /\ conn' = [conn EXCEPT ![con] = Taken]
            /\ cphase' = "replay"
            /\ saved' = cur' /\ savedKnown' = TRUE
            /\ UNCHANGED con
    /\ UNCHANGED <<roomVars, crev, applying, times, sentVars, boundVars>>

\* anything else first: the room behind the address may have changed
OnBadHello ==
    /\ cphase = "hello"
    /\ \E f \in Frames : Arrives(f) /\ f.kind # "welcome"
    /\ probe' = (known \/ probe)
    /\ Leave
    /\ UNCHANGED <<roomVars, cursorVars, crev, applying, times, sentVars, boundVars>>

\* the submissions still to be answered after an answer to m
Settle_All(m) == <<>>     \* mutant
Settle(m) ==
    IF \E i \in 1..Len(order) : order[i] = m
    THEN LET i == CHOOSE i \in 1..Len(order) : order[i] = m
         IN  SubSeq(order, 1, i - 1) \o SubSeq(order, i + 1, Len(order))
    ELSE order

OnReply ==
    /\ cphase \in {"replay", "ready"}
    /\ \E f \in Frames :
          /\ Arrives(f) /\ f.kind \in {"reply", "error"}
          /\ order' = Settle(f.msg)
    /\ Take
    /\ UNCHANGED <<roomVars, cursorVars, probe, crev, applying, times,
                   entered, excused, boundVars>>

Resend_NewestFirst ==     \* mutant
    [i \in 1..Len(order) |-> SubmitFrame(order[Len(order) + 1 - i])]
Resend_Nothing == <<>>     \* mutant
Resend == [i \in 1..Len(order) |-> SubmitFrame(order[i])]

\* the first snapshot makes the session ready
OnSnapshot ==
    /\ cphase \in {"replay", "ready"}
    /\ \E f \in Frames :
          /\ Arrives(f) /\ f.kind = "snapshot"
          /\ crev' = f.n
    /\ conn' = [conn EXCEPT ![con] =
                   [Taken EXCEPT !.up = IF cphase = "ready" THEN @ ELSE @ \o Resend]]
    /\ cphase' = "ready"
    /\ UNCHANGED <<roomVars, con, cursorVars, probe, applying, times, sentVars,
                   boundVars>>

Fresh_Always(n) == TRUE     \* mutant: events are not deduplicated
Fresh(n) == n > cur

OnOldEvent ==
    /\ cphase \in {"replay", "ready"}
    /\ \E f \in Frames : Arrives(f) /\ f.kind = "event" /\ ~Fresh(f.n)
    /\ Take
    /\ UNCHANGED <<roomVars, cursorVars, probe, crev, applying, times,
                   sentVars, boundVars>>

\* acknowledgements are sent by ready sessions only
Acknowledge(n, r) ==
    IF cphase = "ready" THEN [r EXCEPT !.up = Append(@, AckFrame(n))] ELSE r

Render_AcksFirst ==     \* mutant: acknowledged before the cursor is saved
    /\ cphase \in {"replay", "ready"}
    /\ \E f \in Frames :
          /\ Arrives(f) /\ f.kind = "event" /\ Fresh(f.n)
          /\ applying' = f.n
          /\ times' = [times EXCEPT ![f.n] = @ + 1]
          /\ conn' = [conn EXCEPT ![con] = Acknowledge(f.n, Taken)]
    /\ UNCHANGED <<roomVars, con, cphase, cursorVars, probe, crev, sentVars,
                   boundVars>>

\* the event is shown to the user ...
Render ==
    /\ cphase \in {"replay", "ready"}
    /\ \E f \in Frames :
          /\ Arrives(f) /\ f.kind = "event" /\ Fresh(f.n)
          /\ applying' = f.n
          /\ times' = [times EXCEPT ![f.n] = @ + 1]
    /\ Take
    /\ UNCHANGED <<roomVars, cursorVars, probe, crev, sentVars, boundVars>>

\* ... which makes a ready client ask for the agents and the queue.  If the
\* outbound queue is full, session returns with the old cursor
QueueFull ==
    /\ applying # 0 /\ cphase = "ready"
    /\ overflows < MaxOverflows
    /\ overflows' = overflows + 1
    /\ applying' = 0
    /\ Leave
    /\ UNCHANGED <<roomVars, cursorVars, probe, crev, times, sentVars, breaks,
                   failures, retries, daemonCrashes, clientCrashes>>

\* ... then the cursor is saved, then the event is acknowledged
SaveCursor ==
    /\ applying # 0
    /\ cur' = applying /\ saved' = applying /\ savedKnown' = known
    /\ conn' = [conn EXCEPT ![con] = Acknowledge(applying, @)]
    /\ applying' = 0
    /\ UNCHANGED <<roomVars, con, cphase, known, probe, crev, times, sentVars,
                   boundVars>>

\* a delta before the snapshot is an error
OnDelta ==
    /\ cphase \in {"replay", "ready"}
    /\ \E f \in Frames :
          /\ Arrives(f) /\ f.kind = "delta"
          /\ IF cphase = "ready"
             THEN crev' = (IF f.n <= crev THEN crev ELSE f.n) /\ Take
             ELSE Leave /\ UNCHANGED crev
    /\ UNCHANGED <<roomVars, cursorVars, probe, applying, times, sentVars, boundVars>>

\* the daemon closed the connection
OnEOF ==
    /\ con # NoConn /\ applying = 0
    /\ conn[con].phase = "ended" /\ conn[con].down = <<>>
    /\ Leave
    /\ UNCHANGED <<roomVars, cursorVars, probe, crev, applying, times,
                   sentVars, boundVars>>

\* the network fails or nothing is heard for too long
ConnectionLost ==
    /\ con # NoConn /\ applying = 0
    /\ breaks < MaxBreaks
    /\ breaks' = breaks + 1
    /\ Leave
    /\ UNCHANGED <<roomVars, cursorVars, probe, crev, applying, times,
                   sentVars, failures, retries, overflows, daemonCrashes,
                   clientCrashes>>

\* a line is typed
Enter(m) ==
    /\ cphase = "ready" /\ applying = 0
    /\ \A i \in 1..Len(entered) : entered[i] # m
    /\ entered' = Append(entered, m)
    /\ order' = Append(order, m)
    /\ conn' = [conn EXCEPT ![con].up = Append(@, SubmitFrame(m))]
    /\ UNCHANGED <<roomVars, con, cphase, cursorVars, probe, crev, applying,
                   times, excused, boundVars>>

\* a window sends a submission once more under its old id
SubmitAgain(m) ==
    /\ cphase = "ready" /\ applying = 0
    /\ \E i \in 1..Len(entered) : entered[i] = m
    /\ retries < MaxRetries
    /\ retries' = retries + 1
    /\ order' = IF \A j \in 1..Len(order) : order[j] # m
                THEN Append(order, m) ELSE order
    /\ conn' = [conn EXCEPT ![con].up = Append(@, SubmitFrame(m))]
    /\ UNCHANGED <<roomVars, con, cphase, cursorVars, probe, crev, applying,
                   times, entered, excused, breaks, failures, overflows,
                   daemonCrashes, clientCrashes>>

\* everything but the cursor file is lost
ClientCrash ==
    /\ cphase # "off" /\ clientCrashes < MaxClientCrashes
    /\ clientCrashes' = clientCrashes + 1
    /\ conn' = IF con = NoConn THEN conn ELSE [conn EXCEPT ![con] = Left(@)]
    /\ con' = NoConn /\ cphase' = "off"
    /\ applying' = 0
    /\ order' = <<>>
    /\ excused' = excused \cup {order[i] : i \in 1..Len(order)}
    /\ UNCHANGED <<roomVars, cursorVars, probe, crev, times, entered,
                   breaks, failures, retries, overflows, daemonCrashes>>

----------------------------------------------------------------------------

Seqs == 1..(MaxEvents + Cardinality(Msgs))

Init ==
    /\ log = <<>> /\ rev = 0 /\ busy = NoCall
    /\ conn = [c \in Conns |-> Free]
    /\ cphase = "off" /\ con = NoConn
    /\ cur = 0 /\ known = FALSE /\ saved = 0 /\ savedKnown = FALSE
    /\ probe = FALSE /\ crev = 0 /\ applying = 0
    /\ times = [s \in Seqs |-> 0]
    /\ order = <<>> /\ entered = <<>> /\ excused = {}
    /\ breaks = 0 /\ failures = 0 /\ retries = 0 /\ overflows = 0
    /\ daemonCrashes = 0 /\ clientCrashes = 0

Coordinate == \/ RoomEvent \/ Publish \/ Delta \/ DaemonCrash
              \/ \E c \in Conns : AcceptSubmit(c) \/ FailRequest(c)

Serve(c) ==
    \/ Subscribe(c) \/ Welcome(c) \/ Page(c) \/ Snapshot(c)
    \/ Forward(c) \/ SlowClient(c) \/ Request(c) \/ SessionEnds(c)

Receive ==
    \/ OnWelcome \/ OnBadHello \/ OnReply \/ OnSnapshot
    \/ OnOldEvent \/ Render \/ SaveCursor \/ OnDelta \/ OnEOF

Client ==
    \/ ClientStart \/ QueueFull \/ ConnectionLost \/ ClientCrash
    \/ \E c \in Conns : Dial(c)
    \/ \E m \in Msgs : Enter(m) \/ SubmitAgain(m)

Next ==
    \/ Coordinate \/ Receive \/ Client
    \/ \E c \in Conns : Serve(c) \/ SessionFails(c)

Spec == Init /\ [][Next]_vars

\* Goroutines that can go on do so, also through the session's select, and a
\* started client reconnects.  Nothing makes a user start the client, type,
\* or anything fail.
Fairness ==
    /\ WF_vars(Publish) /\ WF_vars(Receive)
    /\ WF_vars(\E c \in Conns : Dial(c))
    /\ \A c \in Conns :
          /\ WF_vars(AcceptSubmit(c))
          /\ WF_vars(Subscribe(c)) /\ WF_vars(Welcome(c)) /\ WF_vars(Page(c))
          /\ WF_vars(Snapshot(c)) /\ WF_vars(Forward(c)) /\ WF_vars(SlowClient(c))
          /\ WF_vars(Request(c)) /\ WF_vars(SessionEnds(c))

FairSpec == Spec /\ Fairness

----------------------------------------------------------------------------
(* Properties.                                                             *)

FrameRecords ==
    [kind : {"welcome", "snapshot", "event", "delta", "reply", "error",
             "submit", "ack"}, n : Nat, msg : Msgs \cup {NoMsg}]
ConnRecords ==
    [phase : {"free", "hello", "subscribed", "paging", "live", "ended"},
     gone : BOOLEAN, last : Nat, high : Nat, fence : Nat, buf : Seq(FrameRecords),
     closed : BOOLEAN, down : Seq(FrameRecords), up : Seq(FrameRecords),
     wait : Msgs \cup {NoMsg}, ack : Nat]

\* Every variable has its type, and publishing never fills a subscriber's
\* channel beyond its capacity (the send in publish would block the
\* coordinator with the hub locked).
TypeOK ==
    /\ log \in Seq(Msgs \cup {NoMsg}) /\ rev \in 0..MaxRevs
    /\ busy \in [seq : Nat, conn : Conns \cup {NoConn}]
    /\ conn \in [Conns -> ConnRecords]
    /\ \A c \in Conns : Len(conn[c].buf) <= BufferSize
    /\ cphase \in {"off", "dial", "hello", "replay", "ready"}
    /\ con \in Conns \cup {NoConn}
    /\ cphase \in {"off", "dial"} <=> con = NoConn
    /\ cur \in Nat /\ saved \in Nat /\ known \in BOOLEAN /\ savedKnown \in BOOLEAN
    /\ probe \in BOOLEAN /\ crev \in Nat /\ applying \in Nat
    /\ times \in [Seqs -> Nat]
    /\ order \in Seq(Msgs) /\ entered \in Seq(Msgs) /\ excused \subseteq Msgs
    /\ breaks \in Nat /\ failures \in Nat /\ retries \in Nat /\ overflows \in Nat
    /\ daemonCrashes \in Nat /\ clientCrashes \in Nat

\* The events shown to the user follow each other without a gap: whatever
\* was shown, everything before it has been shown, although live events are
\* buffered while the log is replayed and buffers, sessions, daemon and
\* client come and go.
NoGap == \A s \in Seqs : times[s] > 0 => \A r \in 1..s : times[r] > 0

\* An event is shown again only by a client that died, or gave its connection
\* up with a full outbound queue, before it had saved its cursor; replay and
\* live delivery never show one twice.
ShownOnce == \A s \in Seqs : times[s] <= 1 + clientCrashes + overflows

\* After a snapshot a ready client applies every change of the projection:
\* the snapshot and the live stream join without a missing revision.
DeltasContiguous ==
    [][cphase = "ready" /\ cphase' = "ready" /\ crev' # crev => crev' = crev + 1]_vars

\* The daemon's record of what a client has applied is never ahead of what
\* the client would resume from.
AckedIsSaved == \A c \in Conns : conn[c].ack <= saved

\* Submissions are accepted in the order they were typed, even when they are
\* sent again on a new connection while the daemon still serves the old one.
Position(m) == CHOOSE i \in 1..Len(entered) : entered[i] = m
SubmitOrder ==
    \A i, j \in 1..Len(log) :
        i < j /\ log[i] # NoMsg /\ log[j] # NoMsg /\ log[j] \notin excused =>
            Position(log[i]) < Position(log[j])

\* A submission that is not accepted is still going to be sent, unless its
\* author got an error or the client died.
NothingForgotten ==
    \A i \in 1..Len(entered) :
        \/ Accepted(entered[i]) \/ entered[i] \in excused
        \/ \E j \in 1..Len(order) : order[j] = entered[i]

\* Every event is shown in the end to a client that stays up.
EventuallyShown ==
    \A s \in Seqs : (Len(log) >= s) ~> (times[s] > 0 \/ cphase = "off")

\* Every submission is answered in the end, unless the client dies.
EventuallyAnswered ==
    \A m \in Msgs : (\E j \in 1..Len(order) : order[j] = m)
                        ~> (\A j \in 1..Len(order) : order[j] # m)
=============================================================================
