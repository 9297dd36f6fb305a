--------------------------- MODULE DeliveryProofs ---------------------------
(***************************************************************************)
(* The safety of Delivery.  Every frame on its way is related to what the  *)
(* client has: in the stream of a connection nothing comes before what it  *)
(* builds on.                                                              *)
(***************************************************************************)
EXTENDS Delivery, SequenceTheorems, FiniteSetTheorems, TLAPS

----------------------------------------------------------------------------
(* Streams.                                                                *)

\* The numbers of the frames of a kind.
Holds(s, k) == {s[j].n : j \in {i \in 1..Len(s) : s[i].kind = k}}

\* Whatever is below a frame of the kind is given, or comes before it.
Contig(s, k, G) ==
    \A i \in 1..Len(s) : s[i].kind = k =>
        \A v \in 1..(s[i].n - 1) :
            v \in G \/ \E j \in 1..(i - 1) : s[j].kind = k /\ s[j].n = v

----------------------------------------------------------------------------
(* The invariants.                                                         *)

Early == {"hello", "subscribed", "paging"}

\* What a session does at what time; the frames on their way are about the
\* first len events of the log, and acknowledgements about the first cu.
LinkOK(r, len, cu) ==
    /\ r.wait # NoMsg => r.phase = "live"
    /\ r.phase \in Early => r.up = <<>>
    /\ r.phase = "paging" => r.last <= r.high /\ r.high <= len
    /\ Holds(r.down, "event") \subseteq 1..len
    /\ Holds(r.buf, "event") \subseteq 1..len
    /\ Holds(r.buf, "snapshot") = {} /\ Holds(r.buf, "welcome") = {}
    /\ Holds(r.up, "ack") \subseteq 0..cu
    /\ r.ack <= cu

LinksInv == \A c \in Conns : LinkOK(conn[c], Len(log), cur)

\* The client's own connection.
OwnOK(r, ph, cu) ==
    /\ ~r.gone /\ r.phase # "free"
    /\ ph # "ready" => r.up = <<>>
    /\ ph = "hello" => \A n \in Holds(r.down, "welcome") : cu <= n

OwnInv == con # NoConn => OwnOK(conn[con], cphase, cur)

CursorInv ==
    /\ busy # NoCall => busy.seq \in 1..Len(log)
    /\ cur = saved /\ cur <= Len(log)
    /\ applying # 0 => /\ cphase \in {"replay", "ready"}
                       /\ applying = cur + 1 /\ applying <= Len(log)

\* How far the events have come that the user has seen.
Shown == IF applying = 0 THEN cur ELSE applying

\* What of the log is shown up to sh, on the wire, or still to be replayed.
Sent(r, sh) == 1..sh \cup Holds(r.down, "event")
Given(r, sh) == Sent(r, sh) \cup (IF r.phase = "paging" THEN 1..r.high ELSE {})

\* The stream to the client, with event q still to be published.
StreamOK(r, sh, len, q) ==
    /\ Contig(r.down, "event", 1..sh)
    /\ r.phase \in Early => 1..r.last \subseteq Sent(r, sh)
    /\ r.phase \in {"paging", "live"} =>
          /\ Contig(r.buf, "event", Given(r, sh))
          /\ ~r.closed => (1..len) \ {q} \subseteq Given(r, sh) \cup Holds(r.buf, "event")

StreamInv == con # NoConn => StreamOK(conn[con], Shown, Len(log), busy.seq)

\* How often each event was shown.
TimesInv ==
    \A s \in Seqs :
        /\ s <= Shown => times[s] > 0
        /\ times[s] > 0 => s <= cur + 1
        /\ times[s] <= 1 + clientCrashes + overflows
        /\ s > Shown => times[s] <= clientCrashes + overflows

\* What of the projection the client has, or will have with the snapshot.
Base(r, ph, cr) == IF ph = "ready" THEN 1..cr ELSE UNION {1..x : x \in Holds(r.down, "snapshot")}
Known(r, ph, cr) == Base(r, ph, cr) \cup Holds(r.down, "delta")
OneSnapshot(s) ==
    \A i, j \in 1..Len(s) : s[i].kind = "snapshot" /\ s[j].kind = "snapshot" => i = j

\* The changes of the projection up to rv on their way to the client.
DeltaOK(r, ph, cr, rv) ==
    /\ r.phase \in Early =>
          /\ ph # "ready"
          /\ Holds(r.down, "snapshot") = {} /\ Holds(r.down, "delta") = {}
          /\ Holds(r.buf, "delta") \subseteq 1..rv
    /\ OneSnapshot(r.down)
    /\ ph = "ready" => Holds(r.down, "snapshot") = {}
    /\ Contig(r.down, "delta", Base(r, ph, cr))
    /\ r.phase = "live" =>
          /\ 1..r.fence \subseteq Known(r, ph, cr)
          /\ Contig(r.buf, "delta", Known(r, ph, cr))
          /\ ~r.closed => 1..rv \subseteq Known(r, ph, cr) \cup Holds(r.buf, "delta")

DeltaInv == con # NoConn => DeltaOK(conn[con], cphase, crev, rev)

Flow == LinksInv /\ OwnInv /\ CursorInv /\ StreamInv /\ DeltaInv

\* The submissions of the client; the ones that are answered or have an
\* error; and which open one was typed before which other one.
Typed == {entered[i] : i \in 1..Len(entered)}
Settled == {log[i] : i \in 1..Len(log)} \cup excused
OpenOnes == Typed \ Settled
Before(m, p) == \E i, j \in 1..Len(entered) : i < j /\ entered[i] = m /\ entered[j] = p
Due == {d \in Msgs \X Msgs : d[1] \in OpenOnes /\ Before(d[1], d[2])}

\* The submissions that the frames of the kinds K are about are in S.
About(s, K, S) ==
    \A i \in 1..Len(s) : s[i].kind \in K /\ s[i].msg # NoMsg => s[i].msg \in S

\* What is asked for was typed, what is answered is settled.
AnswerOK(r, E, D) ==
    /\ r.wait # NoMsg => r.wait \in E
    /\ About(r.up, {"submit"}, E)
    /\ About(r.down, {"reply", "error"}, D)
    /\ About(r.buf, {"reply", "error"}, {})

AnswerInv ==
    /\ \A i, j \in 1..Len(entered) : entered[i] = entered[j] => i = j
    /\ \A i \in 1..Len(order) : order[i] \in Typed
    /\ \A i \in 1..Len(log) : log[i] # NoMsg => log[i] \in Typed
    /\ \A c \in Conns : AnswerOK(conn[c], Typed, Settled)
    /\ busy.conn # NoConn => /\ busy # NoCall /\ conn[busy.conn].wait # NoMsg
                             /\ log[busy.seq] = conn[busy.conn].wait
    /\ \A m \in OpenOnes : \E j \in 1..Len(order) : order[j] = m

\* Whatever is due before a submission comes before it: in the client's list,
Asked(s, m) == \E j \in 1..Len(s) : s[j].kind = "submit" /\ s[j].msg = m
InLine(s, P) ==
    \A k \in 1..Len(s) : \A m \in Msgs : <<m, s[k]>> \in P => \E j \in 1..(k - 1) : s[j] = m

\* on every connection that is served,
QueueOK(r, P) ==
    r.phase = "live" =>
        /\ \A m \in Msgs : <<m, r.wait>> \notin P
        /\ \A k \in 1..Len(r.up) : \A m \in Msgs :
              r.up[k].kind = "submit" /\ <<m, r.up[k].msg>> \in P =>
                  \/ r.wait = m
                  \/ \E j \in 1..(k - 1) : r.up[j].kind = "submit" /\ r.up[j].msg = m

\* and in the log.  A ready client has sent all that is open.
AllSent(r, ph, O) == ph = "ready" /\ r.phase = "live" => \A m \in O : r.wait = m \/ Asked(r.up, m)

OrderInv ==
    /\ InLine(order, Due)
    /\ \A c \in Conns : QueueOK(conn[c], Due)
    /\ con # NoConn => AllSent(conn[con], cphase, OpenOnes)
    /\ \A i \in 1..Len(log) : \A m \in Msgs : <<m, log[i]>> \notin Due
    /\ \A i, j \in 1..Len(log) :
          i < j /\ log[i] # NoMsg /\ log[j] # NoMsg /\ log[j] \notin excused => Before(log[i], log[j])

----------------------------------------------------------------------------
(* Records and types.                                                      *)

Kinds == {"welcome", "snapshot", "event", "delta", "reply", "error", "submit", "ack"}

LEMMA FrameType ==
    ASSUME NEW k \in Kinds, NEW n \in Nat, NEW m \in Msgs \cup {NoMsg}
    PROVE  /\ Frame(k, n, m) \in FrameRecords
           /\ Frame(k, n, m).kind = k /\ Frame(k, n, m).n = n /\ Frame(k, n, m).msg = m
  BY DEF Frame, FrameRecords, Kinds

LEMMA FreeType ==
    /\ Free \in ConnRecords
    /\ Free.phase = "free" /\ ~Free.gone /\ Free.buf = <<>> /\ Free.down = <<>> /\ Free.up = <<>>
    /\ Free.wait = NoMsg /\ Free.ack = 0 /\ Free.last = 0 /\ Free.high = 0 /\ ~Free.closed
  BY EmptySeq DEF Free, ConnRecords

\* What writing a frame changes.
LEMMA SendFields ==
    ASSUME NEW r \in ConnRecords, NEW f \in FrameRecords
    PROVE  /\ Send(r, f) \in ConnRecords
           /\ Send(r, f).phase = r.phase /\ Send(r, f).gone = r.gone /\ Send(r, f).last = r.last
           /\ Send(r, f).high = r.high /\ Send(r, f).fence = r.fence /\ Send(r, f).buf = r.buf
           /\ Send(r, f).closed = r.closed /\ Send(r, f).up = r.up /\ Send(r, f).wait = r.wait
           /\ Send(r, f).ack = r.ack
           /\ Send(r, f).down = IF r.gone THEN r.down ELSE Append(r.down, f)
<1>1. CASE r.gone
  BY <1>1 DEF Send
<1>2. CASE ~r.gone
  <2>1. Append(r.down, f) \in Seq(FrameRecords)
    BY AppendProperties DEF ConnRecords
  <2>2. Send(r, f) = [r EXCEPT !.down = Append(@, f)]
    BY <1>2 DEF Send
  <2> QED
    BY <1>2, <2>1, <2>2 DEF ConnRecords
<1> QED
  BY <1>1, <1>2 DEF ConnRecords

\* What the end of a session leaves.
LEMMA EndedFields ==
    ASSUME NEW r \in ConnRecords
    PROVE  /\ Ended(r) \in ConnRecords
           /\ Ended(r).phase = IF r.gone THEN "free" ELSE "ended"
           /\ ~Ended(r).gone /\ Ended(r).buf = <<>> /\ Ended(r).up = <<>>
           /\ Ended(r).wait = NoMsg /\ ~Ended(r).closed
           /\ Ended(r).down = IF r.gone THEN <<>> ELSE r.down
           /\ Ended(r).ack = IF r.gone THEN 0 ELSE r.ack
<1>1. CASE r.gone
  BY <1>1, FreeType DEF Ended
<1>2. CASE ~r.gone
  <2>1. Ended(r) = [Free EXCEPT !.phase = "ended", !.down = r.down, !.ack = r.ack]
    BY <1>2 DEF Ended
  <2>2. r.down \in Seq(FrameRecords) /\ r.ack \in Nat
    BY DEF ConnRecords
  <2> QED
    BY <1>2, <2>1, <2>2, FreeType DEF ConnRecords
<1> QED
  BY <1>1, <1>2 DEF ConnRecords

LEMMA ErrorType == ErrorFrame \in FrameRecords /\ ErrorFrame.kind = "error" /\ ErrorFrame.msg = NoMsg
  BY FrameType DEF ErrorFrame, Kinds

LEMMA FailedFields ==
    ASSUME NEW r \in ConnRecords
    PROVE  /\ Failed(r) \in ConnRecords
           /\ Failed(r).phase = IF r.gone THEN "free" ELSE "ended"
           /\ ~Failed(r).gone /\ Failed(r).buf = <<>> /\ Failed(r).up = <<>>
           /\ Failed(r).wait = NoMsg /\ ~Failed(r).closed
           /\ Failed(r).down = IF r.gone THEN <<>> ELSE Append(r.down, ErrorFrame)
           /\ Failed(r).ack = IF r.gone THEN 0 ELSE r.ack
  BY ErrorType, SendFields, EndedFields DEF Failed

\* What a client leaves behind.
LEMMA LeftFields ==
    ASSUME NEW r \in ConnRecords
    PROVE  /\ Left(r) \in ConnRecords
           /\ r.phase = "ended" => Left(r) = Free
           /\ r.phase # "ended" =>
                 /\ Left(r).phase = r.phase /\ Left(r).gone /\ Left(r).last = r.last
                 /\ Left(r).high = r.high /\ Left(r).fence = r.fence /\ Left(r).buf = r.buf
                 /\ Left(r).closed = r.closed /\ Left(r).up = r.up /\ Left(r).wait = r.wait
                 /\ Left(r).ack = r.ack /\ Left(r).down = <<>>
  BY FreeType, EmptySeq DEF Left, ConnRecords

\* What delivery to a subscriber changes.
LEMMA DeliverFields ==
    ASSUME NEW r \in ConnRecords, NEW b \in FrameRecords
    PROVE  /\ Deliver(r, b) \in ConnRecords
           /\ Deliver(r, b).phase = r.phase /\ Deliver(r, b).gone = r.gone /\ Deliver(r, b).last = r.last
           /\ Deliver(r, b).high = r.high /\ Deliver(r, b).fence = r.fence
           /\ Deliver(r, b).up = r.up /\ Deliver(r, b).wait = r.wait
           /\ Deliver(r, b).ack = r.ack /\ Deliver(r, b).down = r.down
           /\ \/ Len(r.buf) >= BufferSize /\ Deliver(r, b).closed /\ Deliver(r, b).buf = r.buf
              \/ /\ Len(r.buf) < BufferSize /\ Deliver(r, b).closed = r.closed
                 /\ Deliver(r, b).buf = Append(r.buf, b)
<1>1. Len(r.buf) \in Nat /\ BufferSize \in Nat
  BY DeliveryAssumption DEF ConnRecords
<1>2. CASE Len(r.buf) >= BufferSize
  BY <1>1, <1>2 DEF Deliver, ConnRecords
<1>3. CASE Len(r.buf) < BufferSize
  <2>1. Append(r.buf, b) \in Seq(FrameRecords)
    BY AppendProperties DEF ConnRecords
  <2>2. Deliver(r, b) = [r EXCEPT !.buf = Append(@, b)]
    BY <1>1, <1>3 DEF Deliver
  <2> QED
    BY <1>3, <2>1, <2>2 DEF ConnRecords
<1> QED
  BY <1>1, <1>2, <1>3

\* What an answer changes.
LEMMA AnswerFields ==
    ASSUME NEW r \in ConnRecords
    PROVE  /\ Answer(r) \in ConnRecords
           /\ Answer(r).phase = r.phase /\ Answer(r).gone = r.gone /\ Answer(r).last = r.last
           /\ Answer(r).high = r.high /\ Answer(r).fence = r.fence /\ Answer(r).buf = r.buf
           /\ Answer(r).closed = r.closed /\ Answer(r).up = r.up /\ Answer(r).wait = NoMsg
           /\ Answer(r).ack = r.ack
           /\ Answer(r).down = IF r.gone THEN r.down ELSE Append(r.down, Frame("reply", 0, r.wait))
<1>1. r.wait \in Msgs \cup {NoMsg}
  BY DEF ConnRecords
<1>2. Frame("reply", 0, r.wait) \in FrameRecords
  BY <1>1, FrameType DEF Kinds
<1>3. Send(r, Frame("reply", 0, r.wait)) \in ConnRecords
  BY <1>2, SendFields
<1> QED
  BY <1>2, <1>3, SendFields DEF Answer, ConnRecords

\* The rest of a queue.
LEMMA TailType ==
    ASSUME NEW S, NEW s \in Seq(S), s # <<>>
    PROVE  /\ Head(s) \in S /\ Head(s) = s[1] /\ Tail(s) \in Seq(S)
           /\ Len(s) \in Nat /\ Len(s) > 0 /\ Len(Tail(s)) = Len(s) - 1
           /\ \A i \in 1..Len(Tail(s)) : Tail(s)[i] = s[i + 1]
  BY HeadTailProperties, LenProperties, ElementOfSeq

\* One more at the end of a queue.
LEMMA AppendType ==
    ASSUME NEW S, NEW s \in Seq(S), NEW e \in S
    PROVE  /\ Append(s, e) \in Seq(S) /\ Len(s) \in Nat /\ Len(Append(s, e)) = Len(s) + 1
           /\ \A i \in 1..Len(s) : Append(s, e)[i] = s[i]
           /\ Append(s, e)[Len(s) + 1] = e
  BY AppendProperties, LenProperties

\* A step of one connection.
LEMMA OneConn ==
    ASSUME NEW c \in Conns, NEW r \in ConnRecords, Len(r.buf) <= BufferSize,
           conn \in [Conns -> ConnRecords], \A d \in Conns : Len(conn[d].buf) <= BufferSize,
           conn' = [conn EXCEPT ![c] = r]
    PROVE  /\ conn' \in [Conns -> ConnRecords]
           /\ \A d \in Conns : Len(conn'[d].buf) <= BufferSize
           /\ conn'[c] = r /\ \A d \in Conns : d # c => conn'[d] = conn[d]
  OBVIOUS

LEMMA EmptyLen == Len(<<>>) = 0 /\ Len(<<>>) <= BufferSize
  BY DeliveryAssumption, EmptySeq

\* What a broadcast does to a connection.
LEMMA BroadcastType ==
    ASSUME TypeOK, NEW b \in FrameRecords
    PROVE  /\ Broadcast(b) \in [Conns -> ConnRecords]
           /\ \A c \in Conns : Len(Broadcast(b)[c].buf) <= BufferSize
           /\ \A c \in Conns : Broadcast(b)[c] = IF Subscribed(conn[c]) THEN Deliver(conn[c], b) ELSE conn[c]
<1>1. \A c \in Conns : Broadcast(b)[c] = IF Subscribed(conn[c]) THEN Deliver(conn[c], b) ELSE conn[c]
  BY DEF Broadcast
<1>2. ASSUME NEW c \in Conns
      PROVE  Broadcast(b)[c] \in ConnRecords /\ Len(Broadcast(b)[c].buf) <= BufferSize
  <2>1. conn[c] \in ConnRecords /\ Len(conn[c].buf) <= BufferSize /\ conn[c].buf \in Seq(FrameRecords)
    BY DEF TypeOK, ConnRecords
  <2>2. Len(Append(conn[c].buf, b)) = Len(conn[c].buf) + 1 /\ Len(conn[c].buf) \in Nat
    BY <2>1, AppendType
  <2> QED
    BY <1>1, <2>1, <2>2, DeliverFields, DeliveryAssumption
<1> QED
  BY <1>1, <1>2 DEF Broadcast

\* Everything but the connections keeps its type.
OthersOK ==
    /\ log \in Seq(Msgs \cup {NoMsg}) /\ rev \in 0..MaxRevs
    /\ busy \in [seq : Nat, conn : Conns \cup {NoConn}]
    /\ cphase \in {"off", "dial", "hello", "replay", "ready"}
    /\ con \in Conns \cup {NoConn}
    /\ cphase \in {"off", "dial"} <=> con = NoConn
    /\ cur \in Nat /\ saved \in Nat /\ crev \in Nat /\ applying \in Nat
    /\ times \in [Seqs -> Nat]
    /\ order \in Seq(Msgs) /\ entered \in Seq(Msgs) /\ excused \subseteq Msgs
    /\ breaks \in Nat /\ failures \in Nat /\ retries \in Nat
    /\ overflows \in Nat /\ daemonCrashes \in Nat /\ clientCrashes \in Nat
FlagsOK == known \in BOOLEAN /\ savedKnown \in BOOLEAN /\ probe \in BOOLEAN
ConnsOK ==
    conn \in [Conns -> ConnRecords] /\ \A c \in Conns : Len(conn[c].buf) <= BufferSize
LEMMA TypeSplit == TypeOK <=> OthersOK /\ FlagsOK /\ ConnsOK
  BY DEF TypeOK, OthersOK, FlagsOK, ConnsOK
LEMMA TypeJoin == ASSUME OthersOK', FlagsOK', ConnsOK' PROVE TypeOK'
  BY DEF TypeOK, OthersOK, FlagsOK, ConnsOK

\* The events and answers of the coordinator.
LEMMA CoordinateType == ASSUME TypeOK, Coordinate PROVE TypeOK'
<1> USE DEF roomVars, cursorVars, sentVars, boundVars
<1>0. OthersOK /\ FlagsOK /\ ConnsOK
  BY TypeSplit
<1>f. FlagsOK'
  BY <1>0, Zenon DEF FlagsOK, Coordinate, RoomEvent, Publish, Delta, DaemonCrash, AcceptSubmit, FailRequest
<1>1. CASE RoomEvent
  <2>1. log' \in Seq(Msgs \cup {NoMsg}) /\ busy' \in [seq : Nat, conn : Conns \cup {NoConn}]
    BY <1>0, <1>1, AppendType DEF RoomEvent, OthersOK
  <2>2. OthersOK'
    BY <1>0, <1>1, <2>1 DEF RoomEvent, OthersOK
  <2> QED
    BY <1>0, <1>1, <2>2, <1>f, TypeJoin DEF RoomEvent, ConnsOK
<1>2. ASSUME NEW c \in Conns, AcceptSubmit(c) PROVE TypeOK'
  <2>0. conn[c].wait \in Msgs /\ Len(log) \in Nat
    BY <1>0, <1>2, LenProperties DEF ConnsOK, ConnRecords, AcceptSubmit, OthersOK
  <2>1. CASE Accepted(conn[c].wait)
    <3>1. SeqOf(conn[c].wait) \in 1..Len(log)
      BY <2>1 DEF Accepted, SeqOf
    <3>2. log' = log /\ busy' = [seq |-> SeqOf(conn[c].wait), conn |-> c]
      BY <1>2, <2>1 DEF AcceptSubmit
    <3>3. OthersOK'
      BY <1>0, <1>2, <2>0, <3>1, <3>2 DEF AcceptSubmit, OthersOK
    <3> QED
      BY <1>0, <1>2, <3>3, <1>f, TypeJoin DEF AcceptSubmit, ConnsOK
  <2>2. CASE ~Accepted(conn[c].wait)
    <3>2. log' = Append(log, conn[c].wait) /\ busy' = [seq |-> Len(log) + 1, conn |-> c]
      BY <1>2, <2>2 DEF AcceptSubmit
    <3>3. log' \in Seq(Msgs \cup {NoMsg})
      BY <1>0, <2>0, <3>2, AppendType DEF OthersOK
    <3>4. OthersOK'
      BY <1>0, <1>2, <2>0, <3>2, <3>3 DEF AcceptSubmit, OthersOK
    <3> QED
      BY <1>0, <1>2, <3>4, <1>f, TypeJoin DEF AcceptSubmit, ConnsOK
  <2> QED
    BY <2>1, <2>2
<1>3. CASE Publish
  <2>1. Durable(busy.seq) \in FrameRecords /\ busy.conn \in Conns \cup {NoConn}
    BY <1>0, FrameType DEF OthersOK, Durable, Kinds
  <2>2. conn' = IF busy.conn = NoConn THEN Broadcast(Durable(busy.seq))
                ELSE [Broadcast(Durable(busy.seq)) EXCEPT ![busy.conn] = Answer(@)]
    BY <1>3 DEF Publish
  <2>3. ConnsOK'
    BY <2>1, <2>2, BroadcastType, AnswerFields DEF ConnsOK
  <2>4. OthersOK'
    BY <1>0, <1>3 DEF Publish, OthersOK, NoCall
  <2> QED
    BY <2>3, <2>4, <1>f, TypeJoin
<1>4. ASSUME NEW c \in Conns, FailRequest(c) PROVE TypeOK'
  <2>0. conn[c].wait \in Msgs /\ conn[c] \in ConnRecords
    BY <1>0, <1>4 DEF ConnsOK, ConnRecords, FailRequest
  <2>1. ConnsOK'
    BY <1>0, <1>4, <2>0, AnswerFields DEF FailRequest, ConnsOK
  <2>2. busy' \in [seq : Nat, conn : Conns \cup {NoConn}]
    BY <1>0, <1>4 DEF FailRequest, OthersOK
  <2>3. OthersOK'
    BY <1>0, <1>4, <2>0, <2>2, SMTT(20) DEF FailRequest, OthersOK
  <2> QED
    BY <2>1, <2>3, <1>f, TypeJoin
<1>5. CASE Delta
  <2>1. rev' \in 0..MaxRevs
    BY <1>0, <1>5, DeliveryAssumption DEF Delta, OthersOK
  <2>2. Transient(rev') \in FrameRecords
    BY <2>1, DeliveryAssumption, FrameType DEF Transient, Kinds
  <2>3. ConnsOK'
    BY <1>5, <2>2, BroadcastType DEF Delta, ConnsOK
  <2>4. OthersOK'
    BY <1>0, <1>5, <2>1 DEF Delta, OthersOK
  <2> QED
    BY <2>3, <2>4, <1>f, TypeJoin
<1>6. CASE DaemonCrash
  <2>1. ASSUME NEW c \in Conns
        PROVE  conn'[c] \in ConnRecords /\ Len(conn'[c].buf) <= BufferSize
    BY <1>0, <1>6, FreeType, EndedFields, EmptyLen DEF DaemonCrash, ConnsOK
  <2>2. ConnsOK'
    BY <1>6, <2>1 DEF DaemonCrash, ConnsOK
  <2>4. OthersOK'
    BY <1>0, <1>6, DeliveryAssumption DEF DaemonCrash, OthersOK, NoCall
  <2> QED
    BY <2>2, <2>4, <1>f, TypeJoin
<1> QED
  BY <1>1, <1>2, <1>3, <1>4, <1>5, <1>6 DEF Coordinate

----------------------------------------------------------------------------
(* What each step of a session does to its connection.                     *)

OthersKept(c) == \A d \in Conns : d # c => conn'[d] = conn[d]
RestKept == UNCHANGED <<roomVars, cphase, con, cursorVars, probe, crev, applying, times, sentVars>>

LEMMA SessionConn ==
    ASSUME TypeOK, NEW c \in Conns, NEW r \in ConnRecords, Len(r.buf) <= BufferSize,
           conn' = [conn EXCEPT ![c] = r]
    PROVE  ConnsOK' /\ conn'[c] = r /\ OthersKept(c)
  BY OneConn DEF TypeOK, ConnsOK, OthersKept

\* Two connections that differ in their phase at most, and what they share.
SameWire(p, q) == p.gone = q.gone /\ p.down = q.down /\ p.up = q.up /\ p.ack = q.ack
SameSession(p, q) == p.last = q.last /\ p.high = q.high /\ p.fence = q.fence /\ p.wait = q.wait
SameBuffer(p, q) == p.buf = q.buf /\ p.closed = q.closed

LEMMA SubscribeStep ==
    ASSUME TypeOK, NEW c \in Conns, Subscribe(c)
    PROVE  /\ ConnsOK' /\ RestKept /\ UNCHANGED boundVars /\ OthersKept(c)
           /\ conn[c].phase = "hello" /\ conn'[c].phase = "subscribed"
           /\ SameWire(conn'[c], conn[c]) /\ SameSession(conn'[c], conn[c])
           /\ SameBuffer(conn'[c], conn[c])
<1>0. conn[c] \in ConnRecords /\ Len(conn[c].buf) <= BufferSize
  BY DEF TypeOK
<1> DEFINE r == [conn[c] EXCEPT !.phase = "subscribed"]
<1>1. /\ r \in ConnRecords /\ r.phase = "subscribed" /\ SameWire(r, conn[c])
      /\ SameSession(r, conn[c]) /\ SameBuffer(r, conn[c])
  BY <1>0 DEF ConnRecords, SameWire, SameSession, SameBuffer
<1>2. conn' = [conn EXCEPT ![c] = r] /\ conn[c].phase = "hello" /\ RestKept /\ UNCHANGED boundVars
  BY DEF Subscribe, Session, RestKept
<1>3. Len(r.buf) <= BufferSize
  BY <1>0, <1>1 DEF SameBuffer
<1> HIDE DEF r
<1> QED
  BY <1>1, <1>2, <1>3, SessionConn

\* A session that ends, with or without a last frame.
GivesUp(c) == conn'[c] = Failed(conn[c]) \/ conn'[c] = Ended(conn[c])

LEMMA EndConn ==
    ASSUME TypeOK, NEW c \in Conns,
           \/ conn' = [conn EXCEPT ![c] = Failed(conn[c])]
           \/ conn' = [conn EXCEPT ![c] = Ended(conn[c])]
    PROVE  ConnsOK' /\ OthersKept(c) /\ GivesUp(c)
<1>0. conn[c] \in ConnRecords
  BY DEF TypeOK
<1>1. Len(Failed(conn[c]).buf) <= BufferSize /\ Len(Ended(conn[c]).buf) <= BufferSize
  BY <1>0, FailedFields, EndedFields, EmptyLen
<1> QED
  BY <1>0, <1>1, FailedFields, EndedFields, SessionConn DEF GivesUp

LEMMA WelcomeStep ==
    ASSUME TypeOK, NEW c \in Conns, Welcome(c)
    PROVE  /\ ConnsOK' /\ RestKept /\ UNCHANGED boundVars /\ OthersKept(c)
           /\ conn[c].phase = "subscribed"
           /\ \/ GivesUp(c)
              \/ /\ conn[c].last <= Len(log)
                 /\ conn'[c].phase = "paging" /\ conn'[c].high = Len(log)
                 /\ conn'[c].last = conn[c].last /\ conn'[c].wait = conn[c].wait
                 /\ conn'[c].gone = conn[c].gone /\ conn'[c].up = conn[c].up
                 /\ conn'[c].ack = conn[c].ack /\ SameBuffer(conn'[c], conn[c])
                 /\ conn'[c].down = IF conn[c].gone THEN conn[c].down
                                    ELSE Append(conn[c].down, Frame("welcome", Len(log), NoMsg))
<1>0. /\ conn[c] \in ConnRecords /\ Len(conn[c].buf) <= BufferSize /\ Len(log) \in Nat
      /\ conn[c].last \in Nat
  BY LenProperties DEF TypeOK, ConnRecords
<1>1. conn[c].phase = "subscribed" /\ RestKept /\ UNCHANGED boundVars
  BY DEF Welcome, Session, RestKept
<1>2. CASE conn[c].last > Len(log)
  BY <1>1, <1>2, EndConn DEF Welcome, Session
<1>3. CASE ~(conn[c].last > Len(log))
  <2> DEFINE f == Frame("welcome", Len(log), NoMsg)
             s == Send(conn[c], f)
             r == [s EXCEPT !.phase = "paging", !.high = Len(log)]
  <2>1. conn' = [conn EXCEPT ![c] = r]
    BY <1>3 DEF Welcome, Session
  <2>2. f \in FrameRecords
    BY <1>0, FrameType DEF Kinds
  <2>3. s \in ConnRecords
    BY <1>0, <2>2, SendFields
  <2>4. /\ r \in ConnRecords /\ r.phase = "paging" /\ r.high = Len(log) /\ r.last = s.last
        /\ r.wait = s.wait /\ SameWire(r, s) /\ SameBuffer(r, s)
    BY <1>0, <2>3 DEF ConnRecords, SameWire, SameBuffer
  <2>5. /\ s.last = conn[c].last /\ s.wait = conn[c].wait /\ s.gone = conn[c].gone
        /\ s.up = conn[c].up /\ s.ack = conn[c].ack /\ SameBuffer(s, conn[c])
        /\ s.down = IF conn[c].gone THEN conn[c].down ELSE Append(conn[c].down, f)
    BY <1>0, <2>2, SendFields DEF SameBuffer
  <2>6. Len(r.buf) <= BufferSize
    BY <1>0, <2>4, <2>5 DEF SameBuffer
  <2>7. ConnsOK' /\ conn'[c] = r /\ OthersKept(c)
    <3> HIDE DEF r
    <3> QED
      BY <2>1, <2>4, <2>6, SessionConn
  <2> HIDE DEF r, s
  <2> QED
    BY <1>0, <1>1, <1>3, <2>4, <2>5, <2>7 DEF SameWire, SameBuffer
<1> QED
  BY <1>2, <1>3

\* The events of a page.
PageOf(r) == [i \in 1..(PageEnd(r) - r.last) |-> Durable(r.last + i)]

LEMMA PageFacts ==
    ASSUME NEW r \in ConnRecords, r.last < r.high
    PROVE  /\ PageEnd(r) \in Nat /\ r.last < PageEnd(r) /\ PageEnd(r) <= r.high
           /\ PageOf(r) \in Seq(FrameRecords) /\ Len(PageOf(r)) = PageEnd(r) - r.last
           /\ \A i \in 1..(PageEnd(r) - r.last) :
                 PageOf(r)[i].kind = "event" /\ PageOf(r)[i].n = r.last + i /\ PageOf(r)[i].msg = NoMsg
<1>1. PageEnd(r) \in Nat /\ r.last < PageEnd(r) /\ PageEnd(r) <= r.high /\ r.last \in Nat
  BY DeliveryAssumption DEF PageEnd, ConnRecords
<1>2. \A n \in Nat : /\ Durable(n) \in FrameRecords /\ Durable(n).kind = "event"
                     /\ Durable(n).n = n /\ Durable(n).msg = NoMsg
  BY FrameType DEF Durable, Kinds
<1>3. PageEnd(r) - r.last \in Nat
  BY <1>1
<1>4. PageOf(r) \in [1..(PageEnd(r) - r.last) -> FrameRecords]
  BY <1>1, <1>2 DEF PageOf
<1>5. PageOf(r) \in Seq(FrameRecords) /\ Len(PageOf(r)) = PageEnd(r) - r.last
  BY <1>3, <1>4, LenProperties, IsASeq
<1> QED
  BY <1>1, <1>2, <1>5 DEF PageOf

LEMMA PageStep ==
    ASSUME TypeOK, NEW c \in Conns, Page(c)
    PROVE  /\ ConnsOK' /\ RestKept /\ UNCHANGED boundVars /\ OthersKept(c)
           /\ conn[c].phase = "paging" /\ conn[c].last < conn[c].high
           /\ \/ GivesUp(c)
              \/ /\ conn'[c].phase = "paging" /\ conn'[c].high = conn[c].high
                 /\ conn'[c].last = PageEnd(conn[c]) /\ conn'[c].wait = conn[c].wait
                 /\ conn'[c].gone = conn[c].gone /\ conn'[c].up = conn[c].up
                 /\ conn'[c].ack = conn[c].ack /\ SameBuffer(conn'[c], conn[c])
                 /\ conn'[c].down = IF conn[c].gone THEN conn[c].down
                                    ELSE conn[c].down \o PageOf(conn[c])
<1>0. /\ conn[c] \in ConnRecords /\ Len(conn[c].buf) <= BufferSize
      /\ conn[c].down \in Seq(FrameRecords)
  BY DEF TypeOK, ConnRecords
<1>1. /\ conn[c].phase = "paging" /\ RestKept /\ UNCHANGED boundVars /\ conn[c].last < conn[c].high
  BY DEF Page, Session, RestKept
<1>2. CASE conn[c].closed
  BY <1>1, <1>2, EndConn DEF Page, Session
<1>3. CASE ~conn[c].closed
  <2> DEFINE d == IF conn[c].gone THEN conn[c].down ELSE conn[c].down \o PageOf(conn[c])
             r == [conn[c] EXCEPT !.last = PageEnd(conn[c]), !.down = d]
  <2>1. conn' = [conn EXCEPT ![c] = r]
    BY <1>3 DEF Page, Session, PageOf
  <2>2. d \in Seq(FrameRecords) /\ PageEnd(conn[c]) \in Nat
    BY <1>0, <1>1, PageFacts, ConcatProperties
  <2> HIDE DEF d
  <2>4. /\ r \in ConnRecords /\ r.phase = conn[c].phase /\ r.high = conn[c].high
        /\ r.last = PageEnd(conn[c]) /\ r.down = d /\ r.gone = conn[c].gone
        /\ r.up = conn[c].up /\ r.ack = conn[c].ack
        /\ r.wait = conn[c].wait /\ SameBuffer(r, conn[c])
    BY <1>0, <2>2 DEF ConnRecords, SameBuffer
  <2>6. Len(r.buf) <= BufferSize
    BY <1>0, <2>4 DEF SameBuffer
  <2>7. ConnsOK' /\ conn'[c] = r /\ OthersKept(c)
    <3> HIDE DEF r
    <3> QED
      BY <2>1, <2>4, <2>6, SessionConn
  <2> HIDE DEF r
  <2> QED
    BY <1>1, <2>4, <2>7 DEF SameBuffer, d
<1> QED
  BY <1>2, <1>3

LEMMA SnapshotStep ==
    ASSUME TypeOK, NEW c \in Conns, Snapshot(c)
    PROVE  /\ ConnsOK' /\ RestKept /\ UNCHANGED boundVars /\ OthersKept(c)
           /\ conn[c].phase = "paging" /\ conn[c].last >= conn[c].high /\ busy = NoCall
           /\ conn'[c].phase = "live" /\ conn'[c].fence = rev
           /\ conn'[c].wait = conn[c].wait /\ conn'[c].gone = conn[c].gone
           /\ conn'[c].up = conn[c].up /\ conn'[c].ack = conn[c].ack
           /\ SameBuffer(conn'[c], conn[c])
           /\ conn'[c].down = IF conn[c].gone THEN conn[c].down
                              ELSE Append(conn[c].down, Frame("snapshot", rev, NoMsg))
<1>0. conn[c] \in ConnRecords /\ Len(conn[c].buf) <= BufferSize /\ rev \in Nat
  BY DeliveryAssumption DEF TypeOK
<1>1. /\ conn[c].phase = "paging" /\ RestKept /\ UNCHANGED boundVars /\ conn[c].last >= conn[c].high
      /\ busy = NoCall
  BY DEF Snapshot, Session, RestKept, CoordinatorIdle
<1> DEFINE f == Frame("snapshot", rev, NoMsg)
           s == Send(conn[c], f)
           r == [s EXCEPT !.phase = "live", !.fence = rev]
<1>2. conn' = [conn EXCEPT ![c] = r]
  BY DEF Snapshot, Session
<1>3. f \in FrameRecords
  BY <1>0, FrameType DEF Kinds
<1>4. s \in ConnRecords
  BY <1>0, <1>3, SendFields
<1>5. /\ r \in ConnRecords /\ r.phase = "live" /\ r.fence = rev
      /\ r.wait = s.wait /\ SameWire(r, s) /\ SameBuffer(r, s)
  BY <1>0, <1>4 DEF ConnRecords, SameWire, SameBuffer
<1>6. /\ s.wait = conn[c].wait /\ s.gone = conn[c].gone
      /\ s.up = conn[c].up /\ s.ack = conn[c].ack /\ SameBuffer(s, conn[c])
      /\ s.down = IF conn[c].gone THEN conn[c].down ELSE Append(conn[c].down, f)
  BY <1>0, <1>3, SendFields DEF SameBuffer
<1>7. Len(r.buf) <= BufferSize
  BY <1>0, <1>5, <1>6 DEF SameBuffer
<1>8. ConnsOK' /\ conn'[c] = r /\ OthersKept(c)
  <2> HIDE DEF r
  <2> QED
    BY <1>2, <1>5, <1>7, SessionConn
<1> HIDE DEF r, s
<1> QED
  BY <1>1, <1>5, <1>6, <1>8 DEF SameWire, SameBuffer

LEMMA ForwardStep ==
    ASSUME TypeOK, NEW c \in Conns, Forward(c)
    PROVE  /\ ConnsOK' /\ RestKept /\ UNCHANGED boundVars /\ OthersKept(c)
           /\ Looping(conn[c]) /\ conn[c].buf # <<>> /\ Head(conn[c].buf) \in FrameRecords
           /\ conn'[c].phase = "live" /\ conn'[c].fence = conn[c].fence
           /\ conn'[c].wait = NoMsg /\ conn'[c].gone = conn[c].gone
           /\ conn'[c].up = conn[c].up /\ conn'[c].ack = conn[c].ack
           /\ conn'[c].closed = conn[c].closed /\ conn'[c].buf = Tail(conn[c].buf)
           /\ conn'[c].down =
                 IF \/ Head(conn[c].buf).kind = "delta" /\ Head(conn[c].buf).n <= conn[c].fence
                    \/ conn[c].gone
                 THEN conn[c].down ELSE Append(conn[c].down, Head(conn[c].buf))
<1>0. /\ conn[c] \in ConnRecords /\ Len(conn[c].buf) <= BufferSize
      /\ conn[c].buf \in Seq(FrameRecords)
  BY DEF TypeOK, ConnRecords
<1>1. /\ Looping(conn[c]) /\ conn[c].buf # <<>> /\ RestKept /\ UNCHANGED boundVars
  BY DEF Forward, Session, RestKept
<1> DEFINE b == Head(conn[c].buf)
           s == [conn[c] EXCEPT !.buf = Tail(@)]
           skip == b.kind = "delta" /\ b.n <= conn[c].fence
           r == IF skip THEN s ELSE Send(s, b)
<1>2. conn' = [conn EXCEPT ![c] = r]
  BY DEF Forward, Session
<1>3. /\ b \in FrameRecords /\ Tail(conn[c].buf) \in Seq(FrameRecords)
      /\ Len(Tail(conn[c].buf)) = Len(conn[c].buf) - 1 /\ Len(conn[c].buf) \in Nat
  BY <1>0, <1>1, TailType
<1>4. /\ s \in ConnRecords /\ s.phase = conn[c].phase /\ s.fence = conn[c].fence
      /\ s.wait = conn[c].wait /\ SameWire(s, conn[c]) /\ s.closed = conn[c].closed
      /\ s.buf = Tail(conn[c].buf)
  BY <1>0, <1>3 DEF ConnRecords, SameWire
<1> HIDE DEF s
<1>5. /\ r \in ConnRecords /\ r.phase = s.phase /\ r.fence = s.fence /\ r.wait = s.wait
      /\ r.gone = s.gone /\ r.up = s.up /\ r.ack = s.ack /\ SameBuffer(r, s)
      /\ r.down = IF skip \/ s.gone THEN s.down ELSE Append(s.down, b)
  <2>1. CASE skip
    BY <1>4, <2>1 DEF SameBuffer
  <2>2. CASE ~skip
    BY <1>3, <1>4, <2>2, SendFields DEF SameBuffer
  <2> QED
    BY <2>1, <2>2
<1>6. r.buf = Tail(conn[c].buf)
  BY <1>4, <1>5 DEF SameBuffer
<1>7. Len(r.buf) <= BufferSize
  <2> HIDE DEF r
  <2>1. BufferSize \in Nat
    BY DeliveryAssumption
  <2> QED
    BY <1>0, <1>3, <1>6, <2>1
<1>8. ConnsOK' /\ conn'[c] = r /\ OthersKept(c)
  <2> HIDE DEF r
  <2> QED
    BY <1>2, <1>5, <1>7, SessionConn
<1> HIDE DEF r
<1> QED
  BY <1>1, <1>3, <1>4, <1>5, <1>8 DEF SameWire, SameBuffer, Looping

LEMMA RequestStep ==
    ASSUME TypeOK, NEW c \in Conns, Request(c)
    PROVE  /\ ConnsOK' /\ RestKept /\ UNCHANGED boundVars /\ OthersKept(c)
           /\ Looping(conn[c]) /\ conn[c].up # <<>> /\ Head(conn[c].up) \in FrameRecords
           /\ conn'[c].phase = "live" /\ conn'[c].fence = conn[c].fence
           /\ conn'[c].gone = conn[c].gone /\ conn'[c].down = conn[c].down
           /\ conn'[c].up = Tail(conn[c].up) /\ SameBuffer(conn'[c], conn[c])
           /\ \/ /\ Head(conn[c].up).kind = "submit"
                 /\ conn'[c].wait = Head(conn[c].up).msg /\ conn'[c].ack = conn[c].ack
              \/ /\ Head(conn[c].up).kind = "ack" /\ conn'[c].wait = NoMsg
                 /\ conn'[c].ack \in {conn[c].ack, Head(conn[c].up).n}
<1>0. /\ conn[c] \in ConnRecords /\ Len(conn[c].buf) <= BufferSize
      /\ conn[c].up \in Seq(FrameRecords) /\ conn[c].ack \in Nat
  BY DEF TypeOK, ConnRecords
<1>1. /\ Looping(conn[c]) /\ conn[c].up # <<>> /\ RestKept /\ UNCHANGED boundVars
  BY DEF Request, Session, RestKept
<1> DEFINE f == Head(conn[c].up)
           s == [conn[c] EXCEPT !.up = Tail(@)]
           r1 == [s EXCEPT !.wait = f.msg]
           r2 == [s EXCEPT !.ack = IF f.n < conn[c].ack THEN conn[c].ack ELSE f.n]
<1>2. \/ f.kind = "submit" /\ conn' = [conn EXCEPT ![c] = r1]
      \/ f.kind = "ack" /\ conn' = [conn EXCEPT ![c] = r2]
  BY DEF Request, Session
<1>3. f \in FrameRecords /\ Tail(conn[c].up) \in Seq(FrameRecords)
  BY <1>0, <1>1, TailType
<1>a. f.n \in Nat /\ f.msg \in Msgs \cup {NoMsg}
  BY <1>3 DEF FrameRecords
<1>4. /\ s \in ConnRecords /\ s.phase = conn[c].phase /\ s.fence = conn[c].fence
      /\ s.gone = conn[c].gone /\ s.down = conn[c].down /\ s.up = Tail(conn[c].up)
      /\ s.ack = conn[c].ack /\ s.wait = conn[c].wait /\ SameBuffer(s, conn[c])
  BY <1>0, <1>3 DEF ConnRecords, SameBuffer
<1> HIDE DEF s
<1>5. /\ r1 \in ConnRecords /\ r1.phase = s.phase /\ r1.fence = s.fence
      /\ r1.gone = s.gone /\ r1.down = s.down /\ r1.up = s.up /\ SameBuffer(r1, s)
      /\ r1.wait = f.msg /\ r1.ack = s.ack
  BY <1>4, <1>a DEF ConnRecords, SameBuffer
<1>6. /\ r2 \in ConnRecords /\ r2.phase = s.phase /\ r2.fence = s.fence
      /\ r2.gone = s.gone /\ r2.down = s.down /\ r2.up = s.up /\ SameBuffer(r2, s)
      /\ r2.wait = s.wait /\ r2.ack \in {conn[c].ack, f.n}
  BY <1>0, <1>4, <1>a DEF ConnRecords, SameBuffer
<1>7. Len(r1.buf) <= BufferSize /\ Len(r2.buf) <= BufferSize
  BY <1>0, <1>4, <1>5, <1>6 DEF SameBuffer
<1> HIDE DEF r1, r2
<1>8. \/ f.kind = "submit" /\ ConnsOK' /\ conn'[c] = r1 /\ OthersKept(c)
      \/ f.kind = "ack" /\ ConnsOK' /\ conn'[c] = r2 /\ OthersKept(c)
  BY <1>2, <1>5, <1>6, <1>7, SessionConn
<1> QED
  BY <1>1, <1>3, <1>4, <1>5, <1>6, <1>8 DEF SameBuffer, Looping

\* SlowClient and SessionFails; and SessionEnds.
LEMMA EndStep ==
    ASSUME TypeOK, NEW c \in Conns, SlowClient(c) \/ SessionFails(c)
    PROVE  /\ ConnsOK' /\ RestKept
           /\ UNCHANGED <<clientCrashes, failures, retries, overflows, daemonCrashes>>
           /\ breaks' \in Nat /\ OthersKept(c) /\ GivesUp(c)
           /\ conn[c].wait = NoMsg
<1>1. CASE SlowClient(c)
  BY <1>1, EndConn DEF SlowClient, Session, Looping, RestKept, boundVars, TypeOK
<1>2. CASE SessionFails(c)
  BY <1>2, EndConn DEF SessionFails, RestKept, TypeOK
<1> QED
  BY <1>1, <1>2

LEMMA GoneStep ==
    ASSUME TypeOK, NEW c \in Conns, SessionEnds(c)
    PROVE  /\ ConnsOK' /\ RestKept /\ UNCHANGED boundVars /\ OthersKept(c)
           /\ conn[c].gone /\ conn[c].wait = NoMsg /\ conn'[c] = Free
  BY FreeType, EmptyLen, SessionConn DEF SessionEnds, Session, RestKept

----------------------------------------------------------------------------
(* What each step of the client does to its connection.                    *)

LEMMA DialStep ==
    ASSUME TypeOK, NEW c \in Conns, Dial(c)
    PROVE  /\ ConnsOK' /\ OthersKept(c) /\ con' = c /\ con = NoConn /\ cphase' = "hello" /\ cphase = "dial"
           /\ UNCHANGED <<roomVars, cursorVars, probe, crev, applying, times, sentVars, boundVars>>
           /\ conn[c].phase = "free"
           /\ conn'[c].phase = "hello" /\ ~conn'[c].gone /\ conn'[c].buf = <<>> /\ conn'[c].down = <<>>
           /\ conn'[c].up = <<>> /\ conn'[c].wait = NoMsg /\ conn'[c].ack = 0
           /\ conn'[c].last \in {0, cur}
<1>1. cur \in Nat
  BY DEF TypeOK
<1> DEFINE r == [Free EXCEPT !.phase = "hello", !.last = IF probe THEN 0 ELSE cur]
<1>2. /\ r \in ConnRecords /\ r.phase = "hello" /\ ~r.gone /\ r.buf = <<>> /\ r.down = <<>>
      /\ r.up = <<>> /\ r.wait = NoMsg /\ r.ack = 0 /\ r.last \in {0, cur}
  BY <1>1, FreeType DEF ConnRecords
<1>3. conn' = [conn EXCEPT ![c] = r]
  BY DEF Dial
<1> HIDE DEF r
<1>4. ConnsOK' /\ conn'[c] = r /\ OthersKept(c)
  BY <1>2, <1>3, EmptyLen, SessionConn
<1> QED
  BY <1>2, <1>4 DEF Dial, TypeOK

\* The client closes its end of a connection.
LEMMA LeaveConn ==
    ASSUME TypeOK, con # NoConn, conn' = [conn EXCEPT ![con] = Left(conn[con])]
    PROVE  /\ ConnsOK' /\ con \in Conns /\ OthersKept(con) /\ conn'[con] = Left(conn[con])
<1>1. con \in Conns /\ conn[con] \in ConnRecords /\ Len(conn[con].buf) <= BufferSize
  BY DEF TypeOK
<1>2. Left(conn[con]) \in ConnRecords /\ Len(Left(conn[con]).buf) <= BufferSize
  BY <1>1, LeftFields, FreeType, EmptyLen
<1> QED
  BY <1>1, <1>2, SessionConn

\* What the client keeps when it reads or writes.
OwnKept ==
    /\ ConnsOK' /\ con \in Conns /\ OthersKept(con)
    /\ conn'[con].phase = conn[con].phase /\ conn'[con].gone = conn[con].gone
    /\ SameSession(conn'[con], conn[con]) /\ SameBuffer(conn'[con], conn[con])
    /\ conn'[con].ack = conn[con].ack

LEMMA OwnConn ==
    ASSUME TypeOK, con # NoConn, NEW r \in ConnRecords, conn' = [conn EXCEPT ![con] = r],
           r.phase = conn[con].phase, r.gone = conn[con].gone, r.ack = conn[con].ack,
           SameSession(r, conn[con]), SameBuffer(r, conn[con])
    PROVE  OwnKept /\ conn'[con].down = r.down /\ conn'[con].up = r.up
<1>1. con \in Conns /\ conn[con] \in ConnRecords /\ Len(r.buf) <= BufferSize
  BY DEF TypeOK, SameBuffer
<1> QED
  BY <1>1, SessionConn DEF OwnKept

\* The client takes the next frame.
LEMMA TakenFields ==
    ASSUME TypeOK, NEW f, Arrives(f)
    PROVE  /\ con \in Conns /\ f \in FrameRecords /\ Taken \in ConnRecords
           /\ conn[con].down \in Seq(FrameRecords) /\ conn[con].down # <<>> /\ f = Head(conn[con].down)
           /\ conn[con].up \in Seq(FrameRecords)
           /\ Taken.phase = conn[con].phase /\ Taken.gone = conn[con].gone /\ Taken.ack = conn[con].ack
           /\ SameSession(Taken, conn[con]) /\ SameBuffer(Taken, conn[con])
           /\ Taken.down = Tail(conn[con].down) /\ Taken.up = conn[con].up
<1>1. /\ con \in Conns /\ conn[con] \in ConnRecords /\ conn[con].down \in Seq(FrameRecords)
      /\ conn[con].down # <<>> /\ f = Head(conn[con].down) /\ conn[con].up \in Seq(FrameRecords)
  BY DEF TypeOK, Arrives, ConnRecords
<1>2. f \in FrameRecords /\ Tail(conn[con].down) \in Seq(FrameRecords)
  BY <1>1, TailType
<1> QED
  BY <1>1, <1>2 DEF Taken, ConnRecords, SameSession, SameBuffer

LEMMA TakeStep ==
    ASSUME TypeOK, NEW f, Arrives(f), conn' = [conn EXCEPT ![con] = Taken]
    PROVE  /\ OwnKept /\ conn'[con].down = Tail(conn[con].down) /\ conn'[con].up = conn[con].up
           /\ conn[con].down # <<>> /\ f = Head(conn[con].down) /\ f \in FrameRecords
           /\ conn[con].down \in Seq(FrameRecords) /\ applying = 0
<1>1. con # NoConn /\ applying = 0
  BY DEF Arrives
<1> QED
  BY <1>1, TakenFields, OwnConn

\* Something is written.
LEMMA WriteFields ==
    ASSUME NEW r \in ConnRecords, NEW u \in Seq(FrameRecords)
    PROVE  LET w == [r EXCEPT !.up = u] IN
           /\ w \in ConnRecords /\ w.phase = r.phase /\ w.gone = r.gone /\ w.ack = r.ack
           /\ SameSession(w, r) /\ SameBuffer(w, r) /\ w.down = r.down /\ w.up = u
  BY DEF ConnRecords, SameSession, SameBuffer

LEMMA WriteStep ==
    ASSUME TypeOK, con # NoConn, NEW u \in Seq(FrameRecords),
           conn' = [conn EXCEPT ![con] = [conn[con] EXCEPT !.up = u]]
    PROVE  OwnKept /\ conn'[con].down = conn[con].down /\ conn'[con].up = u
<1>1. conn[con] \in ConnRecords
  BY DEF TypeOK
<1> DEFINE w == [conn[con] EXCEPT !.up = u]
<1>2. /\ w \in ConnRecords /\ w.phase = conn[con].phase /\ w.gone = conn[con].gone
      /\ w.ack = conn[con].ack
      /\ SameSession(w, conn[con]) /\ SameBuffer(w, conn[con]) /\ w.down = conn[con].down /\ w.up = u
  BY <1>1, WriteFields
<1>3. conn' = [conn EXCEPT ![con] = w]
  OBVIOUS
<1> HIDE DEF w
<1> QED
  BY <1>2, <1>3, OwnConn

\* The submissions that are sent again.
LEMMA ResendFacts ==
    ASSUME TypeOK
    PROVE  /\ Resend \in Seq(FrameRecords) /\ Len(Resend) = Len(order) /\ Len(order) \in Nat
           /\ \A i \in 1..Len(order) : Resend[i].kind = "submit" /\ Resend[i].msg = order[i]
<1>1. order \in Seq(Msgs) /\ Len(order) \in Nat /\ \A i \in 1..Len(order) : order[i] \in Msgs
  BY LenProperties, ElementOfSeq DEF TypeOK
<1>2. \A m \in Msgs : /\ SubmitFrame(m) \in FrameRecords /\ SubmitFrame(m).kind = "submit"
                      /\ SubmitFrame(m).msg = m
  BY FrameType DEF SubmitFrame, Kinds
<1>3. Resend \in [1..Len(order) -> FrameRecords]
  BY <1>1, <1>2 DEF Resend
<1>4. Resend \in Seq(FrameRecords) /\ Len(Resend) = Len(order)
  BY <1>1, <1>3, LenProperties, IsASeq
<1> QED
  BY <1>1, <1>2, <1>4 DEF Resend

\* A session's step keeps the types.
LEMMA ServeType ==
    ASSUME TypeOK, NEW c \in Conns, Serve(c) \/ SessionFails(c) PROVE TypeOK'
<1>0. OthersOK /\ FlagsOK
  BY TypeSplit
<1>1. /\ ConnsOK' /\ RestKept /\ breaks' \in Nat
      /\ UNCHANGED <<clientCrashes, failures, retries, overflows, daemonCrashes>>
  BY <1>0, SubscribeStep, WelcomeStep, PageStep, SnapshotStep, ForwardStep, RequestStep, EndStep, GoneStep
     DEF Serve, boundVars, OthersOK
<1>2. FlagsOK'
  BY <1>0, <1>1, Zenon DEF FlagsOK, RestKept, cursorVars
<1>3. OthersOK'
  BY <1>0, <1>1 DEF OthersOK, RestKept, roomVars, cursorVars, sentVars
<1> QED
  BY <1>1, <1>2, <1>3, TypeJoin

\* What an answered submission leaves.
LEMMA SettleFacts ==
    ASSUME TypeOK, NEW m
    PROVE  /\ Settle(m) \in Seq(Msgs)
           /\ \/ Settle(m) = order
              \/ \E i \in 1..Len(order) :
                    /\ order[i] = m /\ Len(Settle(m)) = Len(order) - 1
                    /\ \A j \in 1..(i - 1) : Settle(m)[j] = order[j]
                    /\ \A j \in i..(Len(order) - 1) : Settle(m)[j] = order[j + 1]
<1>1. order \in Seq(Msgs) /\ Len(order) \in Nat
  BY LenProperties DEF TypeOK
<1>2. CASE \E i \in 1..Len(order) : order[i] = m
  <2> DEFINE i == CHOOSE i \in 1..Len(order) : order[i] = m
  <2>1. i \in 1..Len(order) /\ order[i] = m
    BY <1>2
  <2> DEFINE p == SubSeq(order, 1, i - 1)
             q == SubSeq(order, i + 1, Len(order))
  <2>2. Settle(m) = p \o q
    BY <1>2 DEF Settle
  <2> HIDE DEF i
  <2>3. p \in Seq(Msgs) /\ Len(p) = i - 1 /\ \A j \in 1..(i - 1) : p[j] = order[j]
    BY <1>1, <2>1, SubSeqProperties
  <2>4. /\ q \in Seq(Msgs) /\ Len(q) = Len(order) - i
        /\ \A j \in 1..(Len(order) - i) : q[j] = order[i + j]
    BY <1>1, <2>1, SubSeqProperties
  <2> HIDE DEF p, q
  <2>5. /\ Settle(m) \in Seq(Msgs) /\ Len(Settle(m)) = Len(p) + Len(q)
        /\ \A j \in 1..(Len(p) + Len(q)) : Settle(m)[j] = IF j <= Len(p) THEN p[j] ELSE q[j - Len(p)]
    BY <2>2, <2>3, <2>4, ConcatProperties
  <2>6. Len(Settle(m)) = Len(order) - 1
    BY <1>1, <2>1, <2>3, <2>4, <2>5
  <2>7. ASSUME NEW j \in 1..(i - 1) PROVE Settle(m)[j] = order[j]
    <3>1. j \in 1..(Len(p) + Len(q)) /\ j <= Len(p)
      BY <1>1, <2>1, <2>3, <2>4
    <3> QED
      BY <2>3, <2>5, <3>1
  <2>8. ASSUME NEW j \in i..(Len(order) - 1) PROVE Settle(m)[j] = order[j + 1]
    <3>1. j \in 1..(Len(p) + Len(q)) /\ ~(j <= Len(p)) /\ j - Len(p) \in 1..(Len(order) - i)
          /\ i + (j - Len(p)) = j + 1
      BY <1>1, <2>1, <2>3, <2>4
    <3> QED
      BY <2>4, <2>5, <3>1
  <2> QED
    BY <2>1, <2>5, <2>6, <2>7, <2>8
<1>3. CASE ~\E i \in 1..Len(order) : order[i] = m
  BY <1>1, <1>3 DEF Settle
<1> QED
  BY <1>2, <1>3

\* Every frame that arrives is one.
LEMMA AckType ==
    ASSUME NEW n \in Nat, NEW s \in Seq(FrameRecords)
    PROVE  /\ AckFrame(n) \in FrameRecords /\ AckFrame(n).kind = "ack" /\ AckFrame(n).n = n
           /\ Append(s, AckFrame(n)) \in Seq(FrameRecords)
  BY FrameType, AppendType DEF AckFrame, Kinds

\* The client's connection while a cursor is saved.
LEMMA SaveStep ==
    ASSUME TypeOK, SaveCursor, con # NoConn
    PROVE  /\ OwnKept /\ conn'[con].down = conn[con].down
           /\ conn'[con].up = IF cphase = "ready" THEN Append(conn[con].up, AckFrame(applying))
                              ELSE conn[con].up
<1>1. /\ conn' = [conn EXCEPT ![con] = Acknowledge(applying, conn[con])] /\ con \in Conns
      /\ conn[con] \in ConnRecords /\ conn[con].up \in Seq(FrameRecords) /\ applying \in Nat
  BY DEF SaveCursor, TypeOK, ConnRecords
<1>2. CASE cphase = "ready"
  <2>1. conn' = [conn EXCEPT ![con] = [conn[con] EXCEPT !.up = Append(conn[con].up, AckFrame(applying))]]
    BY <1>1, <1>2 DEF Acknowledge
  <2>2. Append(conn[con].up, AckFrame(applying)) \in Seq(FrameRecords)
    BY <1>1, AckType
  <2>3. /\ OwnKept /\ conn'[con].down = conn[con].down
        /\ conn'[con].up = Append(conn[con].up, AckFrame(applying))
    BY <2>1, <2>2, WriteStep
  <2> QED
    BY <1>2, <2>3
<1>3. CASE cphase # "ready"
  BY <1>1, <1>3, OwnConn DEF Acknowledge, SameSession, SameBuffer
<1> QED
  BY <1>2, <1>3

\* ... when a snapshot arrives
LEMMA SnapshotTaken ==
    ASSUME TypeOK, OnSnapshot
    PROVE  \E f : /\ Arrives(f) /\ f.kind = "snapshot" /\ crev' = f.n /\ f \in FrameRecords
                  /\ f = Head(conn[con].down) /\ conn[con].down # <<>>
                  /\ OwnKept /\ conn'[con].down = Tail(conn[con].down)
                  /\ conn'[con].up = IF cphase = "ready" THEN conn[con].up ELSE conn[con].up \o Resend
<1>1. PICK f \in Frames : Arrives(f) /\ f.kind = "snapshot" /\ crev' = f.n
  BY DEF OnSnapshot
<1> DEFINE u == IF cphase = "ready" THEN conn[con].up ELSE conn[con].up \o Resend
           w == [Taken EXCEPT !.up = u]
<1>2. /\ Taken \in ConnRecords /\ Taken.up = conn[con].up /\ conn[con].up \in Seq(FrameRecords)
      /\ f = Head(conn[con].down) /\ conn[con].down # <<>> /\ f \in FrameRecords
  BY <1>1, TakenFields
<1>3. u \in Seq(FrameRecords)
  BY <1>2, ResendFacts, ConcatProperties
<1>4. conn' = [conn EXCEPT ![con] = w]
  BY <1>2 DEF OnSnapshot
<1>5. /\ w \in ConnRecords /\ w.phase = Taken.phase /\ w.gone = Taken.gone /\ w.ack = Taken.ack
      /\ SameSession(w, Taken) /\ SameBuffer(w, Taken) /\ w.down = Taken.down /\ w.up = u
  BY <1>2, <1>3, WriteFields
<1>6. /\ w.phase = conn[con].phase /\ w.gone = conn[con].gone /\ w.ack = conn[con].ack
      /\ SameSession(w, conn[con]) /\ SameBuffer(w, conn[con]) /\ w.down = Tail(conn[con].down)
  BY <1>1, <1>5, TakenFields DEF SameSession, SameBuffer
<1> HIDE DEF w, u
<1>7. con # NoConn
  BY <1>1 DEF Arrives
<1>8. OwnKept /\ conn'[con].down = w.down /\ conn'[con].up = w.up
  BY <1>4, <1>5, <1>6, <1>7, OwnConn
<1> QED
  BY <1>1, <1>2, <1>5, <1>6, <1>8 DEF u

\* ... and when a submission is written.
LEMMA SubmitWritten ==
    ASSUME TypeOK, NEW m \in Msgs, Enter(m) \/ SubmitAgain(m)
    PROVE  /\ OwnKept /\ conn'[con].down = conn[con].down
           /\ conn'[con].up = Append(conn[con].up, SubmitFrame(m))
           /\ SubmitFrame(m) \in FrameRecords
<1>1. /\ con \in Conns /\ con # NoConn /\ conn[con] \in ConnRecords /\ conn[con].up \in Seq(FrameRecords)
  BY DeliveryAssumption DEF TypeOK, ConnRecords, Enter, SubmitAgain
<1>2. SubmitFrame(m) \in FrameRecords
  BY FrameType DEF SubmitFrame, Kinds
<1>3. conn' = [conn EXCEPT ![con] = [conn[con] EXCEPT !.up = Append(conn[con].up, SubmitFrame(m))]]
  BY <1>1 DEF Enter, SubmitAgain
<1>4. Append(conn[con].up, SubmitFrame(m)) \in Seq(FrameRecords)
  BY <1>1, <1>2, AppendType
<1> QED
  BY <1>1, <1>2, <1>3, <1>4, WriteStep

\* One event is rendered once more.
LEMMA CountOnce ==
    ASSUME NEW S, NEW t \in [S -> Nat], NEW x
    PROVE  LET u == [t EXCEPT ![x] = @ + 1] IN
           /\ u \in [S -> Nat] /\ \A y \in S : y # x => u[y] = t[y]
           /\ x \in S => u[x] = t[x] + 1
<1> DEFINE u == [t EXCEPT ![x] = @ + 1]
<1>1. u = [y \in S |-> IF y = x THEN t[x] + 1 ELSE t[y]]
  OBVIOUS
<1>2. \A y \in S : u[y] = IF y = x THEN t[x] + 1 ELSE t[y]
  BY <1>1
<1>3. \A y \in S : u[y] \in Nat
  BY <1>2
<1> QED
  BY <1>1, <1>2, <1>3

\* The client reads, or leaves.
LEMMA ReceiveType == ASSUME TypeOK, Receive PROVE TypeOK'
<1> USE DEF roomVars, cursorVars, sentVars, boundVars
<1>0. OthersOK /\ FlagsOK /\ ConnsOK
  BY TypeSplit
<1>f. FlagsOK'
  BY <1>0, Zenon DEF FlagsOK, Receive, OnWelcome, OnBadHello, OnReply, OnSnapshot, OnOldEvent, Render,
     SaveCursor, OnDelta, OnEOF, StillProbing
<1>c. con \in Conns \cup {NoConn}
  BY <1>0 DEF OthersOK
<1>t. ASSUME NEW f, Arrives(f), Take PROVE ConnsOK'
  BY <1>t, TakeStep DEF OwnKept, Take
<1>l. ASSUME con # NoConn, Leave PROVE ConnsOK'
  BY <1>l, LeaveConn DEF Leave
<1>n. ASSUME NEW f, Arrives(f) PROVE con # NoConn /\ con \in Conns /\ f.n \in Nat
  BY <1>n, TakenFields DEF Arrives, FrameRecords
<1>1. CASE OnWelcome
  <2>1. PICK f \in Frames : Arrives(f) /\ cur' = IF cur > f.n THEN 0 ELSE cur
    BY <1>1 DEF OnWelcome
  <2>2. ConnsOK'
    <3>1. CASE probe
      BY <1>1, <1>l, <1>n, <2>1, <3>1 DEF OnWelcome
    <3>2. CASE ~probe
      BY <1>1, <2>1, <3>2, TakeStep DEF OnWelcome, OwnKept
    <3> QED
      BY <3>1, <3>2
  <2>3. cur' \in Nat /\ saved' \in Nat
    BY <1>0, <1>1, <2>1 DEF OnWelcome, OthersOK
  <2>4. OthersOK'
    BY <1>0, <1>1, <1>n, <2>1, <2>3 DEF OnWelcome, OthersOK, Leave
  <2> QED
    BY <1>f, <2>2, <2>4, TypeJoin
<1>2. CASE OnBadHello
  <2>1. con # NoConn
    BY <1>2, <1>n DEF OnBadHello
  <2>2. ConnsOK'
    BY <1>2, <1>l, <2>1 DEF OnBadHello
  <2>3. OthersOK'
    BY <1>0, <1>2 DEF OnBadHello, OthersOK, Leave
  <2> QED
    BY <1>f, <2>2, <2>3, TypeJoin
<1>3. CASE OnReply
  <2>1. PICK f \in Frames : Arrives(f) /\ order' = Settle(f.msg)
    BY <1>3 DEF OnReply
  <2>2. order' \in Seq(Msgs)
    BY <2>1, SettleFacts
  <2>3. ConnsOK'
    BY <1>3, <1>t, <2>1 DEF OnReply
  <2>4. OthersOK'
    BY <1>0, <1>3, <2>2 DEF OnReply, OthersOK, Take
  <2> QED
    BY <1>f, <2>3, <2>4, TypeJoin
<1>4. CASE OnSnapshot
  <2>1. OwnKept /\ crev' \in Nat
    BY <1>4, SnapshotTaken DEF FrameRecords
  <2>2. con # NoConn
    BY <1>4, <1>n DEF OnSnapshot
  <2>4. OthersOK'
    BY <1>0, <1>4, <2>1, <2>2 DEF OnSnapshot, OthersOK
  <2> QED
    BY <1>f, <2>1, <2>4, TypeJoin DEF OwnKept
<1>5. CASE OnOldEvent
  <2>1. ConnsOK'
    BY <1>5, <1>t DEF OnOldEvent
  <2>2. OthersOK'
    BY <1>0, <1>5 DEF OnOldEvent, OthersOK, Take
  <2> QED
    BY <1>f, <2>1, <2>2, TypeJoin
<1>6. CASE Render
  <2>1. PICK f \in Frames : Arrives(f) /\ applying' = f.n /\ times' = [times EXCEPT ![f.n] = @ + 1]
    BY <1>6 DEF Render
  <2>2. ConnsOK'
    BY <1>6, <1>t, <2>1 DEF Render
  <2>n. f.n \in Nat /\ times \in [Seqs -> Nat]
    BY <1>0, <1>n, <2>1 DEF OthersOK
  <2>m. times' \in [Seqs -> Nat]
    BY <2>1, <2>n, CountOnce
  <2>3. times' \in [Seqs -> Nat] /\ applying' \in Nat
    BY <2>1, <2>n, <2>m
  <2>4. OthersOK'
    BY <1>0, <1>6, <2>3 DEF Render, OthersOK, Take
  <2> QED
    BY <1>f, <2>2, <2>4, TypeJoin
<1>7. CASE SaveCursor
  <2>1. ConnsOK'
    <3>1. CASE con # NoConn
      BY <1>7, <3>1, SaveStep DEF OwnKept
    <3>2. CASE con = NoConn
      BY <1>0, <1>7, <3>2, DeliveryAssumption DEF SaveCursor, ConnsOK
    <3> QED
      BY <3>1, <3>2
  <2>2. OthersOK'
    BY <1>0, <1>7 DEF SaveCursor, OthersOK
  <2> QED
    BY <1>f, <2>1, <2>2, TypeJoin
<1>8. CASE OnDelta
  <2>1. PICK f \in Frames : /\ Arrives(f)
                            /\ IF cphase = "ready"
                               THEN crev' = (IF f.n <= crev THEN crev ELSE f.n) /\ Take
                               ELSE Leave /\ UNCHANGED crev
    BY <1>8 DEF OnDelta
  <2>2. ConnsOK'
    BY <1>t, <1>l, <1>n, <2>1
  <2>n. f.n \in Nat /\ crev \in Nat
    BY <1>0, <1>n, <2>1 DEF OthersOK
  <2>3. crev' \in Nat
    BY <2>1, <2>n
  <2>4. OthersOK'
    BY <1>0, <1>8, <2>1, <2>3 DEF OnDelta, OthersOK, Take, Leave
  <2> QED
    BY <1>f, <2>2, <2>4, TypeJoin
<1>9. CASE OnEOF
  <2>1. ConnsOK'
    BY <1>9, <1>l DEF OnEOF
  <2>2. OthersOK'
    BY <1>0, <1>9 DEF OnEOF, OthersOK, Leave
  <2> QED
    BY <1>f, <2>1, <2>2, TypeJoin
<1> QED
  BY <1>1, <1>2, <1>3, <1>4, <1>5, <1>6, <1>7, <1>8, <1>9 DEF Receive

\* Start, connect, type, lose the connection, die.
LEMMA ClientType == ASSUME TypeOK, Client PROVE TypeOK'
<1> USE DEF roomVars, cursorVars, sentVars, boundVars
<1>0. OthersOK /\ FlagsOK /\ ConnsOK
  BY TypeSplit
<1>f. FlagsOK'
  BY <1>0, Zenon DEF FlagsOK, Client, ClientStart, QueueFull, ConnectionLost, ClientCrash, Dial, Enter, SubmitAgain
<1>1. CASE ClientStart
  <2>1. OthersOK' /\ ConnsOK'
    BY <1>0, <1>1 DEF ClientStart, OthersOK, ConnsOK
  <2> QED
    BY <1>f, <2>1, TypeJoin
<1>2. CASE ConnectionLost
  <2>1. OthersOK'
    BY <1>0, <1>2 DEF ConnectionLost, OthersOK, Leave
  <2>2. ConnsOK'
    BY <1>2, LeaveConn DEF ConnectionLost, Leave
  <2> QED
    BY <1>f, <2>1, <2>2, TypeJoin
<1>3. CASE ClientCrash
  <2>1. ConnsOK'
    BY <1>0, <1>3, LeaveConn DEF ClientCrash, ConnsOK
  <2>2. order' \in Seq(Msgs) /\ excused' \subseteq Msgs
    BY <1>0, <1>3, EmptySeq, ElementOfSeq, LenProperties DEF ClientCrash, OthersOK
  <2>3. OthersOK'
    BY <1>0, <1>3, <2>2 DEF ClientCrash, OthersOK
  <2> QED
    BY <1>f, <2>1, <2>3, TypeJoin
<1>6. CASE QueueFull
  <2>1. OthersOK'
    BY <1>0, <1>6 DEF QueueFull, OthersOK, Leave
  <2>2. con # NoConn
    BY <1>0, <1>6 DEF QueueFull, OthersOK
  <2>3. ConnsOK'
    BY <1>6, <2>2, LeaveConn DEF QueueFull, Leave
  <2> QED
    BY <1>f, <2>1, <2>3, TypeJoin
<1>4. ASSUME NEW c \in Conns, Dial(c) PROVE TypeOK'
  <2>1. ConnsOK'
    BY <1>4, DialStep
  <2>2. OthersOK'
    BY <1>0, <1>4, DialStep, DeliveryAssumption DEF OthersOK
  <2> QED
    BY <1>f, <2>1, <2>2, TypeJoin
<1>5. ASSUME NEW m \in Msgs, Enter(m) \/ SubmitAgain(m) PROVE TypeOK'
  <2>1. ConnsOK'
    BY <1>5, SubmitWritten DEF OwnKept
  <2>2. Append(order, m) \in Seq(Msgs) /\ Append(entered, m) \in Seq(Msgs)
    BY <1>0, AppendType DEF OthersOK
  <2>3. ASSUME Enter(m) PROVE OthersOK'
    BY <1>0, <2>2, <2>3 DEF Enter, OthersOK
  <2>4. ASSUME SubmitAgain(m) PROVE OthersOK'
    <3>1. order' \in Seq(Msgs) /\ retries' \in Nat
      <4>1. order' \in {Append(order, m), order} /\ retries' = retries + 1
        BY <2>4, Zenon DEF SubmitAgain
      <4> QED
        BY <1>0, <2>2, <4>1, SMTT(20) DEF OthersOK
    <3> QED
      BY <1>0, <2>4, <3>1 DEF SubmitAgain, OthersOK
  <2>5. OthersOK'
    BY <1>5, <2>3, <2>4
  <2> QED
    BY <1>f, <2>1, <2>5, TypeJoin
<1> QED
  BY <1>1, <1>2, <1>3, <1>4, <1>5, <1>6 DEF Client

LEMMA StutterType == ASSUME TypeOK, UNCHANGED vars PROVE TypeOK'
<1>1. OthersOK' /\ ConnsOK'
  BY DEF TypeOK, OthersOK, ConnsOK, vars, roomVars, cursorVars, sentVars, boundVars
<1>2. FlagsOK'
  BY Zenon DEF TypeOK, FlagsOK, vars, cursorVars
<1> QED
  BY <1>1, <1>2, TypeJoin

LEMMA InitType == Init => TypeOK
<1> SUFFICES ASSUME Init PROVE TypeOK
  OBVIOUS
<1>1. OthersOK
  BY EmptySeq, DeliveryAssumption DEF Init, OthersOK, NoCall
<1>2. ConnsOK
  BY FreeType, EmptyLen DEF Init, ConnsOK
<1>3. FlagsOK
  BY Zenon DEF Init, FlagsOK
<1> QED
  BY <1>1, <1>2, <1>3, TypeSplit

\* Every variable of the delivery keeps its type and no subscriber's channel
\* is filled beyond its capacity: publishing never blocks the coordinator.
THEOREM DeliveryTypeCorrect == Spec => []TypeOK
<1>1. ASSUME TypeOK, [Next]_vars PROVE TypeOK'
  BY <1>1, CoordinateType, ServeType, ReceiveType, ClientType, StutterType DEF Next
<1> QED
  BY <1>1, InitType, PTL DEF Spec

----------------------------------------------------------------------------
(* Streams: one frame more, one frame less, a page more.                   *)

LEMMA HoldsEmpty == \A k : Holds(<<>>, k) = {}
  BY EmptyLen DEF Holds

LEMMA HoldsAppend ==
    ASSUME NEW s \in Seq(FrameRecords), NEW f \in FrameRecords, NEW k
    PROVE  Holds(Append(s, f), k) = Holds(s, k) \cup (IF f.kind = k THEN {f.n} ELSE {})
<1>1. /\ Len(s) \in Nat /\ Len(Append(s, f)) = Len(s) + 1 /\ Append(s, f)[Len(s) + 1] = f
      /\ \A i \in 1..Len(s) : Append(s, f)[i] = s[i]
  BY AppendType
<1>2. ASSUME NEW x \in Holds(Append(s, f), k)
      PROVE  x \in Holds(s, k) \cup (IF f.kind = k THEN {f.n} ELSE {})
  <2>1. PICK j \in 1..Len(Append(s, f)) : Append(s, f)[j].kind = k /\ x = Append(s, f)[j].n
    BY DEF Holds
  <2>2. j \in 1..Len(s) \/ j = Len(s) + 1
    BY <1>1
  <2> QED
    BY <1>1, <2>1, <2>2 DEF Holds
<1>3. ASSUME NEW x \in Holds(s, k) PROVE x \in Holds(Append(s, f), k)
  <2>1. PICK j \in 1..Len(s) : s[j].kind = k /\ x = s[j].n
    BY <1>3 DEF Holds
  <2>2. j \in 1..Len(Append(s, f))
    BY <1>1
  <2> QED
    BY <1>1, <2>1, <2>2 DEF Holds
<1>4. f.kind = k => f.n \in Holds(Append(s, f), k)
  <2>1. Len(s) + 1 \in 1..Len(Append(s, f))
    BY <1>1
  <2> QED
    BY <1>1, <2>1 DEF Holds
<1> QED
  BY <1>2, <1>3, <1>4

LEMMA HoldsTail ==
    ASSUME NEW s \in Seq(FrameRecords), s # <<>>, NEW k
    PROVE  Holds(s, k) = Holds(Tail(s), k) \cup (IF Head(s).kind = k THEN {Head(s).n} ELSE {})
<1>1. /\ Head(s) = s[1] /\ Len(s) \in Nat /\ Len(s) > 0 /\ Len(Tail(s)) = Len(s) - 1
      /\ \A i \in 1..Len(Tail(s)) : Tail(s)[i] = s[i + 1]
  BY TailType
<1>2. ASSUME NEW x \in Holds(s, k)
      PROVE  x \in Holds(Tail(s), k) \cup (IF Head(s).kind = k THEN {Head(s).n} ELSE {})
  <2>1. PICK j \in 1..Len(s) : s[j].kind = k /\ x = s[j].n
    BY DEF Holds
  <2>2. CASE j = 1
    BY <1>1, <2>1, <2>2
  <2>3. CASE j # 1
    <3>1. j - 1 \in 1..Len(Tail(s)) /\ (j - 1) + 1 = j
      BY <1>1, <2>3
    <3>2. Tail(s)[j - 1] = s[j]
      BY <1>1, <3>1
    <3> QED
      BY <2>1, <3>1, <3>2 DEF Holds
  <2> QED
    BY <2>2, <2>3
<1>3. ASSUME NEW x \in Holds(Tail(s), k) PROVE x \in Holds(s, k)
  <2>1. PICK j \in 1..Len(Tail(s)) : Tail(s)[j].kind = k /\ x = Tail(s)[j].n
    BY <1>3 DEF Holds
  <2>2. j + 1 \in 1..Len(s)
    BY <1>1
  <2> QED
    BY <1>1, <2>1, <2>2 DEF Holds
<1>4. Head(s).kind = k => Head(s).n \in Holds(s, k)
  <2>1. 1 \in 1..Len(s)
    BY <1>1
  <2> QED
    BY <1>1, <2>1 DEF Holds
<1> QED
  BY <1>2, <1>3, <1>4

LEMMA HoldsConcat ==
    ASSUME NEW s \in Seq(FrameRecords), NEW t \in Seq(FrameRecords), NEW k
    PROVE  Holds(s \o t, k) = Holds(s, k) \cup Holds(t, k)
<1>1. /\ Len(s) \in Nat /\ Len(t) \in Nat /\ Len(s \o t) = Len(s) + Len(t)
      /\ \A i \in 1..(Len(s) + Len(t)) : (s \o t)[i] = IF i <= Len(s) THEN s[i] ELSE t[i - Len(s)]
  BY ConcatProperties, LenProperties
<1> DEFINE u == s \o t
<1> HIDE DEF u
<1>2. ASSUME NEW x \in Holds(u, k) PROVE x \in Holds(s, k) \cup Holds(t, k)
  <2>1. PICK j \in 1..Len(u) : u[j].kind = k /\ x = u[j].n
    BY <1>2 DEF Holds
  <2>2. CASE j <= Len(s)
    <3>1. j \in 1..Len(s) /\ u[j] = s[j]
      BY <1>1, <2>2 DEF u
    <3> QED
      BY <2>1, <3>1 DEF Holds
  <2>3. CASE ~(j <= Len(s))
    <3>1. j - Len(s) \in 1..Len(t) /\ u[j] = t[j - Len(s)]
      BY <1>1, <2>3 DEF u
    <3> QED
      BY <2>1, <3>1 DEF Holds
  <2> QED
    BY <2>2, <2>3
<1>3. ASSUME NEW x \in Holds(s, k) PROVE x \in Holds(u, k)
  <2>1. PICK j \in 1..Len(s) : s[j].kind = k /\ x = s[j].n
    BY <1>3 DEF Holds
  <2>2. j \in 1..Len(u) /\ u[j] = s[j]
    BY <1>1 DEF u
  <2> QED
    BY <2>1, <2>2 DEF Holds
<1>4. ASSUME NEW x \in Holds(t, k) PROVE x \in Holds(u, k)
  <2>1. PICK j \in 1..Len(t) : t[j].kind = k /\ x = t[j].n
    BY <1>4 DEF Holds
  <2>2. Len(s) + j \in 1..(Len(s) + Len(t)) /\ ~(Len(s) + j <= Len(s)) /\ (Len(s) + j) - Len(s) = j
    BY <1>1
  <2>3. Len(s) + j \in 1..Len(u) /\ u[Len(s) + j] = t[j]
    BY <1>1, <2>2 DEF u
  <2> QED
    BY <2>1, <2>3 DEF Holds
<1> QED
  BY <1>2, <1>3, <1>4 DEF u

LEMMA ContigEmpty == \A k, G : Contig(<<>>, k, G)
  BY EmptyLen DEF Contig

LEMMA ContigMore ==
    ASSUME NEW s, NEW k, NEW G, NEW H, G \subseteq H, Contig(s, k, G)
    PROVE  Contig(s, k, H)
  BY DEF Contig

\* All the frames of the kind build on what is given.
LEMMA ContigGiven ==
    ASSUME NEW s \in Seq(FrameRecords), NEW k, NEW h \in Nat, NEW H,
           Holds(s, k) \subseteq 1..h, 1..h \subseteq H
    PROVE  Contig(s, k, H)
<1> SUFFICES ASSUME NEW i \in 1..Len(s), s[i].kind = k, NEW v \in 1..(s[i].n - 1) PROVE v \in H
  BY DEF Contig
<1>1. s[i].n \in Holds(s, k)
  BY DEF Holds
<1>2. s[i].n \in 1..h
  BY <1>1
<1> QED
  BY <1>2

LEMMA ContigAppend ==
    ASSUME NEW s \in Seq(FrameRecords), NEW f \in FrameRecords, NEW k, NEW G, Contig(s, k, G),
           f.kind = k => 1..(f.n - 1) \subseteq G \cup Holds(s, k)
    PROVE  Contig(Append(s, f), k, G)
<1>1. /\ Len(s) \in Nat /\ Len(Append(s, f)) = Len(s) + 1 /\ Append(s, f)[Len(s) + 1] = f
      /\ \A i \in 1..Len(s) : Append(s, f)[i] = s[i]
  BY AppendType
<1> DEFINE u == Append(s, f)
<1> HIDE DEF u
<1> SUFFICES ASSUME NEW i \in 1..Len(u), u[i].kind = k, NEW v \in 1..(u[i].n - 1), v \notin G
             PROVE  \E j \in 1..(i - 1) : u[j].kind = k /\ u[j].n = v
  BY DEF Contig, u
<1>2. CASE i \in 1..Len(s)
  <2>1. PICK j \in 1..(i - 1) : s[j].kind = k /\ s[j].n = v
    BY <1>1, <1>2 DEF Contig, u
  <2>2. j \in 1..Len(s)
    BY <1>1, <1>2
  <2> QED
    BY <1>1, <2>1, <2>2 DEF u
<1>3. CASE i = Len(s) + 1
  <2>1. v \in Holds(s, k)
    BY <1>1, <1>3 DEF u
  <2>2. PICK j \in 1..Len(s) : s[j].kind = k /\ v = s[j].n
    BY <2>1 DEF Holds
  <2>3. j \in 1..(i - 1) /\ u[j] = s[j]
    BY <1>1, <1>3 DEF u
  <2> QED
    BY <2>2, <2>3
<1> QED
  BY <1>1, <1>2, <1>3 DEF u

\* The first frame of the kind builds on what is given alone.
LEMMA ContigTail ==
    ASSUME NEW s \in Seq(FrameRecords), s # <<>>, NEW k, NEW G, NEW H, Contig(s, k, G),
           G \subseteq H, Head(s).kind = k /\ Head(s).n # 0 => Head(s).n \in H
    PROVE  /\ Contig(Tail(s), k, H)
           /\ Head(s).kind = k => 1..(Head(s).n - 1) \subseteq G
<1>1. /\ Head(s) = s[1] /\ Len(s) \in Nat /\ Len(s) > 0 /\ Len(Tail(s)) = Len(s) - 1
      /\ \A i \in 1..Len(Tail(s)) : Tail(s)[i] = s[i + 1]
  BY TailType
<1> DEFINE t == Tail(s)
<1> HIDE DEF t
<1>2. ASSUME NEW i \in 1..Len(t), t[i].kind = k, NEW v \in 1..(t[i].n - 1), v \notin H
      PROVE  \E j \in 1..(i - 1) : t[j].kind = k /\ t[j].n = v
  <2>1. i + 1 \in 1..Len(s) /\ t[i] = s[i + 1] /\ v \notin G /\ (i + 1) - 1 = i
    BY <1>1, <1>2 DEF t
  <2>2. PICK j \in 1..i : s[j].kind = k /\ s[j].n = v
    BY <1>2, <2>1 DEF Contig
  <2>3. j # 1
    BY <1>1, <1>2, <2>2
  <2>4. j - 1 \in 1..(i - 1) /\ j - 1 \in 1..Len(t) /\ (j - 1) + 1 = j
    BY <1>1, <2>3 DEF t
  <2>5. t[j - 1] = s[j]
    BY <1>1, <2>4 DEF t
  <2> QED
    BY <2>2, <2>4, <2>5
<1>3. Contig(t, k, H)
  BY <1>2 DEF Contig
<1>4. ASSUME s[1].kind = k, NEW v \in 1..(s[1].n - 1) PROVE v \in G
  <2>1. 1 \in 1..Len(s) /\ 1..(1 - 1) = {}
    BY <1>1
  <2> QED
    BY <1>4, <2>1 DEF Contig
<1> QED
  BY <1>1, <1>3, <1>4 DEF t

\* The numbers of a page.
LEMMA PageHolds ==
    ASSUME NEW r \in ConnRecords, r.last < r.high
    PROVE  /\ Holds(PageOf(r), "event") = (r.last + 1)..PageEnd(r)
           /\ \A k : k # "event" => Holds(PageOf(r), k) = {}
<1>1. /\ PageEnd(r) \in Nat /\ r.last < PageEnd(r) /\ Len(PageOf(r)) = PageEnd(r) - r.last
      /\ \A i \in 1..(PageEnd(r) - r.last) : PageOf(r)[i].kind = "event" /\ PageOf(r)[i].n = r.last + i
  BY PageFacts
<1>2. r.last \in Nat
  BY DEF ConnRecords
<1>3. ASSUME NEW x \in (r.last + 1)..PageEnd(r) PROVE x \in Holds(PageOf(r), "event")
  <2>1. x - r.last \in 1..(PageEnd(r) - r.last) /\ r.last + (x - r.last) = x
    BY <1>1, <1>2
  <2> QED
    BY <1>1, <2>1 DEF Holds
<1>4. ASSUME NEW x \in Holds(PageOf(r), "event") PROVE x \in (r.last + 1)..PageEnd(r)
  <2>1. PICK j \in 1..Len(PageOf(r)) : x = PageOf(r)[j].n
    BY <1>4 DEF Holds
  <2> QED
    BY <1>1, <1>2, <2>1
<1>5. \A k : k # "event" => Holds(PageOf(r), k) = {}
  BY <1>1 DEF Holds
<1> QED
  BY <1>3, <1>4, <1>5

LEMMA ContigPage ==
    ASSUME NEW r \in ConnRecords, r.last < r.high, NEW s \in Seq(FrameRecords), NEW k, NEW G,
           Contig(s, k, G), k = "event" => 1..r.last \subseteq G \cup Holds(s, k)
    PROVE  Contig(s \o PageOf(r), k, G)
<1>0. r.last \in Nat
  BY DEF ConnRecords
<1> DEFINE t == PageOf(r)
           u == s \o t
           h == PageEnd(r) - r.last
<1>1. /\ t \in Seq(FrameRecords) /\ PageEnd(r) \in Nat /\ h \in Nat /\ Len(t) = h
      /\ \A i \in 1..h : t[i].kind = "event" /\ t[i].n = r.last + i
  BY <1>0, PageFacts
<1> HIDE DEF t, h
<1>2. /\ Len(s) \in Nat /\ Len(u) = Len(s) + h
      /\ \A i \in 1..(Len(s) + h) : u[i] = IF i <= Len(s) THEN s[i] ELSE t[i - Len(s)]
  BY <1>1, ConcatProperties, LenProperties
<1> HIDE DEF u
<1> SUFFICES ASSUME NEW i \in 1..Len(u), u[i].kind = k, NEW v \in 1..(u[i].n - 1), v \notin G
             PROVE  \E j \in 1..(i - 1) : u[j].kind = k /\ u[j].n = v
  BY DEF Contig, u, t
<1>3. CASE i <= Len(s)
  <2>0. i \in 1..Len(s) /\ u[i] = s[i]
    BY <1>1, <1>2, <1>3
  <2>1. PICK j \in 1..(i - 1) : s[j].kind = k /\ s[j].n = v
    BY <2>0 DEF Contig
  <2>2. j \in 1..(Len(s) + h) /\ j <= Len(s)
    BY <1>1, <1>2, <2>0
  <2>3. u[j] = s[j]
    BY <1>2, <2>2
  <2> QED
    BY <2>1, <2>3
<1>4. CASE ~(i <= Len(s))
  <2> DEFINE x == i - Len(s)
  <2>1. x \in 1..h /\ u[i] = t[x]
    BY <1>1, <1>2, <1>4
  <2>2. k = "event" /\ u[i].n = r.last + x
    BY <1>1, <2>1
  <2>3. CASE v \in 1..r.last
    <3>1. PICK j \in 1..Len(s) : s[j].kind = k /\ v = s[j].n
      BY <2>2, <2>3 DEF Holds
    <3>2. j \in 1..(i - 1) /\ j \in 1..(Len(s) + h) /\ j <= Len(s)
      BY <1>1, <1>2, <1>4
    <3>3. u[j] = s[j]
      BY <1>2, <3>2
    <3> QED
      BY <3>1, <3>2, <3>3
  <2>4. CASE v \notin 1..r.last
    <3> DEFINE y == v - r.last
               j == Len(s) + y
    <3>1. y \in 1..(x - 1) /\ y \in 1..h /\ r.last + y = v
      BY <1>0, <1>1, <2>1, <2>2, <2>4, SMTT(20)
    <3>2. j \in 1..(i - 1) /\ j \in 1..(Len(s) + h) /\ ~(j <= Len(s)) /\ j - Len(s) = y
      BY <1>1, <1>2, <1>4, <3>1
    <3>3. u[j] = t[y] /\ t[y].kind = "event" /\ t[y].n = r.last + y
      BY <1>1, <1>2, <3>1, <3>2
    <3> QED
      BY <2>2, <3>1, <3>2, <3>3
  <2> QED
    BY <2>3, <2>4
<1> QED
  BY <1>3, <1>4

\* A frame of another kind.
LEMMA QuietAppend ==
    ASSUME NEW s \in Seq(FrameRecords), NEW f \in FrameRecords, NEW k, f.kind # k
    PROVE  /\ Holds(Append(s, f), k) = Holds(s, k)
           /\ \A G : Contig(s, k, G) => Contig(Append(s, f), k, G)
<1>1. Holds(Append(s, f), k) = Holds(s, k)
  <2>1. Holds(Append(s, f), k) = Holds(s, k) \cup (IF f.kind = k THEN {f.n} ELSE {})
    BY HoldsAppend
  <2> QED
    BY <2>1
<1>2. ASSUME NEW G, Contig(s, k, G) PROVE Contig(Append(s, f), k, G)
  <2>1. f.kind = k => 1..(f.n - 1) \subseteq G \cup Holds(s, k)
    OBVIOUS
  <2> QED
    BY <1>2, <2>1, ContigAppend
<1> QED
  BY <1>1, <1>2

LEMMA QuietTail ==
    ASSUME NEW s \in Seq(FrameRecords), s # <<>>, NEW k, Head(s).kind # k
    PROVE  Holds(Tail(s), k) = Holds(s, k)
<1>1. Holds(s, k) = Holds(Tail(s), k) \cup (IF Head(s).kind = k THEN {Head(s).n} ELSE {})
  BY HoldsTail
<1> QED
  BY <1>1

\* A frame of the kind.
LEMMA LoudAppend ==
    ASSUME NEW s \in Seq(FrameRecords), NEW f \in FrameRecords, NEW k, f.kind = k
    PROVE  Holds(Append(s, f), k) = Holds(s, k) \cup {f.n}
<1>1. Holds(Append(s, f), k) = Holds(s, k) \cup (IF f.kind = k THEN {f.n} ELSE {})
  BY HoldsAppend
<1> QED
  BY <1>1

LEMMA LoudTail ==
    ASSUME NEW s \in Seq(FrameRecords), s # <<>>, NEW k, Head(s).kind = k
    PROVE  Holds(s, k) = Holds(Tail(s), k) \cup {Head(s).n}
<1>1. Holds(s, k) = Holds(Tail(s), k) \cup (IF Head(s).kind = k THEN {Head(s).n} ELSE {})
  BY HoldsTail
<1> QED
  BY <1>1

LEMMA ContigNone == ASSUME NEW s, NEW k, NEW G, Holds(s, k) = {} PROVE Contig(s, k, G)
<1>1. \A i \in 1..Len(s) : s[i].kind = k => s[i].n \in Holds(s, k)
  BY DEF Holds
<1> QED
  BY <1>1 DEF Contig

\* Nothing is left out below the next one.
LEMMA NextOne ==
    ASSUME NEW n \in Nat, NEW m \in Nat, 1..(n - 1) \subseteq 1..m PROVE n <= m + 1
<1>1. CASE n - 1 \in 1..(n - 1)
  BY <1>1
<1>2. CASE n - 1 \notin 1..(n - 1)
  BY <1>2
<1> QED
  BY <1>1, <1>2

----------------------------------------------------------------------------
(* The stream of events of one connection, step by step.                   *)

SameStream(p, q) ==
    /\ p.phase = q.phase /\ p.last = q.last /\ p.high = q.high
    /\ p.down = q.down /\ SameBuffer(p, q)

\* Other fields do not matter, and neither does an event that is not
\* published yet.
LEMMA StreamSame ==
    ASSUME NEW r, NEW s, NEW sh, NEW len, NEW len2, NEW q, NEW q2, StreamOK(r, sh, len, q),
           SameStream(s, r), (1..len2) \ {q2} \subseteq (1..len) \ {q}
    PROVE  StreamOK(s, sh, len2, q2)
  BY DEF StreamOK, SameStream, SameBuffer, Sent, Given

\* A frame is sent that is not an event.
LEMMA StreamSend ==
    ASSUME NEW r \in ConnRecords, NEW s, NEW f \in FrameRecords, f.kind # "event",
           NEW sh, NEW len, NEW q, StreamOK(r, sh, len, q),
           s.phase = r.phase, s.last = r.last, s.high = r.high, SameBuffer(s, r),
           s.down = Append(r.down, f)
    PROVE  StreamOK(s, sh, len, q)
<1>1. r.down \in Seq(FrameRecords)
  BY DEF ConnRecords
<1>2. Holds(s.down, "event") = Holds(r.down, "event") /\ Contig(s.down, "event", 1..sh)
  BY <1>1, QuietAppend DEF StreamOK
<1> QED
  BY <1>2 DEF StreamOK, SameBuffer, Sent, Given

\* The session ends.
LEMMA StreamEnds ==
    ASSUME NEW r \in ConnRecords, NEW s, NEW f \in FrameRecords, f.kind # "event",
           NEW sh, NEW len, NEW q, NEW len2, NEW q2, StreamOK(r, sh, len, q),
           s.phase = "ended", s.down = r.down \/ s.down = Append(r.down, f)
    PROVE  StreamOK(s, sh, len2, q2)
<1>1. r.down \in Seq(FrameRecords)
  BY DEF ConnRecords
<1>2. Contig(s.down, "event", 1..sh)
  BY <1>1, QuietAppend DEF StreamOK
<1> QED
  BY <1>2 DEF StreamOK, Early

\* What a broadcast does to a connection.
BufferStep(r, s, b) ==
    \/ ~Subscribed(r) /\ SameBuffer(s, r)
    \/ Subscribed(r) /\ s.closed /\ s.buf = r.buf
    \/ Subscribed(r) /\ ~s.closed /\ s.buf = Append(r.buf, b)

LEMMA StreamDelta ==
    ASSUME NEW r \in ConnRecords, NEW s, NEW b \in FrameRecords, b.kind # "event",
           NEW sh, NEW len, NEW q, StreamOK(r, sh, len, q),
           s.phase = r.phase, s.last = r.last, s.high = r.high, s.down = r.down, BufferStep(r, s, b)
    PROVE  StreamOK(s, sh, len, q)
<1>1. r.buf \in Seq(FrameRecords)
  BY DEF ConnRecords
<1> DEFINE u == Append(r.buf, b)
<1>2. /\ Holds(u, "event") = Holds(r.buf, "event")
      /\ \A G : Contig(r.buf, "event", G) => Contig(u, "event", G)
  BY <1>1, QuietAppend
<1> HIDE DEF u
<1>3. Given(s, sh) = Given(r, sh) /\ Sent(s, sh) = Sent(r, sh)
  BY DEF Given, Sent
<1> QED
  BY <1>2, <1>3 DEF StreamOK, BufferStep, SameBuffer, Subscribed, u

\* The missing event is published.
LEMMA StreamPublish ==
    ASSUME NEW r \in ConnRecords, NEW s, NEW b \in FrameRecords, NEW len \in Nat, NEW q \in 1..len,
           b.kind = "event", b.n = q, NEW sh, StreamOK(r, sh, len, q),
           s.phase = r.phase, s.last = r.last, s.high = r.high, s.down = r.down, BufferStep(r, s, b)
    PROVE  StreamOK(s, sh, len, 0)
<1>1. r.buf \in Seq(FrameRecords)
  BY DEF ConnRecords
<1>2. Given(s, sh) = Given(r, sh) /\ Sent(s, sh) = Sent(r, sh)
  BY DEF Given, Sent
<1>3. CASE r.phase \in {"paging", "live"} /\ ~r.closed /\ ~s.closed
  <2>1. s.buf = Append(r.buf, b) /\ (1..len) \ {q} \subseteq Given(r, sh) \cup Holds(r.buf, "event")
    BY <1>3 DEF BufferStep, Subscribed, StreamOK, SameBuffer
  <2>2. 1..(q - 1) \subseteq (1..len) \ {q}
    OBVIOUS
  <2>3. Contig(s.buf, "event", Given(r, sh))
    BY <1>1, <1>3, <2>1, <2>2, ContigAppend DEF StreamOK
  <2>4. Holds(s.buf, "event") = Holds(r.buf, "event") \cup {q}
    BY <1>1, <2>1, HoldsAppend
  <2>5. (1..len) \ {0} \subseteq Given(r, sh) \cup Holds(s.buf, "event")
    BY <2>1, <2>4
  <2> QED
    BY <1>2, <1>3, <2>3, <2>5 DEF StreamOK
<1>4. CASE r.phase \in {"paging", "live"} /\ (r.closed \/ s.closed)
  <2>1. s.buf = r.buf /\ s.closed
    BY <1>4 DEF BufferStep, Subscribed, SameBuffer
  <2> QED
    BY <1>2, <1>4, <2>1 DEF StreamOK
<1>5. CASE r.phase \notin {"paging", "live"}
  BY <1>2, <1>5 DEF StreamOK
<1> QED
  BY <1>3, <1>4, <1>5

\* The session reads the end of the log.
LEMMA StreamWelcome ==
    ASSUME NEW r \in ConnRecords, NEW s, NEW f \in FrameRecords, f.kind # "event",
           NEW sh, NEW sh2, NEW len \in Nat, NEW q, StreamOK(r, sh, len, q), LinkOK(r, len, sh2),
           r.phase \in Early, s.phase = "paging", s.last = r.last, s.high = len,
           SameBuffer(s, r), s.down = Append(r.down, f)
    PROVE  StreamOK(s, sh, len, q)
<1>1. r.down \in Seq(FrameRecords) /\ r.buf \in Seq(FrameRecords)
  BY DEF ConnRecords
<1>2. Holds(s.down, "event") = Holds(r.down, "event") /\ Contig(s.down, "event", 1..sh)
  BY <1>1, QuietAppend DEF StreamOK
<1>3. 1..len \subseteq Given(s, sh) /\ Sent(s, sh) = Sent(r, sh)
  BY <1>2 DEF Given, Sent
<1>4. Contig(s.buf, "event", Given(s, sh))
  BY <1>1, <1>3, ContigGiven DEF LinkOK, SameBuffer
<1> QED
  BY <1>2, <1>3, <1>4 DEF StreamOK

\* A page of the log is sent.
LEMMA StreamPage ==
    ASSUME NEW r \in ConnRecords, NEW s, NEW sh, NEW len, NEW q, StreamOK(r, sh, len, q),
           r.phase = "paging", r.last < r.high, s.phase = "paging", s.last = PageEnd(r),
           s.high = r.high, SameBuffer(s, r), s.down = r.down \o PageOf(r)
    PROVE  StreamOK(s, sh, len, q)
<1>1. r.down \in Seq(FrameRecords) /\ r.last \in Nat /\ PageEnd(r) \in Nat /\ PageOf(r) \in Seq(FrameRecords)
  BY PageFacts DEF ConnRecords
<1>2. Holds(s.down, "event") = Holds(r.down, "event") \cup ((r.last + 1)..PageEnd(r))
  BY <1>1, HoldsConcat, PageHolds
<1>3. 1..r.last \subseteq Sent(r, sh)
  BY DEF StreamOK, Early
<1>4. Contig(s.down, "event", 1..sh)
  BY <1>1, <1>3, ContigPage DEF StreamOK, Sent
<1>5. Sent(s, sh) = Sent(r, sh) \cup ((r.last + 1)..PageEnd(r))
  BY <1>2 DEF Sent
<1>6. 1..PageEnd(r) \subseteq Sent(s, sh)
  BY <1>1, <1>3, <1>5
<1>7. Given(r, sh) \subseteq Given(s, sh)
  BY <1>5 DEF Given
<1>8. Contig(s.buf, "event", Given(s, sh))
  BY <1>7, ContigMore DEF StreamOK, SameBuffer
<1> QED
  BY <1>4, <1>6, <1>7, <1>8 DEF StreamOK, SameBuffer

\* The replay is complete.
LEMMA StreamLive ==
    ASSUME NEW r \in ConnRecords, NEW s, NEW f \in FrameRecords, f.kind # "event",
           NEW sh, NEW len, NEW q, StreamOK(r, sh, len, q),
           r.phase = "paging", r.last >= r.high, s.phase = "live",
           SameBuffer(s, r), s.down = Append(r.down, f)
    PROVE  StreamOK(s, sh, len, q)
<1>1. r.down \in Seq(FrameRecords) /\ r.last \in Nat /\ r.high \in Nat
  BY DEF ConnRecords
<1>2. Holds(s.down, "event") = Holds(r.down, "event") /\ Contig(s.down, "event", 1..sh)
  BY <1>1, QuietAppend DEF StreamOK
<1>3. 1..r.last \subseteq Sent(r, sh)
  BY DEF StreamOK, Early
<1>4. Given(r, sh) = Given(s, sh)
  BY <1>1, <1>2, <1>3 DEF Sent, Given
<1> QED
  BY <1>2, <1>4 DEF StreamOK, SameBuffer, Early

\* The next one in the buffer is sent, or skipped.
LEMMA StreamForward ==
    ASSUME NEW r \in ConnRecords, NEW s, NEW sh, NEW len, NEW q, StreamOK(r, sh, len, q),
           r.phase = "live", s.phase = "live", r.buf # <<>>, s.buf = Tail(r.buf), s.closed = r.closed,
           \/ s.down = r.down /\ Head(r.buf).kind # "event"
           \/ s.down = Append(r.down, Head(r.buf))
    PROVE  StreamOK(s, sh, len, q)
<1> DEFINE b == Head(r.buf)
<1>1. r.down \in Seq(FrameRecords) /\ r.buf \in Seq(FrameRecords) /\ b \in FrameRecords
  BY TailType DEF ConnRecords
<1>2. Given(r, sh) = Sent(r, sh) /\ Given(s, sh) = Sent(s, sh)
  BY DEF Given
<1>3. Holds(r.buf, "event") = Holds(s.buf, "event") \cup (IF b.kind = "event" THEN {b.n} ELSE {})
  BY <1>1, HoldsTail
<1>4. Contig(r.buf, "event", Sent(r, sh))
  BY <1>2 DEF StreamOK
<1>5. CASE b.kind = "event"
  <2>1. s.down = Append(r.down, b)
    BY <1>5
  <2>2. Holds(s.down, "event") = Holds(r.down, "event") \cup {b.n}
    BY <1>1, <1>5, <2>1, HoldsAppend
  <2>3. Sent(s, sh) = Sent(r, sh) \cup {b.n}
    BY <2>2 DEF Sent
  <2>a. Sent(r, sh) \subseteq Sent(s, sh) /\ (b.kind = "event" /\ b.n # 0 => b.n \in Sent(s, sh))
    BY <2>3
  <2>4. Contig(s.buf, "event", Sent(s, sh)) /\ 1..(b.n - 1) \subseteq Sent(r, sh)
    <3>1. /\ Contig(Tail(r.buf), "event", Sent(s, sh))
          /\ Head(r.buf).kind = "event" => 1..(Head(r.buf).n - 1) \subseteq Sent(r, sh)
      BY <1>1, <1>4, <2>a, ContigTail, Zenon
    <3> QED
      BY <1>5, <3>1
  <2>5. Contig(s.down, "event", 1..sh)
    BY <1>1, <2>1, <2>4, ContigAppend DEF StreamOK, Sent
  <2>6. ~r.closed => (1..len) \ {q} \subseteq Sent(s, sh) \cup Holds(s.buf, "event")
    BY <1>2, <1>3, <1>5, <2>3 DEF StreamOK
  <2> QED
    BY <1>2, <2>4, <2>5, <2>6 DEF StreamOK, Early
<1>6. CASE b.kind # "event"
  <2>1. Holds(s.down, "event") = Holds(r.down, "event") /\ Contig(s.down, "event", 1..sh)
    BY <1>1, <1>6, QuietAppend DEF StreamOK
  <2>2. Sent(s, sh) = Sent(r, sh)
    BY <2>1 DEF Sent
  <2>3. Contig(s.buf, "event", Sent(s, sh))
    BY <1>1, <1>4, <1>6, <2>2, ContigTail
  <2>4. ~r.closed => (1..len) \ {q} \subseteq Sent(s, sh) \cup Holds(s.buf, "event")
    BY <1>2, <1>3, <1>6, <2>2 DEF StreamOK
  <2> QED
    BY <1>2, <2>1, <2>3, <2>4 DEF StreamOK, Early
<1> QED
  BY <1>5, <1>6

\* The client reads a frame: what it shows then covers it.
LEMMA StreamTake ==
    ASSUME NEW r \in ConnRecords, NEW s, NEW sh \in Nat, NEW sh2 \in Nat, NEW len, NEW q,
           StreamOK(r, sh, len, q), r.down # <<>>, s.down = Tail(r.down), sh <= sh2,
           s.phase = r.phase, s.last = r.last, s.high = r.high, SameBuffer(s, r),
           Head(r.down).kind = "event" => Head(r.down).n <= sh2 /\ Head(r.down).n # 0
    PROVE  /\ StreamOK(s, sh2, len, q)
           /\ Head(r.down).kind = "event" => 1..(Head(r.down).n - 1) \subseteq 1..sh
<1> DEFINE f == Head(r.down)
<1>a. r.down \in Seq(FrameRecords) /\ f \in FrameRecords
  BY TailType DEF ConnRecords
<1>1. r.down \in Seq(FrameRecords) /\ f \in FrameRecords /\ f.n \in Nat
  BY <1>a DEF FrameRecords
<1>2. Holds(r.down, "event") = Holds(s.down, "event") \cup (IF f.kind = "event" THEN {f.n} ELSE {})
  BY <1>1, HoldsTail
<1>3. 1..sh \subseteq 1..sh2 /\ (f.kind = "event" => f.n \in 1..sh2)
  BY <1>1
<1>4. Sent(r, sh) \subseteq Sent(s, sh2)
  BY <1>2, <1>3 DEF Sent
<1>5. Contig(s.down, "event", 1..sh2) /\ (f.kind = "event" => 1..(f.n - 1) \subseteq 1..sh)
  <2>1. Contig(r.down, "event", 1..sh)
    BY DEF StreamOK
  <2>2. f.kind = "event" /\ f.n # 0 => f.n \in 1..sh2
    BY <1>3
  <2>3. /\ Contig(Tail(r.down), "event", 1..sh2)
        /\ Head(r.down).kind = "event" => 1..(Head(r.down).n - 1) \subseteq 1..sh
    BY <1>1, <1>3, <2>1, <2>2, ContigTail, Zenon
  <2> QED
    BY <2>3
<1>6. Given(r, sh) \subseteq Given(s, sh2)
  BY <1>4 DEF Given
<1>7. Contig(r.buf, "event", Given(r, sh)) => Contig(s.buf, "event", Given(s, sh2))
  BY <1>6, ContigMore DEF SameBuffer
<1> QED
  BY <1>4, <1>5, <1>6, <1>7 DEF StreamOK, SameBuffer

----------------------------------------------------------------------------
(* The changes of the projection of one connection, step by step.          *)

LEMMA OneAppend ==
    ASSUME NEW s \in Seq(FrameRecords), NEW f \in FrameRecords, OneSnapshot(s),
           f.kind # "snapshot" \/ Holds(s, "snapshot") = {}
    PROVE  OneSnapshot(Append(s, f))
<1>1. /\ Len(s) \in Nat /\ Len(Append(s, f)) = Len(s) + 1 /\ Append(s, f)[Len(s) + 1] = f
      /\ \A i \in 1..Len(s) : Append(s, f)[i] = s[i]
  BY AppendType
<1> DEFINE u == Append(s, f)
<1>2. \A i \in 1..Len(u) : i \in 1..Len(s) \/ i = Len(s) + 1
  BY <1>1
<1>3. f.kind = "snapshot" => \A i \in 1..Len(s) : s[i].kind # "snapshot"
  BY DEF Holds
<1> HIDE DEF u
<1>4. ASSUME NEW i \in 1..Len(u), NEW j \in 1..Len(u), u[i].kind = "snapshot", u[j].kind = "snapshot"
      PROVE  i = j
  BY <1>1, <1>2, <1>3, <1>4 DEF OneSnapshot, u
<1> QED
  BY <1>4 DEF OneSnapshot, u

LEMMA OneTail ==
    ASSUME NEW s \in Seq(FrameRecords), s # <<>>, OneSnapshot(s)
    PROVE  /\ OneSnapshot(Tail(s))
           /\ Head(s).kind = "snapshot" => Holds(Tail(s), "snapshot") = {}
<1>1. /\ Head(s) = s[1] /\ Len(s) \in Nat /\ Len(s) > 0 /\ Len(Tail(s)) = Len(s) - 1
      /\ \A i \in 1..Len(Tail(s)) : Tail(s)[i] = s[i + 1]
  BY TailType
<1> DEFINE t == Tail(s)
<1>2. \A i \in 1..Len(t) : i + 1 \in 1..Len(s) /\ t[i] = s[i + 1] /\ i + 1 # 1
  BY <1>1
<1> HIDE DEF t
<1>3. ASSUME NEW i \in 1..Len(t), NEW j \in 1..Len(t), t[i].kind = "snapshot", t[j].kind = "snapshot"
      PROVE  i = j
  <2>1. i + 1 = j + 1
    BY <1>2, <1>3 DEF OneSnapshot
  <2>2. i \in Int /\ j \in Int
    OBVIOUS
  <2> QED
    BY <2>1, <2>2
<1>4. ASSUME s[1].kind = "snapshot", NEW i \in 1..Len(t) PROVE t[i].kind # "snapshot"
  <2>1. 1 \in 1..Len(s)
    BY <1>1
  <2> QED
    BY <1>2, <1>4, <2>1 DEF OneSnapshot
<1>5. s[1].kind = "snapshot" => Holds(t, "snapshot") = {}
  BY <1>4 DEF Holds
<1> QED
  BY <1>1, <1>3, <1>5 DEF OneSnapshot, t

LEMMA OnePage ==
    ASSUME NEW r \in ConnRecords, r.last < r.high, Holds(r.down, "snapshot") = {}
    PROVE  OneSnapshot(r.down \o PageOf(r))
<1>1. r.down \in Seq(FrameRecords) /\ PageOf(r) \in Seq(FrameRecords)
  BY PageFacts DEF ConnRecords
<1>2. Holds(r.down \o PageOf(r), "snapshot") = {}
  BY <1>1, HoldsConcat, PageHolds
<1> QED
  BY <1>2 DEF OneSnapshot, Holds

\* Fields that do not matter; and whether the welcome was read.
LEMMA DeltaSame ==
    ASSUME NEW r, NEW s, NEW ph, NEW ph2, NEW cr, NEW rv, DeltaOK(r, ph, cr, rv),
           s.phase = r.phase, s.fence = r.fence, s.down = r.down, SameBuffer(s, r),
           ph = "ready" <=> ph2 = "ready"
    PROVE  DeltaOK(s, ph2, cr, rv)
<1>1. Base(s, ph2, cr) = Base(r, ph, cr) /\ Known(s, ph2, cr) = Known(r, ph, cr)
  BY DEF Base, Known
<1> QED
  BY <1>1 DEF DeltaOK, SameBuffer

\* A frame is sent that is neither a snapshot nor a change.
LEMMA QuietDown ==
    ASSUME NEW r \in ConnRecords, NEW s, NEW f \in FrameRecords, f.kind \notin {"snapshot", "delta"},
           NEW ph, NEW cr, NEW rv, DeltaOK(r, ph, cr, rv), s.down = Append(r.down, f)
    PROVE  /\ Holds(s.down, "snapshot") = Holds(r.down, "snapshot")
           /\ Holds(s.down, "delta") = Holds(r.down, "delta")
           /\ Base(s, ph, cr) = Base(r, ph, cr) /\ Known(s, ph, cr) = Known(r, ph, cr)
           /\ OneSnapshot(s.down) /\ Contig(s.down, "delta", Base(s, ph, cr))
<1>1. r.down \in Seq(FrameRecords)
  BY DEF ConnRecords
<1>2. /\ Holds(s.down, "snapshot") = Holds(r.down, "snapshot")
      /\ Holds(s.down, "delta") = Holds(r.down, "delta")
      /\ \A G : Contig(r.down, "delta", G) => Contig(s.down, "delta", G)
  BY <1>1, QuietAppend
<1>3. Base(s, ph, cr) = Base(r, ph, cr) /\ Known(s, ph, cr) = Known(r, ph, cr)
  BY <1>2 DEF Base, Known
<1>4. OneSnapshot(r.down) /\ Contig(r.down, "delta", Base(r, ph, cr))
  BY DEF DeltaOK
<1> QED
  BY <1>1, <1>2, <1>3, <1>4, OneAppend

LEMMA DeltaSend ==
    ASSUME NEW r \in ConnRecords, NEW s, NEW f \in FrameRecords, f.kind \notin {"snapshot", "delta"},
           NEW ph, NEW cr, NEW rv, DeltaOK(r, ph, cr, rv), s.down = Append(r.down, f),
           \/ s.phase = r.phase /\ s.fence = r.fence
           \/ r.phase \in Early /\ s.phase = "paging",
           SameBuffer(s, r)
    PROVE  DeltaOK(s, ph, cr, rv)
<1>1. /\ Holds(s.down, "snapshot") = Holds(r.down, "snapshot")
      /\ Holds(s.down, "delta") = Holds(r.down, "delta")
      /\ Base(s, ph, cr) = Base(r, ph, cr) /\ Known(s, ph, cr) = Known(r, ph, cr)
      /\ OneSnapshot(s.down) /\ Contig(s.down, "delta", Base(s, ph, cr))
  BY QuietDown
<1> QED
  BY <1>1 DEF DeltaOK, SameBuffer, Early

LEMMA DeltaEnds ==
    ASSUME NEW r \in ConnRecords, NEW s, NEW f \in FrameRecords, f.kind \notin {"snapshot", "delta"},
           NEW ph, NEW cr, NEW rv, NEW rv2, DeltaOK(r, ph, cr, rv), s.phase = "ended",
           s.down = r.down \/ s.down = Append(r.down, f)
    PROVE  DeltaOK(s, ph, cr, rv2)
<1>1. CASE s.down = r.down
  <2>1. Base(s, ph, cr) = Base(r, ph, cr)
    BY <1>1 DEF Base
  <2> QED
    BY <1>1, <2>1 DEF DeltaOK, Early
<1>2. CASE s.down = Append(r.down, f)
  <2>1. /\ Holds(s.down, "snapshot") = Holds(r.down, "snapshot")
        /\ OneSnapshot(s.down) /\ Contig(s.down, "delta", Base(s, ph, cr))
    BY <1>2, QuietDown
  <2> QED
    BY <2>1 DEF DeltaOK, Early
<1> QED
  BY <1>1, <1>2

\* An event is published.
LEMMA DeltaPublish ==
    ASSUME NEW r \in ConnRecords, NEW s, NEW b \in FrameRecords, b.kind # "delta",
           NEW ph, NEW cr, NEW rv, DeltaOK(r, ph, cr, rv),
           s.phase = r.phase, s.fence = r.fence, s.down = r.down, BufferStep(r, s, b)
    PROVE  DeltaOK(s, ph, cr, rv)
<1>1. r.buf \in Seq(FrameRecords)
  BY DEF ConnRecords
<1> DEFINE u == Append(r.buf, b)
<1>2. /\ Holds(u, "delta") = Holds(r.buf, "delta")
      /\ \A G : Contig(r.buf, "delta", G) => Contig(u, "delta", G)
  BY <1>1, QuietAppend
<1> HIDE DEF u
<1>3. Base(s, ph, cr) = Base(r, ph, cr) /\ Known(s, ph, cr) = Known(r, ph, cr)
  BY DEF Base, Known
<1> QED
  BY <1>2, <1>3 DEF DeltaOK, BufferStep, SameBuffer, Subscribed, u, Early

\* The next change is published.
LEMMA DeltaBroadcast ==
    ASSUME NEW r \in ConnRecords, NEW s, NEW b \in FrameRecords, NEW rv \in Nat,
           b.kind = "delta", b.n = rv + 1, NEW ph, NEW cr, DeltaOK(r, ph, cr, rv),
           s.phase = r.phase, s.fence = r.fence, s.down = r.down, BufferStep(r, s, b)
    PROVE  DeltaOK(s, ph, cr, rv + 1)
<1>a. r.buf \in Seq(FrameRecords)
  BY DEF ConnRecords
<1>1. /\ r.buf \in Seq(FrameRecords) /\ 1..rv \subseteq 1..(rv + 1) /\ rv + 1 \in 1..(rv + 1)
      /\ (rv + 1) - 1 = rv /\ \A x \in 1..(rv + 1) : x \in 1..rv \/ x = rv + 1
  BY <1>a
<1> DEFINE u == Append(r.buf, b)
<1>2. Holds(u, "delta") = Holds(r.buf, "delta") \cup {rv + 1}
  BY <1>1, HoldsAppend
<1>3. Base(s, ph, cr) = Base(r, ph, cr) /\ Known(s, ph, cr) = Known(r, ph, cr)
  BY DEF Base, Known
<1>4. ASSUME NEW G, Contig(r.buf, "delta", G), 1..rv \subseteq G \cup Holds(r.buf, "delta")
      PROVE  Contig(u, "delta", G)
  <2>1. b.kind = "delta" => 1..(b.n - 1) \subseteq G \cup Holds(r.buf, "delta")
    BY <1>1, <1>4
  <2> QED
    BY <1>1, <1>4, <2>1, ContigAppend
<1> HIDE DEF u
<1>5. CASE r.phase \in Early
  <2>1. Holds(s.buf, "delta") \subseteq 1..(rv + 1)
    BY <1>1, <1>2, <1>5 DEF DeltaOK, BufferStep, SameBuffer, u
  <2> QED
    BY <1>3, <1>5, <2>1 DEF DeltaOK, Early
<1>6. CASE r.phase = "live" /\ ~r.closed /\ ~s.closed
  <2>1. s.buf = u /\ 1..rv \subseteq Known(r, ph, cr) \cup Holds(r.buf, "delta")
    BY <1>6 DEF BufferStep, Subscribed, DeltaOK, SameBuffer, u
  <2>2. Contig(s.buf, "delta", Known(s, ph, cr))
    BY <1>3, <1>4, <1>6, <2>1 DEF DeltaOK
  <2>3. 1..(rv + 1) \subseteq Known(s, ph, cr) \cup Holds(s.buf, "delta")
    BY <1>1, <1>2, <1>3, <2>1
  <2> QED
    BY <1>3, <1>6, <2>2, <2>3 DEF DeltaOK, Early
<1>7. CASE r.phase = "live" /\ (r.closed \/ s.closed)
  <2>1. s.buf = r.buf /\ s.closed
    BY <1>7 DEF BufferStep, Subscribed, SameBuffer
  <2> QED
    BY <1>3, <1>7, <2>1 DEF DeltaOK, Early
<1>8. CASE r.phase \notin Early /\ r.phase # "live"
  BY <1>3, <1>8 DEF DeltaOK
<1> QED
  BY <1>5, <1>6, <1>7, <1>8

LEMMA DeltaPage ==
    ASSUME NEW r \in ConnRecords, NEW s, NEW ph, NEW cr, NEW rv, DeltaOK(r, ph, cr, rv),
           r.phase = "paging", r.last < r.high, s.phase = "paging",
           SameBuffer(s, r), s.down = r.down \o PageOf(r)
    PROVE  DeltaOK(s, ph, cr, rv)
<1>1. /\ r.down \in Seq(FrameRecords) /\ PageOf(r) \in Seq(FrameRecords)
      /\ Holds(r.down, "snapshot") = {} /\ Holds(r.down, "delta") = {} /\ ph # "ready"
      /\ Holds(r.buf, "delta") \subseteq 1..rv /\ Contig(r.down, "delta", Base(r, ph, cr))
  BY PageFacts DEF ConnRecords, DeltaOK, Early
<1>2. Holds(s.down, "snapshot") = {} /\ Holds(s.down, "delta") = {}
  BY <1>1, HoldsConcat, PageHolds, SMTT(20)
<1>3. Base(s, ph, cr) = Base(r, ph, cr)
  BY <1>1, <1>2 DEF Base
<1>4. OneSnapshot(s.down)
  BY <1>1, OnePage
<1>5. Contig(s.down, "delta", Base(r, ph, cr))
  BY <1>1, ContigPage
<1> QED
  BY <1>1, <1>2, <1>3, <1>4, <1>5 DEF DeltaOK, SameBuffer, Early

\* The snapshot is taken and sent.
LEMMA DeltaLive ==
    ASSUME NEW r \in ConnRecords, NEW s, NEW rv \in Nat, NEW f \in FrameRecords, f.kind = "snapshot",
           f.n = rv, NEW ph, NEW cr, DeltaOK(r, ph, cr, rv), r.phase = "paging", s.phase = "live",
           s.fence = rv, SameBuffer(s, r), s.down = Append(r.down, f)
    PROVE  DeltaOK(s, ph, cr, rv)
<1>1. /\ r.down \in Seq(FrameRecords) /\ r.buf \in Seq(FrameRecords)
      /\ Holds(r.down, "snapshot") = {} /\ Holds(r.down, "delta") = {} /\ ph # "ready"
      /\ Holds(r.buf, "delta") \subseteq 1..rv /\ OneSnapshot(r.down)
  BY DEF ConnRecords, DeltaOK, Early
<1>2. Holds(s.down, "snapshot") = {rv} /\ Holds(s.down, "delta") = {}
  BY <1>1, HoldsAppend
<1>3. 1..rv \subseteq Base(s, ph, cr) /\ 1..rv \subseteq Known(s, ph, cr)
  BY <1>1, <1>2 DEF Base, Known
<1>4. OneSnapshot(s.down)
  BY <1>1, OneAppend
<1>5. Contig(s.buf, "delta", Known(s, ph, cr))
  BY <1>1, <1>3, ContigGiven DEF SameBuffer
<1>6. Contig(s.down, "delta", Base(s, ph, cr))
  BY <1>2, ContigNone
<1> QED
  BY <1>1, <1>3, <1>4, <1>5, <1>6 DEF DeltaOK, Early

\* The next one in the buffer is sent; a change that the snapshot has is not.
LEMMA DeltaForward ==
    ASSUME NEW r \in ConnRecords, NEW s, NEW ph, NEW cr, NEW rv, DeltaOK(r, ph, cr, rv),
           r.phase = "live", s.phase = "live", s.fence = r.fence,
           r.buf # <<>>, s.buf = Tail(r.buf), s.closed = r.closed, Head(r.buf).kind # "snapshot",
           \/ s.down = r.down /\ Head(r.buf).kind = "delta" /\ Head(r.buf).n <= r.fence
           \/ s.down = Append(r.down, Head(r.buf))
    PROVE  DeltaOK(s, ph, cr, rv)
<1> DEFINE b == Head(r.buf)
<1>0. r.down \in Seq(FrameRecords) /\ r.buf \in Seq(FrameRecords) /\ b \in FrameRecords
  BY TailType DEF ConnRecords
<1>1. b.n \in Nat /\ r.fence \in Nat
  BY <1>0 DEF FrameRecords, ConnRecords
<1>2. Holds(r.buf, "delta") = Holds(s.buf, "delta") \cup (IF b.kind = "delta" THEN {b.n} ELSE {})
  BY <1>0, HoldsTail
<1>3. /\ Contig(r.buf, "delta", Known(r, ph, cr)) /\ 1..r.fence \subseteq Known(r, ph, cr)
      /\ Contig(r.down, "delta", Base(r, ph, cr)) /\ OneSnapshot(r.down)
      /\ ph = "ready" => Holds(r.down, "snapshot") = {}
      /\ ~r.closed => 1..rv \subseteq Known(r, ph, cr) \cup Holds(r.buf, "delta")
  BY DEF DeltaOK
<1>4. ASSUME Known(r, ph, cr) \subseteq Known(s, ph, cr),
             b.kind = "delta" /\ b.n # 0 => b.n \in Known(s, ph, cr)
      PROVE  /\ Contig(s.buf, "delta", Known(s, ph, cr)) /\ 1..s.fence \subseteq Known(s, ph, cr)
             /\ b.kind = "delta" => 1..(b.n - 1) \subseteq Known(r, ph, cr)
             /\ ~s.closed => 1..rv \subseteq Known(s, ph, cr) \cup Holds(s.buf, "delta")
  <2>1. /\ Contig(Tail(r.buf), "delta", Known(s, ph, cr))
        /\ Head(r.buf).kind = "delta" => 1..(Head(r.buf).n - 1) \subseteq Known(r, ph, cr)
    BY <1>0, <1>3, <1>4, ContigTail, Zenon
  <2>2. ~s.closed => 1..rv \subseteq Known(s, ph, cr) \cup Holds(s.buf, "delta")
    <3> SUFFICES ASSUME ~s.closed, NEW v \in 1..rv, v \notin Known(s, ph, cr)
                 PROVE  v \in Holds(s.buf, "delta")
      OBVIOUS
    <3>1. v \in Holds(r.buf, "delta") /\ v # 0
      BY <1>3, <1>4
    <3> QED
      BY <1>2, <1>4, <3>1
  <2> QED
    BY <1>3, <1>4, <2>1, <2>2
<1>5. CASE s.down = r.down /\ b.kind = "delta" /\ b.n <= r.fence
  <2>1. Base(s, ph, cr) = Base(r, ph, cr) /\ Known(s, ph, cr) = Known(r, ph, cr)
    BY <1>5 DEF Base, Known
  <2>2. b.n # 0 => b.n \in Known(s, ph, cr)
    BY <1>1, <1>3, <1>5, <2>1
  <2> QED
    BY <1>3, <1>4, <1>5, <2>1, <2>2 DEF DeltaOK, Early
<1>6. CASE s.down = Append(r.down, b) /\ b.kind = "delta"
  <2>1. /\ Holds(s.down, "delta") = Holds(r.down, "delta") \cup {b.n}
        /\ Holds(s.down, "snapshot") = Holds(r.down, "snapshot")
    BY <1>0, <1>6, QuietAppend, LoudAppend, ZenonT(30)
  <2>2. Base(s, ph, cr) = Base(r, ph, cr) /\ Known(s, ph, cr) = Known(r, ph, cr) \cup {b.n}
    BY <2>1 DEF Base, Known
  <2>3. /\ Contig(s.buf, "delta", Known(s, ph, cr)) /\ 1..s.fence \subseteq Known(s, ph, cr)
        /\ 1..(b.n - 1) \subseteq Known(r, ph, cr)
        /\ ~s.closed => 1..rv \subseteq Known(s, ph, cr) \cup Holds(s.buf, "delta")
    BY <1>4, <1>6, <2>2
  <2>4. Contig(s.down, "delta", Base(s, ph, cr))
    <3>1. 1..(b.n - 1) \subseteq Base(r, ph, cr) \cup Holds(r.down, "delta")
      BY <2>3 DEF Known
    <3> QED
      BY <1>0, <1>3, <1>6, <2>2, <3>1, ContigAppend
  <2>5. OneSnapshot(s.down)
    BY <1>0, <1>3, <1>6, OneAppend
  <2> QED
    BY <1>3, <2>1, <2>3, <2>4, <2>5 DEF DeltaOK, Early
<1>7. CASE s.down = Append(r.down, b) /\ b.kind # "delta"
  <2>1. b.kind \notin {"snapshot", "delta"}
    BY <1>7
  <2>2. /\ Holds(s.down, "snapshot") = Holds(r.down, "snapshot")
        /\ Base(s, ph, cr) = Base(r, ph, cr) /\ Known(s, ph, cr) = Known(r, ph, cr)
        /\ OneSnapshot(s.down) /\ Contig(s.down, "delta", Base(s, ph, cr))
    <3>1. /\ Holds(s.down, "snapshot") = Holds(r.down, "snapshot")
          /\ Holds(s.down, "delta") = Holds(r.down, "delta")
          /\ Contig(s.down, "delta", Base(r, ph, cr))
      BY <1>0, <1>3, <1>7, <2>1, QuietAppend
    <3>2. Base(s, ph, cr) = Base(r, ph, cr) /\ Known(s, ph, cr) = Known(r, ph, cr)
      BY <3>1 DEF Base, Known
    <3>3. OneSnapshot(s.down)
      BY <1>0, <1>3, <1>7, <2>1, OneAppend
    <3> QED
      BY <3>1, <3>2, <3>3
  <2>3. /\ Contig(s.buf, "delta", Known(s, ph, cr)) /\ 1..s.fence \subseteq Known(s, ph, cr)
        /\ ~s.closed => 1..rv \subseteq Known(s, ph, cr) \cup Holds(s.buf, "delta")
    BY <1>4, <1>7, <2>2
  <2> QED
    BY <1>3, <2>2, <2>3 DEF DeltaOK, Early
<1> QED
  BY <1>5, <1>6, <1>7

\* The client reads a frame that is neither a snapshot nor a change.
LEMMA DeltaTakeOther ==
    ASSUME NEW r \in ConnRecords, NEW s, NEW ph, NEW ph2, NEW cr, NEW rv, DeltaOK(r, ph, cr, rv),
           ph = "ready" <=> ph2 = "ready",
           r.down # <<>>, s.down = Tail(r.down), Head(r.down).kind \notin {"snapshot", "delta"},
           s.phase = r.phase, s.fence = r.fence, SameBuffer(s, r)
    PROVE  DeltaOK(s, ph2, cr, rv)
<1>1. r.down \in Seq(FrameRecords) /\ Head(r.down) \in FrameRecords
  BY TailType DEF ConnRecords
<1>2. /\ Holds(s.down, "snapshot") = Holds(r.down, "snapshot")
      /\ Holds(s.down, "delta") = Holds(r.down, "delta")
  BY <1>1, QuietTail, LoudTail
<1>3. Base(s, ph2, cr) = Base(r, ph, cr) /\ Known(s, ph2, cr) = Known(r, ph, cr)
  BY <1>2 DEF Base, Known
<1>4. OneSnapshot(s.down)
  BY <1>1, OneTail DEF DeltaOK
<1>5. Contig(s.down, "delta", Base(r, ph, cr))
  <2>1. Contig(r.down, "delta", Base(r, ph, cr))
    BY DEF DeltaOK
  <2>2. Contig(Tail(r.down), "delta", Base(r, ph, cr))
    BY <1>1, <2>1, ContigTail
  <2> QED
    BY <2>2
<1> QED
  BY <1>2, <1>3, <1>4, <1>5 DEF DeltaOK, SameBuffer

\* ... the snapshot
LEMMA DeltaTakeSnapshot ==
    ASSUME NEW r \in ConnRecords, NEW s, NEW ph, NEW cr, NEW rv, DeltaOK(r, ph, cr, rv),
           r.down # <<>>, s.down = Tail(r.down), Head(r.down).kind = "snapshot",
           s.phase = r.phase, s.fence = r.fence, SameBuffer(s, r)
    PROVE  ph # "ready" /\ r.phase \notin Early /\ DeltaOK(s, "ready", Head(r.down).n, rv)
<1> DEFINE n == Head(r.down).n
<1>1. r.down \in Seq(FrameRecords) /\ Head(r.down) \in FrameRecords
  BY TailType DEF ConnRecords
<1>2. /\ Holds(r.down, "snapshot") = Holds(s.down, "snapshot") \cup {n}
      /\ Holds(s.down, "delta") = Holds(r.down, "delta")
  BY <1>1, QuietTail, LoudTail
<1>3. ph # "ready" /\ r.phase \notin Early
  BY <1>2 DEF DeltaOK
<1>4. OneSnapshot(s.down) /\ Holds(s.down, "snapshot") = {}
  BY <1>1, OneTail DEF DeltaOK
<1>5. Base(r, ph, cr) = 1..n /\ Base(s, "ready", n) = 1..n
  BY <1>2, <1>3, <1>4 DEF Base
<1>6. Known(s, "ready", n) = Known(r, ph, cr)
  BY <1>2, <1>5 DEF Known
<1>7. Contig(s.down, "delta", 1..n)
  <2>1. Contig(r.down, "delta", 1..n)
    BY <1>5 DEF DeltaOK
  <2>2. Contig(Tail(r.down), "delta", 1..n)
    BY <1>1, <2>1, ContigTail
  <2> QED
    BY <2>2
<1> HIDE DEF n
<1> QED
  BY <1>3, <1>4, <1>5, <1>6, <1>7 DEF DeltaOK, SameBuffer, n

\* ... and a change, which is the next one or an old one.
LEMMA DeltaTakeDelta ==
    ASSUME NEW r \in ConnRecords, NEW s, NEW cr \in Nat, NEW cr2 \in Nat, NEW rv,
           DeltaOK(r, "ready", cr, rv),
           r.down # <<>>, s.down = Tail(r.down), Head(r.down).kind = "delta",
           s.phase = r.phase, s.fence = r.fence, SameBuffer(s, r),
           cr2 = IF Head(r.down).n <= cr THEN cr ELSE Head(r.down).n
    PROVE  cr2 \in {cr, cr + 1} /\ DeltaOK(s, "ready", cr2, rv)
<1> DEFINE n == Head(r.down).n
<1>0. r.down \in Seq(FrameRecords) /\ Head(r.down) \in FrameRecords
  BY TailType DEF ConnRecords
<1>1. n \in Nat
  BY <1>0 DEF FrameRecords
<1>2. /\ Holds(s.down, "snapshot") = Holds(r.down, "snapshot")
      /\ Holds(r.down, "delta") = Holds(s.down, "delta") \cup {n}
  BY <1>0, QuietTail, LoudTail
<1>3. Base(r, "ready", cr) = 1..cr /\ Base(s, "ready", cr2) = 1..cr2
  BY DEF Base
<1>4. 1..cr \subseteq 1..cr2 /\ (n # 0 => n \in 1..cr2)
  BY <1>1
<1>5. /\ Contig(Tail(r.down), "delta", 1..cr2)
      /\ Head(r.down).kind = "delta" => 1..(Head(r.down).n - 1) \subseteq 1..cr
  <2>1. Contig(r.down, "delta", 1..cr)
    BY <1>3 DEF DeltaOK
  <2> QED
    BY <1>0, <1>4, <2>1, ContigTail, Zenon
<1>6. cr2 \in {cr, cr + 1}
  <2>1. n <= cr + 1
    BY <1>1, <1>5, NextOne
  <2> QED
    BY <1>1, <2>1
<1>7. Known(r, "ready", cr) \subseteq Known(s, "ready", cr2) \cup {0}
  BY <1>2, <1>3, <1>4 DEF Known
<1>8. OneSnapshot(s.down) /\ Holds(s.down, "snapshot") = {}
  BY <1>0, <1>2, OneTail DEF DeltaOK
<1> DEFINE K == Known(r, "ready", cr)
           L == Known(s, "ready", cr2)
<1>9. r.phase = "live" => /\ 1..s.fence \subseteq L /\ Contig(s.buf, "delta", L)
                          /\ ~s.closed => 1..rv \subseteq L \cup Holds(s.buf, "delta")
  <2> SUFFICES ASSUME r.phase = "live"
               PROVE  /\ 1..s.fence \subseteq L /\ Contig(s.buf, "delta", L)
                      /\ ~s.closed => 1..rv \subseteq L \cup Holds(s.buf, "delta")
    OBVIOUS
  <2>1. /\ 1..r.fence \subseteq K /\ Contig(r.buf, "delta", K)
        /\ ~r.closed => 1..rv \subseteq K \cup Holds(r.buf, "delta")
    BY DEF DeltaOK
  <2> HIDE DEF K, L
  <2>2. \A v : v \in K /\ v # 0 => v \in L
    BY <1>7 DEF K, L
  <2>3. \A h : \A v \in 1..h : v # 0
    OBVIOUS
  <2>4. Contig(s.buf, "delta", L)
    BY <2>1, <2>2, <2>3 DEF Contig, SameBuffer
  <2> QED
    BY <2>1, <2>2, <2>3, <2>4 DEF SameBuffer
<1>a. Contig(s.down, "delta", Base(s, "ready", cr2))
  BY <1>3, <1>5
<1>b. r.phase \notin Early
  BY DEF DeltaOK
<1> QED
  BY <1>6, <1>8, <1>9, <1>a, <1>b DEF DeltaOK, Early

----------------------------------------------------------------------------
(* What every connection keeps.                                            *)

LEMMA LinkMore ==
    ASSUME NEW r, NEW s, NEW len \in Nat, NEW len2 \in Nat, NEW cu \in Nat, NEW cu2 \in Nat,
           len <= len2, cu <= cu2, r.ack \in Nat, r.high \in Nat, LinkOK(r, len, cu),
           s.phase = r.phase, SameWire(s, r), SameSession(s, r), SameBuffer(s, r)
    PROVE  LinkOK(s, len2, cu2)
<1>1. 1..len \subseteq 1..len2 /\ 0..cu \subseteq 0..cu2
  OBVIOUS
<1>2. s.ack <= cu2 /\ (s.phase = "paging" => s.last <= s.high /\ s.high <= len2)
  BY DEF LinkOK, SameWire, SameSession
<1> QED
  BY <1>1, <1>2 DEF LinkOK, SameWire, SameSession, SameBuffer

LEMMA LinkFree == ASSUME NEW len, NEW cu \in Nat PROVE LinkOK(Free, len, cu)
  BY FreeType, HoldsEmpty DEF LinkOK, Early

\* Something is sent or delivered.
LEMMA LinkSend ==
    ASSUME NEW r \in ConnRecords, NEW s, NEW f \in FrameRecords, NEW len, NEW cu, LinkOK(r, len, cu),
           f.kind = "event" => f.n \in 1..len, s.down = r.down \/ s.down = Append(r.down, f),
           s.phase = r.phase, SameSession(s, r), SameBuffer(s, r), s.up = r.up, s.ack = r.ack
    PROVE  LinkOK(s, len, cu)
<1>1. r.down \in Seq(FrameRecords)
  BY DEF ConnRecords
<1>2. Holds(Append(r.down, f), "event") \subseteq 1..len
  <2>1. Holds(r.down, "event") \subseteq 1..len
    BY DEF LinkOK
  <2>2. CASE f.kind = "event"
    <3>1. Holds(Append(r.down, f), "event") = Holds(r.down, "event") \cup {f.n}
      BY <1>1, <2>2, LoudAppend
    <3> QED
      BY <2>1, <2>2, <3>1
  <2>3. CASE f.kind # "event"
    BY <1>1, <2>1, <2>3, QuietAppend
  <2> QED
    BY <2>2, <2>3
<1> QED
  BY <1>2 DEF LinkOK, SameSession, SameBuffer

LEMMA LinkDeliver ==
    ASSUME NEW r \in ConnRecords, NEW s, NEW b \in FrameRecords, NEW len, NEW cu, LinkOK(r, len, cu),
           b.kind = "event" => b.n \in 1..len, b.kind \notin {"snapshot", "welcome"}, BufferStep(r, s, b),
           s.phase = r.phase, SameSession(s, r), SameWire(s, r)
    PROVE  LinkOK(s, len, cu)
<1>1. r.buf \in Seq(FrameRecords)
  BY DEF ConnRecords
<1>2. Holds(Append(r.buf, b), "event") \subseteq 1..len
  <2>1. Holds(r.buf, "event") \subseteq 1..len
    BY DEF LinkOK
  <2>2. CASE b.kind = "event"
    <3>1. Holds(Append(r.buf, b), "event") = Holds(r.buf, "event") \cup {b.n}
      BY <1>1, <2>2, LoudAppend
    <3> QED
      BY <2>1, <2>2, <3>1
  <2>3. CASE b.kind # "event"
    BY <1>1, <2>1, <2>3, QuietAppend
  <2> QED
    BY <2>2, <2>3
<1>3. Holds(Append(r.buf, b), "snapshot") = {} /\ Holds(Append(r.buf, b), "welcome") = {}
  BY <1>1, QuietAppend DEF LinkOK
<1>4. s.buf = r.buf \/ s.buf = Append(r.buf, b)
  BY DEF BufferStep, SameBuffer
<1> QED
  BY <1>2, <1>3, <1>4 DEF LinkOK, SameSession, SameWire

\* A session ends.
LEMMA LinkEnds ==
    ASSUME NEW r \in ConnRecords, NEW len, NEW cu \in Nat, LinkOK(r, len, cu)
    PROVE  LinkOK(Ended(r), len, cu) /\ LinkOK(Failed(r), len, cu)
<1>1. r.down \in Seq(FrameRecords) /\ ErrorFrame \in FrameRecords /\ ErrorFrame.kind = "error"
  BY ErrorType DEF ConnRecords
<1>2. Holds(Append(r.down, ErrorFrame), "event") \subseteq 1..len
  BY <1>1, QuietAppend DEF LinkOK
<1>3. LinkOK(Ended(r), len, cu)
  BY EndedFields, HoldsEmpty DEF LinkOK, Early
<1>4. LinkOK(Failed(r), len, cu)
  BY <1>2, FailedFields, HoldsEmpty DEF LinkOK, Early
<1> QED
  BY <1>3, <1>4

LEMMA LinkLeft ==
    ASSUME NEW r \in ConnRecords, NEW len, NEW cu \in Nat, LinkOK(r, len, cu)
    PROVE  LinkOK(Left(r), len, cu)
  BY LeftFields, LinkFree, HoldsEmpty DEF LinkOK, Early

\* The client reads.
LEMMA LinkTake ==
    ASSUME NEW r \in ConnRecords, NEW s, NEW len, NEW cu, LinkOK(r, len, cu), r.down # <<>>,
           s.down = Tail(r.down), s.phase = r.phase, SameSession(s, r), SameBuffer(s, r),
           s.up = r.up, s.ack = r.ack
    PROVE  LinkOK(s, len, cu) /\ (Head(r.down).kind = "event" => Head(r.down).n \in 1..len)
<1>1. r.down \in Seq(FrameRecords)
  BY DEF ConnRecords
<1>2. Holds(r.down, "event") = Holds(s.down, "event")
         \cup (IF Head(r.down).kind = "event" THEN {Head(r.down).n} ELSE {})
  BY <1>1, HoldsTail
<1> QED
  BY <1>2 DEF LinkOK, SameSession, SameBuffer

\* A page is sent.
LEMMA LinkPage ==
    ASSUME NEW r \in ConnRecords, NEW s, NEW len \in Nat, NEW cu, LinkOK(r, len, cu),
           r.phase = "paging", r.last < r.high, s.phase = "paging", s.last = PageEnd(r), s.high = r.high,
           s.wait = r.wait, SameBuffer(s, r), s.up = r.up, s.ack = r.ack,
           s.down = r.down \/ s.down = r.down \o PageOf(r)
    PROVE  LinkOK(s, len, cu)
<1>1. /\ r.down \in Seq(FrameRecords) /\ PageOf(r) \in Seq(FrameRecords) /\ r.last \in Nat /\ r.high \in Nat
      /\ PageEnd(r) \in Nat /\ PageEnd(r) <= r.high
  BY PageFacts DEF ConnRecords
<1>2. Holds(r.down \o PageOf(r), "event") = Holds(r.down, "event") \cup ((r.last + 1)..PageEnd(r))
  BY <1>1, HoldsConcat, PageHolds
<1>3. r.high <= len
  BY DEF LinkOK
<1>4. (r.last + 1)..PageEnd(r) \subseteq 1..len
  BY <1>1, <1>3
<1> QED
  BY <1>1, <1>2, <1>3, <1>4 DEF LinkOK, SameBuffer

----------------------------------------------------------------------------
(* What each step of the coordinator does to the connections.              *)

\* What neither a broadcast nor an answer changes.
Untouched(s, r) ==
    /\ s.phase = r.phase /\ s.gone = r.gone /\ s.last = r.last /\ s.high = r.high
    /\ s.fence = r.fence /\ s.up = r.up /\ s.ack = r.ack

LEMMA DeliverStep ==
    ASSUME TypeOK, NEW b \in FrameRecords, NEW c \in Conns
    PROVE  LET r == conn[c]
               s == Broadcast(b)[c] IN
           s \in ConnRecords /\ Untouched(s, r) /\ s.down = r.down /\ s.wait = r.wait /\ BufferStep(r, s, b)
<1>1. conn[c] \in ConnRecords
  BY DEF TypeOK
<1>2. /\ Broadcast(b)[c] = IF Subscribed(conn[c]) THEN Deliver(conn[c], b) ELSE conn[c]
      /\ Broadcast(b)[c] \in ConnRecords
  BY BroadcastType
<1>3. CASE Subscribed(conn[c])
  <2>1. ~conn[c].closed
    BY <1>3 DEF Subscribed
  <2> QED
    BY <1>1, <1>2, <1>3, <2>1, DeliverFields DEF Untouched, BufferStep
<1>4. CASE ~Subscribed(conn[c])
  BY <1>1, <1>2, <1>4 DEF Untouched, BufferStep, SameBuffer
<1> QED
  BY <1>3, <1>4

Answered(r) == Append(r.down, Frame("reply", 0, r.wait))

LEMMA PublishStep ==
    ASSUME TypeOK, Publish
    PROVE  /\ busy # NoCall /\ busy' = NoCall /\ Durable(busy.seq) \in FrameRecords
           /\ Durable(busy.seq).kind = "event" /\ Durable(busy.seq).n = busy.seq
           /\ UNCHANGED <<log, rev, cphase, con, cursorVars, probe, crev, applying, times,
                          sentVars, boundVars>>
           /\ \A c \in Conns :
                 /\ Untouched(conn'[c], conn[c]) /\ BufferStep(conn[c], conn'[c], Durable(busy.seq))
                 /\ conn'[c].wait = IF c = busy.conn THEN NoMsg ELSE conn[c].wait
                 /\ conn'[c].down = IF c = busy.conn /\ ~conn[c].gone THEN Answered(conn[c]) ELSE conn[c].down
<1> DEFINE b == Durable(busy.seq)
           t == Broadcast(b)
<1>1. busy.seq \in Nat /\ busy.conn \in Conns \cup {NoConn} /\ NoConn \notin Conns
  BY DeliveryAssumption DEF TypeOK
<1>2. b \in FrameRecords /\ b.kind = "event" /\ b.n = busy.seq
  BY <1>1, FrameType DEF Durable, Kinds
<1>3. conn' = IF busy.conn = NoConn THEN t ELSE [t EXCEPT ![busy.conn] = Answer(t[busy.conn])]
  BY DEF Publish
<1>4. t \in [Conns -> ConnRecords]
  BY <1>2, BroadcastType
<1> HIDE DEF b
<1>5. ASSUME NEW c \in Conns
      PROVE  /\ Untouched(conn'[c], conn[c]) /\ BufferStep(conn[c], conn'[c], b)
             /\ conn'[c].wait = IF c = busy.conn THEN NoMsg ELSE conn[c].wait
             /\ conn'[c].down = IF c = busy.conn /\ ~conn[c].gone THEN Answered(conn[c]) ELSE conn[c].down
  <2>1. /\ t[c] \in ConnRecords /\ Untouched(t[c], conn[c]) /\ t[c].down = conn[c].down
        /\ t[c].wait = conn[c].wait /\ BufferStep(conn[c], t[c], b)
    BY <1>2, DeliverStep
  <2> HIDE DEF t
  <2>2. conn'[c] = IF c = busy.conn THEN Answer(t[c]) ELSE t[c]
    BY <1>1, <1>3, <1>4
  <2>3. CASE c = busy.conn
    <3>1. /\ conn'[c].phase = t[c].phase /\ conn'[c].gone = t[c].gone /\ conn'[c].last = t[c].last
          /\ conn'[c].high = t[c].high /\ conn'[c].fence = t[c].fence /\ conn'[c].buf = t[c].buf
          /\ conn'[c].closed = t[c].closed /\ conn'[c].up = t[c].up /\ conn'[c].wait = NoMsg
          /\ conn'[c].ack = t[c].ack
          /\ conn'[c].down = IF t[c].gone THEN t[c].down ELSE Append(t[c].down, Frame("reply", 0, t[c].wait))
      BY <2>1, <2>2, <2>3, AnswerFields
    <3> QED
      BY <2>1, <2>3, <3>1 DEF Untouched, BufferStep, SameBuffer, Answered
  <2>4. CASE c # busy.conn
    BY <2>1, <2>2, <2>4
  <2> QED
    BY <2>3, <2>4
<1> QED
  BY <1>2, <1>5 DEF Publish, CoordinatorIdle, b

\* A broadcast, and then perhaps an answer.
LEMMA PublishSplit ==
    ASSUME TypeOK, Publish, NEW c \in Conns
    PROVE  \E t \in ConnRecords :
              /\ Untouched(t, conn[c]) /\ t.down = conn[c].down /\ t.wait = conn[c].wait
              /\ BufferStep(conn[c], t, Durable(busy.seq))
              /\ Untouched(conn'[c], t) /\ SameBuffer(conn'[c], t)
              /\ conn'[c].wait \in {t.wait, NoMsg}
              /\ conn'[c].down = t.down \/ (~t.gone /\ conn'[c].down = Answered(t))
<1> DEFINE b == Durable(busy.seq)
           t == Broadcast(b)
<1>1. busy.seq \in Nat /\ busy.conn \in Conns \cup {NoConn} /\ NoConn \notin Conns
  BY DeliveryAssumption DEF TypeOK
<1>2. b \in FrameRecords
  BY <1>1, FrameType DEF Durable, Kinds
<1>3. conn' = IF busy.conn = NoConn THEN t ELSE [t EXCEPT ![busy.conn] = Answer(t[busy.conn])]
  BY DEF Publish
<1>4. t \in [Conns -> ConnRecords]
  BY <1>2, BroadcastType
<1> HIDE DEF b
<1>5. /\ t[c] \in ConnRecords /\ Untouched(t[c], conn[c]) /\ t[c].down = conn[c].down
      /\ t[c].wait = conn[c].wait /\ BufferStep(conn[c], t[c], b)
  BY <1>2, DeliverStep
<1> HIDE DEF t
<1>6. conn'[c] = t[c] \/ conn'[c] = Answer(t[c])
  BY <1>1, <1>3, <1>4
<1>7. /\ Untouched(conn'[c], t[c]) /\ SameBuffer(conn'[c], t[c])
      /\ conn'[c].wait \in {t[c].wait, NoMsg}
      /\ conn'[c].down = t[c].down \/ (~t[c].gone /\ conn'[c].down = Answered(t[c]))
  <2>1. CASE conn'[c] = t[c]
    BY <2>1 DEF Untouched, SameBuffer
  <2>2. CASE conn'[c] = Answer(t[c])
    <3>1. /\ conn'[c].phase = t[c].phase /\ conn'[c].gone = t[c].gone /\ conn'[c].last = t[c].last
          /\ conn'[c].high = t[c].high /\ conn'[c].fence = t[c].fence /\ conn'[c].buf = t[c].buf
          /\ conn'[c].closed = t[c].closed /\ conn'[c].up = t[c].up /\ conn'[c].wait = NoMsg
          /\ conn'[c].ack = t[c].ack
          /\ conn'[c].down = IF t[c].gone THEN t[c].down ELSE Append(t[c].down, Frame("reply", 0, t[c].wait))
      BY <1>5, <2>2, AnswerFields
    <3> QED
      BY <3>1 DEF Untouched, SameBuffer, Answered
  <2> QED
    BY <1>6, <2>1, <2>2
<1> QED
  BY <1>5, <1>7 DEF b

LEMMA FailStep ==
    ASSUME TypeOK, NEW c \in Conns, FailRequest(c)
    PROVE  /\ OthersKept(c) /\ Untouched(conn'[c], conn[c]) /\ SameBuffer(conn'[c], conn[c])
           /\ conn[c].wait # NoMsg /\ conn[c].wait \in Msgs /\ conn'[c].wait = NoMsg
           /\ conn'[c].down = IF ~conn[c].gone THEN Answered(conn[c]) ELSE conn[c].down
           /\ excused' = excused \cup {conn[c].wait} /\ busy'.seq = busy.seq
           /\ busy'.conn = IF busy.conn = c THEN NoConn ELSE busy.conn
           /\ UNCHANGED <<log, rev, cphase, con, cursorVars, probe, crev, applying, times,
                          order, entered, clientCrashes, overflows>>
<1>1. /\ conn[c] \in ConnRecords /\ conn[c].wait \in Msgs \cup {NoMsg} /\ conn \in [Conns -> ConnRecords]
      /\ busy \in [seq : Nat, conn : Conns \cup {NoConn}]
  BY DEF TypeOK, ConnRecords
<1>2. conn' = [conn EXCEPT ![c] = Answer(conn[c])]
  BY DEF FailRequest
<1>3. conn'[c] = Answer(conn[c]) /\ OthersKept(c)
  BY <1>1, <1>2 DEF OthersKept
<1>4. busy'.seq = busy.seq /\ busy'.conn = IF busy.conn = c THEN NoConn ELSE busy.conn
  BY <1>1 DEF FailRequest
<1> QED
  BY <1>1, <1>3, <1>4, AnswerFields DEF FailRequest, Untouched, SameBuffer, Answered

LEMMA DeltaStep ==
    ASSUME TypeOK, Delta
    PROVE  /\ rev' = rev + 1 /\ rev \in Nat /\ Transient(rev') \in FrameRecords
           /\ Transient(rev').kind = "delta" /\ Transient(rev').n = rev'
           /\ UNCHANGED <<log, busy, cphase, con, cursorVars, probe, crev, applying, times,
                          sentVars, boundVars>>
           /\ \A c \in Conns :
                 /\ Untouched(conn'[c], conn[c]) /\ BufferStep(conn[c], conn'[c], Transient(rev'))
                 /\ conn'[c].wait = conn[c].wait /\ conn'[c].down = conn[c].down
<1>1. rev \in Nat /\ rev' = rev + 1 /\ conn' = Broadcast(Transient(rev'))
  BY DeliveryAssumption DEF TypeOK, Delta
<1>2. rev' \in Nat
  BY <1>1
<1>3. /\ Transient(rev') \in FrameRecords /\ Transient(rev').kind = "delta"
      /\ Transient(rev').n = rev'
  BY <1>2, FrameType DEF Transient, Kinds
<1>4. ASSUME NEW c \in Conns
      PROVE  /\ Untouched(conn'[c], conn[c]) /\ BufferStep(conn[c], conn'[c], Transient(rev'))
             /\ conn'[c].wait = conn[c].wait /\ conn'[c].down = conn[c].down
  <2> DEFINE b == Transient(rev')
  <2>1. b \in FrameRecords
    BY <1>3
  <2> HIDE DEF b
  <2>2. /\ Untouched(Broadcast(b)[c], conn[c]) /\ Broadcast(b)[c].down = conn[c].down
        /\ Broadcast(b)[c].wait = conn[c].wait /\ BufferStep(conn[c], Broadcast(b)[c], b)
    BY <2>1, DeliverStep
  <2> QED
    BY <1>1, <2>2 DEF b
<1> QED
  BY <1>1, <1>3, <1>4 DEF Delta

LEMMA CrashStep ==
    ASSUME TypeOK, DaemonCrash
    PROVE  /\ rev' = 0 /\ busy' = NoCall
           /\ UNCHANGED <<log, cphase, con, cursorVars, probe, crev, applying, times, sentVars,
                          clientCrashes, overflows>>
           /\ \A c \in Conns : \/ conn[c].phase = "free" /\ conn'[c] = Free
                               \/ conn[c].phase # "free" /\ conn'[c] = Ended(conn[c])
  BY DEF DaemonCrash, TypeOK

----------------------------------------------------------------------------
(* Every step of a session keeps the streams in order.                     *)

LEMMA FlowTypes ==
    ASSUME TypeOK
    PROVE  /\ Len(log) \in Nat /\ cur \in Nat /\ applying \in Nat /\ Shown \in Nat /\ rev \in Nat
           /\ crev \in Nat /\ busy.seq \in Nat
           /\ \A c \in Conns : /\ conn[c] \in ConnRecords /\ conn[c].down \in Seq(FrameRecords)
                               /\ conn[c].up \in Seq(FrameRecords) /\ conn[c].buf \in Seq(FrameRecords)
                               /\ conn[c].ack \in Nat /\ conn[c].high \in Nat /\ conn[c].last \in Nat
           /\ con # NoConn => con \in Conns
<1>1. Len(log) \in Nat
  BY LenProperties DEF TypeOK
<1>2. rev \in Nat
  BY DeliveryAssumption DEF TypeOK
<1>3. /\ cur \in Nat /\ applying \in Nat /\ Shown \in Nat /\ crev \in Nat /\ busy.seq \in Nat
      /\ con # NoConn => con \in Conns
  BY DEF TypeOK, Shown
<1>4. \A c \in Conns : /\ conn[c] \in ConnRecords /\ conn[c].down \in Seq(FrameRecords)
                       /\ conn[c].up \in Seq(FrameRecords) /\ conn[c].buf \in Seq(FrameRecords)
                       /\ conn[c].ack \in Nat /\ conn[c].high \in Nat /\ conn[c].last \in Nat
  BY DEF TypeOK, ConnRecords
<1> QED
  BY <1>1, <1>2, <1>3, <1>4

ClientOK(r) ==
    /\ OwnOK(r, cphase, cur) /\ StreamOK(r, Shown, Len(log), busy.seq)
    /\ DeltaOK(r, cphase, crev, rev)

LEMMA FlowFacts ==
    ASSUME TypeOK, Flow, NEW c \in Conns
    PROVE  LinkOK(conn[c], Len(log), cur) /\ (c = con => ClientOK(conn[c]) /\ ~conn[c].gone)
<1>1. NoConn # c
  BY DeliveryAssumption
<1> QED
  BY <1>1 DEF Flow, LinksInv, OwnInv, StreamInv, DeltaInv, ClientOK, OwnOK

LEMMA FlowServe ==
    ASSUME TypeOK, Flow, NEW c \in Conns, RestKept, OthersKept(c),
           LinkOK(conn'[c], Len(log), cur), c = con => ClientOK(conn'[c])
    PROVE  Flow'
<1>0. UNCHANGED <<log, rev, busy, cphase, con, cur, saved, crev, applying>>
  BY DEF RestKept, roomVars, cursorVars
<1>1. LinksInv'
  BY <1>0 DEF LinksInv, OthersKept, Flow
<1>2. CursorInv'
  BY <1>0 DEF CursorInv, Flow, NoCall
<1>3. Shown' = Shown
  BY <1>0 DEF Shown
<1>4. con # NoConn => ClientOK(conn'[con])
  <2>1. con # NoConn => con \in Conns
    BY FlowTypes
  <2> QED
    BY <2>1 DEF OthersKept, Flow, OwnInv, StreamInv, DeltaInv, ClientOK
<1>5. OwnInv' /\ StreamInv' /\ DeltaInv'
  BY <1>0, <1>3, <1>4 DEF OwnInv, StreamInv, DeltaInv, ClientOK
<1> QED
  BY <1>1, <1>2, <1>5 DEF Flow

\* What the client's own connection keeps when something else is sent on it.
LEMMA OwnSend ==
    ASSUME NEW r \in ConnRecords, NEW s, NEW f \in FrameRecords, NEW ph, NEW cu, OwnOK(r, ph, cu),
           f.kind = "welcome" => cu <= f.n, s.down = r.down \/ s.down = Append(r.down, f),
           ~s.gone, s.phase # "free", s.up = r.up \/ s.up = <<>>
    PROVE  OwnOK(s, ph, cu)
<1>1. r.down \in Seq(FrameRecords)
  BY DEF ConnRecords
<1>2. Holds(Append(r.down, f), "welcome") = Holds(r.down, "welcome")
         \cup (IF f.kind = "welcome" THEN {f.n} ELSE {})
  BY <1>1, HoldsAppend
<1>3. s.down = Append(r.down, f) /\ ph = "hello" => \A n \in Holds(s.down, "welcome") : cu <= n
  BY <1>2 DEF OwnOK
<1> QED
  BY <1>3 DEF OwnOK

LEMMA FlowEnds ==
    ASSUME TypeOK, Flow, NEW c \in Conns, RestKept, OthersKept(c), GivesUp(c)
    PROVE  Flow'
<1> DEFINE r == conn[c]
           s == conn'[c]
<1>1. r \in ConnRecords /\ cur \in Nat /\ ErrorFrame \in FrameRecords /\ ErrorFrame.kind = "error"
  BY FlowTypes, ErrorType
<1>2. LinkOK(r, Len(log), cur) /\ (c = con => ClientOK(r) /\ ~r.gone)
  BY FlowFacts
<1>3. LinkOK(s, Len(log), cur)
  BY <1>1, <1>2, LinkEnds DEF GivesUp
<1>4. ASSUME c = con PROVE ClientOK(s)
  <2>1. /\ s.phase = "ended" /\ ~s.gone /\ s.up = <<>>
        /\ s.down = r.down \/ s.down = Append(r.down, ErrorFrame)
    <3>1. CASE s = Failed(r)
      BY <1>1, <1>2, <1>4, <3>1, FailedFields
    <3>2. CASE s = Ended(r)
      BY <1>1, <1>2, <1>4, <3>2, EndedFields
    <3> QED
      BY <3>1, <3>2 DEF GivesUp
  <2> HIDE DEF r, s
  <2>2. OwnOK(s, cphase, cur)
    BY <1>1, <1>2, <1>4, <2>1, OwnSend DEF ClientOK
  <2>3. StreamOK(s, Shown, Len(log), busy.seq)
    BY <1>1, <1>2, <1>4, <2>1, StreamEnds DEF ClientOK
  <2>4. DeltaOK(s, cphase, crev, rev)
    BY <1>1, <1>2, <1>4, <2>1, DeltaEnds DEF ClientOK
  <2> QED
    BY <2>2, <2>3, <2>4 DEF ClientOK
<1> QED
  BY <1>3, <1>4, FlowServe

LEMMA FlowSubscribe == ASSUME TypeOK, Flow, NEW c \in Conns, Subscribe(c) PROVE Flow'
<1> DEFINE r == conn[c]
           s == conn'[c]
<1>0. /\ RestKept /\ OthersKept(c) /\ r.phase = "hello" /\ s.phase = "subscribed"
      /\ SameWire(s, r) /\ SameSession(s, r) /\ SameBuffer(s, r)
  BY SubscribeStep
<1>1. LinkOK(r, Len(log), cur) /\ (c = con => ClientOK(r) /\ ~r.gone)
  BY FlowFacts
<1> HIDE DEF r, s
<1>2. LinkOK(s, Len(log), cur)
  BY <1>0, <1>1 DEF LinkOK, SameWire, SameSession, SameBuffer, Early
<1>3. ASSUME c = con PROVE ClientOK(s)
  <2>1. OwnOK(s, cphase, cur)
    BY <1>0, <1>1, <1>3 DEF ClientOK, OwnOK, SameWire
  <2>2. StreamOK(s, Shown, Len(log), busy.seq)
    <3>1. Sent(s, Shown) = Sent(r, Shown)
      BY <1>0 DEF Sent, SameWire
    <3> QED
      BY <1>0, <1>1, <1>3, <3>1 DEF ClientOK, StreamOK, SameWire, SameSession, SameBuffer, Early
  <2>3. DeltaOK(s, cphase, crev, rev)
    <3>1. Base(s, cphase, crev) = Base(r, cphase, crev)
      BY <1>0 DEF Base, SameWire
    <3> QED
      BY <1>0, <1>1, <1>3, <3>1 DEF ClientOK, DeltaOK, SameWire, SameSession, SameBuffer, Early
  <2> QED
    BY <2>1, <2>2, <2>3 DEF ClientOK
<1> QED
  BY <1>0, <1>2, <1>3, FlowServe DEF s

LEMMA FlowWelcome == ASSUME TypeOK, Flow, NEW c \in Conns, Welcome(c) PROVE Flow'
<1> DEFINE r == conn[c]
           s == conn'[c]
           f == Frame("welcome", Len(log), NoMsg)
<1>t. /\ r \in ConnRecords /\ Len(log) \in Nat /\ cur \in Nat /\ r.down \in Seq(FrameRecords)
      /\ r.last \in Nat /\ cur <= Len(log)
  BY FlowTypes DEF Flow, CursorInv
<1>f. f \in FrameRecords /\ f.kind = "welcome" /\ f.n = Len(log)
  BY <1>t, FrameType DEF Kinds
<1>0. RestKept /\ OthersKept(c) /\ r.phase = "subscribed"
  BY WelcomeStep
<1>1. LinkOK(r, Len(log), cur) /\ (c = con => ClientOK(r) /\ ~r.gone)
  BY FlowFacts
<1>2. CASE GivesUp(c)
  BY <1>0, <1>2, FlowEnds
<1>3. CASE ~GivesUp(c)
  <2>1. /\ r.last <= Len(log) /\ s.phase = "paging" /\ s.high = Len(log)
        /\ s.last = r.last /\ s.wait = r.wait /\ s.gone = r.gone /\ s.up = r.up
        /\ s.ack = r.ack /\ SameBuffer(s, r)
        /\ s.down = IF r.gone THEN r.down ELSE Append(r.down, f)
    BY <1>3, WelcomeStep
  <2> HIDE DEF r, s, f
  <2>2. LinkOK(s, Len(log), cur)
    <3>1. Holds(Append(r.down, f), "event") = Holds(r.down, "event")
      BY <1>t, <1>f, QuietAppend
    <3> QED
      BY <1>0, <1>1, <1>t, <2>1, <3>1 DEF LinkOK, SameBuffer, Early
  <2>3. ASSUME c = con PROVE ClientOK(s)
    <3>0. s.down = Append(r.down, f) /\ r.phase \in Early
      BY <1>0, <1>1, <2>1, <2>3 DEF Early
    <3>1. OwnOK(s, cphase, cur)
      BY <1>1, <1>t, <1>f, <2>1, <2>3, <3>0, OwnSend DEF ClientOK
    <3>2. StreamOK(s, Shown, Len(log), busy.seq)
      BY <1>1, <1>t, <1>f, <2>1, <2>3, <3>0, StreamWelcome DEF ClientOK
    <3>3. DeltaOK(s, cphase, crev, rev)
      BY <1>1, <1>t, <1>f, <2>1, <2>3, <3>0, DeltaSend DEF ClientOK
    <3> QED
      BY <3>1, <3>2, <3>3 DEF ClientOK
  <2> QED
    BY <1>0, <2>2, <2>3, FlowServe DEF s
<1> QED
  BY <1>2, <1>3

LEMMA FlowPage == ASSUME TypeOK, Flow, NEW c \in Conns, Page(c) PROVE Flow'
<1> DEFINE r == conn[c]
           s == conn'[c]
<1>t. r \in ConnRecords /\ Len(log) \in Nat /\ cur \in Nat /\ r.down \in Seq(FrameRecords)
  BY FlowTypes
<1>0. RestKept /\ OthersKept(c) /\ r.phase = "paging" /\ r.last < r.high
  BY PageStep
<1>1. LinkOK(r, Len(log), cur) /\ (c = con => ClientOK(r) /\ ~r.gone)
  BY FlowFacts
<1>2. CASE GivesUp(c)
  BY <1>0, <1>2, FlowEnds
<1>3. CASE ~GivesUp(c)
  <2>1. /\ s.phase = "paging" /\ s.high = r.high
        /\ s.last = PageEnd(r) /\ s.wait = r.wait /\ s.gone = r.gone /\ s.up = r.up
        /\ s.ack = r.ack /\ SameBuffer(s, r)
        /\ s.down = IF r.gone THEN r.down ELSE r.down \o PageOf(r)
    BY <1>3, PageStep
  <2> HIDE DEF r, s
  <2>2. LinkOK(s, Len(log), cur)
    BY <1>0, <1>1, <1>t, <2>1, LinkPage
  <2>3. ASSUME c = con PROVE ClientOK(s)
    <3>0. s.down = r.down \o PageOf(r)
      BY <1>1, <2>1, <2>3
    <3>1. OwnOK(s, cphase, cur)
      <4>1. Holds(s.down, "welcome") = Holds(r.down, "welcome")
        <5>1. PageOf(r) \in Seq(FrameRecords) /\ Holds(PageOf(r), "welcome") = {}
          BY <1>0, <1>t, PageFacts, PageHolds
        <5>2. Holds(r.down \o PageOf(r), "welcome") = Holds(r.down, "welcome") \cup Holds(PageOf(r), "welcome")
          BY <1>t, <5>1, HoldsConcat
        <5> QED
          BY <3>0, <5>1, <5>2
      <4> QED
        BY <1>1, <2>1, <2>3, <4>1 DEF ClientOK, OwnOK
    <3>2. StreamOK(s, Shown, Len(log), busy.seq)
      BY <1>0, <1>1, <1>t, <2>1, <2>3, <3>0, StreamPage DEF ClientOK
    <3>3. DeltaOK(s, cphase, crev, rev)
      BY <1>0, <1>1, <1>t, <2>1, <2>3, <3>0, DeltaPage DEF ClientOK
    <3> QED
      BY <3>1, <3>2, <3>3 DEF ClientOK
  <2> QED
    BY <1>0, <2>2, <2>3, FlowServe DEF s
<1> QED
  BY <1>2, <1>3

LEMMA FlowSnapshot == ASSUME TypeOK, Flow, NEW c \in Conns, Snapshot(c) PROVE Flow'
<1> DEFINE r == conn[c]
           s == conn'[c]
           f == Frame("snapshot", rev, NoMsg)
<1>t. r \in ConnRecords /\ Len(log) \in Nat /\ cur \in Nat /\ rev \in Nat /\ r.down \in Seq(FrameRecords)
  BY FlowTypes
<1>f. f \in FrameRecords /\ f.kind = "snapshot" /\ f.n = rev
  BY <1>t, FrameType DEF Kinds
<1>0. /\ RestKept /\ OthersKept(c) /\ r.phase = "paging" /\ r.last >= r.high
      /\ s.phase = "live" /\ s.fence = rev /\ s.wait = r.wait /\ s.gone = r.gone
      /\ s.up = r.up /\ s.ack = r.ack /\ SameBuffer(s, r)
      /\ s.down = IF r.gone THEN r.down ELSE Append(r.down, f)
  BY SnapshotStep
<1>1. LinkOK(r, Len(log), cur) /\ (c = con => ClientOK(r) /\ ~r.gone)
  BY FlowFacts
<1> HIDE DEF r, s, f
<1>2. LinkOK(s, Len(log), cur)
  <2>1. Holds(Append(r.down, f), "event") = Holds(r.down, "event")
    BY <1>t, <1>f, QuietAppend
  <2> QED
    BY <1>0, <1>1, <2>1 DEF LinkOK, SameBuffer, Early
<1>3. ASSUME c = con PROVE ClientOK(s)
  <2>0. s.down = Append(r.down, f)
    BY <1>0, <1>1, <1>3
  <2>1. OwnOK(s, cphase, cur)
    BY <1>0, <1>1, <1>t, <1>f, <1>3, <2>0, OwnSend DEF ClientOK
  <2>2. StreamOK(s, Shown, Len(log), busy.seq)
    BY <1>0, <1>1, <1>t, <1>f, <1>3, <2>0, StreamLive DEF ClientOK
  <2>3. DeltaOK(s, cphase, crev, rev)
    BY <1>0, <1>1, <1>t, <1>f, <1>3, <2>0, DeltaLive DEF ClientOK
  <2> QED
    BY <2>1, <2>2, <2>3 DEF ClientOK
<1> QED
  BY <1>0, <1>2, <1>3, FlowServe DEF s

LEMMA FlowForward == ASSUME TypeOK, Flow, NEW c \in Conns, Forward(c) PROVE Flow'
<1> DEFINE r == conn[c]
           s == conn'[c]
           b == Head(r.buf)
<1>t. /\ r \in ConnRecords /\ Len(log) \in Nat /\ cur \in Nat /\ r.down \in Seq(FrameRecords)
      /\ r.buf \in Seq(FrameRecords)
  BY FlowTypes
<1>0. /\ RestKept /\ OthersKept(c) /\ r.phase = "live" /\ r.buf # <<>> /\ b \in FrameRecords
      /\ s.phase = "live" /\ s.fence = r.fence /\ s.wait = NoMsg /\ s.gone = r.gone
      /\ s.up = r.up /\ s.ack = r.ack /\ s.closed = r.closed /\ s.buf = Tail(r.buf)
      /\ s.down = IF (b.kind = "delta" /\ b.n <= r.fence) \/ r.gone THEN r.down ELSE Append(r.down, b)
  BY ForwardStep DEF Looping
<1>1. LinkOK(r, Len(log), cur) /\ (c = con => ClientOK(r) /\ ~r.gone)
  BY FlowFacts
<1> HIDE DEF r, s
<1>b. /\ b.kind \notin {"snapshot", "welcome"} /\ (b.kind = "event" => b.n \in 1..Len(log))
      /\ Holds(s.buf, "event") \subseteq 1..Len(log)
      /\ Holds(s.buf, "snapshot") = {} /\ Holds(s.buf, "welcome") = {}
  <2>1. /\ Holds(r.buf, "event") = Holds(s.buf, "event") \cup (IF b.kind = "event" THEN {b.n} ELSE {})
        /\ Holds(r.buf, "snapshot") = Holds(s.buf, "snapshot")
                                        \cup (IF b.kind = "snapshot" THEN {b.n} ELSE {})
        /\ Holds(r.buf, "welcome") = Holds(s.buf, "welcome")
                                       \cup (IF b.kind = "welcome" THEN {b.n} ELSE {})
    BY <1>0, <1>t, HoldsTail
  <2>2. /\ Holds(r.buf, "event") \subseteq 1..Len(log)
        /\ Holds(r.buf, "snapshot") = {} /\ Holds(r.buf, "welcome") = {}
    BY <1>1 DEF LinkOK
  <2> QED
    BY <2>1, <2>2
<1> HIDE DEF b
<1>2. LinkOK(s, Len(log), cur)
  <2>1. Holds(Append(r.down, b), "event") = Holds(r.down, "event")
           \cup (IF b.kind = "event" THEN {b.n} ELSE {})
    BY <1>0, <1>t, HoldsAppend
  <2>2. Holds(s.down, "event") \subseteq 1..Len(log)
    BY <1>0, <1>1, <1>b, <2>1 DEF LinkOK
  <2> QED
    BY <1>0, <1>1, <1>b, <2>2 DEF LinkOK, Early
<1>3. ASSUME c = con PROVE ClientOK(s)
  <2>0. s.down = IF b.kind = "delta" /\ b.n <= r.fence THEN r.down ELSE Append(r.down, b)
    BY <1>0, <1>1, <1>3
  <2>1. OwnOK(s, cphase, cur)
    BY <1>0, <1>1, <1>b, <1>t, <1>3, <2>0, OwnSend DEF ClientOK
  <2>2. StreamOK(s, Shown, Len(log), busy.seq)
    BY <1>0, <1>1, <1>t, <1>3, <2>0, StreamForward DEF ClientOK, b
  <2>3. DeltaOK(s, cphase, crev, rev)
    BY <1>0, <1>1, <1>t, <1>b, <1>3, <2>0, DeltaForward DEF ClientOK, b
  <2> QED
    BY <2>1, <2>2, <2>3 DEF ClientOK
<1> QED
  BY <1>0, <1>2, <1>3, FlowServe DEF s

LEMMA FlowRequest == ASSUME TypeOK, Flow, NEW c \in Conns, Request(c) PROVE Flow'
<1> DEFINE r == conn[c]
           s == conn'[c]
           f == Head(r.up)
<1>t. r \in ConnRecords /\ Len(log) \in Nat /\ cur \in Nat /\ r.up \in Seq(FrameRecords)
  BY FlowTypes
<1>0. /\ RestKept /\ OthersKept(c) /\ r.phase = "live" /\ r.up # <<>> /\ f \in FrameRecords
      /\ s.phase = "live" /\ s.fence = r.fence /\ s.gone = r.gone
      /\ s.down = r.down /\ s.up = Tail(r.up) /\ SameBuffer(s, r)
      /\ \/ s.ack = r.ack
         \/ f.kind = "ack" /\ s.ack \in {r.ack, f.n}
  BY RequestStep DEF Looping
<1>1. LinkOK(r, Len(log), cur) /\ (c = con => ClientOK(r) /\ ~r.gone)
  BY FlowFacts
<1> HIDE DEF r, s
<1>2. LinkOK(s, Len(log), cur)
  <2>1. Holds(r.up, "ack") = Holds(s.up, "ack") \cup (IF f.kind = "ack" THEN {f.n} ELSE {})
    BY <1>0, <1>t, HoldsTail
  <2>2. Holds(r.up, "ack") \subseteq 0..cur /\ r.ack <= cur
    BY <1>1 DEF LinkOK
  <2>3. Holds(s.up, "ack") \subseteq 0..cur
    BY <2>1, <2>2
  <2>4. f.kind = "ack" => f.n \in 0..cur
    BY <2>1, <2>2
  <2>5. s.ack <= cur
    BY <1>0, <1>t, <2>2, <2>4
  <2> QED
    BY <1>0, <1>1, <2>3, <2>5 DEF LinkOK, SameBuffer, Early
<1>3. ASSUME c = con PROVE ClientOK(s)
  <2>0. cphase = "ready"
    BY <1>0, <1>1, <1>3 DEF ClientOK, OwnOK
  <2>1. OwnOK(s, cphase, cur)
    BY <1>0, <1>1, <1>3, <2>0 DEF ClientOK, OwnOK
  <2>2. StreamOK(s, Shown, Len(log), busy.seq)
    <3>1. Given(s, Shown) = Given(r, Shown)
      BY <1>0 DEF Sent, Given
    <3> QED
      BY <1>0, <1>1, <1>3, <3>1 DEF ClientOK, StreamOK, SameBuffer, Early
  <2>3. DeltaOK(s, cphase, crev, rev)
    BY <1>0, <1>1, <1>3, DeltaSame DEF ClientOK
  <2> QED
    BY <2>1, <2>2, <2>3 DEF ClientOK
<1> QED
  BY <1>0, <1>2, <1>3, FlowServe DEF s

LEMMA FlowSession ==
    ASSUME TypeOK, Flow, NEW c \in Conns, Serve(c) \/ SessionFails(c) PROVE Flow'
<1>1. ASSUME SessionEnds(c) PROVE Flow'
  <2>1. RestKept /\ OthersKept(c) /\ conn[c].gone /\ conn'[c] = Free /\ cur \in Nat
    BY <1>1, GoneStep, FlowTypes
  <2> QED
    BY <2>1, LinkFree, FlowFacts, FlowServe
<1>2. ASSUME SlowClient(c) \/ SessionFails(c) PROVE Flow'
  BY <1>2, EndStep, FlowEnds
<1> QED
  BY <1>1, <1>2, FlowSubscribe, FlowWelcome, FlowPage, FlowSnapshot, FlowForward, FlowRequest DEF Serve

----------------------------------------------------------------------------
(* Every step of the coordinator keeps the streams in order.               *)

\* An answer is sent.
LEMMA AnswerLink ==
    ASSUME NEW r \in ConnRecords, NEW s, NEW len, NEW cu, Untouched(s, r), SameBuffer(s, r),
           s.wait \in {r.wait, NoMsg}, s.down = r.down \/ (~r.gone /\ s.down = Answered(r))
    PROVE  /\ LinkOK(r, len, cu) => LinkOK(s, len, cu)
           /\ \A ph : OwnOK(r, ph, cu) => OwnOK(s, ph, cu)
           /\ \A sh, q : StreamOK(r, sh, len, q) => StreamOK(s, sh, len, q)
           /\ \A ph, cr, rv : DeltaOK(r, ph, cr, rv) => DeltaOK(s, ph, cr, rv)
<1> DEFINE f == Frame("reply", 0, r.wait)
<1>1. r.down \in Seq(FrameRecords) /\ r.wait \in Msgs \cup {NoMsg}
  BY DEF ConnRecords
<1>2. f \in FrameRecords /\ f.kind = "reply"
  BY <1>1, FrameType DEF Kinds
<1>3. s.down = r.down \/ s.down = Append(r.down, f)
  BY DEF Answered
<1> HIDE DEF f
<1>4. ASSUME LinkOK(r, len, cu) PROVE LinkOK(s, len, cu)
  <2>1. Holds(s.down, "event") = Holds(r.down, "event")
    BY <1>1, <1>2, <1>3, QuietAppend
  <2> QED
    BY <1>4, <2>1 DEF LinkOK, Untouched, SameBuffer
<1>5. ASSUME NEW ph, OwnOK(r, ph, cu) PROVE OwnOK(s, ph, cu)
  <2>1. ~s.gone /\ s.phase # "free"
    BY <1>5 DEF OwnOK, Untouched
  <2> QED
    BY <1>2, <1>3, <1>5, <2>1, OwnSend DEF Untouched
<1>6. ASSUME NEW sh, NEW q, StreamOK(r, sh, len, q) PROVE StreamOK(s, sh, len, q)
  <2>1. CASE s.down = r.down
    <3>1. SameStream(s, r) /\ (1..len) \ {q} \subseteq (1..len) \ {q}
      BY <2>1 DEF SameStream, Untouched
    <3> QED
      BY <1>6, <3>1, StreamSame
  <2>2. CASE s.down = Append(r.down, f)
    BY <1>2, <1>6, <2>2, StreamSend DEF Untouched
  <2> QED
    BY <1>3, <2>1, <2>2
<1>7. ASSUME NEW ph, NEW cr, NEW rv, DeltaOK(r, ph, cr, rv) PROVE DeltaOK(s, ph, cr, rv)
  <2>1. CASE s.down = r.down
    BY <1>7, <2>1, DeltaSame DEF Untouched
  <2>2. CASE s.down = Append(r.down, f)
    BY <1>2, <1>7, <2>2, DeltaSend DEF Untouched
  <2> QED
    BY <1>3, <2>1, <2>2
<1> QED
  BY <1>4, <1>5, <1>6, <1>7

\* Every connection does a step.
LEMMA FlowAll ==
    ASSUME TypeOK, UNCHANGED <<log, cphase, con, cur, saved, crev, applying>>,
           CursorInv', \A c \in Conns : LinkOK(conn'[c], Len(log), cur),
           ASSUME NEW c \in Conns, c = con
           PROVE  /\ OwnOK(conn'[c], cphase, cur) /\ StreamOK(conn'[c], Shown, Len(log), busy'.seq)
                  /\ DeltaOK(conn'[c], cphase, crev, rev')
    PROVE  Flow'
<1>1. LinksInv'
  BY DEF LinksInv
<1>2. Shown' = Shown
  BY DEF Shown
<1>3. con # NoConn => con \in Conns
  BY FlowTypes
<1>4. OwnInv' /\ StreamInv' /\ DeltaInv'
  BY <1>2, <1>3 DEF OwnInv, StreamInv, DeltaInv
<1> QED
  BY <1>1, <1>4 DEF Flow

LEMMA FlowPublish == ASSUME TypeOK, Flow, Publish PROVE Flow'
<1> DEFINE b == Durable(busy.seq)
<1>0. /\ busy # NoCall /\ busy' = NoCall /\ b \in FrameRecords /\ b.kind = "event" /\ b.n = busy.seq
      /\ UNCHANGED <<log, rev, cphase, con, cur, saved, crev, applying>>
  BY PublishStep DEF cursorVars
<1>1. /\ Len(log) \in Nat /\ cur \in Nat /\ busy.seq \in 1..Len(log) /\ busy'.seq = 0
      /\ b.n \in 1..Len(log)
  BY <1>0, FlowTypes DEF Flow, CursorInv, NoCall
<1>2. ASSUME NEW c \in Conns
      PROVE  /\ LinkOK(conn'[c], Len(log), cur)
             /\ c = con => /\ OwnOK(conn'[c], cphase, cur) /\ StreamOK(conn'[c], Shown, Len(log), 0)
                           /\ DeltaOK(conn'[c], cphase, crev, rev)
  <2> DEFINE r == conn[c]
             s == conn'[c]
  <2>1. r \in ConnRecords /\ LinkOK(r, Len(log), cur) /\ (c = con => ClientOK(r))
    BY FlowTypes, FlowFacts
  <2>2. PICK t \in ConnRecords : /\ Untouched(t, r) /\ t.down = r.down /\ t.wait = r.wait
                                 /\ BufferStep(r, t, b) /\ Untouched(s, t) /\ SameBuffer(s, t)
                                 /\ s.wait \in {t.wait, NoMsg}
                                 /\ s.down = t.down \/ (~t.gone /\ s.down = Answered(t))
    BY PublishSplit
  <2> HIDE DEF r, s, b
  <2>3. LinkOK(t, Len(log), cur)
    BY <1>0, <1>1, <2>1, <2>2, LinkDeliver DEF Untouched, SameSession, SameWire
  <2>4. LinkOK(s, Len(log), cur)
    BY <2>2, <2>3, AnswerLink
  <2>5. ASSUME c = con PROVE /\ OwnOK(s, cphase, cur) /\ StreamOK(s, Shown, Len(log), 0)
                             /\ DeltaOK(s, cphase, crev, rev)
    <3>1. OwnOK(t, cphase, cur)
      BY <2>1, <2>2, <2>5 DEF ClientOK, OwnOK, Untouched
    <3>2. StreamOK(t, Shown, Len(log), 0)
      BY <1>0, <1>1, <2>1, <2>2, <2>5, StreamPublish DEF ClientOK, Untouched
    <3>3. DeltaOK(t, cphase, crev, rev)
      BY <1>0, <2>1, <2>2, <2>5, DeltaPublish DEF ClientOK, Untouched
    <3> QED
      BY <2>2, <3>1, <3>2, <3>3, AnswerLink
  <2> QED
    BY <2>4, <2>5 DEF s
<1>3. CursorInv'
  BY <1>0 DEF Flow, CursorInv
<1> QED
  BY <1>0, <1>1, <1>2, <1>3, FlowAll

LEMMA FlowFail == ASSUME TypeOK, Flow, NEW c \in Conns, FailRequest(c) PROVE Flow'
<1>0. /\ OthersKept(c) /\ Untouched(conn'[c], conn[c]) /\ SameBuffer(conn'[c], conn[c])
      /\ conn'[c].wait = NoMsg /\ busy'.seq = busy.seq
      /\ conn'[c].down = conn[c].down \/ (~conn[c].gone /\ conn'[c].down = Answered(conn[c]))
      /\ UNCHANGED <<log, rev, cphase, con, cur, saved, crev, applying>>
  BY FailStep DEF cursorVars
<1>1. CursorInv'
  <2>1. busy' # NoCall => busy # NoCall
    <3>1. CASE busy = NoCall
      <4>1. busy.conn = NoConn /\ c # NoConn
        BY <3>1, DeliveryAssumption DEF NoCall
      <4> QED
        BY <3>1, <4>1 DEF FailRequest
    <3> QED
      BY <3>1
  <2> QED
    BY <1>0, <2>1 DEF Flow, CursorInv
<1>2. ASSUME NEW d \in Conns
      PROVE  /\ LinkOK(conn'[d], Len(log), cur)
             /\ d = con => ClientOK(conn'[d])
  <2>1. conn[d] \in ConnRecords /\ LinkOK(conn[d], Len(log), cur) /\ (d = con => ClientOK(conn[d]))
    BY FlowTypes, FlowFacts
  <2>2. CASE d = c
    BY <1>0, <2>1, <2>2, AnswerLink DEF ClientOK
  <2>3. CASE d # c
    BY <1>0, <2>1, <2>3 DEF OthersKept
  <2> QED
    BY <2>2, <2>3
<1> QED
  BY <1>0, <1>1, <1>2, FlowAll DEF ClientOK

LEMMA FlowDelta == ASSUME TypeOK, Flow, Delta PROVE Flow'
<1> DEFINE b == Transient(rev')
<1>0. /\ b \in FrameRecords /\ b.kind = "delta" /\ b.n = rev + 1 /\ rev' = rev + 1 /\ rev \in Nat
      /\ UNCHANGED <<log, busy, cphase, con, cur, saved, crev, applying>>
  BY DeltaStep DEF cursorVars
<1>1. ASSUME NEW c \in Conns
      PROVE  /\ LinkOK(conn'[c], Len(log), cur)
             /\ c = con => /\ OwnOK(conn'[c], cphase, cur) /\ StreamOK(conn'[c], Shown, Len(log), busy.seq)
                           /\ DeltaOK(conn'[c], cphase, crev, rev + 1)
  <2> DEFINE r == conn[c]
             s == conn'[c]
  <2>1. r \in ConnRecords /\ LinkOK(r, Len(log), cur) /\ (c = con => ClientOK(r))
    BY FlowTypes, FlowFacts
  <2>2. Untouched(s, r) /\ BufferStep(r, s, b) /\ s.wait = r.wait /\ s.down = r.down
    BY DeltaStep
  <2> HIDE DEF r, s, b
  <2>3. LinkOK(s, Len(log), cur)
    BY <1>0, <2>1, <2>2, LinkDeliver DEF Untouched, SameSession, SameWire
  <2>4. ASSUME c = con PROVE /\ OwnOK(s, cphase, cur) /\ StreamOK(s, Shown, Len(log), busy.seq)
                             /\ DeltaOK(s, cphase, crev, rev + 1)
    <3>1. OwnOK(s, cphase, cur)
      BY <2>1, <2>2, <2>4 DEF ClientOK, OwnOK, Untouched
    <3>2. StreamOK(s, Shown, Len(log), busy.seq)
      BY <1>0, <2>1, <2>2, <2>4, StreamDelta DEF ClientOK, Untouched
    <3>3. DeltaOK(s, cphase, crev, rev + 1)
      BY <1>0, <2>1, <2>2, <2>4, DeltaBroadcast DEF ClientOK, Untouched
    <3> QED
      BY <3>1, <3>2, <3>3
  <2> QED
    BY <2>3, <2>4 DEF s
<1>2. CursorInv'
  BY <1>0 DEF Flow, CursorInv, NoCall
<1> QED
  BY <1>0, <1>1, <1>2, FlowAll

LEMMA FlowCrash == ASSUME TypeOK, Flow, DaemonCrash PROVE Flow'
<1>0. /\ rev' = 0 /\ busy' = NoCall
      /\ UNCHANGED <<log, cphase, con, cur, saved, crev, applying>>
  BY CrashStep DEF cursorVars
<1>1. ASSUME NEW c \in Conns
      PROVE  /\ LinkOK(conn'[c], Len(log), cur)
             /\ c = con => /\ OwnOK(conn'[c], cphase, cur)
                           /\ StreamOK(conn'[c], Shown, Len(log), busy'.seq)
                           /\ DeltaOK(conn'[c], cphase, crev, rev')
  <2> DEFINE r == conn[c]
             s == conn'[c]
  <2>1. /\ r \in ConnRecords /\ LinkOK(r, Len(log), cur) /\ (c = con => ClientOK(r) /\ ~r.gone)
        /\ cur \in Nat /\ ErrorFrame \in FrameRecords /\ ErrorFrame.kind = "error"
    BY FlowTypes, FlowFacts, ErrorType
  <2>2. (r.phase = "free" /\ s = Free) \/ (r.phase # "free" /\ s = Ended(r))
    BY CrashStep
  <2> HIDE DEF r, s
  <2>3. LinkOK(s, Len(log), cur)
    BY <2>1, <2>2, LinkFree, LinkEnds
  <2>4. ASSUME c = con PROVE /\ OwnOK(s, cphase, cur) /\ StreamOK(s, Shown, Len(log), busy'.seq)
                             /\ DeltaOK(s, cphase, crev, rev')
    <3>1. s = Ended(r)
      BY <2>1, <2>2, <2>4 DEF ClientOK, OwnOK
    <3>2. s.phase = "ended" /\ ~s.gone /\ s.up = <<>> /\ s.down = r.down
      BY <2>1, <2>4, <3>1, EndedFields
    <3>3. OwnOK(s, cphase, cur)
      BY <2>1, <2>4, <3>2, OwnSend DEF ClientOK
    <3>4. StreamOK(s, Shown, Len(log), busy'.seq)
      BY <2>1, <2>4, <3>2, StreamEnds DEF ClientOK
    <3>5. DeltaOK(s, cphase, crev, rev')
      BY <2>1, <2>4, <3>2, DeltaEnds DEF ClientOK
    <3> QED
      BY <3>3, <3>4, <3>5
  <2> QED
    BY <2>3, <2>4 DEF s
<1>2. CursorInv'
  BY <1>0 DEF Flow, CursorInv
<1> QED
  BY <1>0, <1>1, <1>2, FlowAll

\* An event is committed, or found in the log.
LEMMA FlowCommit ==
    ASSUME TypeOK, Flow, busy = NoCall, UNCHANGED <<conn, rev, cphase, con, cur, saved, crev, applying>>,
           \/ Len(log') = Len(log) /\ busy'.seq \in 1..Len(log)
           \/ Len(log') = Len(log) + 1 /\ busy'.seq = Len(log) + 1
    PROVE  Flow'
<1>1. Len(log) \in Nat /\ Len(log') \in Nat /\ Len(log) <= Len(log') /\ cur \in Nat
  BY FlowTypes
<1>2. busy'.seq \in 1..Len(log')
  BY <1>1
<1>3. CursorInv'
  BY <1>1, <1>2, FlowTypes DEF Flow, CursorInv
<1>4. Shown' = Shown
  BY DEF Shown
<1>5. LinksInv'
  <2>1. ASSUME NEW c \in Conns PROVE LinkOK(conn[c], Len(log'), cur)
    <3>1. conn[c].ack \in Nat /\ conn[c].high \in Nat /\ LinkOK(conn[c], Len(log), cur)
      BY FlowTypes, FlowFacts
    <3>2. SameWire(conn[c], conn[c]) /\ SameSession(conn[c], conn[c]) /\ SameBuffer(conn[c], conn[c])
      BY DEF SameWire, SameSession, SameBuffer
    <3> QED
      BY <1>1, <3>1, <3>2, LinkMore
  <2> QED
    BY <2>1 DEF LinksInv
<1>6. OwnInv' /\ DeltaInv'
  BY DEF Flow, OwnInv, DeltaInv
<1>7. StreamInv'
  <2>1. ASSUME con # NoConn PROVE StreamOK(conn[con], Shown, Len(log'), busy'.seq)
    <3>1. busy.seq = 0 /\ StreamOK(conn[con], Shown, Len(log), busy.seq)
      BY <2>1 DEF Flow, StreamInv, NoCall
    <3>2. (1..Len(log')) \ {busy'.seq} \subseteq (1..Len(log)) \ {busy.seq}
      BY <1>1, <3>1
    <3>3. SameStream(conn[con], conn[con])
      BY DEF SameStream, SameBuffer
    <3> QED
      BY <3>1, <3>2, <3>3, StreamSame
  <2> QED
    BY <1>4, <2>1 DEF StreamInv
<1> QED
  BY <1>3, <1>5, <1>6, <1>7 DEF Flow

LEMMA FlowCoordinate == ASSUME TypeOK, Flow, Coordinate PROVE Flow'
<1>0. Len(log) \in Nat /\ log \in Seq(Msgs \cup {NoMsg}) /\ \A c \in Conns : conn[c].wait \in Msgs \cup {NoMsg}
  BY FlowTypes DEF TypeOK, ConnRecords
<1>1. ASSUME RoomEvent PROVE Flow'
  <2>1. /\ busy = NoCall /\ log' = Append(log, NoMsg) /\ busy'.seq = Len(log) + 1
        /\ UNCHANGED <<conn, rev, cphase, con, cur, saved, crev, applying>>
    BY <1>1 DEF RoomEvent, CoordinatorIdle, cursorVars
  <2>2. Len(log') = Len(log) + 1
    BY <1>0, <2>1, AppendType
  <2> QED
    BY <2>1, <2>2, FlowCommit
<1>2. ASSUME NEW c \in Conns, AcceptSubmit(c) PROVE Flow'
  <2>0. busy = NoCall /\ UNCHANGED <<conn, rev, cphase, con, cur, saved, crev, applying>>
    BY <1>2 DEF AcceptSubmit, CoordinatorIdle, cursorVars
  <2>1. CASE Accepted(conn[c].wait)
    <3>1. SeqOf(conn[c].wait) \in 1..Len(log)
      BY <2>1 DEF Accepted, SeqOf
    <3>2. log' = log /\ busy'.seq = SeqOf(conn[c].wait)
      BY <1>2, <2>1 DEF AcceptSubmit
    <3> QED
      BY <2>0, <3>1, <3>2, FlowCommit
  <2>2. CASE ~Accepted(conn[c].wait)
    <3>1. log' = Append(log, conn[c].wait) /\ busy'.seq = Len(log) + 1
      BY <1>2, <2>2 DEF AcceptSubmit
    <3>2. Len(log') = Len(log) + 1
      BY <1>0, <3>1, AppendType
    <3> QED
      BY <2>0, <3>1, <3>2, FlowCommit
  <2> QED
    BY <2>1, <2>2
<1> QED
  BY <1>1, <1>2, FlowPublish, FlowFail, FlowDelta, FlowCrash DEF Coordinate

----------------------------------------------------------------------------
(* Every step of the client keeps the streams in order.                    *)

\* The client reads from or writes to its connection.
LEMMA FlowOwn ==
    ASSUME TypeOK, Flow, con \in Conns, OthersKept(con), UNCHANGED <<log, rev, busy, con>>,
           cur' \in Nat, cur <= cur', CursorInv', LinkOK(conn'[con], Len(log), cur'),
           OwnOK(conn'[con], cphase', cur'), StreamOK(conn'[con], Shown', Len(log), busy.seq),
           DeltaOK(conn'[con], cphase', crev', rev)
    PROVE  Flow'
<1>1. ASSUME NEW c \in Conns, c # con PROVE LinkOK(conn'[c], Len(log), cur')
  <2>1. conn'[c] = conn[c]
    BY <1>1 DEF OthersKept
  <2>2. /\ Len(log) \in Nat /\ cur \in Nat /\ conn[c].ack \in Nat /\ conn[c].high \in Nat
        /\ LinkOK(conn[c], Len(log), cur)
    BY FlowTypes, FlowFacts
  <2>3. SameWire(conn[c], conn[c]) /\ SameSession(conn[c], conn[c]) /\ SameBuffer(conn[c], conn[c])
    BY DEF SameWire, SameSession, SameBuffer
  <2> QED
    BY <2>1, <2>2, <2>3, LinkMore
<1>2. LinksInv'
  BY <1>1 DEF LinksInv
<1>3. OwnInv' /\ StreamInv' /\ DeltaInv'
  BY DEF OwnInv, StreamInv, DeltaInv
<1> QED
  BY <1>2, <1>3 DEF Flow

\* The client leaves its connection.
LEMMA FlowLeave ==
    ASSUME TypeOK, Flow, UNCHANGED <<log, rev, busy, cur, saved>>, con' = NoConn, applying' = 0,
           \/ conn' = conn
           \/ con \in Conns /\ OthersKept(con) /\ conn'[con] = Left(conn[con])
    PROVE  Flow'
<1>1. ASSUME NEW c \in Conns PROVE LinkOK(conn'[c], Len(log), cur)
  <2>1. conn[c] \in ConnRecords /\ LinkOK(conn[c], Len(log), cur) /\ cur \in Nat
    BY FlowTypes, FlowFacts
  <2> QED
    BY <2>1, LinkLeft DEF OthersKept
<1>2. LinksInv'
  BY <1>1 DEF LinksInv
<1>3. OwnInv' /\ StreamInv' /\ DeltaInv'
  BY DEF OwnInv, StreamInv, DeltaInv
<1>4. CursorInv'
  BY DEF Flow, CursorInv
<1> QED
  BY <1>2, <1>3, <1>4 DEF Flow

LEMMA FlowDial == ASSUME TypeOK, Flow, NEW c \in Conns, Dial(c) PROVE Flow'
<1> DEFINE s == conn'[c]
<1>0. /\ OthersKept(c) /\ con' = c /\ cphase' = "hello" /\ cphase = "dial"
      /\ UNCHANGED <<log, rev, busy, cur, saved, crev, applying>>
      /\ s.phase = "hello" /\ ~s.gone /\ s.buf = <<>> /\ s.down = <<>>
      /\ s.up = <<>> /\ s.wait = NoMsg /\ s.ack = 0 /\ s.last \in {0, cur}
  BY DialStep DEF roomVars, cursorVars
<1>1. applying = 0 /\ cur \in Nat
  BY <1>0, FlowTypes DEF Flow, CursorInv
<1>2. Shown' = cur
  BY <1>0, <1>1 DEF Shown
<1> HIDE DEF s
<1>3. LinkOK(s, Len(log), cur)
  BY <1>0, <1>1, HoldsEmpty DEF LinkOK, Early
<1>4. OwnOK(s, "hello", cur)
  BY <1>0, HoldsEmpty DEF OwnOK
<1>5. StreamOK(s, cur, Len(log), busy.seq)
  <2>1. 1..s.last \subseteq Sent(s, cur)
    BY <1>0, <1>1 DEF Sent
  <2> QED
    BY <1>0, <2>1, ContigEmpty DEF StreamOK, Early
<1>6. DeltaOK(s, "hello", crev, rev)
  <2>1. OneSnapshot(s.down)
    BY <1>0, EmptyLen DEF OneSnapshot
  <2> QED
    BY <1>0, <2>1, ContigEmpty, HoldsEmpty DEF DeltaOK, Early
<1>7. LinksInv'
  <2>1. ASSUME NEW d \in Conns PROVE LinkOK(conn'[d], Len(log), cur)
    BY <1>0, <1>3, FlowFacts DEF OthersKept, s
  <2> QED
    BY <1>0, <2>1 DEF LinksInv
<1>8. CursorInv'
  BY <1>0, <1>1 DEF Flow, CursorInv, NoCall
<1>9. OwnInv' /\ StreamInv' /\ DeltaInv'
  BY <1>0, <1>2, <1>4, <1>5, <1>6 DEF OwnInv, StreamInv, DeltaInv, s
<1> QED
  BY <1>7, <1>8, <1>9 DEF Flow

\* What a read leaves of the invariants of the connection.
LEMMA TakeOther ==
    ASSUME TypeOK, Flow, NEW f, Arrives(f), f.kind \notin {"snapshot", "delta"},
           conn' = [conn EXCEPT ![con] = Taken], UNCHANGED <<log, rev, busy, con, cur, saved, crev>>,
           cphase' = "ready" <=> cphase = "ready", cphase' # "hello", cphase' # "ready" => cphase \in {"hello", "replay"},
           CursorInv', Shown' \in Nat, Shown <= Shown',
           f.kind = "event" => f.n <= Shown'
    PROVE  Flow'
<1> DEFINE r == conn[con]
           s == conn'[con]
<1>0. /\ OthersKept(con) /\ con \in Conns /\ s.phase = r.phase /\ s.gone = r.gone
      /\ SameSession(s, r) /\ SameBuffer(s, r) /\ s.ack = r.ack /\ s.down = Tail(r.down)
      /\ s.up = r.up /\ r.down # <<>> /\ f = Head(r.down) /\ f \in FrameRecords
  BY TakeStep DEF OwnKept
<1>1. /\ r \in ConnRecords /\ cur \in Nat /\ Len(log) \in Nat /\ Shown \in Nat
      /\ LinkOK(r, Len(log), cur) /\ ClientOK(r)
  BY <1>0, FlowTypes, FlowFacts
<1> HIDE DEF r, s
<1>2. LinkOK(s, Len(log), cur) /\ (f.kind = "event" => f.n \in 1..Len(log))
  BY <1>0, <1>1, LinkTake
<1>3. OwnOK(s, cphase', cur)
  BY <1>0, <1>1 DEF ClientOK, OwnOK
<1>4. StreamOK(s, Shown', Len(log), busy.seq)
  BY <1>0, <1>1, <1>2, StreamTake DEF ClientOK, SameSession
<1>5. DeltaOK(s, cphase', crev, rev)
  BY <1>0, <1>1, DeltaTakeOther DEF ClientOK, SameSession
<1> QED
  BY <1>0, <1>1, <1>2, <1>3, <1>4, <1>5, FlowOwn DEF s

\* A fresh event is the next one.
LEMMA FreshIsNext ==
    ASSUME TypeOK, Flow, NEW f, Arrives(f), f.kind = "event", Fresh(f.n)
    PROVE  f.n = cur + 1 /\ f.n <= Len(log) /\ f.n \in Nat /\ Shown = cur /\ applying = 0
<1> DEFINE r == conn[con]
<1>1. /\ con \in Conns /\ r.down # <<>> /\ f = Head(r.down) /\ f \in FrameRecords
      /\ r.down \in Seq(FrameRecords) /\ applying = 0
  BY TakenFields DEF Arrives
<1>2. /\ cur \in Nat /\ Len(log) \in Nat /\ r \in ConnRecords
      /\ LinkOK(r, Len(log), cur) /\ ClientOK(r) /\ Shown = cur
  BY <1>1, FlowTypes, FlowFacts DEF Shown
<1>3. f.n \in Nat /\ f.n > cur
  BY <1>1 DEF FrameRecords, Fresh
<1>4. f.n \in Holds(r.down, "event")
  BY <1>1, LoudTail
<1>5. f.n \in 1..Len(log)
  BY <1>2, <1>4 DEF LinkOK
<1>6. 1..(f.n - 1) \subseteq 1..cur
  <2>1. Contig(r.down, "event", 1..cur)
    BY <1>2 DEF ClientOK, StreamOK
  <2>2. 1..cur \subseteq 1..f.n /\ f.n \in 1..f.n
    BY <1>2, <1>3
  <2>a. Head(r.down).kind = "event" /\ Head(r.down).n # 0 => Head(r.down).n \in 1..f.n
    BY <1>1, <2>2
  <2>3. Head(r.down).kind = "event" => 1..(Head(r.down).n - 1) \subseteq 1..cur
    BY <1>1, <2>1, <2>2, <2>a, ContigTail, ZenonT(30)
  <2> QED
    BY <1>1, <2>3
<1>7. f.n <= cur + 1
  BY <1>2, <1>3, <1>6, NextOne
<1> QED
  BY <1>1, <1>2, <1>3, <1>5, <1>7

\* The log never ends before the cursor of a client that knows the room.
LEMMA WelcomedCursor == ASSUME TypeOK, Flow, OnWelcome PROVE cur' = cur
<1>1. PICK f \in Frames : Arrives(f) /\ f.kind = "welcome" /\ cur' = IF cur > f.n THEN 0 ELSE cur
  BY DEF OnWelcome
<1>2. /\ con \in Conns /\ con # NoConn /\ conn[con].down # <<>> /\ f = Head(conn[con].down)
      /\ f \in FrameRecords /\ conn[con].down \in Seq(FrameRecords) /\ applying = 0
  BY <1>1, TakenFields DEF Arrives
<1>3. f.n \in Holds(conn[con].down, "welcome")
  BY <1>1, <1>2, LoudTail
<1>4. cur <= f.n
  BY <1>2, <1>3 DEF Flow, OwnInv, OwnOK, OnWelcome
<1>5. f.n \in Nat /\ cur \in Nat
  BY <1>2, FlowTypes DEF FrameRecords
<1> QED
  BY <1>1, <1>4, <1>5

LEMMA FlowWelcomed == ASSUME TypeOK, Flow, OnWelcome PROVE Flow'
<1>1. PICK f \in Frames : Arrives(f) /\ f.kind = "welcome" /\ cur' = IF cur > f.n THEN 0 ELSE cur
  BY DEF OnWelcome
<1>2. /\ con \in Conns /\ con # NoConn /\ conn[con].down # <<>> /\ f = Head(conn[con].down)
      /\ f \in FrameRecords /\ conn[con].down \in Seq(FrameRecords) /\ applying = 0
  BY <1>1, TakenFields DEF Arrives
<1>3. cur' = cur
  BY WelcomedCursor
<1>4. UNCHANGED <<log, rev, busy, crev, applying>> /\ cphase = "hello"
  BY DEF OnWelcome, roomVars
<1>5. CASE probe
  <2>1. /\ conn' = [conn EXCEPT ![con] = Left(conn[con])] /\ con' = NoConn /\ saved' = saved
    BY <1>5 DEF OnWelcome, Leave
  <2> QED
    BY <1>2, <1>3, <1>4, <2>1, LeaveConn, FlowLeave
<1>6. CASE ~probe
  <2>1. conn' = [conn EXCEPT ![con] = Taken] /\ con' = con /\ saved' = cur /\ cphase' = "replay"
    BY <1>3, <1>6 DEF OnWelcome
  <2>2. saved' = saved
    BY <2>1 DEF Flow, CursorInv
  <2>3. CursorInv'
    BY <1>2, <1>3, <1>4, <2>1 DEF Flow, CursorInv, NoCall
  <2>4. Shown' = Shown /\ Shown \in Nat
    BY <1>3, <1>4, FlowTypes DEF Shown
  <2> QED
    BY <1>1, <1>3, <1>4, <2>1, <2>2, <2>3, <2>4, TakeOther
<1> QED
  BY <1>5, <1>6

LEMMA FlowSnapshotRead == ASSUME TypeOK, Flow, OnSnapshot PROVE Flow'
<1> DEFINE r == conn[con]
           s == conn'[con]
<1>1. PICK f : /\ Arrives(f) /\ f.kind = "snapshot" /\ crev' = f.n /\ f \in FrameRecords
               /\ f = Head(r.down) /\ r.down # <<>>
               /\ OwnKept /\ s.down = Tail(r.down)
               /\ s.up = IF cphase = "ready" THEN r.up ELSE r.up \o Resend
  BY SnapshotTaken
<1>2. /\ OthersKept(con) /\ con \in Conns /\ s.phase = r.phase /\ s.gone = r.gone
      /\ SameSession(s, r) /\ SameBuffer(s, r) /\ s.ack = r.ack
  BY <1>1 DEF OwnKept
<1>3. /\ r \in ConnRecords /\ cur \in Nat /\ Len(log) \in Nat /\ Shown \in Nat
      /\ LinkOK(r, Len(log), cur) /\ ClientOK(r) /\ r.up \in Seq(FrameRecords)
  BY <1>2, FlowTypes, FlowFacts
<1>4. /\ UNCHANGED <<log, rev, busy, con, cur, saved, applying>> /\ cphase' = "ready"
  BY DEF OnSnapshot, roomVars, cursorVars
<1>5. Shown' = Shown
  BY <1>4 DEF Shown
<1>c. CursorInv'
  BY <1>4 DEF Flow, CursorInv, NoCall
<1>r. Resend \in Seq(FrameRecords) /\ Holds(Resend, "ack") = {}
  BY ResendFacts DEF Holds
<1> HIDE DEF r, s
<1>6. cphase # "ready" /\ r.phase \notin Early /\ DeltaOK(s, "ready", f.n, rev)
  BY <1>1, <1>2, <1>3, DeltaTakeSnapshot DEF ClientOK, SameSession
<1>7. StreamOK(s, Shown, Len(log), busy.seq)
  BY <1>1, <1>2, <1>3, StreamTake DEF ClientOK, SameSession
<1>8. OwnOK(s, "ready", cur)
  BY <1>2, <1>3 DEF ClientOK, OwnOK
<1>9. LinkOK(s, Len(log), cur)
  <2>1. Holds(s.up, "ack") = Holds(r.up, "ack")
    <3>1. Holds(r.up \o Resend, "ack") = Holds(r.up, "ack") \cup Holds(Resend, "ack")
      BY <1>3, <1>r, HoldsConcat
    <3> QED
      BY <1>1, <1>r, <3>1
  <2>2. Holds(s.down, "event") = Holds(r.down, "event")
    <3>1. r.down \in Seq(FrameRecords)
      BY <1>3 DEF ConnRecords
    <3> QED
      BY <1>1, <3>1, QuietTail
  <2> QED
    BY <1>2, <1>3, <1>6, <2>1, <2>2 DEF LinkOK, SameSession, SameBuffer
<1> QED
  BY <1>1, <1>2, <1>3, <1>4, <1>5, <1>c, <1>6, <1>7, <1>8, <1>9, FlowOwn DEF s

LEMMA FlowDeltaRead ==
    ASSUME TypeOK, Flow, OnDelta
    PROVE  Flow' /\ (cphase = "ready" => crev' \in {crev, crev + 1})
<1>1. PICK f \in Frames : /\ Arrives(f) /\ f.kind = "delta"
                          /\ IF cphase = "ready"
                             THEN crev' = (IF f.n <= crev THEN crev ELSE f.n) /\ Take
                             ELSE Leave /\ UNCHANGED crev
  BY DEF OnDelta
<1>2. /\ con \in Conns /\ con # NoConn /\ conn[con].down # <<>> /\ f = Head(conn[con].down)
      /\ f \in FrameRecords /\ conn[con].down \in Seq(FrameRecords) /\ applying = 0
  BY <1>1, TakenFields DEF Arrives
<1>3. UNCHANGED <<log, rev, busy, cur, saved, applying>>
  BY DEF OnDelta, roomVars, cursorVars
<1>4. CASE cphase # "ready"
  <2>1. conn' = [conn EXCEPT ![con] = Left(conn[con])] /\ con' = NoConn
    BY <1>1, <1>4 DEF Leave
  <2> QED
    BY <1>2, <1>3, <1>4, <2>1, LeaveConn, FlowLeave
<1>5. CASE cphase = "ready"
  <2> DEFINE r == conn[con]
             s == conn'[con]
  <2>1. /\ conn' = [conn EXCEPT ![con] = Taken] /\ con' = con /\ cphase' = "ready"
        /\ crev' = IF f.n <= crev THEN crev ELSE f.n
    BY <1>1, <1>5 DEF Take
  <2>2. /\ OthersKept(con) /\ s.phase = r.phase /\ s.gone = r.gone /\ SameSession(s, r)
        /\ SameBuffer(s, r) /\ s.ack = r.ack /\ s.down = Tail(r.down) /\ s.up = r.up
    BY <1>1, <2>1, TakeStep DEF OwnKept
  <2>3. /\ r \in ConnRecords /\ cur \in Nat /\ Len(log) \in Nat /\ Shown \in Nat /\ crev \in Nat
        /\ LinkOK(r, Len(log), cur) /\ ClientOK(r)
    BY <1>2, FlowTypes, FlowFacts
  <2>4. f.n \in Nat /\ crev' \in Nat
    BY <1>2, <2>1, <2>3 DEF FrameRecords
  <2>5. Shown' = Shown /\ CursorInv'
    BY <1>3, <2>1, <1>5 DEF Shown, Flow, CursorInv, NoCall
  <2>0. r.down # <<>> /\ f = Head(r.down)
    BY <1>2
  <2> HIDE DEF r, s
  <2>6. crev' \in {crev, crev + 1} /\ DeltaOK(s, "ready", crev', rev)
    BY <1>1, <1>5, <2>0, <2>1, <2>2, <2>3, <2>4, DeltaTakeDelta DEF ClientOK, SameSession
  <2>7. StreamOK(s, Shown, Len(log), busy.seq)
    BY <1>1, <2>0, <2>2, <2>3, StreamTake DEF ClientOK, SameSession
  <2>8. OwnOK(s, "ready", cur)
    BY <2>2, <2>3 DEF ClientOK, OwnOK
  <2>9. LinkOK(s, Len(log), cur)
    BY <2>0, <2>2, <2>3, LinkTake
  <2> QED
    BY <1>2, <1>3, <2>1, <2>2, <2>3, <2>5, <2>6, <2>7, <2>8, <2>9, FlowOwn DEF s
<1> QED
  BY <1>4, <1>5

\* Something is written on the client's connection.
LEMMA FlowWrite ==
    ASSUME TypeOK, Flow, OwnKept, cphase \in {"replay", "ready"},
           conn'[con].down = conn[con].down, UNCHANGED <<log, rev, busy, con, cphase, crev>>,
           cur' \in Nat, cur <= cur', CursorInv', Shown' = Shown,
           \/ conn'[con].up = conn[con].up
           \/ /\ cphase = "ready"
              /\ \E f \in FrameRecords : /\ conn'[con].up = Append(conn[con].up, f)
                                         /\ f.kind = "ack" => f.n \in 0..cur'
    PROVE  Flow'
<1> DEFINE r == conn[con]
           s == conn'[con]
<1>2. /\ OthersKept(con) /\ con \in Conns /\ s.phase = r.phase /\ s.gone = r.gone
      /\ SameSession(s, r) /\ SameBuffer(s, r) /\ s.ack = r.ack /\ s.down = r.down
  BY DEF OwnKept
<1>3. /\ r \in ConnRecords /\ cur \in Nat /\ Len(log) \in Nat /\ Shown \in Nat
      /\ LinkOK(r, Len(log), cur) /\ ClientOK(r) /\ r.up \in Seq(FrameRecords) /\ r.ack \in Nat
      /\ r.high \in Nat
  BY <1>2, FlowTypes, FlowFacts
<1>u. \/ s.up = r.up
      \/ /\ cphase = "ready"
         /\ \E f \in FrameRecords : s.up = Append(r.up, f) /\ (f.kind = "ack" => f.n \in 0..cur')
  OBVIOUS
<1> HIDE DEF r, s
<1>4. StreamOK(s, Shown, Len(log), busy.seq)
  <2>1. SameStream(s, r) /\ (1..Len(log)) \ {busy.seq} \subseteq (1..Len(log)) \ {busy.seq}
    BY <1>2 DEF SameStream, SameSession
  <2> QED
    BY <1>3, <2>1, StreamSame DEF ClientOK
<1>5. DeltaOK(s, cphase, crev, rev)
  BY <1>2, <1>3, DeltaSame DEF ClientOK, SameSession
<1>6. OwnOK(s, cphase, cur')
  BY <1>2, <1>3, <1>u DEF ClientOK, OwnOK
<1>7. LinkOK(s, Len(log), cur')
  <2>1. Holds(r.up, "ack") \subseteq 0..cur'
    <3>1. 0..cur \subseteq 0..cur'
      BY <1>3
    <3> QED
      BY <1>3, <3>1 DEF LinkOK
  <2>2. Holds(s.up, "ack") \subseteq 0..cur'
    <3>1. CASE s.up = r.up
      BY <2>1, <3>1
    <3>2. CASE s.up # r.up
      <4>1. PICK f \in FrameRecords : s.up = Append(r.up, f) /\ (f.kind = "ack" => f.n \in 0..cur')
        BY <1>u, <3>2
      <4>2. Holds(Append(r.up, f), "ack") = Holds(r.up, "ack") \cup (IF f.kind = "ack" THEN {f.n} ELSE {})
        BY <1>3, HoldsAppend
      <4> QED
        BY <2>1, <4>1, <4>2
    <3> QED
      BY <3>1, <3>2
  <2>3. s.phase \in Early => s.up = <<>>
    BY <1>2, <1>3, <1>u DEF LinkOK, ClientOK, DeltaOK
  <2>4. s.ack <= cur' /\ r.ack <= cur
    BY <1>2, <1>3 DEF LinkOK
  <2> QED
    BY <1>2, <1>3, <2>2, <2>3, <2>4 DEF LinkOK, SameSession, SameBuffer
<1> QED
  BY <1>2, <1>4, <1>5, <1>6, <1>7, FlowOwn DEF s

LEMMA FlowReceive == ASSUME TypeOK, Flow, Receive PROVE Flow'
<1> USE DEF roomVars, cursorVars
<1>t. /\ Len(log) \in Nat /\ cur \in Nat /\ applying \in Nat /\ Shown \in Nat
      /\ \A f : Arrives(f) => /\ con \in Conns /\ con # NoConn /\ applying = 0
                              /\ f \in FrameRecords /\ f.n \in Nat
  <2>1. ASSUME NEW f, Arrives(f) PROVE con \in Conns /\ con # NoConn /\ applying = 0 /\ f \in FrameRecords
    BY <2>1, TakenFields DEF Arrives
  <2>2. \A f \in FrameRecords : f.n \in Nat
    BY DEF FrameRecords
  <2> QED
    BY <2>1, <2>2, FlowTypes
<1>l. ASSUME con # NoConn, applying = 0, Leave, UNCHANGED <<log, rev, busy, cur, saved, applying>>
      PROVE  Flow'
  <2>1. conn' = [conn EXCEPT ![con] = Left(conn[con])] /\ con' = NoConn
    BY <1>l DEF Leave
  <2> QED
    BY <1>l, <2>1, LeaveConn, FlowLeave
<1>2. ASSUME OnBadHello PROVE Flow'
  BY <1>2, <1>t, <1>l DEF OnBadHello
<1>3. ASSUME OnReply PROVE Flow'
  <2>1. PICK f : Arrives(f) /\ f.kind \in {"reply", "error"}
    BY <1>3 DEF OnReply
  <2>2. /\ conn' = [conn EXCEPT ![con] = Taken] /\ cphase \in {"replay", "ready"}
        /\ UNCHANGED <<log, rev, busy, con, cphase, cur, saved, crev, applying>>
    BY <1>3 DEF OnReply, Take
  <2>3. Shown' = Shown /\ CursorInv'
    BY <2>2 DEF Shown, Flow, CursorInv, NoCall
  <2> QED
    BY <1>t, <2>1, <2>2, <2>3, TakeOther
<1>4. ASSUME OnOldEvent PROVE Flow'
  <2>1. PICK f : Arrives(f) /\ f.kind = "event" /\ ~Fresh(f.n)
    BY <1>4 DEF OnOldEvent
  <2>2. /\ conn' = [conn EXCEPT ![con] = Taken] /\ cphase \in {"replay", "ready"}
        /\ UNCHANGED <<log, rev, busy, con, cphase, cur, saved, crev, applying>>
    BY <1>4 DEF OnOldEvent, Take
  <2>3. Shown' = Shown /\ CursorInv' /\ f.n <= Shown
    BY <1>t, <2>1, <2>2 DEF Shown, Flow, CursorInv, NoCall, Fresh
  <2> QED
    BY <1>t, <2>1, <2>2, <2>3, TakeOther
<1>5. ASSUME Render PROVE Flow'
  <2>1. PICK f : Arrives(f) /\ f.kind = "event" /\ Fresh(f.n) /\ applying' = f.n
    BY <1>5 DEF Render
  <2>2. /\ conn' = [conn EXCEPT ![con] = Taken] /\ cphase \in {"replay", "ready"}
        /\ UNCHANGED <<log, rev, busy, con, cphase, cur, saved, crev>>
    BY <1>5 DEF Render, Take
  <2>3. f.n = cur + 1 /\ f.n <= Len(log) /\ f.n \in Nat /\ Shown = cur
    BY <2>1, FreshIsNext
  <2>4. Shown' = f.n
    BY <1>t, <2>1, <2>3 DEF Shown
  <2>5. CursorInv'
    BY <2>1, <2>2, <2>3 DEF Flow, CursorInv, NoCall
  <2> QED
    BY <1>t, <2>1, <2>2, <2>3, <2>4, <2>5, TakeOther
<1>6. ASSUME SaveCursor PROVE Flow'
  <2>1. /\ applying # 0 /\ cur' = applying /\ saved' = applying /\ applying' = 0
        /\ UNCHANGED <<log, rev, busy, con, cphase, crev>>
    BY <1>6 DEF SaveCursor
  <2>2. applying = cur + 1 /\ applying <= Len(log) /\ cphase \in {"replay", "ready"}
    BY <2>1 DEF Flow, CursorInv
  <2>3. con # NoConn
    BY <2>2 DEF TypeOK
  <2>4. /\ OwnKept /\ conn'[con].down = conn[con].down
        /\ conn'[con].up = IF cphase = "ready" THEN Append(conn[con].up, AckFrame(applying))
                           ELSE conn[con].up
    BY <1>6, <2>3, SaveStep
  <2>5. /\ AckFrame(applying) \in FrameRecords /\ AckFrame(applying).n = applying
        /\ applying \in 0..cur'
    BY <1>t, <2>1, FrameType DEF AckFrame, Kinds
  <2>6. Shown' = Shown /\ CursorInv'
    BY <1>t, <2>1, <2>2 DEF Shown, Flow, CursorInv, NoCall
  <2>7. cur' \in Nat /\ cur <= cur'
    BY <1>t, <2>1, <2>2
  <2> QED
    BY <2>1, <2>2, <2>4, <2>5, <2>6, <2>7, FlowWrite
<1>7. ASSUME OnEOF PROVE Flow'
  BY <1>7, <1>l DEF OnEOF
<1> QED
  BY <1>2, <1>3, <1>4, <1>5, <1>6, <1>7, FlowWelcomed, FlowSnapshotRead, FlowDeltaRead DEF Receive

LEMMA FlowClient == ASSUME TypeOK, Flow, Client PROVE Flow'
<1> USE DEF roomVars, cursorVars
<1>t. Len(log) \in Nat /\ cur \in Nat /\ applying \in Nat /\ Shown \in Nat /\ (con # NoConn => con \in Conns)
  BY FlowTypes
<1>1. ASSUME ClientStart PROVE Flow'
  <2>1. /\ cphase = "off" /\ cur' = saved
        /\ UNCHANGED <<log, rev, busy, conn, con, saved, applying>>
    BY <1>1 DEF ClientStart
  <2>2. applying = 0 /\ cur' = cur /\ con = NoConn
    BY <2>1 DEF Flow, CursorInv, TypeOK
  <2> QED
    BY <2>1, <2>2, FlowLeave
<1>2. ASSUME ConnectionLost PROVE Flow'
  <2>1. /\ con # NoConn /\ conn' = [conn EXCEPT ![con] = Left(conn[con])] /\ con' = NoConn
        /\ applying = 0 /\ UNCHANGED <<log, rev, busy, cur, saved, applying>>
    BY <1>2 DEF ConnectionLost, Leave
  <2> QED
    BY <2>1, LeaveConn, FlowLeave
<1>3. ASSUME ClientCrash PROVE Flow'
  <2>1. /\ con' = NoConn /\ applying' = 0 /\ UNCHANGED <<log, rev, busy, cur, saved>>
        /\ conn' = IF con = NoConn THEN conn ELSE [conn EXCEPT ![con] = Left(conn[con])]
    BY <1>3 DEF ClientCrash
  <2>2. CASE con = NoConn
    BY <2>1, <2>2, FlowLeave
  <2>3. CASE con # NoConn
    BY <2>1, <2>3, LeaveConn, FlowLeave
  <2> QED
    BY <2>2, <2>3
<1>5. ASSUME QueueFull PROVE Flow'
  <2>1. /\ cphase = "ready" /\ conn' = [conn EXCEPT ![con] = Left(conn[con])] /\ con' = NoConn
        /\ applying' = 0 /\ UNCHANGED <<log, rev, busy, cur, saved>>
    BY <1>5 DEF QueueFull, Leave
  <2>2. con # NoConn
    BY <2>1 DEF TypeOK
  <2> QED
    BY <2>1, <2>2, LeaveConn, FlowLeave
<1>4. ASSUME NEW m \in Msgs, Enter(m) \/ SubmitAgain(m) PROVE Flow'
  <2>1. /\ cphase = "ready" /\ UNCHANGED <<log, rev, busy, con, cphase, crev, cur, saved, applying>>
    BY <1>4 DEF Enter, SubmitAgain
  <2>2. /\ OwnKept /\ conn'[con].down = conn[con].down
        /\ conn'[con].up = Append(conn[con].up, SubmitFrame(m)) /\ SubmitFrame(m) \in FrameRecords
    BY <1>4, SubmitWritten
  <2>3. SubmitFrame(m).kind = "submit"
    BY FrameType DEF SubmitFrame, Kinds
  <2>4. Shown' = Shown /\ CursorInv'
    BY <2>1 DEF Shown, Flow, CursorInv, NoCall
  <2> QED
    BY <1>t, <2>1, <2>2, <2>3, <2>4, FlowWrite
<1> QED
  BY <1>1, <1>2, <1>3, <1>4, <1>5, FlowDial DEF Client

LEMMA FlowInit == Init => Flow
<1> SUFFICES ASSUME Init PROVE Flow
  OBVIOUS
<1>1. Len(log) = 0
  BY EmptySeq DEF Init
<1>2. LinksInv
  BY LinkFree DEF Init, LinksInv
<1> QED
  BY <1>1, <1>2 DEF Init, Flow, OwnInv, CursorInv, StreamInv, DeltaInv

LEMMA FlowStep == ASSUME TypeOK, Flow, [Next]_vars PROVE Flow'
<1>1. CASE UNCHANGED vars
  <2>1. UNCHANGED <<log, rev, busy, conn, cphase, con, cur, saved, crev, applying>>
    BY <1>1 DEF vars, roomVars, cursorVars
  <2>2. Shown' = Shown
    BY <2>1 DEF Shown
  <2> QED
    BY <2>1, <2>2 DEF Flow, LinksInv, OwnInv, CursorInv, StreamInv, DeltaInv, NoCall
<1>2. CASE Next
  BY <1>2, FlowCoordinate, FlowSession, FlowReceive, FlowClient DEF Next
<1> QED
  BY <1>1, <1>2

\* Streams, cursor and connections of a session fit together in every
\* reachable state: what is on its way is either shown already or builds on
\* what comes before it.
THEOREM FlowAlways == Spec => [](TypeOK /\ Flow)
<1>1. ASSUME TypeOK /\ Flow, [Next]_vars PROVE (TypeOK /\ Flow)'
  BY <1>1, FlowStep, CoordinateType, ServeType, ReceiveType, ClientType, StutterType DEF Next
<1> QED
  BY <1>1, InitType, FlowInit, PTL DEF Spec

----------------------------------------------------------------------------
(* What is shown, and how often.                                           *)

LEMMA TimesStep == ASSUME TypeOK, Flow, TimesInv, [Next]_vars PROVE TimesInv'
<1> USE DEF roomVars, cursorVars, boundVars
<1>t. /\ cur \in Nat /\ applying \in Nat /\ Shown \in Nat /\ times \in [Seqs -> Nat]
      /\ clientCrashes \in Nat /\ overflows \in Nat /\ \A s \in Seqs : s \in Nat
  <2>1. Seqs \subseteq Nat
    BY DEF Seqs
  <2> QED
    BY <2>1, FlowTypes DEF TypeOK
<1>s. ASSUME UNCHANGED <<cur, applying, times, clientCrashes, overflows>> PROVE TimesInv'
  <2>1. Shown' = Shown
    BY <1>s DEF Shown
  <2> QED
    BY <1>s, <2>1 DEF TimesInv
<1>1. ASSUME Coordinate PROVE TimesInv'
  <2>1. UNCHANGED <<cur, applying, times, clientCrashes, overflows>>
    BY <1>1 DEF Coordinate, RoomEvent, Publish, Delta, DaemonCrash, AcceptSubmit, FailRequest
  <2> QED
    BY <1>s, <2>1
<1>2. ASSUME NEW c \in Conns, Serve(c) \/ SessionFails(c) PROVE TimesInv'
  <2>1. RestKept /\ clientCrashes' = clientCrashes /\ overflows' = overflows
    BY <1>2, SubscribeStep, WelcomeStep, PageStep, SnapshotStep, ForwardStep, RequestStep, EndStep, GoneStep
       DEF Serve
  <2> QED
    BY <1>s, <2>1 DEF RestKept
<1>3. ASSUME OnBadHello \/ OnReply \/ OnSnapshot \/ OnOldEvent \/ OnDelta \/ OnEOF PROVE TimesInv'
  <2>1. UNCHANGED <<cur, applying, times, clientCrashes, overflows>>
    BY <1>3 DEF OnBadHello, OnReply, OnSnapshot, OnOldEvent, OnDelta, OnEOF
  <2> QED
    BY <1>s, <2>1
<1>4. ASSUME OnWelcome PROVE TimesInv'
  <2>1. cur' = cur
    BY <1>4, WelcomedCursor
  <2>2. UNCHANGED <<applying, times, clientCrashes, overflows>>
    BY <1>4 DEF OnWelcome
  <2> QED
    BY <1>s, <2>1, <2>2
<1>5. ASSUME Render PROVE TimesInv'
  <2>1. PICK f : /\ Arrives(f) /\ f.kind = "event" /\ Fresh(f.n) /\ applying' = f.n
                 /\ times' = [times EXCEPT ![f.n] = @ + 1]
    BY <1>5 DEF Render
  <2>2. f.n = cur + 1 /\ f.n \in Nat /\ Shown = cur
    BY <2>1, FreshIsNext
  <2>3. cur' = cur /\ clientCrashes' = clientCrashes /\ overflows' = overflows
    BY <1>5 DEF Render
  <2>4. Shown' = cur + 1
    BY <1>t, <2>1, <2>2 DEF Shown
  <2>5. ASSUME NEW s \in Seqs
        PROVE  /\ s <= Shown' => times'[s] > 0
               /\ times'[s] > 0 => s <= cur' + 1
               /\ times'[s] <= 1 + clientCrashes' + overflows'
               /\ s > Shown' => times'[s] <= clientCrashes' + overflows'
    <3>1. times'[s] = IF s = cur + 1 THEN times[s] + 1 ELSE times[s]
      BY <1>t, <2>1, <2>2, CountOnce
    <3>2. /\ s <= cur => times[s] > 0
          /\ times[s] > 0 => s <= cur + 1
          /\ times[s] <= 1 + clientCrashes + overflows
          /\ s > cur => times[s] <= clientCrashes + overflows
      BY <2>2 DEF TimesInv
    <3>3. times[s] \in Nat /\ s \in Nat
      BY <1>t
    <3> QED
      BY <1>t, <2>3, <2>4, <3>1, <3>2, <3>3
  <2> QED
    BY <2>5 DEF TimesInv
<1>6. ASSUME SaveCursor PROVE TimesInv'
  <2>1. applying # 0 /\ cur' = applying /\ applying' = 0 /\ UNCHANGED <<times, clientCrashes, overflows>>
    BY <1>6 DEF SaveCursor
  <2>2. applying = cur + 1
    BY <2>1 DEF Flow, CursorInv
  <2>3. Shown' = Shown
    BY <1>t, <2>1 DEF Shown
  <2> QED
    BY <1>t, <2>1, <2>2, <2>3 DEF TimesInv
<1>7. ASSUME ClientStart PROVE TimesInv'
  <2>1. cur' = cur /\ UNCHANGED <<applying, times, clientCrashes, overflows>>
    BY <1>7 DEF ClientStart, Flow, CursorInv
  <2> QED
    BY <1>s, <2>1
<1>8. ASSUME ConnectionLost \/ (\E c \in Conns : Dial(c)) \/ (\E m \in Msgs : Enter(m) \/ SubmitAgain(m))
      PROVE  TimesInv'
  <2>1. UNCHANGED <<cur, applying, times, clientCrashes, overflows>>
    BY <1>8 DEF ConnectionLost, Dial, Enter, SubmitAgain
  <2> QED
    BY <1>s, <2>1
<1>9. ASSUME ClientCrash \/ QueueFull PROVE TimesInv'
  <2>1. /\ applying' = 0 /\ UNCHANGED <<cur, times>>
        /\ \/ clientCrashes' = clientCrashes + 1 /\ overflows' = overflows
           \/ overflows' = overflows + 1 /\ clientCrashes' = clientCrashes
    BY <1>9 DEF ClientCrash, QueueFull
  <2>2. Shown' = cur /\ cur <= Shown
    BY <1>t, <2>1 DEF Shown, Flow, CursorInv
  <2>3. ASSUME NEW s \in Seqs
        PROVE  /\ s <= Shown' => times'[s] > 0
               /\ times'[s] > 0 => s <= cur' + 1
               /\ times'[s] <= 1 + clientCrashes' + overflows'
               /\ s > Shown' => times'[s] <= clientCrashes' + overflows'
    <3>1. times[s] \in Nat /\ s \in Nat
      BY <1>t
    <3> QED
      BY <1>t, <2>1, <2>2, <3>1 DEF TimesInv
  <2> QED
    BY <2>3 DEF TimesInv
<1>a. ASSUME UNCHANGED vars PROVE TimesInv'
  BY <1>a, <1>s DEF vars
<1> QED
  BY <1>1, <1>2, <1>3, <1>4, <1>5, <1>6, <1>7, <1>8, <1>9, <1>a DEF Next, Receive, Client

LEMMA TimesInit == Init => TimesInv
<1> SUFFICES ASSUME Init PROVE TimesInv
  OBVIOUS
<1>1. Seqs \subseteq Nat \ {0}
  BY DEF Seqs
<1>2. Shown = 0 /\ cur = 0 /\ clientCrashes = 0 /\ overflows = 0 /\ \A s \in Seqs : times[s] = 0
  BY DEF Init, Shown
<1> QED
  BY <1>1, <1>2 DEF TimesInv

LEMMA TimesAlways == Spec => [](TypeOK /\ Flow /\ TimesInv)
<1>1. TypeOK /\ Flow /\ TimesInv /\ [Next]_vars => TimesInv'
  BY TimesStep
<1> QED
  BY <1>1, FlowAlways, TimesInit, PTL DEF Spec

\* Whatever was shown to the user, everything before it has been shown, for
\* any size of buffer and page, any number of events and any number of lost
\* connections, daemon and client crashes.
THEOREM NoGapAlways == Spec => []NoGap
<1>1. ASSUME TypeOK, Flow, TimesInv PROVE NoGap
  <2>1. cur \in Nat /\ Shown \in Nat /\ cur <= Shown
    BY <1>1, FlowTypes DEF Shown, Flow, CursorInv
  <2>2. ASSUME NEW s \in Seqs, times[s] > 0, NEW r \in 1..s PROVE times[r] > 0
    <3>1. r \in Seqs /\ r \in Nat /\ s \in Nat /\ r <= s
      <4>1. MaxEvents + Cardinality(Msgs) \in Nat
        BY DeliveryAssumption, FS_CardinalityType
      <4> QED
        BY <4>1 DEF Seqs
    <3>2. s <= cur + 1
      BY <1>1, <2>2 DEF TimesInv
    <3>3. CASE r <= cur
      BY <1>1, <2>1, <3>1, <3>3 DEF TimesInv
    <3>4. CASE ~(r <= cur)
      <4>1. r = s
        BY <2>1, <3>1, <3>2, <3>4
      <4> QED
        BY <2>2, <4>1
    <3> QED
      BY <3>3, <3>4
  <2> QED
    BY <2>2 DEF NoGap
<1> QED
  BY <1>1, TimesAlways, PTL

\* An event is shown once more only for a client that died, or found its
\* outbound queue full, before it had saved the cursor (client.go: the
\* requests between rendering and saving): replay and live delivery overlap,
\* and the client still shows each event once.
THEOREM ShownOnceAlways == Spec => []ShownOnce
<1>1. TimesInv => ShownOnce
  BY DEF TimesInv, ShownOnce
<1> QED
  BY <1>1, TimesAlways, PTL

\* The daemon never has an acknowledgement of more than what is saved.
THEOREM AckedIsSavedAlways == Spec => []AckedIsSaved
<1>1. TypeOK /\ Flow => AckedIsSaved
  BY DEF Flow, LinksInv, LinkOK, CursorInv, AckedIsSaved
<1> QED
  BY <1>1, FlowAlways, PTL

\* A ready client applies every change of the projection in turn, wherever
\* the snapshot was taken in the stream of changes.
THEOREM DeltasContiguousAlways == Spec => DeltasContiguous
<1>1. ASSUME TypeOK /\ Flow, [Next]_vars
      PROVE  [cphase = "ready" /\ cphase' = "ready" /\ crev' # crev => crev' = crev + 1]_vars
  <2> SUFFICES ASSUME cphase = "ready", cphase' = "ready", crev' # crev, Next PROVE crev' = crev + 1
    BY <1>1 DEF vars
  <2>1. ~Coordinate
    BY DEF Coordinate, RoomEvent, Publish, Delta, DaemonCrash, AcceptSubmit, FailRequest
  <2>2. ASSUME NEW c \in Conns, Serve(c) \/ SessionFails(c) PROVE FALSE
    BY <1>1, <2>2, SubscribeStep, WelcomeStep, PageStep, SnapshotStep, ForwardStep, RequestStep, EndStep, GoneStep
       DEF Serve, RestKept
  <2>3. ~Client
    BY DEF Client, ClientStart, QueueFull, ConnectionLost, ClientCrash, Dial, Enter, SubmitAgain
  <2>4. ~OnSnapshot
    <3> SUFFICES ASSUME OnSnapshot PROVE FALSE
      OBVIOUS
    <3>1. PICK f : /\ f.kind = "snapshot" /\ f = Head(conn[con].down) /\ conn[con].down # <<>> /\ con \in Conns
      BY <1>1, SnapshotTaken DEF OwnKept
    <3>2. conn[con].down \in Seq(FrameRecords) /\ ClientOK(conn[con])
      BY <1>1, <3>1, FlowTypes, FlowFacts
    <3>3. f.n \in Holds(conn[con].down, "snapshot")
      BY <3>1, <3>2, LoudTail
    <3> QED
      BY <3>2, <3>3 DEF ClientOK, DeltaOK
  <2>5. CASE OnDelta
    BY <1>1, <2>5, FlowDeltaRead
  <2>6. CASE Receive /\ ~OnSnapshot /\ ~OnDelta
    BY <2>6 DEF Receive, OnWelcome, OnBadHello, OnReply, OnOldEvent, Render, SaveCursor, OnEOF
  <2> QED
    BY <2>1, <2>2, <2>3, <2>4, <2>5, <2>6 DEF Next
<1> QED
  BY <1>1, FlowAlways, PTL DEF Spec, DeltasContiguous

----------------------------------------------------------------------------
(* Questions and answers on one connection, step by step.                  *)

LEMMA AboutEmpty == \A K, S : About(<<>>, K, S)
  BY EmptyLen DEF About

LEMMA AboutMore ==
    ASSUME NEW s, NEW K, NEW S, NEW T, S \subseteq T, About(s, K, S) PROVE About(s, K, T)
  BY DEF About

LEMMA AboutAppend ==
    ASSUME NEW s \in Seq(FrameRecords), NEW f \in FrameRecords, NEW K, NEW S, About(s, K, S),
           f.kind \in K /\ f.msg # NoMsg => f.msg \in S
    PROVE  About(Append(s, f), K, S)
<1>1. /\ Len(s) \in Nat /\ Len(Append(s, f)) = Len(s) + 1 /\ Append(s, f)[Len(s) + 1] = f
      /\ \A i \in 1..Len(s) : Append(s, f)[i] = s[i]
  BY AppendType
<1>2. \A i \in 1..Len(Append(s, f)) : i \in 1..Len(s) \/ i = Len(s) + 1
  BY <1>1
<1> QED
  BY <1>1, <1>2 DEF About

LEMMA AboutTail ==
    ASSUME NEW s \in Seq(FrameRecords), s # <<>>, NEW K, NEW S, About(s, K, S)
    PROVE  /\ About(Tail(s), K, S)
           /\ Head(s).kind \in K /\ Head(s).msg # NoMsg => Head(s).msg \in S
<1>1. /\ Head(s) = s[1] /\ Len(s) \in Nat /\ Len(s) > 0 /\ Len(Tail(s)) = Len(s) - 1
      /\ \A i \in 1..Len(Tail(s)) : Tail(s)[i] = s[i + 1]
  BY TailType
<1>2. 1 \in 1..Len(s) /\ \A i \in 1..Len(Tail(s)) : i + 1 \in 1..Len(s)
  BY <1>1
<1> QED
  BY <1>1, <1>2 DEF About

LEMMA AboutPage ==
    ASSUME NEW r \in ConnRecords, r.last < r.high, NEW s \in Seq(FrameRecords), NEW K, NEW S, About(s, K, S)
    PROVE  About(s \o PageOf(r), K, S)
<1> DEFINE t == PageOf(r)
<1>1. t \in Seq(FrameRecords) /\ Len(t) \in Nat /\ Len(s) \in Nat
  BY PageFacts, LenProperties
<1>2. \A i \in 1..Len(t) : t[i].msg = NoMsg
  BY PageFacts
<1> HIDE DEF t
<1>3. /\ Len(s \o t) = Len(s) + Len(t)
      /\ \A i \in 1..(Len(s) + Len(t)) : (s \o t)[i] = IF i <= Len(s) THEN s[i] ELSE t[i - Len(s)]
  BY <1>1, ConcatProperties
<1> DEFINE u == s \o t
<1> HIDE DEF u
<1>4. ASSUME NEW i \in 1..Len(u), u[i].kind \in K, u[i].msg # NoMsg PROVE u[i].msg \in S
  <2>1. CASE i <= Len(s)
    <3>1. i \in 1..Len(s) /\ u[i] = s[i]
      BY <1>1, <1>3, <2>1 DEF u
    <3> QED
      BY <1>4, <3>1 DEF About
  <2>2. CASE ~(i <= Len(s))
    <3>1. i - Len(s) \in 1..Len(t) /\ u[i] = t[i - Len(s)]
      BY <1>1, <1>3, <2>2 DEF u
    <3> QED
      BY <1>2, <1>4, <3>1
  <2> QED
    BY <2>1, <2>2
<1> QED
  BY <1>4 DEF About, u, t

\* More was typed, more is settled.
LEMMA AnswerMore ==
    ASSUME NEW r, NEW E, NEW F, NEW D, NEW G, E \subseteq F, D \subseteq G, AnswerOK(r, E, D)
    PROVE  AnswerOK(r, F, G)
  BY AboutMore DEF AnswerOK

LEMMA AnswerFree == ASSUME NEW E, NEW D PROVE AnswerOK(Free, E, D)
  BY FreeType, AboutEmpty DEF AnswerOK

\* Something else is sent.
LEMMA AnswerSend ==
    ASSUME NEW r \in ConnRecords, NEW s, NEW E, NEW D, AnswerOK(r, E, D), NEW f \in FrameRecords,
           f.kind \in {"reply", "error"} /\ f.msg # NoMsg => f.msg \in D,
           s.down = r.down \/ s.down = Append(r.down, f), s.wait \in {r.wait, NoMsg},
           s.up = r.up \/ s.up = <<>>, s.buf = r.buf \/ s.buf = <<>>
    PROVE  AnswerOK(s, E, D)
<1>1. r.down \in Seq(FrameRecords)
  BY DEF ConnRecords
<1>2. About(Append(r.down, f), {"reply", "error"}, D)
  BY <1>1, AboutAppend DEF AnswerOK
<1> QED
  BY <1>2, AboutEmpty DEF AnswerOK

LEMMA AnswerEnds ==
    ASSUME NEW r \in ConnRecords, NEW E, NEW D, AnswerOK(r, E, D)
    PROVE  AnswerOK(Ended(r), E, D) /\ AnswerOK(Failed(r), E, D) /\ AnswerOK(Left(r), E, D)
<1>1. ErrorFrame \in FrameRecords /\ ErrorFrame.msg = NoMsg /\ r.down \in Seq(FrameRecords)
  BY ErrorType DEF ConnRecords
<1>2. About(Append(r.down, ErrorFrame), {"reply", "error"}, D)
  BY <1>1, AboutAppend DEF AnswerOK
<1>3. AnswerOK(Ended(r), E, D)
  BY EndedFields, AboutEmpty DEF AnswerOK
<1>4. AnswerOK(Failed(r), E, D)
  BY <1>2, FailedFields, AboutEmpty DEF AnswerOK
<1>5. AnswerOK(Left(r), E, D)
  BY LeftFields, AnswerFree, AboutEmpty DEF AnswerOK
<1> QED
  BY <1>3, <1>4, <1>5

\* What is due before what was typed can only become less.
LEMMA QueueMore ==
    ASSUME NEW r \in ConnRecords, NEW P, NEW Q, NEW E, NEW D, AnswerOK(r, E, D), QueueOK(r, P),
           \A m \in Msgs : <<m, NoMsg>> \notin Q,
           \A m \in Msgs : \A p \in E : <<m, p>> \in Q => <<m, p>> \in P
    PROVE  QueueOK(r, Q)
<1>1. \A m \in Msgs : r.phase = "live" => <<m, r.wait>> \notin Q
  BY DEF QueueOK, AnswerOK
<1>2. ASSUME NEW k \in 1..Len(r.up), NEW m \in Msgs, r.up[k].kind = "submit", <<m, r.up[k].msg>> \in Q
      PROVE  <<m, r.up[k].msg>> \in P
  <2>1. r.up[k].msg # NoMsg
    BY <1>2
  <2>2. r.up[k].msg \in E
    BY <1>2, <2>1 DEF AnswerOK, About
  <2> QED
    BY <1>2, <2>2
<1> QED
  BY <1>1, <1>2 DEF QueueOK

LEMMA QueueSame ==
    ASSUME NEW r, NEW s, NEW P, QueueOK(r, P), s.wait = r.wait, s.up = r.up,
           s.phase = "live" => r.phase = "live"
    PROVE  QueueOK(s, P)
  BY DEF QueueOK

\* Nothing is asked.
LEMMA QueueQuiet ==
    ASSUME NEW s, NEW P, \A m \in Msgs : <<m, NoMsg>> \notin P,
           s.phase # "live" \/ (s.wait = NoMsg /\ s.up = <<>>)
    PROVE  QueueOK(s, P)
  BY EmptyLen DEF QueueOK

\* The request is answered.
LEMMA QueueAnswer ==
    ASSUME NEW r, NEW s, NEW P, QueueOK(r, P), \A m \in Msgs : <<m, NoMsg>> \notin P,
           \A p : <<r.wait, p>> \notin P,
           s.wait \in {r.wait, NoMsg}, s.up = r.up, s.phase = r.phase
    PROVE  QueueOK(s, P)
  BY DEF QueueOK

\* The session takes the next request: nothing is due before it.
LEMMA QueueTake ==
    ASSUME NEW r \in ConnRecords, NEW s, NEW P, QueueOK(r, P), \A m \in Msgs : <<m, NoMsg>> \notin P,
           NoMsg \notin Msgs,
           r.wait = NoMsg, r.phase = "live", r.up # <<>>, s.up = Tail(r.up),
           \/ Head(r.up).kind = "submit" /\ s.wait = Head(r.up).msg
           \/ Head(r.up).kind # "submit" /\ s.wait = NoMsg
    PROVE  /\ QueueOK(s, P)
           /\ \A m \in Msgs : Asked(r.up, m) => s.wait = m \/ Asked(s.up, m)
<1>0. r.up \in Seq(FrameRecords)
  BY DEF ConnRecords
<1> DEFINE u == r.up
           t == Tail(r.up)
<1>1. /\ Head(u) = u[1] /\ Len(u) \in Nat /\ Len(u) > 0 /\ Len(t) = Len(u) - 1
      /\ \A i \in 1..Len(t) : t[i] = u[i + 1]
  BY <1>0, TailType
<1> HIDE DEF u, t
<1>2. \A k \in 1..Len(u) : \A m \in Msgs :
         u[k].kind = "submit" /\ <<m, u[k].msg>> \in P =>
             \E j \in 1..(k - 1) : u[j].kind = "submit" /\ u[j].msg = m
  BY DEF QueueOK, u
<1>3. ASSUME NEW m \in Msgs PROVE <<m, s.wait>> \notin P
  <2>1. CASE Head(u).kind = "submit" /\ s.wait = Head(u).msg
    <3>1. 1 \in 1..Len(u) /\ 1..(1 - 1) = {}
      BY <1>1
    <3> QED
      BY <1>1, <1>2, <2>1, <3>1
  <2>2. CASE s.wait = NoMsg
    BY <2>2
  <2> QED
    BY <2>1, <2>2 DEF u
<1>4. ASSUME NEW m \in Msgs, NEW j \in 1..Len(u), u[j].kind = "submit", u[j].msg = m
      PROVE  s.wait = m \/ (j # 1 /\ j - 1 \in 1..Len(t) /\ t[j - 1] = u[j])
  <2>1. CASE j = 1
    BY <1>1, <1>4, <2>1 DEF u
  <2>2. CASE j # 1
    <3>1. j - 1 \in 1..Len(t) /\ (j - 1) + 1 = j
      BY <1>1, <2>2
    <3> QED
      BY <1>1, <2>2, <3>1
  <2> QED
    BY <2>1, <2>2
<1>5. ASSUME NEW k \in 1..Len(t), NEW m \in Msgs, t[k].kind = "submit", <<m, t[k].msg>> \in P
      PROVE  s.wait = m \/ \E j \in 1..(k - 1) : t[j].kind = "submit" /\ t[j].msg = m
  <2>1. k + 1 \in 1..Len(u) /\ t[k] = u[k + 1] /\ (k + 1) - 1 = k
    BY <1>1
  <2>2. PICK j \in 1..k : u[j].kind = "submit" /\ u[j].msg = m
    BY <1>2, <1>5, <2>1
  <2>3. j \in 1..Len(u)
    BY <2>1
  <2>4. CASE s.wait = m
    BY <2>4
  <2>5. CASE s.wait # m
    <3>1. j # 1 /\ t[j - 1] = u[j]
      BY <1>4, <2>2, <2>3, <2>5
    <3>2. j - 1 \in 1..(k - 1)
      BY <3>1
    <3> QED
      BY <2>2, <3>1, <3>2
  <2> QED
    BY <2>4, <2>5
<1>6. \A m \in Msgs : Asked(r.up, m) => s.wait = m \/ Asked(s.up, m)
  BY <1>4 DEF Asked, u, t
<1>7. QueueOK(s, P)
  <2>1. s.up = t
    BY DEF t
  <2>2. ASSUME NEW k \in 1..Len(s.up), NEW m \in Msgs, s.up[k].kind = "submit", <<m, s.up[k].msg>> \in P
        PROVE  s.wait = m \/ \E j \in 1..(k - 1) : s.up[j].kind = "submit" /\ s.up[j].msg = m
    <3>1. k \in 1..Len(t) /\ t[k].kind = "submit" /\ <<m, t[k].msg>> \in P
      BY <2>1, <2>2
    <3>2. s.wait = m \/ \E j \in 1..(k - 1) : t[j].kind = "submit" /\ t[j].msg = m
      BY <1>5, <3>1, Zenon
    <3> QED
      BY <2>1, <3>2
  <2>3. \A m \in Msgs : <<m, s.wait>> \notin P
    BY <1>3
  <2> QED
    BY <2>2, <2>3, Zenon DEF QueueOK
<1> QED
  BY <1>6, <1>7

\* A submission is written, after all that is due before it.
LEMMA QueueWrite ==
    ASSUME NEW r \in ConnRecords, NEW s, NEW P, QueueOK(r, P), NEW f \in FrameRecords,
           s.wait = r.wait, s.phase = r.phase, s.up = Append(r.up, f),
           f.kind = "submit" /\ r.phase = "live" =>
               \A m \in Msgs : <<m, f.msg>> \in P => r.wait = m \/ Asked(r.up, m)
    PROVE  /\ QueueOK(s, P)
           /\ \A m : Asked(r.up, m) => Asked(s.up, m)
           /\ f.kind = "submit" => Asked(s.up, f.msg)
<1>0. r.up \in Seq(FrameRecords)
  BY DEF ConnRecords
<1> DEFINE u == r.up
           t == Append(r.up, f)
<1>1. /\ Len(u) \in Nat /\ Len(t) = Len(u) + 1 /\ t[Len(u) + 1] = f
      /\ \A i \in 1..Len(u) : t[i] = u[i]
  BY <1>0, AppendType
<1> HIDE DEF u, t
<1>2. ASSUME NEW m, NEW j \in 1..Len(u) PROVE j \in 1..Len(t) /\ t[j] = u[j]
  BY <1>1
<1>3. ASSUME r.phase = "live", NEW k \in 1..Len(t), NEW m \in Msgs, t[k].kind = "submit",
             <<m, t[k].msg>> \in P, r.wait # m
      PROVE  \E j \in 1..(k - 1) : t[j].kind = "submit" /\ t[j].msg = m
  <2>1. CASE k \in 1..Len(u)
    <3>1. PICK j \in 1..(k - 1) : u[j].kind = "submit" /\ u[j].msg = m
      BY <1>1, <1>3, <2>1 DEF QueueOK, u
    <3>2. j \in 1..Len(u)
      BY <1>1, <2>1
    <3> QED
      BY <1>1, <3>1, <3>2
  <2>2. CASE k = Len(u) + 1
    <3>1. PICK j \in 1..Len(u) : u[j].kind = "submit" /\ u[j].msg = m
      BY <1>1, <1>3, <2>2 DEF Asked, u
    <3>2. j \in 1..(k - 1)
      BY <1>1, <2>2
    <3> QED
      BY <1>1, <3>1, <3>2
  <2> QED
    BY <1>1, <2>1, <2>2
<1>4. \A m : Asked(u, m) => Asked(t, m)
  BY <1>2 DEF Asked
<1>5. f.kind = "submit" => Asked(t, f.msg)
  <2>1. Len(u) + 1 \in 1..Len(t)
    BY <1>1
  <2> QED
    BY <1>1, <2>1 DEF Asked
<1>6. QueueOK(s, P)
  BY <1>3 DEF QueueOK, t
<1> QED
  BY <1>4, <1>5, <1>6 DEF u, t

----------------------------------------------------------------------------
(* Requests and answers, by the session's steps.                           *)

LEMMA LineTypes ==
    ASSUME TypeOK
    PROVE  /\ \A m \in Msgs : <<m, NoMsg>> \notin Due
           /\ NoMsg \notin Msgs /\ Typed \subseteq Msgs /\ OpenOnes \subseteq Msgs
<1>1. NoMsg \notin Msgs
  BY DeliveryAssumption
<1>2. \A i \in 1..Len(entered) : entered[i] \in Msgs
  BY ElementOfSeq DEF TypeOK
<1>3. Typed \subseteq Msgs
  BY <1>2 DEF Typed
<1> QED
  BY <1>1, <1>3 DEF Due, OpenOnes

LEMMA SameNames ==
    ASSUME UNCHANGED <<log, entered, excused>>
    PROVE  /\ Typed' = Typed /\ Settled' = Settled /\ OpenOnes' = OpenOnes /\ Due' = Due
           /\ \A m, p : Before(m, p)' <=> Before(m, p)
<1>1. Typed' = Typed /\ Settled' = Settled
  BY DEF Typed, Settled
<1>2. \A m, p : Before(m, p)' <=> Before(m, p)
  BY DEF Before
<1>3. OpenOnes' = OpenOnes
  BY <1>1 DEF OpenOnes
<1>4. Due' = Due
  BY <1>3 DEF Due, Before
<1> QED
  BY <1>1, <1>2, <1>3, <1>4

Line == AnswerInv /\ OrderInv

\* Only connections change.
LEMMA LineConns ==
    ASSUME TypeOK, Line, UNCHANGED <<log, entered, excused, order>>,
           \A c \in Conns : AnswerOK(conn'[c], Typed, Settled) /\ QueueOK(conn'[c], Due),
           con' # NoConn => AllSent(conn'[con'], cphase', OpenOnes),
           busy'.conn # NoConn => /\ busy' # NoCall /\ conn'[busy'.conn].wait # NoMsg
                                  /\ log[busy'.seq] = conn'[busy'.conn].wait
    PROVE  Line'
<1>1. /\ Typed' = Typed /\ Settled' = Settled /\ OpenOnes' = OpenOnes /\ Due' = Due
      /\ \A m, p : Before(m, p)' <=> Before(m, p)
  BY SameNames
<1>2. AnswerInv'
  <2>1. /\ \A i, j \in 1..Len(entered) : entered[i] = entered[j] => i = j
        /\ \A i \in 1..Len(order) : order[i] \in Typed
        /\ \A i \in 1..Len(log) : log[i] # NoMsg => log[i] \in Typed
        /\ \A m \in OpenOnes : \E j \in 1..Len(order) : order[j] = m
    BY DEF Line, AnswerInv
  <2> QED
    BY <1>1, <2>1 DEF AnswerInv
<1>3. OrderInv'
  <2>1. /\ InLine(order, Due)
        /\ \A i \in 1..Len(log) : \A m \in Msgs : <<m, log[i]>> \notin Due
        /\ \A i, j \in 1..Len(log) :
              i < j /\ log[i] # NoMsg /\ log[j] # NoMsg /\ log[j] \notin excused => Before(log[i], log[j])
    BY DEF Line, OrderInv
  <2>2. (\A i, j \in 1..Len(log) :
            i < j /\ log[i] # NoMsg /\ log[j] # NoMsg /\ log[j] \notin excused => Before(log[i], log[j]))'
    BY <2>1 DEF Before
  <2>3. InLine(order', Due')
    BY <1>1, <2>1
  <2> QED
    BY <1>1, <2>1, <2>2, <2>3 DEF OrderInv
<1> QED
  BY <1>2, <1>3 DEF Line

LEMMA LineFacts ==
    ASSUME TypeOK, Line, NEW c \in Conns
    PROVE  /\ AnswerOK(conn[c], Typed, Settled) /\ QueueOK(conn[c], Due)
           /\ c = con => AllSent(conn[c], cphase, OpenOnes)
<1>1. c = con => con # NoConn
  BY DeliveryAssumption
<1> QED
  BY <1>1 DEF Line, AnswerInv, OrderInv

LEMMA LineServe ==
    ASSUME TypeOK, Line, NEW c \in Conns, RestKept, OthersKept(c),
           AnswerOK(conn'[c], Typed, Settled), QueueOK(conn'[c], Due),
           c = con => AllSent(conn'[c], cphase, OpenOnes),
           conn[c].wait = NoMsg \/ conn'[c].wait = conn[c].wait
    PROVE  Line'
<1>1. UNCHANGED <<log, busy, con, cphase, entered, excused, order>>
  BY DEF RestKept, roomVars, sentVars
<1>2. ASSUME NEW d \in Conns PROVE AnswerOK(conn'[d], Typed, Settled) /\ QueueOK(conn'[d], Due)
  <2>1. CASE d = c
    BY <2>1
  <2>2. CASE d # c
    BY <2>2, LineFacts DEF OthersKept
  <2> QED
    BY <2>1, <2>2
<1>3. ASSUME con # NoConn PROVE AllSent(conn'[con], cphase, OpenOnes)
  <2>1. con \in Conns
    BY <1>3 DEF TypeOK
  <2>2. CASE con = c
    BY <2>2
  <2>3. CASE con # c
    BY <2>1, <2>3, LineFacts DEF OthersKept
  <2> QED
    BY <2>2, <2>3
<1>4. ASSUME busy.conn # NoConn
      PROVE  busy # NoCall /\ conn'[busy.conn].wait # NoMsg /\ log[busy.seq] = conn'[busy.conn].wait
  <2>1. /\ busy # NoCall /\ conn[busy.conn].wait # NoMsg /\ log[busy.seq] = conn[busy.conn].wait
    BY <1>4 DEF Line, AnswerInv
  <2>2. busy.conn \in Conns
    BY <1>4 DEF TypeOK
  <2>3. conn'[busy.conn].wait = conn[busy.conn].wait
    BY <2>1, <2>2 DEF OthersKept
  <2> QED
    BY <2>1, <2>3
<1> QED
  BY <1>1, <1>2, <1>3, <1>4, LineConns

\* A session that is not served yet, or no longer, has nothing to answer.
LEMMA LineQuiet ==
    ASSUME TypeOK, Flow, Line, NEW c \in Conns, RestKept, OthersKept(c), conn'[c].phase # "live",
           AnswerOK(conn'[c], Typed, Settled), conn[c].wait = NoMsg \/ conn[c].phase # "live"
    PROVE  Line'
<1>1. QueueOK(conn'[c], Due) /\ AllSent(conn'[c], cphase, OpenOnes)
  BY LineTypes, QueueQuiet DEF AllSent
<1>2. conn[c].wait = NoMsg
  BY FlowFacts DEF LinkOK
<1> QED
  BY <1>1, <1>2, LineServe

LEMMA LineEnds ==
    ASSUME TypeOK, Flow, Line, NEW c \in Conns, RestKept, OthersKept(c), GivesUp(c),
           conn[c].wait = NoMsg \/ conn[c].phase # "live"
    PROVE  Line'
<1>1. conn[c] \in ConnRecords /\ AnswerOK(conn[c], Typed, Settled)
  BY FlowTypes, LineFacts
<1>2. AnswerOK(conn'[c], Typed, Settled)
  BY <1>1, AnswerEnds DEF GivesUp
<1>3. conn'[c].phase # "live"
  BY <1>1, EndedFields, FailedFields DEF GivesUp
<1> QED
  BY <1>2, <1>3, LineQuiet

LEMMA LineSubscribe == ASSUME TypeOK, Flow, Line, NEW c \in Conns, Subscribe(c) PROVE Line'
<1>1. conn[c] \in ConnRecords /\ AnswerOK(conn[c], Typed, Settled)
  BY FlowTypes, LineFacts
<1>2. /\ RestKept /\ OthersKept(c) /\ conn[c].phase = "hello" /\ conn'[c].phase = "subscribed"
      /\ conn'[c].wait = conn[c].wait /\ conn'[c].up = conn[c].up /\ conn'[c].down = conn[c].down
      /\ conn'[c].buf = conn[c].buf
  BY SubscribeStep DEF SameWire, SameSession, SameBuffer
<1>3. AnswerOK(conn'[c], Typed, Settled)
  BY <1>1, <1>2 DEF AnswerOK
<1> QED
  BY <1>2, <1>3, LineQuiet

LEMMA LineWelcome == ASSUME TypeOK, Flow, Line, NEW c \in Conns, Welcome(c) PROVE Line'
<1>1. conn[c] \in ConnRecords /\ AnswerOK(conn[c], Typed, Settled) /\ Len(log) \in Nat
  BY FlowTypes, LineFacts
<1>2. RestKept /\ OthersKept(c) /\ conn[c].phase = "subscribed"
  BY WelcomeStep
<1>3. CASE GivesUp(c)
  BY <1>2, <1>3, LineEnds
<1>4. CASE ~GivesUp(c)
  <2> DEFINE f == Frame("welcome", Len(log), NoMsg)
  <2>1. f \in FrameRecords /\ f.msg = NoMsg
    BY <1>1, FrameType DEF Kinds
  <2>2. /\ conn'[c].phase = "paging" /\ conn'[c].wait = conn[c].wait /\ conn'[c].up = conn[c].up
        /\ conn'[c].buf = conn[c].buf
        /\ conn'[c].down = conn[c].down \/ conn'[c].down = Append(conn[c].down, f)
    BY <1>4, WelcomeStep DEF SameBuffer
  <2> HIDE DEF f
  <2>3. AnswerOK(conn'[c], Typed, Settled)
    BY <1>1, <2>1, <2>2, AnswerSend
  <2> QED
    BY <1>2, <2>2, <2>3, LineQuiet
<1> QED
  BY <1>3, <1>4

LEMMA LinePage == ASSUME TypeOK, Flow, Line, NEW c \in Conns, Page(c) PROVE Line'
<1>1. conn[c] \in ConnRecords /\ AnswerOK(conn[c], Typed, Settled) /\ conn[c].down \in Seq(FrameRecords)
  BY FlowTypes, LineFacts
<1>2. RestKept /\ OthersKept(c) /\ conn[c].phase = "paging" /\ conn[c].last < conn[c].high
  BY PageStep
<1>3. CASE GivesUp(c)
  BY <1>2, <1>3, LineEnds
<1>4. CASE ~GivesUp(c)
  <2>1. /\ conn'[c].phase = "paging" /\ conn'[c].wait = conn[c].wait /\ conn'[c].up = conn[c].up
        /\ conn'[c].buf = conn[c].buf
        /\ conn'[c].down = conn[c].down \/ conn'[c].down = conn[c].down \o PageOf(conn[c])
    BY <1>4, PageStep DEF SameBuffer
  <2>2. About(conn[c].down, {"reply", "error"}, Settled)
    BY <1>1 DEF AnswerOK
  <2>3. About(conn'[c].down, {"reply", "error"}, Settled)
    BY <1>1, <1>2, <2>1, <2>2, AboutPage
  <2>4. AnswerOK(conn'[c], Typed, Settled)
    BY <1>1, <2>1, <2>3 DEF AnswerOK
  <2> QED
    BY <1>2, <2>1, <2>4, LineQuiet
<1> QED
  BY <1>3, <1>4

LEMMA LineSnapshot == ASSUME TypeOK, Flow, Line, NEW c \in Conns, Snapshot(c) PROVE Line'
<1>1. conn[c] \in ConnRecords /\ AnswerOK(conn[c], Typed, Settled) /\ rev \in Nat
  BY FlowTypes, LineFacts
<1> DEFINE f == Frame("snapshot", rev, NoMsg)
<1>2. /\ RestKept /\ OthersKept(c) /\ conn[c].phase = "paging"
      /\ conn'[c].wait = conn[c].wait /\ conn'[c].up = conn[c].up
      /\ conn'[c].buf = conn[c].buf
      /\ conn'[c].down = conn[c].down \/ conn'[c].down = Append(conn[c].down, f)
  BY SnapshotStep DEF SameBuffer
<1>3. f \in FrameRecords /\ f.msg = NoMsg
  BY <1>1, FrameType DEF Kinds
<1> HIDE DEF f
<1>4. AnswerOK(conn'[c], Typed, Settled)
  BY <1>1, <1>2, <1>3, AnswerSend
<1>5. conn[c].wait = NoMsg /\ conn[c].up = <<>>
  BY <1>2, FlowFacts DEF LinkOK, Early
<1>6. QueueOK(conn'[c], Due)
  BY <1>2, <1>5, LineTypes, QueueQuiet
<1>7. c = con => cphase # "ready"
  BY <1>2, FlowFacts DEF ClientOK, DeltaOK, Early
<1>8. c = con => AllSent(conn'[c], cphase, OpenOnes)
  BY <1>7 DEF AllSent
<1> QED
  BY <1>2, <1>4, <1>5, <1>6, <1>8, LineServe

LEMMA LineForward == ASSUME TypeOK, Flow, Line, NEW c \in Conns, Forward(c) PROVE Line'
<1> DEFINE r == conn[c]
           s == conn'[c]
           b == Head(r.buf)
<1>1. /\ r \in ConnRecords /\ r.buf \in Seq(FrameRecords) /\ r.down \in Seq(FrameRecords)
      /\ AnswerOK(r, Typed, Settled) /\ QueueOK(r, Due)
      /\ c = con => AllSent(r, cphase, OpenOnes)
  BY FlowTypes, LineFacts
<1>2. /\ RestKept /\ OthersKept(c) /\ r.phase = "live" /\ s.phase = "live"
      /\ r.wait = NoMsg /\ s.wait = NoMsg /\ s.up = r.up /\ s.buf = Tail(r.buf) /\ r.buf # <<>>
      /\ b \in FrameRecords
      /\ s.down = r.down \/ s.down = Append(r.down, b)
  BY ForwardStep DEF Looping
<1> HIDE DEF r, s
<1>3. /\ About(Tail(r.buf), {"reply", "error"}, {}) /\ ~(b.kind \in {"reply", "error"} /\ b.msg # NoMsg)
  BY <1>1, <1>2, AboutTail DEF AnswerOK
<1> HIDE DEF b
<1>4. About(r.down, {"reply", "error"}, Settled)
  BY <1>1 DEF AnswerOK
<1>5. About(s.down, {"reply", "error"}, Settled)
  BY <1>1, <1>2, <1>3, <1>4, AboutAppend
<1>6. AnswerOK(s, Typed, Settled)
  BY <1>1, <1>2, <1>3, <1>5 DEF AnswerOK
<1>7. QueueOK(s, Due)
  BY <1>1, <1>2, QueueSame
<1>8. c = con => AllSent(s, cphase, OpenOnes)
  BY <1>1, <1>2 DEF AllSent
<1> QED
  BY <1>2, <1>6, <1>7, <1>8, LineServe DEF r, s

LEMMA LineRequest == ASSUME TypeOK, Flow, Line, NEW c \in Conns, Request(c) PROVE Line'
<1> DEFINE r == conn[c]
           s == conn'[c]
<1>1. /\ r \in ConnRecords /\ r.up \in Seq(FrameRecords)
      /\ AnswerOK(r, Typed, Settled) /\ QueueOK(r, Due)
      /\ c = con => AllSent(r, cphase, OpenOnes)
  BY FlowTypes, LineFacts
<1>2. /\ RestKept /\ OthersKept(c) /\ r.phase = "live" /\ s.phase = "live"
      /\ r.wait = NoMsg /\ s.up = Tail(r.up) /\ s.buf = r.buf /\ s.down = r.down /\ r.up # <<>>
      /\ \/ Head(r.up).kind = "submit" /\ s.wait = Head(r.up).msg
         \/ Head(r.up).kind # "submit" /\ s.wait = NoMsg
  BY RequestStep DEF Looping, SameBuffer
<1> HIDE DEF r, s
<1>3. /\ About(Tail(r.up), {"submit"}, Typed)
      /\ Head(r.up).kind = "submit" /\ Head(r.up).msg # NoMsg => Head(r.up).msg \in Typed
  BY <1>1, <1>2, AboutTail DEF AnswerOK
<1>4. AnswerOK(s, Typed, Settled)
  BY <1>1, <1>2, <1>3 DEF AnswerOK
<1>5. QueueOK(s, Due) /\ \A m \in Msgs : Asked(r.up, m) => s.wait = m \/ Asked(s.up, m)
  BY <1>1, <1>2, LineTypes, QueueTake
<1>6. c = con => AllSent(s, cphase, OpenOnes)
  BY <1>1, <1>2, <1>5, LineTypes DEF AllSent
<1> QED
  BY <1>2, <1>4, <1>5, <1>6, LineServe DEF r, s

LEMMA LineSession ==
    ASSUME TypeOK, Flow, Line, NEW c \in Conns, Serve(c) \/ SessionFails(c) PROVE Line'
<1>1. CASE SlowClient(c) \/ SessionFails(c)
  BY <1>1, EndStep, LineEnds
<1>2. CASE SessionEnds(c)
  BY <1>2, GoneStep, FreeType, AnswerFree, LineQuiet
<1> QED
  BY <1>1, <1>2, LineSubscribe, LineWelcome, LinePage, LineSnapshot, LineForward, LineRequest DEF Serve

----------------------------------------------------------------------------
(* Requests and answers, by the coordinator's steps.                       *)

\* More is settled, so less is due.
LEMMA FewerOpen ==
    ASSUME TypeOK, UNCHANGED entered, Settled \subseteq Settled'
    PROVE  /\ Typed' = Typed /\ OpenOnes' \subseteq OpenOnes /\ Due' \subseteq Due
           /\ \A m, p : Before(m, p)' <=> Before(m, p)
<1>1. Typed' = Typed
  BY DEF Typed
<1>2. OpenOnes' \subseteq OpenOnes
  BY <1>1 DEF OpenOnes
<1>3. Due' \subseteq Due
  BY <1>2 DEF Due, Before
<1>4. \A m, p : Before(m, p)' <=> Before(m, p)
  BY DEF Before
<1> QED
  BY <1>1, <1>2, <1>3, <1>4

LEMMA ExcusedIsSettled ==
    ASSUME UNCHANGED log, excused \subseteq excused'
    PROVE  /\ Settled \subseteq Settled' /\ Settled' = Settled \cup excused'
  BY DEF Settled

\* What is due on a connection can become less.
LEMMA QueueLess ==
    ASSUME NEW r, NEW P, NEW Q, QueueOK(r, P), Q \subseteq P PROVE QueueOK(r, Q)
<1>1. \A x : x \in Q => x \in P
  OBVIOUS
<1> QED
  BY <1>1, Zenon DEF QueueOK

LEMMA InLineLess == ASSUME NEW s, NEW P, NEW Q, InLine(s, P), Q \subseteq P PROVE InLine(s, Q)
  BY DEF InLine

\* The log stays, errors may be added.
LEMMA LineKept ==
    ASSUME TypeOK, Line, UNCHANGED <<log, entered>>, excused \subseteq excused',
           \A i \in 1..Len(order') : order'[i] \in Typed,
           \A m \in OpenOnes' : \E j \in 1..Len(order') : order'[j] = m,
           InLine(order', Due'),
           \A c \in Conns : AnswerOK(conn'[c], Typed, Settled') /\ QueueOK(conn'[c], Due'),
           con' # NoConn => AllSent(conn'[con'], cphase', OpenOnes'),
           busy'.conn # NoConn => /\ busy' # NoCall /\ conn'[busy'.conn].wait # NoMsg
                                  /\ log[busy'.seq] = conn'[busy'.conn].wait
    PROVE  Line'
<1>1. Settled \subseteq Settled'
  BY ExcusedIsSettled
<1>2. Typed' = Typed /\ OpenOnes' \subseteq OpenOnes /\ Due' \subseteq Due
  BY <1>1, FewerOpen
<1>3. AnswerInv'
  <2>1. /\ \A i, j \in 1..Len(entered) : entered[i] = entered[j] => i = j
        /\ \A i \in 1..Len(log) : log[i] # NoMsg => log[i] \in Typed
    BY DEF Line, AnswerInv
  <2> QED
    BY <1>2, <2>1 DEF AnswerInv
<1>4. OrderInv'
  <2>1. /\ \A i \in 1..Len(log) : \A m \in Msgs : <<m, log[i]>> \notin Due
        /\ \A i, j \in 1..Len(log) :
              i < j /\ log[i] # NoMsg /\ log[j] # NoMsg /\ log[j] \notin excused => Before(log[i], log[j])
    BY DEF Line, OrderInv
  <2>2. (\A i, j \in 1..Len(log) :
            i < j /\ log[i] # NoMsg /\ log[j] # NoMsg /\ log[j] \notin excused => Before(log[i], log[j]))'
    <3>1. \A i, j \in 1..Len(log) :
             i < j /\ log[i] # NoMsg /\ log[j] # NoMsg /\ log[j] \notin excused' => Before(log[i], log[j])
      BY <2>1
    <3> QED
      BY <3>1 DEF Before
  <2>3. (\A i \in 1..Len(log) : \A m \in Msgs : <<m, log[i]>> \notin Due)'
    BY <1>2, <2>1
  <2> QED
    BY <2>2, <2>3 DEF OrderInv
<1> QED
  BY <1>3, <1>4 DEF Line

\* What publishing and answering do to the requests of a connection.
LEMMA AnswerStep ==
    ASSUME NEW r \in ConnRecords, NEW s, NEW b \in FrameRecords, b.msg = NoMsg, NEW E, NEW D,
           AnswerOK(r, E, D), BufferStep(r, s, b) \/ SameBuffer(s, r),
           s.up = r.up, s.wait \in {r.wait, NoMsg},
           s.down = r.down \/ (s.down = Answered(r) /\ r.wait \in D)
    PROVE  AnswerOK(s, E, D)
<1>1. /\ r.down \in Seq(FrameRecords) /\ r.buf \in Seq(FrameRecords) /\ r.wait \in Msgs \cup {NoMsg}
  BY DEF ConnRecords
<1> DEFINE f == Frame("reply", 0, r.wait)
<1>2. f \in FrameRecords /\ f.msg = r.wait
  BY <1>1, FrameType DEF Kinds
<1>3. s.down = r.down \/ (s.down = Append(r.down, f) /\ r.wait \in D)
  BY DEF Answered
<1> HIDE DEF f
<1>4. About(r.down, {"reply", "error"}, D) /\ About(r.buf, {"reply", "error"}, {})
  BY DEF AnswerOK
<1>5. About(s.down, {"reply", "error"}, D)
  <2>1. CASE s.down = r.down
    BY <1>4, <2>1
  <2>2. CASE s.down = Append(r.down, f) /\ r.wait \in D
    BY <1>1, <1>2, <1>4, <2>2, AboutAppend
  <2> QED
    BY <1>3, <2>1, <2>2
<1>6. About(Append(r.buf, b), {"reply", "error"}, {})
  BY <1>1, <1>4, AboutAppend
<1>7. s.buf = r.buf \/ s.buf = Append(r.buf, b)
  BY DEF BufferStep, SameBuffer
<1>8. About(s.buf, {"reply", "error"}, {})
  BY <1>4, <1>6, <1>7
<1> QED
  BY <1>5, <1>8 DEF AnswerOK

\* What is settled is not due before anything.
LEMMA SettledNotDue ==
    ASSUME NEW m, m \in Settled PROVE m \notin OpenOnes /\ \A p : <<m, p>> \notin Due
<1>1. m \notin OpenOnes
  BY DEF OpenOnes
<1> QED
  BY <1>1 DEF Due

LEMMA LinePublish == ASSUME TypeOK, Flow, Line, Publish PROVE Line'
<1>1. /\ busy' = NoCall /\ UNCHANGED <<log, cphase, con, order, entered, excused>>
      /\ Durable(busy.seq) \in FrameRecords /\ busy # NoCall
  BY PublishStep DEF sentVars
<1>2. Durable(busy.seq).msg = NoMsg
  BY FlowTypes, FrameType DEF Durable, Kinds
<1>3. busy.conn # NoConn => conn[busy.conn].wait \in Settled
  <2>1. busy.seq \in 1..Len(log)
    BY <1>1 DEF Flow, CursorInv
  <2> QED
    BY <2>1 DEF Line, AnswerInv, Settled
<1>4. ASSUME NEW c \in Conns
      PROVE  /\ AnswerOK(conn'[c], Typed, Settled) /\ QueueOK(conn'[c], Due)
             /\ c = con => AllSent(conn'[c], cphase, OpenOnes)
  <2> DEFINE r == conn[c]
             s == conn'[c]
             b == Durable(busy.seq)
  <2>1. /\ r \in ConnRecords /\ AnswerOK(r, Typed, Settled) /\ QueueOK(r, Due)
        /\ c = con => AllSent(r, cphase, OpenOnes)
    BY FlowTypes, LineFacts
  <2>2. /\ s.phase = r.phase /\ s.up = r.up /\ BufferStep(r, s, b)
        /\ s.wait = IF c = busy.conn THEN NoMsg ELSE r.wait
        /\ s.down = IF c = busy.conn /\ ~r.gone THEN Answered(r) ELSE r.down
    BY PublishStep DEF Untouched
  <2>3. c = busy.conn => r.wait \in Settled
    BY <1>3, DeliveryAssumption
  <2>b. b \in FrameRecords /\ b.msg = NoMsg
    BY <1>1, <1>2
  <2> HIDE DEF r, s, b
  <2>4. AnswerOK(s, Typed, Settled)
    BY <2>1, <2>2, <2>3, <2>b, AnswerStep
  <2>5. CASE c = busy.conn
    <3>1. r.wait \notin OpenOnes /\ \A p : <<r.wait, p>> \notin Due
      BY <2>3, <2>5, SettledNotDue
    <3>2. QueueOK(s, Due)
      BY <2>1, <2>2, <2>5, <3>1, LineTypes, QueueAnswer
    <3>3. c = con => AllSent(s, cphase, OpenOnes)
      BY <2>1, <2>2, <2>5, <3>1 DEF AllSent
    <3> QED
      BY <2>4, <3>2, <3>3 DEF s
  <2>6. CASE c # busy.conn
    <3>2. QueueOK(s, Due)
      BY <2>1, <2>2, <2>6, QueueSame
    <3>3. c = con => AllSent(s, cphase, OpenOnes)
      BY <2>1, <2>2, <2>6 DEF AllSent
    <3> QED
      BY <2>4, <3>2, <3>3 DEF s
  <2> QED
    BY <2>5, <2>6
<1>5. busy'.conn = NoConn
  BY <1>1 DEF NoCall
<1>6. con # NoConn => con \in Conns
  BY FlowTypes
<1> QED
  BY <1>1, <1>4, <1>5, <1>6, LineConns

LEMMA LineDelta == ASSUME TypeOK, Flow, Line, Delta PROVE Line'
<1>1. /\ UNCHANGED <<log, busy, cphase, con, order, entered, excused>>
      /\ Transient(rev') \in FrameRecords /\ rev' \in Nat
  BY DeltaStep DEF sentVars
<1>2. Transient(rev').msg = NoMsg
  BY <1>1, FrameType DEF Transient, Kinds
<1>3. busy.conn = NoConn
  BY DEF Delta, CoordinatorIdle, NoCall
<1>4. ASSUME NEW c \in Conns
      PROVE  /\ AnswerOK(conn'[c], Typed, Settled) /\ QueueOK(conn'[c], Due)
             /\ c = con => AllSent(conn'[c], cphase, OpenOnes)
  <2> DEFINE r == conn[c]
             s == conn'[c]
             b == Transient(rev')
  <2>1. /\ r \in ConnRecords /\ AnswerOK(r, Typed, Settled) /\ QueueOK(r, Due)
        /\ c = con => AllSent(r, cphase, OpenOnes)
    BY FlowTypes, LineFacts
  <2>2. /\ s.phase = r.phase /\ s.up = r.up /\ BufferStep(r, s, b)
        /\ s.wait = r.wait /\ s.down = r.down
    BY DeltaStep DEF Untouched
  <2>b. b \in FrameRecords /\ b.msg = NoMsg
    BY <1>1, <1>2
  <2> HIDE DEF r, s, b
  <2>3. AnswerOK(s, Typed, Settled)
    BY <2>1, <2>2, <2>b, AnswerStep
  <2>4. QueueOK(s, Due)
    BY <2>1, <2>2, QueueSame
  <2>5. c = con => AllSent(s, cphase, OpenOnes)
    BY <2>1, <2>2 DEF AllSent
  <2> QED
    BY <2>3, <2>4, <2>5 DEF s
<1>6. con # NoConn => con \in Conns
  BY FlowTypes
<1> QED
  BY <1>1, <1>3, <1>4, <1>6, LineConns

LEMMA LineCrash == ASSUME TypeOK, Flow, Line, DaemonCrash PROVE Line'
<1>1. busy' = NoCall /\ UNCHANGED <<log, cphase, con, order, entered, excused>>
  BY CrashStep DEF sentVars
<1>2. ASSUME NEW c \in Conns
      PROVE  /\ AnswerOK(conn'[c], Typed, Settled) /\ QueueOK(conn'[c], Due)
             /\ AllSent(conn'[c], cphase, OpenOnes)
  <2>1. conn[c] \in ConnRecords /\ AnswerOK(conn[c], Typed, Settled)
    BY FlowTypes, LineFacts
  <2>2. conn'[c] \in {Free, Ended(conn[c])}
    BY CrashStep
  <2>3. AnswerOK(conn'[c], Typed, Settled)
    BY <2>1, <2>2, AnswerFree, AnswerEnds
  <2>4. conn'[c].phase # "live"
    BY <2>1, <2>2, FreeType, EndedFields
  <2> QED
    BY <2>3, <2>4, LineTypes, QueueQuiet DEF AllSent
<1>5. busy'.conn = NoConn
  BY <1>1 DEF NoCall
<1>6. con # NoConn => con \in Conns
  BY FlowTypes
<1> QED
  BY <1>1, <1>2, <1>5, <1>6, LineConns

LEMMA LineFail == ASSUME TypeOK, Flow, Line, NEW c \in Conns, FailRequest(c) PROVE Line'
<1> DEFINE w == conn[c].wait
<1>1. /\ OthersKept(c) /\ UNCHANGED <<log, cphase, con, order, entered>>
      /\ excused' = excused \cup {w} /\ w \in Msgs
      /\ busy'.seq = busy.seq /\ busy'.conn = IF busy.conn = c THEN NoConn ELSE busy.conn
  BY FailStep
<1>2. Settled \subseteq Settled' /\ w \in Settled'
  BY <1>1, ExcusedIsSettled
<1>3. Typed' = Typed /\ OpenOnes' \subseteq OpenOnes /\ Due' \subseteq Due
  BY <1>1, <1>2, FewerOpen
<1>4. w \notin OpenOnes' /\ \A p : <<w, p>> \notin Due'
  <2>1. w \notin OpenOnes'
    BY <1>2 DEF OpenOnes
  <2> QED
    BY <2>1 DEF Due
<1>5. \A m \in Msgs : <<m, NoMsg>> \notin Due'
  BY <1>3, LineTypes
<1>6. ASSUME NEW d \in Conns
      PROVE  /\ AnswerOK(conn[d], Typed, Settled') /\ QueueOK(conn[d], Due')
             /\ d = con => AllSent(conn[d], cphase, OpenOnes')
  <2>1. /\ AnswerOK(conn[d], Typed, Settled) /\ QueueOK(conn[d], Due)
        /\ d = con => AllSent(conn[d], cphase, OpenOnes)
    BY LineFacts
  <2>2. AnswerOK(conn[d], Typed, Settled')
    BY <1>2, <2>1, AnswerMore
  <2>3. QueueOK(conn[d], Due')
    BY <1>3, <2>1, QueueLess
  <2> QED
    BY <1>3, <2>1, <2>2, <2>3 DEF AllSent
<1>7. /\ AnswerOK(conn'[c], Typed, Settled') /\ QueueOK(conn'[c], Due')
      /\ c = con => AllSent(conn'[c], cphase, OpenOnes')
  <2> DEFINE r == conn[c]
             s == conn'[c]
  <2>1. /\ r \in ConnRecords /\ AnswerOK(r, Typed, Settled') /\ QueueOK(r, Due')
        /\ c = con => AllSent(r, cphase, OpenOnes')
    BY <1>6, FlowTypes
  <2>2. /\ s.phase = r.phase /\ s.up = r.up /\ SameBuffer(s, r) /\ s.wait = NoMsg
        /\ s.down = r.down \/ s.down = Answered(r)
    BY FailStep DEF Untouched
  <2>3. r.wait = w
    OBVIOUS
  <2> HIDE DEF r, s, w
  <2>4. AnswerOK(s, Typed, Settled')
    BY <1>2, <2>1, <2>2, <2>3, ErrorType, AnswerStep
  <2>5. QueueOK(s, Due')
    BY <1>4, <1>5, <2>1, <2>2, <2>3, QueueAnswer
  <2>6. c = con => AllSent(s, cphase, OpenOnes')
    BY <1>4, <2>1, <2>2, <2>3 DEF AllSent
  <2> QED
    BY <2>4, <2>5, <2>6 DEF s
<1>8. \A d \in Conns : /\ AnswerOK(conn'[d], Typed, Settled') /\ QueueOK(conn'[d], Due')
                       /\ d = con => AllSent(conn'[d], cphase, OpenOnes')
  BY <1>1, <1>6, <1>7 DEF OthersKept
<1>9. /\ \A i \in 1..Len(order) : order[i] \in Typed
      /\ \A m \in OpenOnes' : \E j \in 1..Len(order) : order[j] = m
  BY <1>3 DEF Line, AnswerInv
<1>10. InLine(order, Due')
  BY <1>3, InLineLess DEF Line, OrderInv
<1>11. ASSUME busy'.conn # NoConn
       PROVE  busy' # NoCall /\ conn'[busy'.conn].wait # NoMsg /\ log[busy'.seq] = conn'[busy'.conn].wait
  <2>1. busy'.conn = busy.conn /\ busy.conn # c
    BY <1>1, <1>11
  <2>2. busy.conn \in Conns
    BY <1>11, <2>1 DEF TypeOK
  <2>3. conn[busy.conn].wait # NoMsg /\ log[busy.seq] = conn[busy.conn].wait
    BY <1>11, <2>1 DEF Line, AnswerInv
  <2>4. conn'[busy.conn] = conn[busy.conn]
    BY <1>1, <2>1, <2>2 DEF OthersKept
  <2>5. busy' # NoCall
    BY <1>11 DEF NoCall
  <2> QED
    BY <1>1, <2>1, <2>3, <2>4, <2>5
<1>12. con # NoConn => con \in Conns
  BY FlowTypes
<1> HIDE DEF w
<1>13. con' # NoConn => AllSent(conn'[con'], cphase', OpenOnes')
  BY <1>1, <1>8, <1>12
<1> QED
  BY <1>1, <1>8, <1>9, <1>10, <1>11, <1>13, LineKept

\* Two submissions were typed one after the other.
LEMMA OneFirst ==
    ASSUME TypeOK, NEW m \in Typed, NEW p \in Typed, m # p PROVE Before(m, p) \/ Before(p, m)
<1>1. PICK i \in 1..Len(entered) : entered[i] = m
  BY DEF Typed
<1>2. PICK j \in 1..Len(entered) : entered[j] = p
  BY DEF Typed
<1>3. i # j /\ Len(entered) \in Nat
  BY <1>1, <1>2, LenProperties DEF TypeOK
<1>4. i < j \/ j < i
  BY <1>3
<1> QED
  BY <1>1, <1>2, <1>4 DEF Before

\* An event is committed; when it accepts a submission, nothing is due
\* before that one.
LEMMA LineLog ==
    ASSUME TypeOK, Line, NEW w \in Msgs \cup {NoMsg}, log' = Append(log, w),
           UNCHANGED <<entered, excused, order, conn, con, cphase>>,
           w # NoMsg => w \in Typed /\ ~Accepted(w) /\ \A m \in Msgs : <<m, w>> \notin Due,
           busy'.conn # NoConn => /\ busy' # NoCall /\ w # NoMsg /\ conn[busy'.conn].wait = w
                                  /\ busy'.seq = Len(log) + 1
    PROVE  Line'
<1>0. log \in Seq(Msgs \cup {NoMsg})
  BY DEF TypeOK
<1>1. /\ Len(log) \in Nat /\ Len(log') = Len(log) + 1 /\ log'[Len(log) + 1] = w
      /\ \A i \in 1..Len(log) : log'[i] = log[i]
  BY <1>0, AppendType
<1>2. \A i \in 1..Len(log') : i \in 1..Len(log) \/ i = Len(log) + 1
  BY <1>1
<1>3. \A i \in 1..Len(log) : i \in 1..Len(log')
  BY <1>1
<1>4. Settled \subseteq Settled'
  <2>1. ASSUME NEW i \in 1..Len(log) PROVE log[i] \in {log'[j] : j \in 1..Len(log')}
    BY <1>1, <1>3
  <2> QED
    BY <2>1 DEF Settled
<1>5. /\ Typed' = Typed /\ OpenOnes' \subseteq OpenOnes /\ Due' \subseteq Due
      /\ \A m, p : Before(m, p)' <=> Before(m, p)
  BY <1>4, FewerOpen
<1>6. ASSUME NEW d \in Conns
      PROVE  /\ AnswerOK(conn[d], Typed, Settled') /\ QueueOK(conn[d], Due')
             /\ d = con => AllSent(conn[d], cphase, OpenOnes')
  <2>1. /\ AnswerOK(conn[d], Typed, Settled) /\ QueueOK(conn[d], Due)
        /\ d = con => AllSent(conn[d], cphase, OpenOnes)
    BY LineFacts
  <2>2. AnswerOK(conn[d], Typed, Settled')
    BY <1>4, <2>1, AnswerMore
  <2>3. QueueOK(conn[d], Due')
    BY <1>5, <2>1, QueueLess
  <2> QED
    BY <1>5, <2>1, <2>2, <2>3 DEF AllSent
<1>7. (\A i \in 1..Len(log) : log[i] # NoMsg => log[i] \in Typed)'
  <2>1. \A i \in 1..Len(log) : log[i] # NoMsg => log[i] \in Typed
    BY DEF Line, AnswerInv
  <2> QED
    BY <1>1, <1>2, <1>5, <2>1
<1>8. AnswerInv'
  <2>1. /\ \A i, j \in 1..Len(entered) : entered[i] = entered[j] => i = j
        /\ \A i \in 1..Len(order) : order[i] \in Typed
        /\ \A m \in OpenOnes : \E j \in 1..Len(order) : order[j] = m
    BY DEF Line, AnswerInv
  <2>2. (\A c \in Conns : AnswerOK(conn[c], Typed, Settled))'
    BY <1>5, <1>6
  <2>3. (\A m \in OpenOnes : \E j \in 1..Len(order) : order[j] = m)'
    BY <1>5, <2>1
  <2>4. (busy.conn # NoConn => /\ busy # NoCall /\ conn[busy.conn].wait # NoMsg
                               /\ log[busy.seq] = conn[busy.conn].wait)'
    BY <1>1
  <2>5. (\A i \in 1..Len(order) : order[i] \in Typed)'
    BY <1>5, <2>1
  <2> QED
    BY <1>7, <2>1, <2>2, <2>3, <2>4, <2>5 DEF AnswerInv
<1>9. (\A i \in 1..Len(log) : \A m \in Msgs : <<m, log[i]>> \notin Due)'
  <2>1. \A i \in 1..Len(log) : \A m \in Msgs : <<m, log[i]>> \notin Due
    BY DEF Line, OrderInv
  <2>2. \A m \in Msgs : <<m, w>> \notin Due
    BY LineTypes
  <2>3. ASSUME NEW i \in 1..Len(log'), NEW m \in Msgs PROVE <<m, log'[i]>> \notin Due
    BY <1>1, <1>2, <2>1, <2>2
  <2> QED
    BY <1>5, <2>3
<1>10. ASSUME NEW i \in 1..Len(log'), NEW j \in 1..Len(log'), i < j, log'[i] # NoMsg, log'[j] # NoMsg,
              log'[j] \notin excused
       PROVE  \E a, b \in 1..Len(entered) : a < b /\ entered[a] = log'[i] /\ entered[b] = log'[j]
  <2>1. i \in 1..Len(log) /\ log'[i] = log[i]
    BY <1>1, <1>10
  <2>2. CASE j \in 1..Len(log)
    <3>1. Before(log[i], log[j])
      BY <1>1, <1>10, <2>1, <2>2 DEF Line, OrderInv
    <3> QED
      BY <1>1, <2>1, <2>2, <3>1 DEF Before
  <2>3. CASE j = Len(log) + 1
    <3>1. log'[j] = w /\ w # NoMsg /\ w \notin excused /\ w \in Typed /\ ~Accepted(w)
      BY <1>1, <1>10, <2>3
    <3>2. log[i] # w /\ log[i] \in Typed
      BY <1>10, <2>1, <3>1 DEF Line, AnswerInv, Accepted
    <3>3. w \in OpenOnes
      BY <3>1 DEF OpenOnes, Settled, Accepted
    <3>4. w \in Msgs /\ log[i] \in Msgs
      BY <3>1, <3>2, LineTypes
    <3>5. ~Before(w, log[i])
      <4>1. <<w, log[i]>> \notin Due
        BY <2>1, <3>4 DEF Line, OrderInv
      <4> QED
        BY <3>3, <3>4, <4>1 DEF Due
    <3>6. Before(log[i], w)
      BY <3>1, <3>2, <3>5, OneFirst
    <3> QED
      BY <2>1, <3>1, <3>6 DEF Before
  <2> QED
    BY <1>2, <2>2, <2>3
<1>11. (\A i, j \in 1..Len(log) :
           i < j /\ log[i] # NoMsg /\ log[j] # NoMsg /\ log[j] \notin excused => Before(log[i], log[j]))'
  BY <1>10 DEF Before
<1>12. OrderInv'
  <2>1. InLine(order, Due')
    BY <1>5, InLineLess DEF Line, OrderInv
  <2>2. con # NoConn => con \in Conns
    BY FlowTypes
  <2>3. (con # NoConn => AllSent(conn[con], cphase, OpenOnes))'
    BY <1>6, <2>2
  <2>4. (\A c \in Conns : QueueOK(conn[c], Due))'
    BY <1>6
  <2>5. InLine(order, Due)'
    BY <2>1
  <2> QED
    BY <1>9, <1>11, <2>3, <2>4, <2>5 DEF OrderInv
<1> QED
  BY <1>8, <1>12 DEF Line

LEMMA LineAccept == ASSUME TypeOK, Flow, Line, NEW c \in Conns, AcceptSubmit(c) PROVE Line'
<1> DEFINE w == conn[c].wait
<1>1. /\ w # NoMsg /\ UNCHANGED <<conn, con, cphase, entered, excused, order>>
      /\ conn[c] \in ConnRecords
  BY FlowTypes DEF AcceptSubmit, sentVars
<1>2. w \in Msgs \cup {NoMsg} /\ c # NoConn
  BY <1>1, DeliveryAssumption DEF ConnRecords
<1>3. w \in Typed /\ \A m \in Msgs : <<m, w>> \notin Due
  <2>1. conn[c].phase = "live"
    BY <1>1, FlowFacts DEF LinkOK
  <2> QED
    BY <1>1, <2>1, LineFacts DEF AnswerOK, QueueOK
<1>4. CASE Accepted(w)
  <2>1. busy' = [seq |-> SeqOf(w), conn |-> c] /\ log' = log
    BY <1>4 DEF AcceptSubmit
  <2>2. log[SeqOf(w)] = w
    BY <1>4 DEF SeqOf, Accepted
  <2>3. busy' # NoCall /\ busy'.conn = c /\ busy'.seq = SeqOf(w)
    BY <1>2, <2>1 DEF NoCall
  <2>4. \A d \in Conns : AnswerOK(conn[d], Typed, Settled) /\ QueueOK(conn[d], Due)
    BY LineFacts
  <2>5. con # NoConn => AllSent(conn[con], cphase, OpenOnes)
    BY DEF Line, OrderInv
  <2> QED
    BY <1>1, <2>1, <2>2, <2>3, <2>4, <2>5, LineConns
<1>5. CASE ~Accepted(w)
  <2>1. busy' = [seq |-> Len(log) + 1, conn |-> c] /\ log' = Append(log, w)
    BY <1>5 DEF AcceptSubmit
  <2>2. busy' # NoCall /\ busy'.conn = c /\ busy'.seq = Len(log) + 1
    BY <1>2, <2>1 DEF NoCall
  <2> QED
    BY <1>1, <1>2, <1>3, <1>5, <2>1, <2>2, LineLog
<1> QED
  BY <1>4, <1>5

LEMMA LineCoordinate == ASSUME TypeOK, Flow, Line, Coordinate PROVE Line'
<1>1. CASE RoomEvent
  <2>1. /\ log' = Append(log, NoMsg) /\ busy'.conn = NoConn
        /\ UNCHANGED <<entered, excused, order, conn, con, cphase>>
    BY <1>1 DEF RoomEvent, sentVars
  <2> QED
    BY <2>1, LineLog
<1> QED
  BY <1>1, LinePublish, LineDelta, LineCrash, LineFail, LineAccept DEF Coordinate

----------------------------------------------------------------------------
(* Requests and answers, by the client's steps.                            *)

\* The order of the unanswered submissions while nothing is typed.
OrderKept ==
    /\ \A i \in 1..Len(order') : order'[i] \in Typed
    /\ \A m \in OpenOnes' : \E j \in 1..Len(order') : order'[j] = m
    /\ InLine(order', Due')

LEMMA OrderSame ==
    ASSUME TypeOK, Line, UNCHANGED <<log, entered, excused, order>> PROVE OrderKept
<1>1. OpenOnes' = OpenOnes /\ Due' = Due
  BY SameNames
<1>2. /\ \A i \in 1..Len(order) : order[i] \in Typed
      /\ \A m \in OpenOnes : \E j \in 1..Len(order) : order[j] = m
      /\ InLine(order, Due)
  BY DEF Line, AnswerInv, OrderInv
<1> QED
  BY <1>1, <1>2 DEF OrderKept

\* The client reads or writes.
LEMMA LineOwn ==
    ASSUME TypeOK, Line, con \in Conns, OthersKept(con),
           UNCHANGED <<log, busy, con, entered, excused>>, OrderKept,
           AnswerOK(conn'[con], Typed, Settled), QueueOK(conn'[con], Due),
           AllSent(conn'[con], cphase', OpenOnes), conn'[con].wait = conn[con].wait
    PROVE  Line'
<1>1. Settled' = Settled /\ Due' = Due /\ OpenOnes' = OpenOnes
  BY SameNames
<1>2. ASSUME NEW d \in Conns PROVE AnswerOK(conn'[d], Typed, Settled) /\ QueueOK(conn'[d], Due)
  <2>1. CASE d = con
    BY <2>1
  <2>2. CASE d # con
    BY <2>2, LineFacts DEF OthersKept
  <2> QED
    BY <2>1, <2>2
<1>3. ASSUME busy.conn # NoConn
      PROVE  busy # NoCall /\ conn'[busy.conn].wait # NoMsg /\ log[busy.seq] = conn'[busy.conn].wait
  <2>1. busy # NoCall /\ conn[busy.conn].wait # NoMsg /\ log[busy.seq] = conn[busy.conn].wait
    BY <1>3 DEF Line, AnswerInv
  <2>2. busy.conn \in Conns
    BY <1>3 DEF TypeOK
  <2>3. conn'[busy.conn].wait = conn[busy.conn].wait
    BY <2>2 DEF OthersKept
  <2> QED
    BY <2>1, <2>3
<1> QED
  BY <1>1, <1>2, <1>3, LineKept DEF OrderKept

\* A frame is read.
LEMMA LineTake ==
    ASSUME TypeOK, Line, NEW f, Arrives(f), conn' = [conn EXCEPT ![con] = Taken],
           UNCHANGED <<log, busy, con, entered, excused>>, OrderKept,
           cphase' = "ready" => cphase = "ready"
    PROVE  Line'
<1> DEFINE r == conn[con]
           s == conn'[con]
<1>0. /\ OthersKept(con) /\ con \in Conns /\ s.phase = r.phase /\ s.wait = r.wait
      /\ s.buf = r.buf /\ s.down = Tail(r.down)
      /\ s.up = r.up /\ r.down # <<>> /\ r.down \in Seq(FrameRecords)
  BY TakeStep DEF OwnKept, SameSession, SameBuffer
<1>1. AnswerOK(r, Typed, Settled) /\ QueueOK(r, Due) /\ AllSent(r, cphase, OpenOnes)
  BY <1>0, LineFacts
<1> HIDE DEF r, s
<1>2. About(r.down, {"reply", "error"}, Settled)
  BY <1>1 DEF AnswerOK
<1>3. About(s.down, {"reply", "error"}, Settled)
  BY <1>0, <1>2, AboutTail
<1>4. AnswerOK(s, Typed, Settled)
  BY <1>0, <1>1, <1>3 DEF AnswerOK
<1>5. QueueOK(s, Due)
  BY <1>0, <1>1, QueueSame
<1>6. AllSent(s, cphase', OpenOnes)
  BY <1>0, <1>1 DEF AllSent
<1> QED
  BY <1>0, <1>4, <1>5, <1>6, LineOwn DEF r, s

\* A frame is written.
LEMMA LineWrite ==
    ASSUME TypeOK, Line, OwnKept, NEW f \in FrameRecords, conn'[con].down = conn[con].down,
           conn'[con].up = Append(conn[con].up, f),
           UNCHANGED <<log, busy, con, cphase, entered, excused>>, OrderKept,
           f.kind = "submit" => /\ cphase = "ready" /\ f.msg \in Typed
    PROVE  Line'
<1> DEFINE r == conn[con]
           s == conn'[con]
<1>0. /\ OthersKept(con) /\ con \in Conns /\ s.phase = r.phase /\ s.wait = r.wait
      /\ s.buf = r.buf /\ s.down = r.down /\ s.up = Append(r.up, f)
  BY DEF OwnKept, SameSession, SameBuffer
<1>1. /\ AnswerOK(r, Typed, Settled) /\ QueueOK(r, Due) /\ AllSent(r, cphase, OpenOnes)
      /\ r \in ConnRecords /\ r.up \in Seq(FrameRecords)
  BY <1>0, LineFacts, FlowTypes
<1> HIDE DEF r, s
<1>2. About(r.up, {"submit"}, Typed)
  BY <1>1 DEF AnswerOK
<1>3. About(s.up, {"submit"}, Typed)
  BY <1>0, <1>1, <1>2, AboutAppend
<1>4. AnswerOK(s, Typed, Settled)
  BY <1>0, <1>1, <1>3 DEF AnswerOK
<1>5. \A m, p : <<m, p>> \in Due => m \in OpenOnes
  BY DEF Due
<1>6. f.kind = "submit" /\ r.phase = "live" =>
          \A m \in Msgs : <<m, f.msg>> \in Due => r.wait = m \/ Asked(r.up, m)
  BY <1>1, <1>5 DEF AllSent
<1>7. QueueOK(s, Due) /\ \A m : Asked(r.up, m) => Asked(s.up, m)
  BY <1>0, <1>1, <1>6, QueueWrite
<1>8. AllSent(s, cphase', OpenOnes)
  BY <1>0, <1>1, <1>7 DEF AllSent
<1> QED
  BY <1>0, <1>4, <1>7, <1>8, LineOwn DEF r, s

\* The client leaves its connection.
LEMMA LineLeave ==
    ASSUME TypeOK, Flow, Line, UNCHANGED <<log, busy, entered>>, excused \subseteq excused', OrderKept,
           con' = NoConn,
           \/ conn' = conn
           \/ con \in Conns /\ OthersKept(con) /\ conn'[con] = Left(conn[con])
    PROVE  Line'
<1>1. Settled \subseteq Settled'
  BY ExcusedIsSettled
<1>2. Due' \subseteq Due /\ \A m \in Msgs : <<m, NoMsg>> \notin Due
  BY <1>1, FewerOpen, LineTypes
<1>3. ASSUME NEW d \in Conns
      PROVE  /\ AnswerOK(conn'[d], Typed, Settled) /\ QueueOK(conn'[d], Due)
             /\ conn'[d].wait = conn[d].wait
  <2> DEFINE r == conn[d]
             s == conn'[d]
  <2>1. /\ AnswerOK(r, Typed, Settled) /\ QueueOK(r, Due) /\ r \in ConnRecords
        /\ LinkOK(r, Len(log), cur)
    BY LineFacts, FlowTypes, FlowFacts
  <2>2. s = r \/ s = Left(r)
    BY DEF OthersKept
  <2> HIDE DEF r, s
  <2>3. CASE s = r
    BY <2>1, <2>3 DEF r, s
  <2>4. CASE s = Left(r)
    <3>1. AnswerOK(s, Typed, Settled)
      BY <2>1, <2>4, AnswerEnds
    <3>2. CASE r.phase = "ended"
      <4>1. s = Free /\ r.wait = NoMsg
        BY <2>1, <2>4, <3>2, LeftFields DEF LinkOK
      <4>2. s.phase # "live" /\ s.wait = NoMsg
        BY <4>1, FreeType
      <4> QED
        BY <1>2, <3>1, <4>1, <4>2, QueueQuiet DEF r, s
    <3>3. CASE r.phase # "ended"
      <4>1. s.phase = r.phase /\ s.up = r.up /\ s.wait = r.wait
        BY <2>1, <2>4, <3>3, LeftFields
      <4>2. QueueOK(s, Due)
        BY <2>1, <4>1, QueueSame
      <4> QED
        BY <3>1, <4>1, <4>2 DEF r, s
    <3> QED
      BY <3>2, <3>3
  <2> QED
    BY <2>2, <2>3, <2>4
<1>4. \A d \in Conns : AnswerOK(conn'[d], Typed, Settled') /\ QueueOK(conn'[d], Due')
  BY <1>1, <1>2, <1>3, AnswerMore, QueueLess
<1>5. ASSUME busy.conn # NoConn
      PROVE  busy # NoCall /\ conn'[busy.conn].wait # NoMsg /\ log[busy.seq] = conn'[busy.conn].wait
  <2>1. busy # NoCall /\ conn[busy.conn].wait # NoMsg /\ log[busy.seq] = conn[busy.conn].wait
    BY <1>5 DEF Line, AnswerInv
  <2>2. busy.conn \in Conns
    BY <1>5 DEF TypeOK
  <2> QED
    BY <1>3, <2>1, <2>2
<1> QED
  BY <1>4, <1>5, LineKept DEF OrderKept

\* One element is taken out of a list.
Without(q, o, i) ==
    /\ Len(o) \in Nat /\ i \in 1..Len(o) /\ Len(q) = Len(o) - 1
    /\ \A j \in 1..(i - 1) : q[j] = o[j]
    /\ \A j \in i..(Len(o) - 1) : q[j] = o[j + 1]

LEMMA InLineRemove ==
    ASSUME NEW o, NEW q, NEW i, Without(q, o, i), NEW P, InLine(o, P), \A p : <<o[i], p>> \notin P
    PROVE  /\ InLine(q, P)
           /\ \A j \in 1..Len(q) : \E k \in 1..Len(o) : q[j] = o[k]
           /\ \A k \in 1..Len(o) : o[k] # o[i] => \E j \in 1..Len(q) : q[j] = o[k]
<1>0. /\ Len(o) \in Nat /\ i \in 1..Len(o) /\ Len(q) = Len(o) - 1
      /\ \A j \in 1..(i - 1) : q[j] = o[j]
      /\ \A j \in i..(Len(o) - 1) : q[j] = o[j + 1]
  BY DEF Without
<1>1. ASSUME NEW j \in 1..Len(q)
      PROVE  \/ j < i /\ j \in 1..Len(o) /\ q[j] = o[j]
             \/ j >= i /\ j + 1 \in 1..Len(o) /\ q[j] = o[j + 1]
  <2>1. CASE j < i
    <3>1. j \in 1..(i - 1) /\ j \in 1..Len(o)
      BY <1>0, <2>1
    <3> QED
      BY <1>0, <2>1, <3>1
  <2>2. CASE j >= i
    <3>1. j \in i..(Len(o) - 1) /\ j + 1 \in 1..Len(o)
      BY <1>0, <2>2
    <3> QED
      BY <1>0, <2>2, <3>1
  <2> QED
    BY <1>0, <2>1, <2>2
<1>2. ASSUME NEW k \in 1..Len(o), o[k] # o[i]
      PROVE  \/ k < i /\ k \in 1..Len(q) /\ q[k] = o[k]
             \/ k > i /\ k - 1 \in 1..Len(q) /\ q[k - 1] = o[k]
  <2>1. CASE k < i
    <3>1. k \in 1..(i - 1) /\ k \in 1..Len(q)
      BY <1>0, <2>1
    <3> QED
      BY <1>0, <2>1, <3>1
  <2>2. CASE k > i
    <3>1. k - 1 \in i..(Len(o) - 1) /\ k - 1 \in 1..Len(q) /\ (k - 1) + 1 = k
      BY <1>0, <2>2
    <3> QED
      BY <1>0, <2>2, <3>1
  <2>3. k # i
    BY <1>2
  <2> QED
    BY <1>0, <2>1, <2>2, <2>3
<1>3. ASSUME NEW k \in 1..Len(q), NEW m \in Msgs, <<m, q[k]>> \in P
      PROVE  \E j \in 1..(k - 1) : q[j] = m
  <2>1. PICK l \in 1..Len(o) : q[k] = o[l] /\ ((k < i /\ l = k) \/ (k >= i /\ l = k + 1))
    BY <1>1
  <2>2. PICK h \in 1..(l - 1) : o[h] = m
    BY <1>3, <2>1 DEF InLine
  <2>3. h \in 1..Len(o) /\ o[h] # o[i]
    BY <1>0, <1>3, <2>1, <2>2
  <2>4. \/ h < i /\ h \in 1..Len(q) /\ q[h] = o[h]
        \/ h > i /\ h - 1 \in 1..Len(q) /\ q[h - 1] = o[h]
    BY <1>2, <2>3
  <2>5. CASE h < i /\ h \in 1..Len(q) /\ q[h] = o[h]
    <3>1. h \in 1..(k - 1)
      BY <1>0, <2>1, <2>5
    <3> QED
      BY <2>2, <2>5, <3>1
  <2>6. CASE h > i /\ h - 1 \in 1..Len(q) /\ q[h - 1] = o[h]
    <3>1. h - 1 \in 1..(k - 1)
      BY <1>0, <2>1, <2>6
    <3> QED
      BY <2>2, <2>6, <3>1
  <2> QED
    BY <2>4, <2>5, <2>6
<1>4. InLine(q, P)
  BY <1>3 DEF InLine
<1>5. \A j \in 1..Len(q) : \E k \in 1..Len(o) : q[j] = o[k]
  BY <1>1
<1>6. \A k \in 1..Len(o) : o[k] # o[i] => \E j \in 1..Len(q) : q[j] = o[k]
  BY <1>2
<1> QED
  BY <1>4, <1>5, <1>6

\* An answer takes its submission off the list.
LEMMA LineReply == ASSUME TypeOK, Flow, Line, OnReply PROVE Line'
<1>1. PICK f \in Frames : Arrives(f) /\ f.kind \in {"reply", "error"} /\ order' = Settle(f.msg)
  BY DEF OnReply
<1>2. /\ conn' = [conn EXCEPT ![con] = Taken] /\ UNCHANGED <<con, cphase, entered, excused, log, busy>>
  BY DEF OnReply, Take, roomVars
<1>3. f.msg # NoMsg => f.msg \in Settled
  <2>1. /\ con \in Conns /\ conn[con].down \in Seq(FrameRecords) /\ conn[con].down # <<>>
        /\ f = Head(conn[con].down)
    BY <1>1, TakenFields
  <2>2. About(conn[con].down, {"reply", "error"}, Settled)
    BY <2>1, LineFacts DEF AnswerOK
  <2>3. Head(conn[con].down).kind \in {"reply", "error"} /\ Head(conn[con].down).msg # NoMsg =>
            Head(conn[con].down).msg \in Settled
    BY <2>1, <2>2, AboutTail, Zenon
  <2> QED
    BY <1>1, <2>1, <2>3
<1>4. OpenOnes' = OpenOnes /\ Due' = Due
  BY <1>2, SameNames
<1>5. /\ \A i \in 1..Len(order) : order[i] \in Typed
      /\ \A m \in OpenOnes : \E j \in 1..Len(order) : order[j] = m
      /\ InLine(order, Due)
  BY DEF Line, AnswerInv, OrderInv
<1>6. OrderKept
  <2>1. CASE order' = order
    BY <1>2, <2>1, OrderSame
  <2>2. CASE order' # order
    <3> DEFINE q == Settle(f.msg)
    <3>1. PICK i \in 1..Len(order) :
                /\ order[i] = f.msg /\ Len(q) = Len(order) - 1
                /\ \A j \in 1..(i - 1) : q[j] = order[j]
                /\ \A j \in i..(Len(order) - 1) : q[j] = order[j + 1]
      BY <1>1, <2>2, SettleFacts
    <3>2. order' = q /\ Len(order) \in Nat
      BY <1>1, LenProperties DEF TypeOK
    <3> HIDE DEF q
    <3>3. order[i] \in Msgs
      BY <1>5, LineTypes
    <3>4. order[i] \notin OpenOnes /\ \A p : <<order[i], p>> \notin Due
      BY <1>3, <3>1, <3>3, LineTypes, SettledNotDue
    <3>5. /\ InLine(q, Due)
          /\ \A j \in 1..Len(q) : \E k \in 1..Len(order) : q[j] = order[k]
          /\ \A k \in 1..Len(order) : order[k] # order[i] => \E j \in 1..Len(q) : q[j] = order[k]
      <4>1. Without(q, order, i)
        BY <3>1, <3>2 DEF Without
      <4>2. InLine(order, Due) /\ \A p : <<order[i], p>> \notin Due
        BY <1>5, <3>4
      <4> QED
        BY <4>1, <4>2, InLineRemove
    <3>6. \A j \in 1..Len(q) : q[j] \in Typed
      BY <1>5, <3>5
    <3>7. \A m \in OpenOnes : \E j \in 1..Len(q) : q[j] = m
      BY <1>5, <3>4, <3>5
    <3> QED
      BY <1>4, <3>2, <3>5, <3>6, <3>7 DEF OrderKept
  <2> QED
    BY <2>1, <2>2
<1> QED
  BY <1>1, <1>2, <1>6, LineTake

\* A ready session sends again all that is not answered, in its order.
LEMMA LineSnapshotRead == ASSUME TypeOK, Flow, Line, OnSnapshot PROVE Line'
<1> DEFINE r == conn[con]
           s == conn'[con]
           u == Resend
<1>1. PICK f : /\ Arrives(f) /\ f.kind = "snapshot" /\ f = Head(r.down) /\ r.down # <<>>
               /\ OwnKept /\ s.down = Tail(r.down)
               /\ s.up = IF cphase = "ready" THEN r.up ELSE r.up \o Resend
  BY SnapshotTaken
<1>2. /\ cphase' = "ready" /\ UNCHANGED <<con, log, busy, entered, excused, order>>
  BY DEF OnSnapshot, roomVars, sentVars
<1>3. /\ con \in Conns /\ OthersKept(con) /\ s.phase = r.phase /\ s.wait = r.wait /\ s.buf = r.buf
      /\ SameBuffer(s, r) /\ s.fence = r.fence
  BY <1>1 DEF OwnKept, SameSession, SameBuffer
<1>4. /\ r \in ConnRecords /\ r.down \in Seq(FrameRecords) /\ ClientOK(r)
      /\ AnswerOK(r, Typed, Settled) /\ QueueOK(r, Due)
  BY <1>3, FlowTypes, FlowFacts, LineFacts
<1>5. /\ u \in Seq(FrameRecords) /\ Len(u) = Len(order)
      /\ \A i \in 1..Len(order) : u[i].kind = "submit" /\ u[i].msg = order[i]
  BY ResendFacts
<1>a. s.up = IF cphase = "ready" THEN r.up ELSE r.up \o u
  BY <1>1
<1> HIDE DEF r, s, u
<1>6. cphase # "ready"
  BY <1>1, <1>3, <1>4, DeltaTakeSnapshot DEF ClientOK
<1>7. s.up = u
  <2>1. r.up = <<>>
    BY <1>4, <1>6 DEF ClientOK, OwnOK
  <2>2. <<>> \o u = u
    BY <1>5, ConcatEmptySeq
  <2> QED
    BY <1>6, <1>a, <2>1, <2>2
<1>8. /\ \A i \in 1..Len(order) : order[i] \in Typed
      /\ \A m \in OpenOnes : \E j \in 1..Len(order) : order[j] = m
      /\ InLine(order, Due)
  BY DEF Line, AnswerInv, OrderInv
<1>9. AnswerOK(s, Typed, Settled)
  <2>1. About(r.down, {"reply", "error"}, Settled)
    BY <1>4 DEF AnswerOK
  <2>2. About(s.down, {"reply", "error"}, Settled)
    BY <1>1, <1>4, <2>1, AboutTail DEF s, r
  <2>3. About(u, {"submit"}, Typed)
    BY <1>5, <1>8 DEF About
  <2> QED
    BY <1>3, <1>4, <1>7, <2>2, <2>3 DEF AnswerOK
<1>10. QueueOK(s, Due)
  <2>1. ASSUME NEW k \in 1..Len(u), NEW m \in Msgs, <<m, u[k].msg>> \in Due
        PROVE  \E j \in 1..(k - 1) : u[j].kind = "submit" /\ u[j].msg = m
    <3>1. k \in 1..Len(order) /\ u[k].msg = order[k] /\ Len(order) \in Nat
      BY <1>5, ResendFacts
    <3>2. PICK j \in 1..(k - 1) : order[j] = m
      BY <1>8, <2>1, <3>1 DEF InLine
    <3>3. j \in 1..Len(order)
      BY <3>1
    <3> QED
      BY <1>5, <3>2, <3>3
  <2>2. s.phase = "live" => \A m \in Msgs : <<m, s.wait>> \notin Due
    BY <1>3, <1>4 DEF QueueOK
  <2> QED
    BY <1>7, <2>1, <2>2 DEF QueueOK
<1>11. AllSent(s, cphase', OpenOnes)
  <2>1. ASSUME NEW m \in OpenOnes PROVE Asked(u, m)
    BY <1>5, <1>8 DEF Asked
  <2> QED
    BY <1>7, <2>1 DEF AllSent
<1> QED
  BY <1>2, <1>3, <1>9, <1>10, <1>11, OrderSame, LineOwn DEF r, s

LEMMA LineReceive == ASSUME TypeOK, Flow, Line, Receive PROVE Line'
<1> USE DEF roomVars, sentVars
<1>t. \A f : Arrives(f) => con \in Conns /\ con # NoConn
  <2>1. ASSUME NEW f, Arrives(f) PROVE con \in Conns /\ con # NoConn
    BY <2>1, TakenFields DEF Arrives
  <2> QED
    BY <2>1
<1>l. ASSUME con # NoConn, Leave, UNCHANGED <<log, busy, entered, excused, order>> PROVE Line'
  <2>1. conn' = [conn EXCEPT ![con] = Left(conn[con])] /\ con' = NoConn
    BY <1>l DEF Leave
  <2> QED
    BY <1>l, <2>1, LeaveConn, OrderSame, LineLeave
<1>1. ASSUME OnWelcome PROVE Line'
  <2>1. PICK f : Arrives(f)
    BY <1>1 DEF OnWelcome
  <2>2. UNCHANGED <<log, busy, entered, excused, order>>
    BY <1>1 DEF OnWelcome
  <2>3. CASE probe
    BY <1>1, <1>t, <1>l, <2>1, <2>2, <2>3 DEF OnWelcome
  <2>4. CASE ~probe
    <3>1. conn' = [conn EXCEPT ![con] = Taken] /\ con' = con /\ cphase' = "replay"
      BY <1>1, <2>4 DEF OnWelcome
    <3> QED
      BY <2>1, <2>2, <3>1, OrderSame, LineTake
  <2> QED
    BY <2>3, <2>4
<1>2. ASSUME OnBadHello PROVE Line'
  BY <1>2, <1>t, <1>l DEF OnBadHello
<1>3. ASSUME OnOldEvent \/ Render PROVE Line'
  <2>1. PICK f : Arrives(f)
    BY <1>3 DEF OnOldEvent, Render
  <2>2. /\ conn' = [conn EXCEPT ![con] = Taken] /\ UNCHANGED <<con, cphase, log, busy, entered, excused, order>>
    BY <1>3 DEF OnOldEvent, Render, Take
  <2> QED
    BY <2>1, <2>2, OrderSame, LineTake
<1>4. ASSUME SaveCursor PROVE Line'
  <2>1. applying # 0 /\ UNCHANGED <<con, cphase, log, busy, entered, excused, order>>
    BY <1>4 DEF SaveCursor
  <2>2. con # NoConn /\ applying \in Nat
    BY <2>1 DEF Flow, CursorInv, TypeOK
  <2>3. /\ OwnKept /\ conn'[con].down = conn[con].down
        /\ conn'[con].up = IF cphase = "ready" THEN Append(conn[con].up, AckFrame(applying))
                           ELSE conn[con].up
    BY <1>4, <2>2, SaveStep
  <2>4. AckFrame(applying) \in FrameRecords /\ AckFrame(applying).kind = "ack"
    BY <2>2, FrameType DEF AckFrame, Kinds
  <2>5. CASE cphase = "ready"
    BY <2>1, <2>3, <2>4, <2>5, OrderSame, LineWrite
  <2>6. CASE cphase # "ready"
    <3> DEFINE r == conn[con]
               s == conn'[con]
    <3>1. /\ con \in Conns /\ OthersKept(con) /\ s.phase = r.phase /\ s.wait = r.wait
          /\ s.buf = r.buf /\ s.down = r.down /\ s.up = r.up
      BY <2>3, <2>6 DEF OwnKept, SameSession, SameBuffer
    <3>2. AnswerOK(r, Typed, Settled) /\ QueueOK(r, Due) /\ AllSent(r, cphase, OpenOnes)
      BY <3>1, LineFacts
    <3> HIDE DEF r, s
    <3>3. AnswerOK(s, Typed, Settled) /\ QueueOK(s, Due) /\ AllSent(s, cphase, OpenOnes)
      BY <3>1, <3>2, QueueSame DEF AnswerOK, AllSent
    <3> QED
      BY <2>1, <3>1, <3>3, OrderSame, LineOwn DEF r, s
  <2> QED
    BY <2>5, <2>6
<1>5. ASSUME OnDelta PROVE Line'
  <2>1. PICK f : Arrives(f) /\ IF cphase = "ready" THEN Take ELSE Leave
    BY <1>5 DEF OnDelta
  <2>2. UNCHANGED <<log, busy, entered, excused, order>>
    BY <1>5 DEF OnDelta
  <2>3. CASE cphase = "ready"
    <3>1. conn' = [conn EXCEPT ![con] = Taken] /\ UNCHANGED <<con, cphase>>
      BY <2>1, <2>3 DEF Take
    <3> QED
      BY <2>1, <2>2, <3>1, OrderSame, LineTake
  <2>4. CASE cphase # "ready"
    BY <1>t, <1>l, <2>1, <2>2, <2>4
  <2> QED
    BY <2>3, <2>4
<1>6. ASSUME OnEOF PROVE Line'
  BY <1>6, <1>l DEF OnEOF
<1> QED
  BY <1>1, <1>2, <1>3, <1>4, <1>5, <1>6, LineReply, LineSnapshotRead DEF Receive

\* A line is typed: it is open, and comes last.
LEMMA EnterNames ==
    ASSUME TypeOK, NEW m \in Msgs, m \notin Typed, entered' = Append(entered, m),
           UNCHANGED <<log, excused>>
    PROVE  /\ Typed' = Typed \cup {m} /\ Settled' = Settled /\ OpenOnes' \subseteq OpenOnes \cup {m}
           /\ \A a, p : <<a, p>> \in Due' =>
                 \/ p \in Typed /\ <<a, p>> \in Due
                 \/ p = m /\ a \in OpenOnes
           /\ \A a, p : Before(a, p) => Before(a, p)'
<1>0. entered \in Seq(Msgs)
  BY DEF TypeOK
<1>1. /\ Len(entered) \in Nat /\ Len(entered') = Len(entered) + 1 /\ entered'[Len(entered) + 1] = m
      /\ \A i \in 1..Len(entered) : entered'[i] = entered[i]
  BY <1>0, AppendType
<1>2. \A i \in 1..Len(entered') : i \in 1..Len(entered) \/ i = Len(entered) + 1
  BY <1>1
<1>3. (\A i \in 1..Len(entered) : i \in 1..Len(entered')) /\ Len(entered) + 1 \in 1..Len(entered')
  BY <1>1
<1>4. Typed' = Typed \cup {m}
  <2>1. ASSUME NEW x \in Typed' PROVE x \in Typed \cup {m}
    BY <1>1, <1>2 DEF Typed
  <2>2. ASSUME NEW x \in Typed PROVE x \in Typed'
    BY <1>1, <1>3 DEF Typed
  <2>3. m \in Typed'
    BY <1>1, <1>3 DEF Typed
  <2> QED
    BY <2>1, <2>2, <2>3
<1>5. Settled' = Settled
  BY DEF Settled
<1>6. OpenOnes' \subseteq OpenOnes \cup {m}
  BY <1>4, <1>5 DEF OpenOnes
<1>7. ASSUME NEW a, NEW p, <<a, p>> \in Due'
      PROVE  (p \in Typed /\ <<a, p>> \in Due) \/ (p = m /\ a \in OpenOnes)
  <2>1. PICK i \in 1..Len(entered'), j \in 1..Len(entered') :
             i < j /\ entered'[i] = a /\ entered'[j] = p
    BY <1>7 DEF Due, Before
  <2>2. i \in 1..Len(entered) /\ entered[i] = a
    BY <1>1, <2>1
  <2>3. a \in Typed /\ a # m
    BY <2>2 DEF Typed
  <2>4. a \in OpenOnes'
    BY <1>7 DEF Due
  <2>5. a \in OpenOnes
    BY <1>6, <2>3, <2>4
  <2>6. CASE j = Len(entered) + 1
    BY <1>1, <2>1, <2>5, <2>6
  <2>7. CASE j \in 1..Len(entered)
    <3>1. entered[j] = p
      BY <1>1, <2>1, <2>7
    <3>2. Before(a, p) /\ p \in Typed
      BY <2>1, <2>2, <2>7, <3>1 DEF Before, Typed
    <3>3. <<a, p>> \in Msgs \X Msgs
      BY <1>7 DEF Due
    <3> QED
      BY <2>5, <3>2, <3>3 DEF Due
  <2> QED
    BY <1>2, <2>6, <2>7
<1>8. ASSUME NEW a, NEW p, Before(a, p) PROVE Before(a, p)'
  <2>1. PICK i \in 1..Len(entered), j \in 1..Len(entered) : i < j /\ entered[i] = a /\ entered[j] = p
    BY <1>8 DEF Before
  <2>2. /\ i \in 1..Len(entered') /\ j \in 1..Len(entered') /\ entered'[i] = a /\ entered'[j] = p
    BY <1>1, <1>3, <2>1
  <2> QED
    BY <2>1, <2>2 DEF Before
<1> QED
  BY <1>4, <1>5, <1>6, <1>7, <1>8

\* One more at the end of the list.
LEMMA InLineAppend ==
    ASSUME NEW o \in Seq(Msgs), NEW m \in Msgs, NEW P, InLine(o, P),
           \A a \in Msgs : <<a, m>> \in P => \E j \in 1..Len(o) : o[j] = a
    PROVE  /\ InLine(Append(o, m), P)
           /\ \A a : (\E j \in 1..Len(o) : o[j] = a) => \E j \in 1..Len(Append(o, m)) : Append(o, m)[j] = a
           /\ \E j \in 1..Len(Append(o, m)) : Append(o, m)[j] = m
           /\ \A j \in 1..Len(Append(o, m)) : Append(o, m)[j] = m \/ \E k \in 1..Len(o) : Append(o, m)[j] = o[k]
<1> DEFINE t == Append(o, m)
<1>1. /\ Len(o) \in Nat /\ Len(t) = Len(o) + 1 /\ t[Len(o) + 1] = m /\ \A i \in 1..Len(o) : t[i] = o[i]
  BY AppendType
<1> HIDE DEF t
<1>2. /\ \A i \in 1..Len(t) : i \in 1..Len(o) \/ i = Len(o) + 1
      /\ \A i \in 1..Len(o) : i \in 1..Len(t) /\ Len(o) + 1 \in 1..Len(t)
      /\ Len(o) + 1 \in 1..Len(t)
  BY <1>1
<1>3. ASSUME NEW k \in 1..Len(t), NEW a \in Msgs, <<a, t[k]>> \in P PROVE \E j \in 1..(k - 1) : t[j] = a
  <2>1. CASE k \in 1..Len(o)
    <3>1. PICK j \in 1..(k - 1) : o[j] = a
      BY <1>1, <1>3, <2>1 DEF InLine
    <3>2. j \in 1..Len(o)
      BY <1>1, <2>1
    <3> QED
      BY <1>1, <3>1, <3>2
  <2>2. CASE k = Len(o) + 1
    <3>1. PICK j \in 1..Len(o) : o[j] = a
      BY <1>1, <1>3, <2>2
    <3>2. j \in 1..(k - 1)
      BY <1>1, <2>2
    <3> QED
      BY <1>1, <3>1, <3>2
  <2> QED
    BY <1>2, <2>1, <2>2
<1>4. InLine(t, P)
  BY <1>3 DEF InLine
<1>5. \A a : (\E j \in 1..Len(o) : o[j] = a) => \E j \in 1..Len(t) : t[j] = a
  BY <1>1, <1>2
<1>6. \E j \in 1..Len(t) : t[j] = m
  BY <1>1, <1>2
<1>7. \A j \in 1..Len(t) : t[j] = m \/ \E k \in 1..Len(o) : t[j] = o[k]
  BY <1>1, <1>2
<1> QED
  BY <1>4, <1>5, <1>6, <1>7 DEF t

LEMMA LineEnter == ASSUME TypeOK, Flow, Line, NEW m \in Msgs, Enter(m) PROVE Line'
<1>1. /\ cphase = "ready" /\ entered' = Append(entered, m) /\ order' = Append(order, m)
      /\ UNCHANGED <<log, busy, con, cphase, excused>>
      /\ \A i \in 1..Len(entered) : entered[i] # m
  BY DEF Enter, roomVars
<1>2. m \notin Typed
  BY <1>1 DEF Typed
<1>3. /\ Typed' = Typed \cup {m} /\ Settled' = Settled /\ OpenOnes' \subseteq OpenOnes \cup {m}
      /\ \A a, p : <<a, p>> \in Due' =>
            \/ p \in Typed /\ <<a, p>> \in Due
            \/ p = m /\ a \in OpenOnes
      /\ \A a, p : Before(a, p) => Before(a, p)'
  BY <1>1, <1>2, EnterNames
<1>4. /\ \A i, j \in 1..Len(entered) : entered[i] = entered[j] => i = j
      /\ \A i \in 1..Len(order) : order[i] \in Typed
      /\ \A a \in OpenOnes : \E j \in 1..Len(order) : order[j] = a
      /\ \A i \in 1..Len(log) : log[i] # NoMsg => log[i] \in Typed
      /\ InLine(order, Due)
      /\ \A i \in 1..Len(log) : \A a \in Msgs : <<a, log[i]>> \notin Due
      /\ \A i, j \in 1..Len(log) :
            i < j /\ log[i] # NoMsg /\ log[j] # NoMsg /\ log[j] \notin excused => Before(log[i], log[j])
  BY DEF Line, AnswerInv, OrderInv
<1>5. /\ order \in Seq(Msgs) /\ entered \in Seq(Msgs) /\ NoMsg \notin Msgs /\ Typed \subseteq Msgs
      /\ m # NoMsg /\ con \in Conns
  BY <1>1, LineTypes, DeliveryAssumption DEF TypeOK
<1>6. \A a \in Msgs : <<a, NoMsg>> \notin Due'
  BY <1>3, <1>5
<1>7. InLine(order, Due')
  <2>1. \A k \in 1..Len(order) : order[k] \in Typed /\ order[k] # m
    BY <1>2, <1>4
  <2> QED
    BY <1>3, <1>4, <2>1 DEF InLine
<1>8. \A a \in Msgs : <<a, m>> \in Due' => a \in OpenOnes
  BY <1>2, <1>3
<1>9. /\ InLine(order', Due')
      /\ \A a : (\E j \in 1..Len(order) : order[j] = a) => \E j \in 1..Len(order') : order'[j] = a
      /\ \E j \in 1..Len(order') : order'[j] = m
      /\ \A j \in 1..Len(order') : order'[j] = m \/ \E k \in 1..Len(order) : order'[j] = order[k]
  <2>1. \A a \in Msgs : <<a, m>> \in Due' => \E j \in 1..Len(order) : order[j] = a
    BY <1>4, <1>8
  <2>2. PICK P : P = Due'
    OBVIOUS
  <2>3. InLine(order, P) /\ \A a \in Msgs : <<a, m>> \in P => \E j \in 1..Len(order) : order[j] = a
    BY <1>7, <2>1, <2>2
  <2>4. /\ InLine(order', P)
        /\ \A a : (\E j \in 1..Len(order) : order[j] = a) => \E j \in 1..Len(order') : order'[j] = a
        /\ \E j \in 1..Len(order') : order'[j] = m
        /\ \A j \in 1..Len(order') : order'[j] = m \/ \E k \in 1..Len(order) : order'[j] = order[k]
    <3>1. PICK o : o = order
      OBVIOUS
    <3>2. o \in Seq(Msgs) /\ m \in Msgs /\ order' = Append(o, m)
      BY <1>1, <1>5, <3>1
    <3>3. InLine(o, P) /\ \A a \in Msgs : <<a, m>> \in P => \E j \in 1..Len(o) : o[j] = a
      BY <2>3, <3>1
    <3>4. /\ InLine(order', P)
          /\ \A a : (\E j \in 1..Len(o) : o[j] = a) => \E j \in 1..Len(order') : order'[j] = a
          /\ \E j \in 1..Len(order') : order'[j] = m
          /\ \A j \in 1..Len(order') : order'[j] = m \/ \E k \in 1..Len(o) : order'[j] = o[k]
      BY <3>2, <3>3, InLineAppend, SMTT(20)
    <3> QED
      BY <3>1, <3>4
  <2> QED
    BY <2>2, <2>4
<1>10. /\ OwnKept /\ conn'[con].down = conn[con].down /\ SubmitFrame(m) \in FrameRecords
       /\ conn'[con].up = Append(conn[con].up, SubmitFrame(m))
       /\ SubmitFrame(m).kind = "submit" /\ SubmitFrame(m).msg = m
  BY SubmitWritten, FrameType DEF SubmitFrame, Kinds
<1>11. ASSUME NEW c \in Conns
       PROVE  /\ AnswerOK(conn[c], Typed', Settled') /\ QueueOK(conn[c], Due')
  <2>1. /\ AnswerOK(conn[c], Typed, Settled) /\ QueueOK(conn[c], Due) /\ conn[c] \in ConnRecords
    BY LineFacts, FlowTypes
  <2>2. Typed \subseteq Typed' /\ Settled \subseteq Settled'
    BY <1>3
  <2>3. AnswerOK(conn[c], Typed', Settled')
    BY <2>1, <2>2, AnswerMore
  <2>4. \A a \in Msgs : \A p \in Typed : <<a, p>> \in Due' => <<a, p>> \in Due
    BY <1>2, <1>3
  <2>5. QueueOK(conn[c], Due')
    BY <1>6, <2>1, <2>4, QueueMore
  <2> QED
    BY <2>3, <2>5
<1>12. /\ AnswerOK(conn'[con], Typed', Settled') /\ QueueOK(conn'[con], Due')
       /\ AllSent(conn'[con], cphase, OpenOnes') /\ conn'[con].wait = conn[con].wait
       /\ OthersKept(con)
  <2> DEFINE r == conn[con]
             s == conn'[con]
             f == SubmitFrame(m)
  <2>1. /\ r \in ConnRecords /\ r.up \in Seq(FrameRecords)
        /\ AnswerOK(r, Typed', Settled') /\ QueueOK(r, Due') /\ AllSent(r, cphase, OpenOnes)
    BY <1>5, <1>11, FlowTypes, LineFacts
  <2>2. /\ OthersKept(con) /\ s.phase = r.phase /\ s.wait = r.wait /\ s.buf = r.buf
        /\ s.down = r.down /\ s.up = Append(r.up, f) /\ f \in FrameRecords
        /\ f.kind = "submit" /\ f.msg = m
    BY <1>10 DEF OwnKept, SameSession, SameBuffer
  <2> HIDE DEF r, s, f
  <2>3. About(r.up, {"submit"}, Typed') /\ m \in Typed'
    BY <1>3, <2>1 DEF AnswerOK
  <2>4. About(s.up, {"submit"}, Typed')
    BY <2>1, <2>2, <2>3, AboutAppend
  <2>5. AnswerOK(s, Typed', Settled')
    BY <2>1, <2>2, <2>4 DEF AnswerOK
  <2>6. r.phase = "live" => \A a \in Msgs : <<a, f.msg>> \in Due' => r.wait = a \/ Asked(r.up, a)
    BY <1>1, <1>8, <2>1, <2>2 DEF AllSent
  <2>7. QueueOK(s, Due') /\ (\A a : Asked(r.up, a) => Asked(s.up, a)) /\ Asked(s.up, m)
    BY <2>1, <2>2, <2>6, QueueWrite
  <2>8. AllSent(s, cphase, OpenOnes')
    BY <1>3, <2>1, <2>2, <2>7 DEF AllSent
  <2> QED
    BY <2>2, <2>5, <2>7, <2>8 DEF r, s
<1>13. \A c \in Conns : AnswerOK(conn'[c], Typed', Settled') /\ QueueOK(conn'[c], Due')
  BY <1>11, <1>12 DEF OthersKept
<1>14. AnswerInv'
  <2>1. (\A i, j \in 1..Len(entered) : entered[i] = entered[j] => i = j)'
    <3>1. /\ Len(entered) \in Nat /\ Len(entered') = Len(entered) + 1 /\ entered'[Len(entered) + 1] = m
          /\ \A i \in 1..Len(entered) : entered'[i] = entered[i]
      BY <1>1, <1>5, AppendType
    <3>2. \A i \in 1..Len(entered') : i \in 1..Len(entered) \/ i = Len(entered) + 1
      BY <3>1
    <3> QED
      BY <1>1, <1>4, <3>1, <3>2
  <2>2. (\A i \in 1..Len(order) : order[i] \in Typed)'
    BY <1>3, <1>4, <1>9
  <2>3. (\A a \in OpenOnes : \E j \in 1..Len(order) : order[j] = a)'
    BY <1>3, <1>4, <1>9
  <2>4. (\A i \in 1..Len(log) : log[i] # NoMsg => log[i] \in Typed)'
    BY <1>1, <1>3, <1>4
  <2>5. (busy.conn # NoConn => /\ busy # NoCall /\ conn[busy.conn].wait # NoMsg
                               /\ log[busy.seq] = conn[busy.conn].wait)'
    <3>1. busy.conn # NoConn => /\ busy # NoCall /\ conn[busy.conn].wait # NoMsg
                                /\ log[busy.seq] = conn[busy.conn].wait
      BY DEF Line, AnswerInv
    <3>2. busy.conn # NoConn => busy.conn \in Conns
      BY DEF TypeOK
    <3>3. busy.conn # NoConn => conn'[busy.conn].wait = conn[busy.conn].wait
      BY <1>12, <3>2 DEF OthersKept
    <3> QED
      BY <1>1, <3>1, <3>3
  <2>6. (\A c \in Conns : AnswerOK(conn[c], Typed, Settled))'
    BY <1>13
  <2> QED
    BY <2>1, <2>2, <2>3, <2>4, <2>5, <2>6 DEF AnswerInv
<1>15. OrderInv'
  <2>1. (\A i \in 1..Len(log) : \A a \in Msgs : <<a, log[i]>> \notin Due)'
    <3>1. ASSUME NEW i \in 1..Len(log), NEW a \in Msgs PROVE <<a, log[i]>> \notin Due'
      <4>1. CASE log[i] = NoMsg
        BY <1>6, <4>1
      <4>2. CASE log[i] # NoMsg
        <5>1. log[i] \in Typed /\ log[i] # m /\ <<a, log[i]>> \notin Due
          BY <1>2, <1>4, <4>2
        <5> QED
          BY <1>3, <5>1
      <4> QED
        BY <4>1, <4>2
    <3> QED
      BY <1>1, <3>1
  <2>2. (\A i, j \in 1..Len(log) :
            i < j /\ log[i] # NoMsg /\ log[j] # NoMsg /\ log[j] \notin excused => Before(log[i], log[j]))'
    <3>1. \A a, p : Before(a, p) => \E i, j \in 1..Len(entered') : i < j /\ entered'[i] = a /\ entered'[j] = p
      BY <1>3 DEF Before
    <3>2. ASSUME NEW i \in 1..Len(log), NEW j \in 1..Len(log), i < j, log[i] # NoMsg, log[j] # NoMsg,
                 log[j] \notin excused
          PROVE  \E a, b \in 1..Len(entered') : a < b /\ entered'[a] = log[i] /\ entered'[b] = log[j]
      <4>1. Before(log[i], log[j])
        BY <1>4, <3>2
      <4> QED
        BY <3>1, <4>1
    <3> QED
      BY <1>1, <3>2 DEF Before
  <2>3. (con # NoConn => AllSent(conn[con], cphase, OpenOnes))'
    BY <1>1, <1>12
  <2>4. (\A c \in Conns : QueueOK(conn[c], Due))'
    BY <1>13
  <2>5. InLine(order, Due)'
    BY <1>9
  <2> QED
    BY <2>1, <2>2, <2>3, <2>4, <2>5 DEF OrderInv
<1> QED
  BY <1>14, <1>15 DEF Line

LEMMA LineAgain == ASSUME TypeOK, Flow, Line, NEW m \in Msgs, SubmitAgain(m) PROVE Line'
<1>1. /\ cphase = "ready" /\ UNCHANGED <<log, busy, con, cphase, entered, excused>>
      /\ m \in Typed
      /\ order' = order \/ order' = Append(order, m)
  BY DEF SubmitAgain, Typed, roomVars
<1>2. OpenOnes' = OpenOnes /\ Due' = Due
  BY <1>1, SameNames
<1>3. /\ \A i \in 1..Len(order) : order[i] \in Typed
      /\ \A a \in OpenOnes : \E j \in 1..Len(order) : order[j] = a
      /\ InLine(order, Due) /\ order \in Seq(Msgs)
  BY DEF Line, AnswerInv, OrderInv, TypeOK
<1>4. OrderKept
  <2>1. CASE order' = order
    BY <1>1, <2>1, OrderSame
  <2>2. CASE order' = Append(order, m)
    <3>1. \A a \in Msgs : <<a, m>> \in Due => \E j \in 1..Len(order) : order[j] = a
      BY <1>3 DEF Due
    <3>2. /\ InLine(order', Due)
          /\ \A a : (\E j \in 1..Len(order) : order[j] = a) => \E j \in 1..Len(order') : order'[j] = a
          /\ \A j \in 1..Len(order') : order'[j] = m \/ \E k \in 1..Len(order) : order'[j] = order[k]
      BY <1>3, <2>2, <3>1, InLineAppend
    <3> QED
      BY <1>1, <1>2, <1>3, <3>2 DEF OrderKept
  <2> QED
    BY <1>1, <2>1, <2>2
<1>5. /\ OwnKept /\ conn'[con].down = conn[con].down /\ SubmitFrame(m) \in FrameRecords
      /\ conn'[con].up = Append(conn[con].up, SubmitFrame(m))
      /\ SubmitFrame(m).kind = "submit" /\ SubmitFrame(m).msg = m
  BY SubmitWritten, FrameType DEF SubmitFrame, Kinds
<1> QED
  BY <1>1, <1>4, <1>5, LineWrite

LEMMA LineDial == ASSUME TypeOK, Flow, Line, NEW c \in Conns, Dial(c) PROVE Line'
<1>1. /\ OthersKept(c) /\ con' = c /\ cphase' = "hello" /\ conn[c].phase = "free"
      /\ UNCHANGED <<log, busy, entered, excused, order>>
      /\ conn'[c].phase = "hello" /\ conn'[c].buf = <<>> /\ conn'[c].down = <<>>
      /\ conn'[c].up = <<>> /\ conn'[c].wait = NoMsg
  BY DialStep DEF roomVars, sentVars
<1>2. AnswerOK(conn'[c], Typed, Settled) /\ QueueOK(conn'[c], Due)
  BY <1>1, AboutEmpty, LineTypes, QueueQuiet DEF AnswerOK
<1>3. ASSUME NEW d \in Conns PROVE AnswerOK(conn'[d], Typed, Settled) /\ QueueOK(conn'[d], Due)
  <2>1. CASE d = c
    BY <1>2, <2>1
  <2>2. CASE d # c
    BY <1>1, <2>2, LineFacts DEF OthersKept
  <2> QED
    BY <2>1, <2>2
<1>4. ASSUME busy.conn # NoConn
      PROVE  busy # NoCall /\ conn'[busy.conn].wait # NoMsg /\ log[busy.seq] = conn'[busy.conn].wait
  <2>1. busy # NoCall /\ conn[busy.conn].wait # NoMsg /\ log[busy.seq] = conn[busy.conn].wait
    BY <1>4 DEF Line, AnswerInv
  <2>2. busy.conn \in Conns
    BY <1>4 DEF TypeOK
  <2>3. conn[c].wait = NoMsg
    BY <1>1, FlowFacts DEF LinkOK
  <2>4. conn'[busy.conn].wait = conn[busy.conn].wait
    BY <1>1, <2>1, <2>2, <2>3 DEF OthersKept
  <2> QED
    BY <2>1, <2>4
<1>5. AllSent(conn'[con'], cphase', OpenOnes)
  BY <1>1 DEF AllSent
<1> QED
  BY <1>1, <1>3, <1>4, <1>5, LineConns

\* A client that dies leaves nothing open.
LEMMA LineClientCrash == ASSUME TypeOK, Flow, Line, ClientCrash PROVE Line'
<1>1. /\ con' = NoConn /\ order' = <<>> /\ UNCHANGED <<log, busy, entered>>
      /\ excused' = excused \cup {order[i] : i \in 1..Len(order)}
      /\ conn' = IF con = NoConn THEN conn ELSE [conn EXCEPT ![con] = Left(conn[con])]
  BY DEF ClientCrash, roomVars
<1>2. Settled \subseteq Settled' /\ Settled' = Settled \cup excused' /\ excused \subseteq excused'
  BY <1>1, ExcusedIsSettled
<1>3. OpenOnes' \subseteq OpenOnes
  BY <1>1, <1>2, FewerOpen
<1>4. OpenOnes' = {}
  <2>1. ASSUME NEW m \in OpenOnes PROVE m \in Settled'
    <3>1. PICK j \in 1..Len(order) : order[j] = m
      BY DEF Line, AnswerInv
    <3> QED
      BY <1>1, <1>2, <3>1
  <2> QED
    BY <1>3, <2>1 DEF OpenOnes
<1>5. OrderKept
  BY <1>1, <1>4, EmptyLen DEF OrderKept, InLine
<1>6. \/ conn' = conn
      \/ con \in Conns /\ OthersKept(con) /\ conn'[con] = Left(conn[con])
  BY <1>1, LeaveConn
<1> QED
  BY <1>1, <1>2, <1>5, <1>6, LineLeave

LEMMA LineClient == ASSUME TypeOK, Flow, Line, Client PROVE Line'
<1>1. ASSUME ClientStart PROVE Line'
  <2>1. /\ cphase = "off" /\ UNCHANGED <<log, busy, conn, con, entered, excused, order>>
    BY <1>1 DEF ClientStart, roomVars, sentVars
  <2>2. con' = NoConn
    BY <2>1 DEF TypeOK
  <2> QED
    BY <2>1, <2>2, OrderSame, LineLeave
<1>2. ASSUME ConnectionLost PROVE Line'
  <2>1. /\ con # NoConn /\ conn' = [conn EXCEPT ![con] = Left(conn[con])] /\ con' = NoConn
        /\ UNCHANGED <<log, busy, entered, excused, order>>
    BY <1>2 DEF ConnectionLost, Leave, roomVars, sentVars
  <2> QED
    BY <2>1, LeaveConn, OrderSame, LineLeave
<1>3. ASSUME QueueFull PROVE Line'
  <2>1. /\ cphase = "ready" /\ conn' = [conn EXCEPT ![con] = Left(conn[con])] /\ con' = NoConn
        /\ UNCHANGED <<log, busy, entered, excused, order>>
    BY <1>3 DEF QueueFull, Leave, roomVars, sentVars
  <2>2. con # NoConn
    BY <2>1 DEF TypeOK
  <2> QED
    BY <2>1, <2>2, LeaveConn, OrderSame, LineLeave
<1> QED
  BY <1>1, <1>2, <1>3, LineDial, LineClientCrash, LineEnter, LineAgain DEF Client

LEMMA LineInit == Init => Line
<1> SUFFICES ASSUME Init PROVE Line
  OBVIOUS
<1>1. /\ log = <<>> /\ entered = <<>> /\ order = <<>> /\ busy = NoCall /\ con = NoConn
      /\ \A c \in Conns : conn[c] = Free
  BY DEF Init
<1>2. Len(log) = 0 /\ Len(entered) = 0 /\ Len(order) = 0
  BY <1>1, EmptyLen
<1>3. Typed = {} /\ OpenOnes = {} /\ Due = {}
  BY <1>2 DEF Typed, OpenOnes, Due
<1>4. \A c \in Conns : AnswerOK(conn[c], Typed, Settled) /\ QueueOK(conn[c], Due)
  BY <1>1, <1>3, AnswerFree, QueueQuiet, FreeType
<1>5. AnswerInv
  BY <1>1, <1>2, <1>3, <1>4 DEF AnswerInv, NoCall
<1>6. OrderInv
  BY <1>1, <1>2, <1>4 DEF OrderInv, InLine
<1> QED
  BY <1>5, <1>6 DEF Line

LEMMA LineStep == ASSUME TypeOK, Flow, Line, [Next]_vars PROVE Line'
<1>1. CASE UNCHANGED vars
  <2>1. UNCHANGED <<log, busy, conn, con, cphase, entered, excused, order>>
    BY <1>1 DEF vars, roomVars, sentVars
  <2>2. \A c \in Conns : AnswerOK(conn[c], Typed, Settled) /\ QueueOK(conn[c], Due)
    BY LineFacts
  <2>3. /\ con # NoConn => AllSent(conn[con], cphase, OpenOnes)
        /\ busy.conn # NoConn => /\ busy # NoCall /\ conn[busy.conn].wait # NoMsg
                                 /\ log[busy.seq] = conn[busy.conn].wait
    BY DEF Line, AnswerInv, OrderInv
  <2> QED
    BY <2>1, <2>2, <2>3, LineConns
<1> QED
  BY <1>1, LineCoordinate, LineReceive, LineClient, LineSession DEF Next

\* The inductive invariant of requests and answers, along with the one of
\* the streams on which it rests.
LEMMA LineAlways == Spec => [](TypeOK /\ Flow /\ Line)
<1>1. Init => TypeOK /\ Flow /\ Line
  BY InitType, FlowInit, LineInit
<1>2. TypeOK /\ Flow /\ Line /\ [Next]_vars => Line'
  BY LineStep
<1> QED
  BY <1>1, <1>2, FlowAlways, PTL DEF Spec

\* A submission that is neither accepted nor answered by an error nor lost
\* with its client is on the list that the client sends again: Run's
\* reconnects, the daemon's crashes and late answers never drop one
\* (client.go: pending and its order).
THEOREM NothingForgottenAlways == Spec => []NothingForgotten
<1>1. TypeOK /\ Flow /\ Line => NothingForgotten
  <2> SUFFICES ASSUME Line, NEW i \in 1..Len(entered), ~Accepted(entered[i]), entered[i] \notin excused
               PROVE  \E j \in 1..Len(order) : order[j] = entered[i]
    BY DEF NothingForgotten
  <2>1. entered[i] \in OpenOnes
    BY DEF OpenOnes, Typed, Settled, Accepted
  <2> QED
    BY <2>1 DEF Line, AnswerInv
<1> QED
  BY <1>1, LineAlways, PTL

\* The room accepts a client's submissions in the order they were typed,
\* whatever connections break, are replaced and are served side by side, and
\* whatever is sent again: the only ones out of order are those that were
\* given up with an error or a client crash.
THEOREM SubmitOrderAlways == Spec => []SubmitOrder
<1>1. TypeOK /\ Flow /\ Line => SubmitOrder
  <2> SUFFICES ASSUME TypeOK, Line, NEW i \in 1..Len(log), NEW j \in 1..Len(log), i < j,
                      log[i] # NoMsg, log[j] # NoMsg, log[j] \notin excused
               PROVE  Position(log[i]) < Position(log[j])
    BY DEF SubmitOrder
  <2>1. Before(log[i], log[j])
    BY DEF Line, OrderInv
  <2>2. PICK a \in 1..Len(entered), b \in 1..Len(entered) : a < b /\ entered[a] = log[i] /\ entered[b] = log[j]
    BY <2>1 DEF Before
  <2>3. \A x, y \in 1..Len(entered) : entered[x] = entered[y] => x = y
    BY DEF Line, AnswerInv
  <2>4. ASSUME NEW x \in 1..Len(entered) PROVE Position(entered[x]) = x
    BY <2>3 DEF Position
  <2>5. Position(log[i]) = a /\ Position(log[j]) = b
    BY <2>2, <2>4
  <2> QED
    BY <2>2, <2>5
<1> QED
  BY <1>1, LineAlways, PTL
=============================================================================
