------------------------------ MODULE Personal ------------------------------
(***************************************************************************)
(* Writes made for a member with the member's own accounts.  The model     *)
(* that works on a message asks the broker of the host for a document, a   *)
(* commit or a push; the window of the member who sent the message claims  *)
(* the request over the network, asks its user, writes once and reports.   *)
(* Around them: the admission of members and their roles, the turns of the *)
(* room, the mode of the host, lost replies, and the deaths of either side.*)
(*                                                                         *)
(* The broker's methods run under one mutex and are one step each.  A      *)
(* request of a window is authenticated in one step and served in another. *)
(* A capability is random: it is named by the message and by how often the *)
(* message was taken.  A request id is a digest of message and contents,   *)
(* the same when the message is retried.                                   *)
(***************************************************************************)
EXTENDS Naturals, Sequences, FiniteSets

CONSTANTS
    Persons,        \* holders of a join token
    Messages, Requests, Windows,
    Casts,          \* who sends, who holds a window, what is asked for which
                    \* message; the members and the mode found at the start; and
                    \* the bounds acts (decisions on members and the mode, of a
                    \* user to withdraw, interruptions) and calls (commands of
                    \* the model for one request)
    None,
    JoinLimit,      \* bound: rows of join_requests (4096 in the code)
    MaxMishaps      \* bound: lost replies, deaths of windows and of the host

Kinds == {"create", "append", "commit", "push"}
Instances == Windows \X (0..MaxMishaps)

\* a cast names a sender for every message, a message and a kind for every
\* request and a holder for every window, and a turn ends with an outcome
ASSUME PersonalAssumption ==
    /\ None \notin Requests
    /\ \A c \in Casts :
          /\ c.of \in [Requests -> Messages] /\ c.owner \in [Messages -> Persons]
          /\ c.holder \in [Windows -> Persons] /\ c.kind \in [Requests -> Kinds]
          /\ c.there \subseteq Requests
          /\ c.msg \in [Messages -> {"none", "queued", "completed", "failed", "needs-review"}]
          /\ c.ends \subseteq {"completed", "failed", "needs-review"}

VARIABLES
    cast,       \* owner of messages, holder of windows, message and kind of requests
    join,       \* join_requests: the state of each token
    role,       \* member_roles
    msg,        \* the messages of the store: none, queued, running, needs-review,
                \* completed, failed
    tries,      \* how often a message was taken
    mode,       \* resource mode: host, personal
    cap,        \* Broker.capability, which names the bound message
    asked,      \* the requests put into Broker.pending
    claim,      \* pending.client
    result,     \* pending.result
    call,       \* the command of the model: idle, waiting, and for a commit
                \* checked, reserved, started
    calls,      \* how often it was run
    with,       \* the capability it was given
    cut,        \* the context of the commit was cancelled
    file,       \* the receipt files of commits
    told,       \* the answer of the last command
    git,        \* the commits for which a git update-ref runs
    ledger,     \* the receipts kept by each person
    win,        \* the windows
    there,      \* the requests whose effect can be seen
    wrote,      \* ghost: the instances that wrote a request, in order
    handed,     \* ghost: the requests and the instances they were claimed for
    consent,    \* ghost: what a user agreed to, and at which instance
    acts, mishaps

admission == <<join, role>>
room == <<msg, tries>>
broker == <<asked, claim, result, handed>>
tool == <<call, calls, with, cut, file, told, git>>
NotCall == <<call, calls, with, file, told, git>>
world == <<there, wrote>>
vars == <<cast, admission, room, mode, cap, broker, tool, ledger, win, world, consent, acts, mishaps>>

Act == acts < cast.acts /\ acts' = acts + 1
Mishap == mishaps < MaxMishaps /\ mishaps' = mishaps + 1

Of(r) == cast.of[r]
Owner(r) == cast.owner[Of(r)]
Kind(r) == cast.kind[r]
Holder(i) == cast.holder[i[1]]
Instance(w) == <<w, win[w].gen>>

Fresh(gen) ==
    [gen |-> gen, pc |-> "idle", conn |-> TRUE, seen |-> None, work |-> None,
     account |-> FALSE, git |-> FALSE, append |-> None, push |-> None,
     cut |-> FALSE, res |-> "none", decline |-> None]

Init ==
    /\ cast \in Casts
    /\ join = cast.join
    /\ role = [p \in Persons |-> "roommate"]
    /\ msg = cast.msg
    /\ tries = [m \in Messages |-> 0]
    /\ mode = cast.mode /\ cap = None
    /\ asked = {}
    /\ claim = [r \in Requests |-> None]
    /\ result = [r \in Requests |-> "none"]
    /\ call = [r \in Requests |-> "idle"]
    /\ calls = [r \in Requests |-> 0]
    /\ with = [r \in Requests |-> None]
    /\ cut = FALSE
    /\ file = [r \in Requests |-> "none"]
    /\ told = [r \in Requests |-> "none"]
    /\ git = {}
    /\ ledger = [p \in Persons |-> [r \in Requests |-> "none"]]
    /\ win = [w \in Windows |-> Fresh(0)]
    /\ there = cast.there
    /\ wrote = [r \in Requests |-> <<>>]
    /\ consent = {} /\ handed = {}
    /\ acts = 0 /\ mishaps = 0

----------------------------------------------------------------------------
(* The broker.                                                             *)

Committing == {r \in Requests : call[r] \in {"checked", "reserved", "started"}}

\* invalidateLocked, on the way to capability c: every open request fails and
\* a commit is cancelled
Rebind(c) ==
    /\ cap' = c
    /\ asked' = {}
    /\ cut' = (cut \/ Committing # {})
    /\ result' = [r \in Requests |->
                    IF r \in asked /\ result[r] = "none" THEN "error" ELSE result[r]]

\* the sender may write and the turn is not over
CheckPersonalSender(m) == role[cast.owner[m]] = "roommate" /\ msg[m] = "running"

Valid ==
    /\ mode = "personal" /\ cap # None /\ CheckPersonalSender(cap[1])

Claimable(r, i) ==
    /\ r \in asked /\ result[r] = "none" /\ Holder(i) = Owner(r)
    /\ claim[r] \in {None, i}

\* Next: what instance i may be handed, its own request first
Next1(i) ==
    LET open == {r \in Requests : Claimable(r, i)}
        mine == {r \in open : claim[r] = i}
    IN  IF ~Valid \/ open = {} THEN {None}
        ELSE IF mine # {} THEN mine ELSE open

\* Resolve: once, by the claimant
Accepts(r, i) == Valid /\ r \in asked /\ Holder(i) = Owner(r) /\ claim[r] = i
Resolve(r, i, res) ==
    result' = IF Accepts(r, i) /\ result[r] = "none"
                THEN [result EXCEPT ![r] = res] ELSE result

\* the locals of a step that is over
Over(v) == [v EXCEPT !.pc = "idle", !.conn = TRUE, !.work = None, !.cut = FALSE, !.res = "none"]

\* a poll that failed: the window forgets the request and every grant
Forgets(w) ==
    [Over(win[w]) EXCEPT !.seen = None, !.account = FALSE, !.git = FALSE,
                         !.append = None, !.push = None]

----------------------------------------------------------------------------
(* Members.                                                                *)

Rows == {p \in Persons : join[p] # "none"}

Forgettable == {"denied", "expired"}

\* RequestJoin of a token without a row; at the limit the refused ones go
RequestJoin(p) ==
    /\ Act
    /\ join[p] = "none"
    /\ LET kept == IF Cardinality(Rows) >= JoinLimit
                     THEN [q \in Persons |->
                            IF join[q] \in Forgettable THEN "none" ELSE join[q]]
                     ELSE join
       IN  /\ Cardinality({q \in Persons : kept[q] # "none"}) < JoinLimit
           /\ join' = [kept EXCEPT ![p] = "pending"]
    /\ UNCHANGED <<cast, role, room, mode, cap, broker, tool, ledger, win, world, consent, mishaps>>

\* a day without a decision, seen by the next request or decision
Lapse(p) ==
    /\ Act
    /\ join[p] = "pending" /\ join' = [join EXCEPT ![p] = "expired"]
    /\ UNCHANGED <<cast, role, room, mode, cap, broker, tool, ledger, win, world, consent, mishaps>>

\* manage: approve in a role, or deny
Decide(p) ==
    /\ Act
    /\ join[p] = "pending"
    /\ \/ /\ join' = [join EXCEPT ![p] = "approved"]
          /\ \E a \in {"roommate", "visitor"} : role' = [role EXCEPT ![p] = a]
       \/ join' = [join EXCEPT ![p] = "denied"] /\ UNCHANGED role
    /\ UNCHANGED <<cast, room, mode, cap, broker, tool, ledger, win, world, consent, mishaps>>

\* the connections of p are closed; a request being served goes on
Closed(p) ==
    [w \in Windows |-> IF cast.holder[w] = p /\ win[w].pc = "asking"
                         THEN [win[w] EXCEPT !.conn = FALSE] ELSE win[w]]

\* InvalidateSender
InvalidateSender(p) ==
    IF cap # None /\ cast.owner[cap[1]] = p
      THEN Rebind(None) ELSE UNCHANGED <<cap, asked, cut, result>>

\* manage: revoke, or another role
Demote(p) ==
    /\ Act
    /\ join[p] = "approved"
    /\ \/ join' = [join EXCEPT ![p] = "revoked"] /\ UNCHANGED role
       \/ /\ role' = [role EXCEPT ![p] = IF role[p] = "roommate" THEN "visitor" ELSE "roommate"]
          /\ UNCHANGED join
    /\ InvalidateSender(p)
    /\ win' = Closed(p)
    /\ UNCHANGED <<cast, room, mode, claim, handed, NotCall, ledger, world, consent, mishaps>>

----------------------------------------------------------------------------
(* The room: its turns, one at a time, and the mode of the host.           *)

Idle == \A m \in Messages : msg[m] # "running"

\* StartTurnFor: Bind, then the turn, which may fail to start
StartTurnFor(m) ==
    /\ msg[m] = "queued" /\ Idle
    /\ tries' = [tries EXCEPT ![m] = @ + 1]
    /\ \/ /\ Rebind(IF mode = "personal" THEN <<m, tries'[m]>> ELSE None)
          /\ msg' = [msg EXCEPT ![m] = "running"]
       \/ Rebind(None) /\ msg' = [msg EXCEPT ![m] = "failed"]
    /\ UNCHANGED <<cast, admission, mode, claim, handed, NotCall, ledger, win, world, consent,
                   mishaps, acts>>

\* the end of a turn leaves the broker alone
TurnEnds(m) ==
    /\ msg[m] = "running"
    /\ \E e \in cast.ends : msg' = [msg EXCEPT ![m] = e]
    /\ UNCHANGED <<cast, admission, tries, mode, cap, broker, tool, ledger, win, world, consent,
                   mishaps, acts>>

\* a message in doubt is settled, or retried by a decision
Review(m) ==
    /\ Act
    /\ msg[m] = "needs-review"
    /\ \E e \in {"completed", "failed", "queued"} : msg' = [msg EXCEPT ![m] = e]
    /\ UNCHANGED <<cast, admission, tries, mode, cap, broker, tool, ledger, win, world, consent,
                   mishaps>>

\* InterruptTurn, StartReadOnlyTurn
Invalidate ==
    /\ Act
    /\ cap # None /\ Rebind(None)
    /\ UNCHANGED <<cast, admission, room, mode, claim, handed, NotCall, ledger, win, world,
                   consent, mishaps>>

\* manageResourceMode, ChangeMode: not while a turn is under way
ChangeMode ==
    /\ Act
    /\ Idle
    /\ mode' = IF mode = "host" THEN "personal" ELSE "host"
    /\ Rebind(None)
    /\ UNCHANGED <<cast, admission, room, claim, handed, NotCall, ledger, win, world, consent,
                   mishaps>>

----------------------------------------------------------------------------
(* The commands the model runs.                                            *)

Return(r, answer) ==
    /\ call' = [call EXCEPT ![r] = "idle"]
    /\ told' = [told EXCEPT ![r] = answer]

\* commitMu: one commit or push at a time
Mutexed(r) == Kind(r) \in {"commit", "push"}
Free(r) == ~Mutexed(r) \/ \A q \in Requests : Mutexed(q) => call[q] = "idle"

\* a new entry of Broker.pending, or the one there is
Entered(r) ==
    /\ asked' = asked \cup {r}
    /\ claim' = IF r \in asked THEN claim ELSE [claim EXCEPT ![r] = None]
    /\ result' = IF r \in asked THEN result ELSE [result EXCEPT ![r] = "none"]

\* a commit that has a receipt is answered with it; prepareCommit may refuse others
CommitAnswered(r) ==
    /\ Kind(r) = "commit"
    /\ Return(r, IF file[r] # "none" THEN file[r] ELSE "refused")

\* callTarget, Commit and Push as far as their wait
Call(r) ==
    LET ours == Valid /\ cap[1] = Of(r) IN
    /\ tries[Of(r)] > 0 /\ call[r] = "idle" /\ calls[r] < cast.calls[r] /\ Free(r)
    /\ calls' = [calls EXCEPT ![r] = @ + 1]
    /\ \/ ~ours /\ Return(r, "failed") /\ UNCHANGED <<with, asked, claim, result>>
       \/ ours /\ CommitAnswered(r) /\ UNCHANGED <<with, asked, claim, result>>
       \/ /\ ours /\ (Kind(r) = "commit" => file[r] = "none")
          /\ Entered(r)
          /\ call' = [call EXCEPT ![r] = "waiting"]
          /\ with' = [with EXCEPT ![r] = cap]
          /\ told' = [told EXCEPT ![r] = "none"]
    /\ UNCHANGED <<cast, admission, room, mode, cap, handed, cut, file, git, ledger, win, world,
                   consent, mishaps, acts>>

\* the result is there
CallReturns(r) ==
    /\ call[r] = "waiting" /\ result[r] # "none" /\ Kind(r) # "commit"
    /\ Return(r, IF result[r] = "error" THEN "failed" ELSE result[r])
    /\ UNCHANGED <<cast, admission, room, mode, cap, broker, calls, with, cut, file, git, ledger,
                   win, world, consent, mishaps, acts>>

\* five minutes, or the command is killed: the request is over for the window too
CallGivesUp(r) ==
    /\ call[r] = "waiting" /\ result[r] = "none"
    /\ result' = [result EXCEPT ![r] = "error"]
    /\ Return(r, "failed")
    /\ UNCHANGED <<cast, admission, room, mode, cap, asked, claim, handed, calls, with, cut, file,
                   git, ledger, win, world, consent, mishaps, acts>>

StillOurs_Assumed(r) == TRUE     \* mutant: the turn is not looked at again
StillOurs(r) == cap = with[r] /\ Valid

\* Commit after the wait: no signature, no longer ours, or on with it
CommitChecks(r) ==
    /\ call[r] = "waiting" /\ result[r] # "none" /\ Kind(r) = "commit"
    /\ \/ /\ result[r] = "identity" /\ StillOurs(r)
          /\ call' = [call EXCEPT ![r] = "checked"] /\ cut' = FALSE /\ UNCHANGED told
       \/ /\ ~(result[r] = "identity" /\ StillOurs(r))
          /\ Return(r, "refused") /\ UNCHANGED cut
    /\ UNCHANGED <<cast, admission, room, mode, cap, broker, calls, with, file, git, ledger, win,
                   world, consent, mishaps, acts>>

\* the receipt file is reserved, exclusively, or it cannot be made or written
CommitReserves(r) ==
    /\ call[r] = "checked"
    /\ \/ /\ file[r] = "none" /\ file' = [file EXCEPT ![r] = "unknown"]
          /\ call' = [call EXCEPT ![r] = "reserved"] /\ UNCHANGED told
       \/ Return(r, "unknown") /\ file' \in {file, [file EXCEPT ![r] = "unknown"]}
    /\ UNCHANGED <<cast, admission, room, mode, cap, broker, calls, with, cut, git, ledger, win,
                   world, consent, mishaps, acts>>

\* apply: git update-ref is started, unless the context is cancelled by then
CommitStarts(r) ==
    /\ call[r] = "reserved" /\ ~cut
    /\ call' = [call EXCEPT ![r] = "started"]
    /\ git' = git \cup {r}
    /\ UNCHANGED <<cast, admission, room, mode, cap, broker, calls, with, cut, file, told, ledger,
                   win, world, consent, mishaps, acts>>

Write(r, i) ==
    /\ there' = there \cup {r}
    /\ wrote' = [wrote EXCEPT ![r] = Append(@, i)]

\* git moves the branch, whatever became of the turn and of the host since
GitMoves(r) ==
    /\ r \in git /\ git' = git \ {r}
    /\ Write(r, claim[r])
    /\ UNCHANGED <<cast, admission, room, mode, cap, broker, call, calls, with, cut, file, told,
                   ledger, win, consent, mishaps, acts>>

\* Commit returns: the branch has moved and the receipt is saved, if it can be; or
\* something failed, before or after that, or git was cancelled, killed and waited for
CommitEnds(r) ==
    /\ call[r] \in {"reserved", "started"}
    /\ \/ /\ call[r] = "started" /\ r \notin git /\ Return(r, "completed")
          /\ file' \in {file, [file EXCEPT ![r] = "completed"]}
       \/ Return(r, "unknown") /\ UNCHANGED file
    /\ git' = git \ {r} /\ cut' = FALSE
    /\ UNCHANGED <<cast, admission, room, mode, cap, broker, calls, with, ledger, win, world,
                   consent, mishaps, acts>>

\* the host dies, between any two of these steps, and starts again; git goes on
HostRestarts ==
    /\ Mishap
    /\ cap' = None /\ asked' = {} /\ cut' = FALSE
    /\ result' = [r \in Requests |-> IF r \in asked /\ result[r] = "none" THEN "error" ELSE result[r]]
    /\ call' = [r \in Requests |-> "idle"]
    /\ told' = [r \in Requests |-> IF call[r] = "idle" THEN told[r] ELSE "failed"]
    /\ win' = [w \in Windows |-> IF win[w].pc = "asking" THEN Forgets(w) ELSE win[w]]
    /\ UNCHANGED <<cast, admission, room, mode, claim, handed, calls, with, file, git, ledger,
                   world, consent, acts>>

----------------------------------------------------------------------------
(* The windows: the loop of personalStep.                                  *)

Reaches(w) == join[cast.holder[w]] = "approved"
hostVars == <<cast, admission, room, mode, cap, tool>>

\* the connection is authenticated, or the poll fails
Connect(w) ==
    /\ win[w].pc = "idle"
    /\ win' = [win EXCEPT ![w] =
                IF Reaches(w) THEN [@ EXCEPT !.pc = "asking", !.conn = TRUE] ELSE Forgets(w)]
    /\ UNCHANGED <<hostVars, broker, ledger, world, consent, mishaps, acts>>

Granted(w, r) ==
    IF Kind(r) = "push" THEN win[w].push = r
    ELSE win[w].account /\ (Kind(r) = "append" => win[w].append = r)

Receipt_Lost(p, r) == "none"     \* mutant: the ledger is not read
Receipt(p, r) == ledger[p][r]

\* what the window does with the answer of its poll
Learns(w, r) ==
    LET v == [Over(win[w]) EXCEPT !.seen = r]
        saved == Receipt(cast.holder[w], r)
    IN  IF r = None THEN [v EXCEPT !.push = None]
        ELSE IF Kind(r) = "commit"
          THEN IF v.git THEN [v EXCEPT !.pc = "resend", !.work = r, !.res = "identity"] ELSE v
        ELSE IF Kind(r) = "push" /\ saved # "none"
          THEN [v EXCEPT !.pc = "resend", !.work = r, !.res = saved]
        ELSE IF Granted(w, r)
          THEN [v EXCEPT !.pc = IF Kind(r) = "push" THEN "run" ELSE "packed",
                         !.work = r, !.cut = FALSE]
        ELSE v

Handed(r, i) ==
    /\ claim' = IF r = None THEN claim ELSE [claim EXCEPT ![r] = i]
    /\ handed' = IF r = None THEN handed ELSE handed \cup {<<r, i>>}

\* servePersonalResource: Next for the member of the connection; the answer is
\* lost with the connection
Serve(w) ==
    /\ win[w].pc = "asking"
    /\ \/ /\ mode = "personal" /\ role[cast.holder[w]] = "roommate"
          /\ \E r \in Next1(Instance(w)) :
               /\ Handed(r, Instance(w))
               /\ \/ win[w].conn /\ win' = [win EXCEPT ![w] = Learns(w, r)] /\ UNCHANGED mishaps
                  \/ ~win[w].conn /\ win' = [win EXCEPT ![w] = Forgets(w)] /\ UNCHANGED mishaps
                  \/ win[w].conn /\ Mishap /\ win' = [win EXCEPT ![w] = Forgets(w)]
       \/ /\ ~(mode = "personal" /\ role[cast.holder[w]] = "roommate")
          /\ win' = [win EXCEPT ![w] = Forgets(w)] /\ UNCHANGED <<claim, handed, mishaps>>
    /\ UNCHANGED <<hostVars, asked, result, ledger, world, consent, acts>>

----------------------------------------------------------------------------
(* The user of a window.                                                   *)

Running(w) == win[w].pc \in {"run", "packed", "reserved", "sent", "saved"}

\* push-check and push-grant, git-grant, grant
Grant(w) ==
    LET r == win[w].seen IN
    /\ r # None /\ ~Running(w)
    /\ win' = [win EXCEPT ![w] =
                CASE Kind(r) = "push"   -> [@ EXCEPT !.push = r]
                  [] Kind(r) = "commit" -> [@ EXCEPT !.git = TRUE]
                  [] Kind(r) = "create" -> [@ EXCEPT !.account = TRUE]
                  [] Kind(r) = "append" -> [@ EXCEPT !.account = TRUE, !.append = r]]
    /\ consent' = consent \cup
         {<<CASE Kind(r) \in {"push", "append"} -> r [] OTHER -> Kind(r), Instance(w)>>}
         \cup (IF Kind(r) = "append" THEN {<<"create", Instance(w)>>} ELSE {})
    /\ UNCHANGED <<hostVars, broker, ledger, world, mishaps, acts>>

\* the authorisation is withdrawn, and running work cancelled
Withdraw(w) ==
    /\ Act
    /\ win' = [win EXCEPT ![w] = [@ EXCEPT !.account = FALSE, !.git = FALSE, !.append = None, !.push = None, !.cut = Running(w)]]
    /\ UNCHANGED <<hostVars, broker, ledger, world, consent, mishaps>>

\* decline: the state is looked at first, the answer sent later
Decline(w) ==
    /\ win[w].seen # None /\ ~Running(w) /\ win[w].decline = None
    /\ win' = [win EXCEPT ![w].decline = win[w].seen]
    /\ UNCHANGED <<hostVars, broker, ledger, world, consent, mishaps, acts>>

DeclineSent(w) ==
    LET r == win[w].decline
        ok == Reaches(w) /\ Accepts(r, Instance(w))
    IN  /\ r # None
        /\ IF ok THEN Resolve(r, Instance(w), "error") ELSE UNCHANGED result
        /\ win' = [win EXCEPT ![w] =
                    IF ok THEN [@ EXCEPT !.decline = None, !.seen = None, !.push = None]
                    ELSE [@ EXCEPT !.decline = None]]
        /\ UNCHANGED <<hostVars, asked, claim, handed, ledger, world, consent, mishaps, acts>>

----------------------------------------------------------------------------
(* The work of a window: Execute of a push, createDocument.                *)

\* an error before the reservation: the user must grant again
Fails(w) ==
    IF Kind(win[w].work) = "push" THEN [Over(win[w]) EXCEPT !.push = None]
    ELSE [Over(win[w]) EXCEPT !.account = FALSE, !.append = None]

\* the chunks of the pack
Download(w) ==
    LET r == win[w].work IN
    /\ win[w].pc = "run"
    /\ \/ /\ ~win[w].cut /\ Reaches(w) /\ Accepts(r, Instance(w)) /\ result[r] = "none"
          /\ win' = [win EXCEPT ![w].pc = "packed"]
       \/ win' = [win EXCEPT ![w] = Fails(w)]
    /\ UNCHANGED <<hostVars, broker, ledger, world, consent, mishaps, acts>>

Reserved(p, r) == ledger' = [ledger EXCEPT ![p][r] = "unknown"]

\* a kept receipt is the answer, if it can be read; else account, target and
\* context are checked and the write is reserved
Reserve(w) ==
    LET r == win[w].work
        p == cast.holder[w]
        saved == Receipt(p, r)
    IN  /\ win[w].pc = "packed"
        /\ \/ /\ saved # "none" /\ UNCHANGED ledger
              /\ win' = [win EXCEPT ![w] = [@ EXCEPT !.pc = "saved", !.res = saved]]
           \/ /\ saved = "none" /\ ~win[w].cut
              /\ Reserved(p, r)
              /\ win' = [win EXCEPT ![w].pc = "reserved"]
           \/ win' = [win EXCEPT ![w] = Fails(w)] /\ UNCHANGED ledger
        /\ UNCHANGED <<hostVars, broker, world, consent, mishaps, acts>>

\* a push and an append look whether their effect is already there
Needed(r) == Kind(r) = "create" \/ r \notin there

\* the effect and what is learnt of it; nothing starts after a cancellation
Send(w) ==
    LET r == win[w].work IN
    /\ win[w].pc = "reserved"
    /\ \/ /\ ~win[w].cut
          /\ IF Needed(r) THEN Write(r, Instance(w)) ELSE UNCHANGED world
          /\ \E res \in {"ok", "err"} :
               win' = [win EXCEPT ![w] = [@ EXCEPT !.pc = "sent", !.res = res]]
       \/ /\ UNCHANGED world
          /\ win' = [win EXCEPT ![w] = [@ EXCEPT !.pc = "sent", !.res = "err"]]
    /\ UNCHANGED <<hostVars, broker, ledger, consent, mishaps, acts>>

Proven_Sent(w) == TRUE           \* mutant: having tried is taken for success
Proven(w) == win[w].res = "ok" /\ ~win[w].cut /\ win[w].work \in there

\* the effect is looked for, and the receipt saved, if it can be
Save(w) ==
    LET r == win[w].work
        p == cast.holder[w]
    IN  /\ win[w].pc = "sent"
        /\ \/ /\ Proven(w) /\ ledger' = [ledger EXCEPT ![p][r] = "completed"]
              /\ win' = [win EXCEPT ![w] = [@ EXCEPT !.pc = "saved", !.res = "completed"]]
           \/ /\ UNCHANGED ledger
              /\ win' = [win EXCEPT ![w] = [@ EXCEPT !.pc = "saved", !.res = "unknown"]]
        /\ UNCHANGED <<hostVars, broker, world, consent, mishaps, acts>>

\* personal-result: the request or its answer may be lost
Deliver(w) ==
    LET r == win[w].work
        kept == IF Kind(r) = "push" THEN [Over(win[w]) EXCEPT !.push = None]
                ELSE Over(win[w])
    IN  /\ win[w].pc \in {"saved", "resend"}
        /\ \/ /\ Reaches(w) /\ Resolve(r, Instance(w), win[w].res) /\ UNCHANGED mishaps
              /\ win' = [win EXCEPT ![w] =
                          IF Accepts(r, Instance(w)) THEN [kept EXCEPT !.seen = None] ELSE kept]
           \/ /\ Reaches(w) /\ Mishap /\ Resolve(r, Instance(w), win[w].res)
              /\ win' = [win EXCEPT ![w] = kept]
           \/ /\ IF Reaches(w) THEN Mishap ELSE UNCHANGED mishaps
              /\ UNCHANGED result /\ win' = [win EXCEPT ![w] = kept]
        /\ UNCHANGED <<hostVars, asked, claim, handed, ledger, world, consent, acts>>

\* the monitor asks every second whether the request is still open
Monitor(w) ==
    LET i == Instance(w) IN
    /\ win[w].pc \in {"run", "packed", "reserved", "sent"} /\ ~win[w].cut
    /\ \/ /\ Reaches(w) /\ mode = "personal" /\ role[cast.holder[w]] = "roommate"
          /\ \E r \in Next1(i) : r # win[w].work /\ Handed(r, i)
          /\ UNCHANGED mishaps
       \/ /\ ~(Reaches(w) /\ mode = "personal" /\ role[cast.holder[w]] = "roommate")
          /\ UNCHANGED <<claim, handed, mishaps>>
       \/ Mishap /\ UNCHANGED <<claim, handed>>
    /\ win' = [win EXCEPT ![w].cut = TRUE]
    /\ UNCHANGED <<hostVars, asked, result, ledger, world, consent, acts>>

\* the window dies and another one is opened; what it was sending may arrive
WindowDies(w) ==
    /\ Mishap
    /\ win' = [win EXCEPT ![w] = Fresh(@.gen + 1)]
    /\ \/ UNCHANGED world
       \/ /\ win[w].pc = "reserved" /\ ~win[w].cut /\ Needed(win[w].work)
          /\ Write(win[w].work, Instance(w))
    /\ UNCHANGED <<hostVars, broker, ledger, consent, acts>>

----------------------------------------------------------------------------
RoomNext ==
    \/ \E p \in Persons : RequestJoin(p) \/ Lapse(p) \/ Decide(p) \/ Demote(p)
    \/ \E m \in Messages : StartTurnFor(m) \/ TurnEnds(m) \/ Review(m)
    \/ Invalidate \/ ChangeMode \/ HostRestarts
ToolNext ==
    \E r \in Requests : Call(r) \/ CallReturns(r) \/ CallGivesUp(r) \/ CommitChecks(r)
                          \/ CommitReserves(r) \/ CommitStarts(r) \/ GitMoves(r) \/ CommitEnds(r)
WindowNext ==
    \E w \in Windows : Connect(w) \/ Serve(w) \/ Grant(w) \/ Withdraw(w) \/ Decline(w)
                         \/ DeclineSent(w) \/ Download(w) \/ Reserve(w) \/ Send(w) \/ Save(w)
                         \/ Deliver(w) \/ Monitor(w) \/ WindowDies(w)
Next == RoomNext \/ ToolNext \/ WindowNext
Spec == Init /\ [][Next]_vars

----------------------------------------------------------------------------
(* Properties.                                                             *)

\* A request is written at most once, whatever is lost, repeated, timed out or
\* restarted: a window that gets its own request again, a command the model runs
\* again, another window of the same sender.
WrittenOnce == \A r \in Requests : Len(wrote[r]) <= 1

Agreed(r, i) ==
    <<IF Kind(r) \in {"push", "append"} THEN r ELSE Kind(r), i>> \in consent

\* A write is made by the window that claimed the request, which is a window of the
\* member who sent the message, after its user agreed there to this push or append,
\* or to such documents or commits.  A commit is written by a git process, and none
\* is started once a revocation, a change of role or mode, an interruption or another
\* turn has taken the capability away (one that runs by then is killed, but may be
\* faster).
OwnAuthority ==
    [][\A r \in Requests :
         /\ wrote'[r] # wrote[r] =>
              LET i == wrote'[r][Len(wrote'[r])] IN
              /\ <<r, i>> \in handed /\ Holder(i) = Owner(r) /\ Agreed(r, i)
              /\ Kind(r) = "commit" => r \in git
         /\ r \in git' \ git => cap = with[r]]_vars

\* Of what the model is told, "completed" means that the effect can be seen and
\* "refused" that no commit was made.  The other answers claim nothing: a command
\* that failed or is in doubt may have written.
ReportIsTrue ==
    \A r \in Requests :
        /\ told[r] = "completed" => r \in there
        /\ told[r] = "refused" => wrote[r] = <<>>
=============================================================================
