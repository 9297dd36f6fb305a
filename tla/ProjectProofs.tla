--------------------------- MODULE ProjectProofs ---------------------------
(***************************************************************************)
(* Writes with a member's own accounts, and the task board, for any number *)
(* of members, messages, requests and windows: a request is written once   *)
(* at most, with the authority of its sender, and reported truthfully; a   *)
(* task never has two unfinished runs.                                     *)
(***************************************************************************)
EXTENDS Tasks, FiniteSetTheorems, SequenceTheorems, TLAPS

MaybeRequest == Requests \cup {None}
WinRecords ==
    [gen : Nat, pc : {"idle", "asking", "run", "packed", "reserved", "sent", "saved", "resend"},
     conn : BOOLEAN, seen : MaybeRequest, work : MaybeRequest, account : BOOLEAN, git : BOOLEAN,
     append : MaybeRequest, push : MaybeRequest, cut : BOOLEAN,
     res : {"none", "ok", "err", "unknown", "completed", "identity"}, decline : MaybeRequest]

\* The types of what the argument is about.
ProjectTypes ==
    /\ cast \in Casts
    /\ win \in [Windows -> WinRecords]
    /\ ledger \in [Persons -> [Requests -> {"none", "unknown", "completed"}]]
    /\ file \in [Requests -> {"none", "unknown", "completed"}]
    /\ call \in [Requests -> {"idle", "waiting", "checked", "reserved", "started"}]
    /\ result \in [Requests -> {"none", "error", "unknown", "completed", "identity"}]
    /\ told \in [Requests -> {"none", "failed", "refused", "unknown", "completed", "identity"}]
    /\ wrote \in [Requests -> Seq(Windows \X Nat)]
    /\ claim \in [Requests -> (Windows \X Nat) \cup {None}]
    /\ with \in [Requests -> (Messages \X Nat) \cup {None}] /\ there \subseteq Requests
    /\ git \subseteq Requests
    /\ cap \in (Messages \X Nat) \cup {None} /\ tries \in [Messages -> Nat] /\ cut \in BOOLEAN

Working == {"run", "packed", "reserved", "sent"}

\* What a window works on was handed to it, belongs to its holder and was
\* agreed to there; what it reports as done can be seen.
WindowInv(w) ==
    LET v == win[w] i == Instance(w) IN
    /\ v.pc \in Working => Kind(v.work) # "commit" /\ Agreed(v.work, i)
    /\ v.pc \in Working \cup {"saved", "resend"} =>
          v.work \in Requests /\ Holder(i) = Owner(v.work) /\ <<v.work, i>> \in handed
    /\ v.push # None => <<v.push, i>> \in consent
    /\ v.append # None => <<v.append, i>> \in consent
    /\ v.account => <<"create", i>> \in consent
    /\ v.git => <<"commit", i>> \in consent
    /\ v.res = "completed" => v.pc \in {"saved", "resend"} /\ v.work \in there
    /\ v.res = "identity" => v.pc = "resend" /\ Kind(v.work) = "commit" /\ <<"commit", i>> \in consent
    /\ v.pc = "saved" => v.res \in {"unknown", "completed"}
    /\ v.pc = "resend" => v.res \in {"unknown", "completed", "identity"}

\* A reservation in the ledger comes before the write and admits one writer.
LedgerInv ==
    /\ \A w \in Windows : win[w].pc = "reserved" =>
          ledger[cast.holder[w]][win[w].work] # "none" /\ wrote[win[w].work] = <<>>
    /\ \A w, x \in Windows : win[w].pc = "reserved" /\ win[x].pc = "reserved"
                                /\ win[w].work = win[x].work => w = x
    /\ \A r \in Requests : Kind(r) # "commit" /\ wrote[r] # <<>> => ledger[Owner(r)][r] # "none"
    /\ \A r \in Requests, p \in Persons : ledger[p][r] = "completed" => r \in there

\* A commit is written by the git process of the command that reserved its receipt
\* file; the process may outlive the command.
CommitInv(r) ==
    /\ call[r] \in {"checked", "reserved", "started"} \/ r \in git =>
          Kind(r) = "commit" /\ result[r] = "identity"
    /\ Kind(r) = "commit" /\ call[r] \in {"waiting", "checked"} => file[r] = "none"
    /\ call[r] = "reserved" \/ r \in git => wrote[r] = <<>> /\ file[r] # "none"
    /\ call[r] = "reserved" => r \notin git
    /\ call[r] = "started" => file[r] # "none" /\ (r \in git \/ r \in there)
    /\ Kind(r) = "commit" /\ wrote[r] # <<>> => file[r] # "none"
    /\ Len(wrote[r]) <= 1

\* Who may sign a commit, and for how long: a cancellation is remembered until
\* the one command of commitMu that it cancels has ended.
SignInv ==
    /\ \A r \in Requests : result[r] = "identity" =>
          /\ claim[r] \in Windows \X Nat /\ <<r, claim[r]>> \in handed
          /\ Holder(claim[r]) = Owner(r) /\ <<"commit", claim[r]>> \in consent
    /\ \A r \in Requests : call[r] \in {"checked", "reserved"} /\ ~cut => cap = with[r]
    /\ \A q, r \in Requests :
          Mutexed(q) /\ Mutexed(r) /\ call[q] # "idle" /\ call[r] # "idle" => q = r

\* What was answered is true, and a command that runs has no answer yet.
AnswerInv(r) ==
    /\ file[r] = "completed" => r \in there
    /\ result[r] = "completed" => r \in there
    /\ told[r] = "completed" => r \in there
    /\ told[r] = "refused" => Kind(r) = "commit" /\ file[r] = "none"
    /\ call[r] # "idle" => told[r] = "none"

\* The inductive invariant of the writes.
WriteInv ==
    /\ \A w \in Windows : WindowInv(w)
    /\ LedgerInv
    /\ \A r \in Requests : CommitInv(r) /\ AnswerInv(r)
    /\ SignInv

\* The types of the board.
BoardTypes ==
    /\ cast \in Casts
    /\ msg \in [Messages -> {"none", "queued", "running", "needs-review", "completed", "failed"}]
    /\ task \in [TaskIds -> [made : BOOLEAN, done : BOOLEAN, rev : Nat, links : SUBSET Messages,
                             last : Messages \cup {None}, seen : SUBSET Messages]]
    /\ view \in [Persons -> [task : TaskIds \cup {None}, rev : Nat, links : SUBSET Messages]]

\* A reading with the task's revision is a reading of its runs.
ViewInv ==
    \A p \in Persons, t \in TaskIds : view[p].task = t =>
        /\ task[t].made /\ view[p].rev <= task[t].rev
        /\ view[p].rev = task[t].rev => view[p].links = task[t].links

\* One unfinished run at most, none of a completed task.
RunsInv ==
    \A t \in Board :
        /\ \A m \in task[t].links : msg[m] # "none"
        /\ \A m, n \in task[t].links : msg[m] \in Unfinished /\ msg[n] \in Unfinished => m = n
        /\ task[t].done => /\ task[t].links = task[t].seen
                           /\ \A m \in task[t].links : msg[m] \notin Unfinished

\* The inductive invariant of the task board.
BoardInv == ViewInv /\ RunsInv

----------------------------------------------------------------------------
(* Operators and types.                                                    *)

\* What a cast fixes.
LEMMA CastTypes ==
    ASSUME cast \in Casts
    PROVE  /\ \A r \in Requests : /\ Of(r) \in Messages /\ Owner(r) \in Persons /\ Kind(r) \in Kinds
           /\ \A w \in Windows : cast.holder[w] \in Persons
           /\ \A m \in Messages : cast.owner[m] \in Persons
           /\ cast.there \subseteq Requests
  BY PersonalAssumption DEF Of, Owner, Kind

LEMMA CastFixed ==
    ASSUME cast' = cast
    PROVE  /\ \A r : Of(r)' = Of(r) /\ Owner(r)' = Owner(r) /\ Kind(r)' = Kind(r)
           /\ \A i : Holder(i)' = Holder(i)
           /\ \A r : Mutexed(r)' <=> Mutexed(r)
  BY DEF Of, Owner, Kind, Holder, Mutexed

\* The record u of a window grants nothing that v does not.
GrantsLess(u, v) ==
    /\ u.gen = v.gen
    /\ u.push # None => u.push = v.push
    /\ u.append # None => u.append = v.append
    /\ u.account => v.account
    /\ u.git => v.git

\* A window that waits for nothing.
AtRest(u) == u.pc = "idle" /\ u.res = "none"

\* A step that is over, and a poll that failed, leave a record of a window.
LEMMA OverType ==
    ASSUME NEW v \in WinRecords
    PROVE  Over(v) \in WinRecords /\ AtRest(Over(v)) /\ GrantsLess(Over(v), v)
  BY ZenonT(30) DEF Over, WinRecords, MaybeRequest, AtRest, GrantsLess

LEMMA ForgetsType ==
    ASSUME NEW w \in Windows, win[w] \in WinRecords
    PROVE  Forgets(w) \in WinRecords /\ AtRest(Forgets(w)) /\ GrantsLess(Forgets(w), win[w])
<1> DEFINE v == Over(win[w])
<1>1. v \in WinRecords /\ AtRest(v) /\ GrantsLess(v, win[w])
  BY OverType
<1>2. Forgets(w) = [v EXCEPT !.seen = None, !.account = FALSE, !.git = FALSE,
                             !.append = None, !.push = None]
  BY DEF Forgets
<1> HIDE DEF v
<1> QED
  BY <1>1, <1>2 DEF WinRecords, MaybeRequest, AtRest, GrantsLess

LEMMA FailsType ==
    ASSUME NEW w \in Windows, win[w] \in WinRecords
    PROVE  Fails(w) \in WinRecords /\ AtRest(Fails(w)) /\ GrantsLess(Fails(w), win[w])
<1> DEFINE v == Over(win[w])
<1>1. v \in WinRecords /\ AtRest(v) /\ GrantsLess(v, win[w])
  BY OverType
<1>2. Fails(w) = [v EXCEPT !.push = None] \/ Fails(w) = [v EXCEPT !.account = FALSE, !.append = None]
  BY DEF Fails
<1> HIDE DEF v
<1>3. CASE Fails(w) = [v EXCEPT !.push = None]
  BY <1>1, <1>3 DEF WinRecords, MaybeRequest, AtRest, GrantsLess
<1>4. CASE Fails(w) = [v EXCEPT !.account = FALSE, !.append = None]
  BY <1>1, <1>4 DEF WinRecords, MaybeRequest, AtRest, GrantsLess
<1> QED
  BY <1>2, <1>3, <1>4

LEMMA FreshType ==
    ASSUME NEW gen \in Nat
    PROVE  Fresh(gen) \in WinRecords
  BY DEF Fresh, WinRecords, MaybeRequest

\* What a window may learn from its poll: nothing to do, an answer to send
\* again, or work its user has agreed to.
LEMMA LearnsType ==
    ASSUME ProjectTypes, NEW w \in Windows, NEW r \in MaybeRequest
    PROVE  LET u == Learns(w, r) IN
           /\ u \in WinRecords /\ GrantsLess(u, win[w])
           /\ \/ AtRest(u)
              \/ /\ r # None /\ u.work = r /\ u.pc = "resend"
                 /\ \/ Kind(r) = "commit" /\ win[w].git /\ u.res = "identity"
                    \/ u.res \in {"unknown", "completed"} /\ u.res = ledger[cast.holder[w]][r]
              \/ /\ r # None /\ u.work = r /\ u.pc \in {"run", "packed"} /\ u.res = "none"
                 /\ Kind(r) # "commit" /\ Granted(w, r)
<1> DEFINE o == Over(win[w])
           v == [o EXCEPT !.seen = r]
           saved == Receipt(cast.holder[w], r)
           u == Learns(w, r)
<1>1. o \in WinRecords /\ AtRest(o) /\ GrantsLess(o, win[w])
  BY OverType DEF ProjectTypes
<1> HIDE DEF o
<1>2. v \in WinRecords /\ AtRest(v) /\ GrantsLess(v, win[w])
  BY <1>1 DEF WinRecords, AtRest, GrantsLess, MaybeRequest
<1>3. r # None => r \in Requests /\ saved \in {"none", "unknown", "completed"}
                  /\ saved = ledger[cast.holder[w]][r]
  BY CastTypes DEF Receipt, ProjectTypes, MaybeRequest
<1>4. \/ u = v \/ u = [v EXCEPT !.push = None]
      \/ /\ r # None /\ Kind(r) = "commit" /\ v.git
         /\ u = [v EXCEPT !.pc = "resend", !.work = r, !.res = "identity"]
      \/ /\ r # None /\ saved # "none"
         /\ u = [v EXCEPT !.pc = "resend", !.work = r, !.res = saved]
      \/ /\ r # None /\ Kind(r) # "commit" /\ Granted(w, r)
         /\ u = [v EXCEPT !.pc = IF Kind(r) = "push" THEN "run" ELSE "packed",
                          !.work = r, !.cut = FALSE]
  BY DEF Learns, o
<1> HIDE DEF v, u, saved
<1>5. CASE u = v
  BY <1>2, <1>5 DEF u
<1>6. CASE u = [v EXCEPT !.push = None]
  BY <1>2, <1>6 DEF WinRecords, AtRest, GrantsLess, MaybeRequest, u
<1>7. CASE /\ r # None /\ Kind(r) = "commit" /\ v.git
           /\ u = [v EXCEPT !.pc = "resend", !.work = r, !.res = "identity"]
  <2>1. u.pc = "resend" /\ u.res = "identity" /\ u.work = r /\ GrantsLess(u, win[w]) /\ win[w].git
    BY <1>2, <1>3, <1>7 DEF WinRecords, GrantsLess, MaybeRequest
  <2>2. u \in WinRecords
    BY <1>2, <1>3, <1>7 DEF WinRecords, MaybeRequest
  <2> QED
    BY <1>7, <2>1, <2>2 DEF u
<1>8. CASE /\ r # None /\ saved # "none"
           /\ u = [v EXCEPT !.pc = "resend", !.work = r, !.res = saved]
  <2>1. u.pc = "resend" /\ u.res = saved /\ u.work = r /\ GrantsLess(u, win[w])
    BY <1>2, <1>8 DEF WinRecords, GrantsLess, MaybeRequest
  <2>2. u \in WinRecords
    BY <1>2, <1>3, <1>8 DEF WinRecords, MaybeRequest
  <2>3. saved \in {"unknown", "completed"} /\ saved = ledger[cast.holder[w]][r]
    BY <1>3, <1>8
  <2> QED
    BY <1>8, <2>1, <2>2, <2>3 DEF u
<1>9. CASE /\ r # None /\ Kind(r) # "commit" /\ Granted(w, r)
           /\ u = [v EXCEPT !.pc = IF Kind(r) = "push" THEN "run" ELSE "packed",
                            !.work = r, !.cut = FALSE]
  <2>1. u.pc \in {"run", "packed"} /\ u.res = "none" /\ u.work = r /\ GrantsLess(u, win[w])
    BY <1>2, <1>3, <1>9 DEF WinRecords, AtRest, GrantsLess, MaybeRequest
  <2>2. u \in WinRecords
    BY <1>2, <1>3, <1>9, ZenonT(30) DEF WinRecords, MaybeRequest
  <2> QED
    BY <1>9, <2>1, <2>2 DEF u
<1> QED
  BY <1>4, <1>5, <1>6, <1>7, <1>8, <1>9

----------------------------------------------------------------------------
(* Frames: what keeps each part of the invariant.                          *)

\* Hand-overs, agreements and effects are never taken back.
Grows == cast' = cast /\ handed \subseteq handed' /\ consent \subseteq consent' /\ there \subseteq there'

\* A window that only loses grants, and keeps its work.
LEMMA WindowKeeps ==
    ASSUME NEW w \in Windows, WindowInv(w), Grows, GrantsLess(win'[w], win[w]),
           win'[w].res = win[w].res, win'[w].work = win[w].work,
           \/ win'[w].pc = win[w].pc
           \/ win[w].pc = "idle" /\ win'[w].pc = "asking"
           \/ win[w].pc = "run" /\ win'[w].pc = "packed"
           \/ win[w].pc = "packed" /\ win'[w].pc = "reserved"
    PROVE  WindowInv(w)'
<1>1. Instance(w)' = Instance(w)
  BY DEF Instance, GrantsLess
<1>2. \A r : Agreed(r, Instance(w)) => Agreed(r, Instance(w))'
  BY <1>1, CastFixed DEF Agreed, Grows
<1> QED
  BY <1>1, <1>2, CastFixed DEF WindowInv, GrantsLess, Grows, Working

\* A window that is done.
LEMMA WindowRests ==
    ASSUME NEW w \in Windows, WindowInv(w), Grows, GrantsLess(win'[w], win[w]), AtRest(win'[w])
    PROVE  WindowInv(w)'
<1>1. Instance(w)' = Instance(w)
  BY DEF Instance, GrantsLess
<1> QED
  BY <1>1, CastFixed DEF WindowInv, GrantsLess, Grows, Working, AtRest

LEMMA SameWindow ==
    ASSUME NEW w \in Windows, WindowInv(w), Grows, win'[w] = win[w]
    PROVE  WindowInv(w)'
  BY WindowKeeps DEF GrantsLess

\* No window starts to hold a reservation, and nothing is written.
LEMMA LedgerKeeps ==
    ASSUME LedgerInv, UNCHANGED <<ledger, wrote, cast>>, there \subseteq there',
           \A w \in Windows : win'[w].pc = "reserved"
                                => win[w].pc = "reserved" /\ win'[w].work = win[w].work
    PROVE  LedgerInv'
  BY CastFixed DEF LedgerInv

\* A result is given once, truthfully, and an identity by its claimant.
ResultsGiven ==
    \A r \in Requests : result'[r] = result[r] \/
        /\ result[r] = "none"
        /\ result'[r] = "completed" => r \in there'
        /\ result'[r] = "identity" => /\ claim'[r] \in Windows \X Nat /\ <<r, claim'[r]>> \in handed'
                                      /\ Holder(claim'[r]) = Owner(r) /\ <<"commit", claim'[r]>> \in consent'

\* Nothing of the commands changes but a result; a document or a push may be written.
LEMMA CommandsKeep ==
    ASSUME Grows, UNCHANGED <<call, file, told, git>>, ResultsGiven,
           NEW r \in Requests, CommitInv(r), AnswerInv(r),
           wrote'[r] = wrote[r] \/ (Kind(r) # "commit" /\ Len(wrote'[r]) = 1)
    PROVE  CommitInv(r)' /\ AnswerInv(r)'
<1>1. CASE wrote'[r] = wrote[r]
  BY <1>1, CastFixed DEF CommitInv, AnswerInv, Grows, ResultsGiven
<1>2. CASE Kind(r) # "commit" /\ Len(wrote'[r]) = 1
  <2>1. /\ Kind(r)' # "commit" /\ call'[r] \notin {"checked", "reserved", "started"}
        /\ r \notin git' /\ Len(wrote'[r]) <= 1
    BY <1>2, CastFixed DEF CommitInv, Grows
  <2>2. CommitInv(r)'
    BY <2>1 DEF CommitInv
  <2>3. AnswerInv(r)'
    BY CastFixed DEF AnswerInv, Grows, ResultsGiven
  <2> QED
    BY <2>2, <2>3
<1> QED
  BY <1>1, <1>2

\* A claim stands once there is a result, and the capability with the command.
LEMMA SignKeeps ==
    ASSUME Grows, SignInv, ResultsGiven, UNCHANGED <<call, with>>,
           cut' \/ Committing = {} \/ UNCHANGED <<cut, cap>>,
           \A r \in Requests : result[r] # "none" => claim'[r] = claim[r]
    PROVE  SignInv'
<1>1. \A r \in Requests : result'[r] = "identity" =>
          /\ claim'[r] \in Windows \X Nat /\ <<r, claim'[r]>> \in handed'
          /\ Holder(claim'[r]) = Owner(r) /\ <<"commit", claim'[r]>> \in consent'
  BY CastFixed DEF SignInv, Grows, ResultsGiven
<1>2. \A r \in Requests : call'[r] \in {"checked", "reserved"} /\ ~cut' => cap' = with'[r]
  BY DEF SignInv, Committing
<1>3. \A q, r \in Requests :
          Mutexed(q)' /\ Mutexed(r)' /\ call'[q] # "idle" /\ call'[r] # "idle" => q = r
  BY CastFixed DEF SignInv, Grows
<1> QED
  BY <1>1, <1>2, <1>3 DEF SignInv, Grows, Holder, Owner, Of

----------------------------------------------------------------------------
(* The room.                                                               *)

\* invalidateLocked fails what is open and remembers that a commit is cut.
LEMMA RebindKeeps ==
    ASSUME ProjectTypes, cast' = cast, NEW c, Rebind(c)
    PROVE  /\ ResultsGiven /\ (cut' \/ Committing = {}) /\ cap' = c /\ cut' \in BOOLEAN
           /\ result' \in [Requests -> {"none", "error", "unknown", "completed", "identity"}]
<1>1. cut' \in BOOLEAN
  BY Zenon DEF Rebind
<1> QED
  BY <1>1 DEF Rebind, ResultsGiven, ProjectTypes

\* What every step of the room but a restart of the host does to the writes.
RoomStep ==
    /\ Grows /\ ResultsGiven
    /\ UNCHANGED <<ledger, wrote, there, claim, handed, consent, call, with, file, told, git>>
    /\ cut' \/ Committing = {} \/ UNCHANGED <<cut, cap>>
    /\ \A w \in Windows : /\ GrantsLess(win'[w], win[w]) /\ win'[w].res = win[w].res
                          /\ win'[w].work = win[w].work /\ win'[w].pc = win[w].pc

LEMMA RoomStepInv ==
    ASSUME ProjectTypes, WriteInv, RoomStep
    PROVE  WriteInv'
<1>1. \A w \in Windows : WindowInv(w)'
  BY WindowKeeps DEF WriteInv, RoomStep
<1>2. LedgerInv'
  BY LedgerKeeps DEF WriteInv, RoomStep, Grows
<1>3. \A r \in Requests : CommitInv(r)' /\ AnswerInv(r)'
  BY CommandsKeep DEF WriteInv, RoomStep
<1>4. SignInv'
  BY SignKeeps DEF WriteInv, RoomStep
<1> QED
  BY <1>1, <1>2, <1>3, <1>4 DEF WriteInv

\* The types a step of the room can touch.
RoomTypes ==
    /\ win \in [Windows -> WinRecords] /\ cap \in (Messages \X Nat) \cup {None} /\ cut \in BOOLEAN
    /\ tries \in [Messages -> Nat]
    /\ result \in [Requests -> {"none", "error", "unknown", "completed", "identity"}]

LEMMA RoomStepTypes ==
    ASSUME ProjectTypes, RoomStep, RoomTypes'
    PROVE  ProjectTypes'
  BY Zenon DEF ProjectTypes, RoomStep, RoomTypes, Grows

LEMMA RoomKeeps ==
    ASSUME ProjectTypes, WriteInv,
           \/ \E p \in Persons : RequestJoin(p) \/ Lapse(p) \/ Decide(p) \/ Demote(p)
           \/ \E m \in Messages : StartTurnFor(m) \/ TurnEnds(m) \/ Review(m)
           \/ Invalidate \/ ChangeMode
    PROVE  ProjectTypes' /\ WriteInv'
<1>0. RoomTypes
  BY Zenon DEF ProjectTypes, RoomTypes
<1>1. CASE UNCHANGED <<cast, tries, cap, broker, tool, ledger, win, world, consent>>
  <2>1. RoomStep
    BY <1>1 DEF RoomStep, Grows, ResultsGiven, GrantsLess, broker, tool, world
  <2>2. RoomTypes'
    BY <1>0, <1>1, Zenon DEF RoomTypes, broker, tool
  <2> QED
    BY <2>1, <2>2, RoomStepInv, RoomStepTypes
<1>2. ASSUME NEW c \in (Messages \X Nat) \cup {None}, Rebind(c),
             UNCHANGED <<cast, claim, handed, NotCall, ledger, win, world, consent>>,
             tries' \in [Messages -> Nat]
      PROVE  ProjectTypes' /\ WriteInv'
  <2>1. RoomStep
    BY <1>2, RebindKeeps DEF RoomStep, Grows, GrantsLess, NotCall, world
  <2>2. RoomTypes'
    BY <1>0, <1>2, RebindKeeps DEF RoomTypes
  <2> QED
    BY <2>1, <2>2, RoomStepInv, RoomStepTypes
<1>3. CASE \E p \in Persons : RequestJoin(p) \/ Lapse(p) \/ Decide(p)
  BY <1>1, <1>3 DEF RequestJoin, Lapse, Decide, room
<1>4. CASE \E m \in Messages : TurnEnds(m) \/ Review(m)
  BY <1>1, <1>4 DEF TurnEnds, Review
<1>5. CASE Invalidate \/ ChangeMode
  BY <1>2, <1>5 DEF Invalidate, ChangeMode, room, ProjectTypes
<1>6. CASE \E m \in Messages : StartTurnFor(m)
  <2>1. PICK m \in Messages : StartTurnFor(m)
    BY <1>6
  <2>2. tries' \in [Messages -> Nat] /\ <<m, tries'[m]>> \in (Messages \X Nat)
    BY <2>1 DEF StartTurnFor, ProjectTypes
  <2>3. \E c \in (Messages \X Nat) \cup {None} : Rebind(c)
    BY <2>1, <2>2 DEF StartTurnFor
  <2> QED
    BY <1>2, <2>1, <2>2, <2>3 DEF StartTurnFor
<1>7. CASE \E p \in Persons : Demote(p)
  <2>1. PICK p \in Persons : Demote(p)
    BY <1>7
  <2>2. UNCHANGED <<cast, claim, handed, NotCall, ledger, world, consent>> /\ tries' = tries
    BY <2>1 DEF Demote, NotCall, room
  <2>3. \A w \in Windows : /\ GrantsLess(win'[w], win[w]) /\ win'[w].res = win[w].res
                           /\ win'[w].work = win[w].work /\ win'[w].pc = win[w].pc
                           /\ win'[w] \in WinRecords
    <3> SUFFICES ASSUME NEW w \in Windows
                 PROVE  /\ GrantsLess(win'[w], win[w]) /\ win'[w].res = win[w].res
                        /\ win'[w].work = win[w].work /\ win'[w].pc = win[w].pc
                        /\ win'[w] \in WinRecords
      OBVIOUS
    <3>1. win[w] \in WinRecords
      BY DEF ProjectTypes
    <3>2. win'[w] = win[w] \/ win'[w] = [win[w] EXCEPT !.conn = FALSE]
      BY <2>1 DEF Demote, Closed
    <3> QED
      BY <3>1, <3>2 DEF GrantsLess, WinRecords
  <2>4. win' \in [Windows -> WinRecords]
    BY <2>1, <2>3 DEF Demote, Closed
  <2>5. CASE UNCHANGED <<cap, asked, cut, result>>
    <3>1. RoomStep
      BY <2>2, <2>3, <2>5 DEF RoomStep, Grows, ResultsGiven, NotCall, world
    <3>2. RoomTypes'
      BY <1>0, <2>2, <2>4, <2>5, Zenon DEF RoomTypes
    <3> QED
      BY <3>1, <3>2, RoomStepInv, RoomStepTypes
  <2>6. CASE Rebind(None)
    <3>1. RoomStep
      BY <2>2, <2>3, <2>6, RebindKeeps DEF RoomStep, Grows, NotCall, world
    <3>2. RoomTypes'
      BY <1>0, <2>2, <2>4, <2>6, RebindKeeps DEF RoomTypes
    <3> QED
      BY <3>1, <3>2, RoomStepInv, RoomStepTypes
  <2> QED
    BY <2>1, <2>5, <2>6 DEF Demote, InvalidateSender
<1> QED
  BY <1>3, <1>4, <1>5, <1>6, <1>7

----------------------------------------------------------------------------
(* The commands of the model.                                              *)

\* The first write of a request.
LEMMA FirstWrite ==
    ASSUME ProjectTypes, NEW r \in Requests, wrote[r] = <<>>, NEW i \in Windows \X Nat, Write(r, i)
    PROVE  /\ wrote' \in [Requests -> Seq(Windows \X Nat)] /\ there' = there \cup {r}
           /\ Len(wrote'[r]) = 1 /\ wrote'[r] # <<>> /\ wrote'[r][Len(wrote'[r])] = i
           /\ \A q \in Requests : q # r => wrote'[q] = wrote[q]
<1>1. wrote' = [wrote EXCEPT ![r] = Append(<<>>, i)] /\ there' = there \cup {r}
  BY DEF Write
<1>2. Append(<<>>, i) = <<i>> /\ <<i>> \in Seq(Windows \X Nat) /\ Len(<<i>>) = 1 /\ <<i>>[1] = i
  OBVIOUS
<1> QED
  BY <1>1, <1>2 DEF ProjectTypes

\* The identity that signs a commit in progress.
LEMMA Signer ==
    ASSUME WriteInv, NEW r \in Requests,
           call[r] \in {"checked", "reserved", "started"} \/ r \in git
    PROVE  /\ Kind(r) = "commit" /\ claim[r] \in Windows \X Nat /\ <<r, claim[r]>> \in handed
           /\ Holder(claim[r]) = Owner(r) /\ <<"commit", claim[r]>> \in consent
           /\ call[r] \in {"checked", "reserved"} /\ ~cut => cap = with[r]
           /\ call[r] = "reserved" \/ r \in git => wrote[r] = <<>> /\ file[r] # "none"
           /\ call[r] = "started" => file[r] # "none" /\ (r \in git \/ r \in there)
           /\ call[r] = "checked" => file[r] = "none"
<1>1. Kind(r) = "commit" /\ result[r] = "identity"
  BY DEF WriteInv, CommitInv
<1> QED
  BY <1>1 DEF WriteInv, CommitInv, SignInv

\* The types a command can touch.
ToolTypes ==
    /\ file \in [Requests -> {"none", "unknown", "completed"}]
    /\ call \in [Requests -> {"idle", "waiting", "checked", "reserved", "started"}]
    /\ result \in [Requests -> {"none", "error", "unknown", "completed", "identity"}]
    /\ told \in [Requests -> {"none", "failed", "refused", "unknown", "completed", "identity"}]
    /\ wrote \in [Requests -> Seq(Windows \X Nat)] /\ there \subseteq Requests
    /\ claim \in [Requests -> (Windows \X Nat) \cup {None}]
    /\ with \in [Requests -> (Messages \X Nat) \cup {None}] /\ cut \in BOOLEAN
    /\ git \subseteq Requests

LEMMA ToolTypesParts ==
    ASSUME ProjectTypes
    PROVE  /\ ToolTypes
           /\ ToolTypes' /\ UNCHANGED <<cast, win, ledger, cap, tries>> => ProjectTypes'
<1>1. ToolTypes
  BY Zenon DEF ProjectTypes, ToolTypes
<1>2. ASSUME ToolTypes', UNCHANGED <<cast, win, ledger, cap, tries>> PROVE ProjectTypes'
  BY <1>2, Zenon DEF ProjectTypes, ToolTypes
<1> QED
  BY <1>1, <1>2

\* No window starts to hold a reservation, and only a commit is written.
LEMMA LedgerStays ==
    ASSUME WriteInv, UNCHANGED <<cast, ledger>>, there \subseteq there',
           \A r \in Requests : Kind(r) # "commit" => wrote'[r] = wrote[r],
           \A w \in Windows : win'[w].pc = "reserved"
                                => win[w].pc = "reserved" /\ win'[w].work = win[w].work
    PROVE  LedgerInv'
<1>1. LedgerInv
  BY DEF WriteInv
<1>2. \A w \in Windows : win[w].pc = "reserved" => wrote'[win[w].work] = wrote[win[w].work]
  BY DEF WriteInv, WindowInv, Working
<1>3. \A w \in Windows : win'[w].pc = "reserved" =>
          ledger'[cast'.holder[w]][win'[w].work] # "none" /\ wrote'[win'[w].work] = <<>>
  BY <1>1, <1>2 DEF LedgerInv
<1>4. \A r \in Requests : Kind(r)' # "commit" /\ wrote'[r] # <<>> => ledger'[Owner(r)'][r] # "none"
  BY <1>1, CastFixed DEF LedgerInv
<1>5. \A w, x \in Windows : win'[w].pc = "reserved" /\ win'[x].pc = "reserved"
                              /\ win'[w].work = win'[x].work => w = x
  BY <1>1 DEF LedgerInv
<1>6. \A r \in Requests, p \in Persons : ledger'[p][r] = "completed" => r \in there'
  BY <1>1 DEF LedgerInv
<1> QED
  BY <1>3, <1>4, <1>5, <1>6 DEF LedgerInv

\* A command leaves the windows and the ledgers alone.
LEMMA ToolWindows ==
    ASSUME WriteInv, UNCHANGED <<cast, handed, consent, win, ledger>>,
           there \subseteq there',
           \A r \in Requests : Kind(r) # "commit" => wrote'[r] = wrote[r]
    PROVE  (\A w \in Windows : WindowInv(w)') /\ LedgerInv'
<1>1. \A w \in Windows : WindowInv(w)'
  BY SameWindow DEF WriteInv, Grows
<1> QED
  BY <1>1, LedgerStays

LEMMA CallKeeps ==
    ASSUME ProjectTypes, WriteInv, NEW r \in Requests, Call(r)
    PROVE  ProjectTypes' /\ WriteInv'
<1>0. /\ UNCHANGED <<cast, win, ledger, cap, tries, handed, consent, cut, file, there, wrote, git>>
      /\ call[r] = "idle" /\ Free(r)
      /\ cut' \in BOOLEAN
  BY Zenon DEF Call, room, world, ProjectTypes
<1>1. \/ /\ call' = [call EXCEPT ![r] = "idle"] /\ UNCHANGED <<with, claim, result>>
         /\ \/ told' = [told EXCEPT ![r] = "failed"]
            \/ Kind(r) = "commit" /\ file[r] # "none" /\ told' = [told EXCEPT ![r] = file[r]]
            \/ Kind(r) = "commit" /\ file[r] = "none" /\ told' = [told EXCEPT ![r] = "refused"]
      \/ /\ Kind(r) = "commit" => file[r] = "none"
         /\ call' = [call EXCEPT ![r] = "waiting"] /\ with' = [with EXCEPT ![r] = cap]
         /\ told' = [told EXCEPT ![r] = "none"]
         /\ \/ UNCHANGED <<claim, result>>
            \/ claim' = [claim EXCEPT ![r] = None] /\ result' = [result EXCEPT ![r] = "none"]
  BY DEF Call, CommitAnswered, Return, Entered
<1>2. ToolTypes'
  <2>1. ToolTypes /\ cap \in (Messages \X Nat) \cup {None}
    BY ToolTypesParts DEF ProjectTypes
  <2>2. call' \in [Requests -> {"idle", "waiting", "checked", "reserved", "started"}]
    BY <1>1, <2>1 DEF ToolTypes
  <2>3. told' \in [Requests -> {"none", "failed", "refused", "unknown", "completed", "identity"}]
    <3>1. PICK a \in {"none", "failed", "refused", "unknown", "completed"} : told' = [told EXCEPT ![r] = a]
      BY <1>1, <2>1 DEF ToolTypes
    <3> QED
      BY <2>1, <3>1 DEF ToolTypes
  <2>4. result' \in [Requests -> {"none", "error", "unknown", "completed", "identity"}]
    BY <1>1, <2>1 DEF ToolTypes
  <2>5. claim' \in [Requests -> (Windows \X Nat) \cup {None}]
    BY <1>1, <2>1 DEF ToolTypes
  <2>6. with' \in [Requests -> (Messages \X Nat) \cup {None}]
    <3> DEFINE S == (Messages \X Nat) \cup {None}
    <3>1. with \in [Requests -> S] /\ cap \in S
      BY <2>1 DEF ToolTypes
    <3>2. with' = with \/ with' = [with EXCEPT ![r] = cap]
      BY <1>1
    <3> HIDE DEF S
    <3>3. with' \in [Requests -> S]
      BY <3>1, <3>2
    <3> QED
      BY <3>3 DEF S
  <2> QED
    BY <1>0, <2>1, <2>2, <2>3, <2>4, <2>5, <2>6, Zenon DEF ToolTypes
<1>3. \A q \in Requests : CommitInv(q)' /\ AnswerInv(q)'
  <2> SUFFICES ASSUME NEW q \in Requests PROVE CommitInv(q)' /\ AnswerInv(q)'
    OBVIOUS
  <2>1. CommitInv(q) /\ AnswerInv(q)
    BY DEF WriteInv
  <2> QED
    BY <1>0, <1>1, <2>1, CastFixed, ToolTypesParts DEF CommitInv, AnswerInv, ToolTypes
<1>4. SignInv'
  <2>1. \A q \in Requests : result'[q] = "identity" => result[q] = "identity" /\ claim'[q] = claim[q]
    BY <1>1, ToolTypesParts DEF ToolTypes
  <2>2. \A q \in Requests : call'[q] \in {"checked", "reserved"}
                              => call[q] \in {"checked", "reserved"} /\ with'[q] = with[q]
    BY <1>0, <1>1, ToolTypesParts DEF ToolTypes
  <2>3. \A q \in Requests : q # r => call'[q] = call[q]
    BY <1>1, ToolTypesParts DEF ToolTypes
  <2>4. \A q \in Requests : call'[q] # "idle" => call[q] # "idle" \/ q = r
    BY <2>3
  <2>5. \A q \in Requests : Mutexed(r) /\ Mutexed(q) => call[q] = "idle"
    BY <1>0 DEF Free
  <2>6. \A p, q \in Requests :
          Mutexed(p) /\ Mutexed(q) /\ call'[p] # "idle" /\ call'[q] # "idle" => p = q
    BY <2>4, <2>5 DEF WriteInv, SignInv
  <2> QED
    BY <1>0, <2>1, <2>2, <2>6, CastFixed DEF WriteInv, SignInv, Holder, Owner, Of
<1> QED
  BY <1>0, <1>2, <1>3, <1>4, ToolTypesParts, ToolWindows DEF WriteInv

\* A command that ends without a write, or waits no longer.
LEMMA ReturnKeeps ==
    ASSUME ProjectTypes, WriteInv, NEW r \in Requests, CallReturns(r) \/ CallGivesUp(r)
    PROVE  ProjectTypes' /\ WriteInv'
<1>0. /\ UNCHANGED <<cast, win, ledger, cap, tries, handed, consent, cut, file, there, wrote,
                     claim, with, git>>
      /\ cut' \in BOOLEAN
  BY Zenon DEF CallReturns, CallGivesUp, room, world, broker, ProjectTypes
<1>1. /\ call' = [call EXCEPT ![r] = "idle"] /\ call[r] = "waiting"
      /\ \E answer \in {"failed", "unknown", "completed", "identity"} :
            /\ told' = [told EXCEPT ![r] = answer]
            /\ answer = "completed" => result[r] = "completed"
      /\ UNCHANGED result \/ (result[r] = "none" /\ result' = [result EXCEPT ![r] = "error"])
  BY DEF CallReturns, CallGivesUp, Return, broker, ProjectTypes
<1>2. ToolTypes'
  <2>1. ToolTypes
    BY ToolTypesParts
  <2>2. call' \in [Requests -> {"idle", "waiting", "checked", "reserved", "started"}]
    BY <1>1, <2>1 DEF ToolTypes
  <2>3. told' \in [Requests -> {"none", "failed", "refused", "unknown", "completed", "identity"}]
    BY <1>1, <2>1 DEF ToolTypes
  <2>4. result' \in [Requests -> {"none", "error", "unknown", "completed", "identity"}]
    BY <1>1, <2>1 DEF ToolTypes
  <2> QED
    BY <1>0, <2>1, <2>2, <2>3, <2>4, Zenon DEF ToolTypes
<1>3. \A q \in Requests : CommitInv(q)' /\ AnswerInv(q)'
  <2> SUFFICES ASSUME NEW q \in Requests PROVE CommitInv(q)' /\ AnswerInv(q)'
    OBVIOUS
  <2>1. CommitInv(q) /\ AnswerInv(q)
    BY DEF WriteInv
  <2> QED
    BY <1>0, <1>1, <2>1, CastFixed, ToolTypesParts DEF CommitInv, AnswerInv, ToolTypes
<1>4. SignInv'
  <2>1. \A q \in Requests : result'[q] = "identity" => result[q] = "identity"
    BY <1>1, ToolTypesParts DEF ToolTypes
  <2>2. \A q \in Requests : call'[q] # "idle" => call'[q] = call[q]
    BY <1>1, ToolTypesParts DEF ToolTypes
  <2> QED
    BY <1>0, <2>1, <2>2, CastFixed DEF WriteInv, SignInv, Holder, Owner, Of
<1> QED
  BY <1>0, <1>2, <1>3, <1>4, ToolTypesParts, ToolWindows DEF WriteInv

\* Commit after the wait, as far as the reservation of the receipt.
LEMMA CommitKeeps ==
    ASSUME ProjectTypes, WriteInv, NEW r \in Requests, CommitChecks(r) \/ CommitReserves(r)
    PROVE  ProjectTypes' /\ WriteInv'
<1>0. /\ UNCHANGED <<cast, win, ledger, cap, tries, handed, consent, there, wrote,
                     claim, with, result, git>>
      /\ cut' \in BOOLEAN
  BY Zenon DEF CommitChecks, CommitReserves, room, world, broker, ProjectTypes
<1>1. \/ /\ call[r] = "waiting" /\ Kind(r) = "commit"
         /\ \/ /\ result[r] = "identity" /\ cap = with[r] /\ call' = [call EXCEPT ![r] = "checked"]
               /\ UNCHANGED <<told, file>>
            \/ /\ call' = [call EXCEPT ![r] = "idle"] /\ told' = [told EXCEPT ![r] = "refused"]
               /\ UNCHANGED <<cut, file>>
      \/ /\ call[r] = "checked" /\ UNCHANGED cut
         /\ \/ /\ file' = [file EXCEPT ![r] = "unknown"] /\ call' = [call EXCEPT ![r] = "reserved"]
               /\ UNCHANGED told
            \/ /\ call' = [call EXCEPT ![r] = "idle"] /\ told' = [told EXCEPT ![r] = "unknown"]
               /\ UNCHANGED file \/ file' = [file EXCEPT ![r] = "unknown"]
  BY DEF CommitChecks, CommitReserves, StillOurs, Return
<1>2. ToolTypes'
  BY <1>0, <1>1, ToolTypesParts DEF ToolTypes
<1>3. \A q \in Requests : CommitInv(q)' /\ AnswerInv(q)'
  <2> SUFFICES ASSUME NEW q \in Requests PROVE CommitInv(q)' /\ AnswerInv(q)'
    OBVIOUS
  <2>1. CommitInv(q) /\ AnswerInv(q)
    BY DEF WriteInv
  <2> QED
    BY <1>0, <1>1, <2>1, CastFixed, ToolTypesParts, SMTT(30) DEF CommitInv, AnswerInv, ToolTypes
<1>4. SignInv'
  <2>1. Mutexed(r)
    BY <1>1, Signer DEF Mutexed
  <2>2. \A q \in Requests : q # r => call'[q] = call[q]
    BY <1>1, ToolTypesParts DEF ToolTypes
  <2>3. \A q \in Requests : q # r /\ call[q] \in {"checked", "reserved"} => FALSE
    BY <1>1, <2>1, Signer DEF WriteInv, SignInv, Mutexed
  <2>4. \A p, q \in Requests :
          Mutexed(p) /\ Mutexed(q) /\ call'[p] # "idle" /\ call'[q] # "idle" => p = q
    BY <1>1, <2>2 DEF WriteInv, SignInv
  <2>5. \A q \in Requests : call'[q] \in {"checked", "reserved"} /\ ~cut' => cap = with[q]
    BY <1>0, <1>1, <2>2, <2>3, ToolTypesParts DEF WriteInv, SignInv, ToolTypes
  <2> QED
    BY <1>0, <2>4, <2>5, CastFixed DEF WriteInv, SignInv, Holder, Owner, Of
<1> QED
  BY <1>0, <1>2, <1>3, <1>4, ToolTypesParts, ToolWindows DEF WriteInv

\* The write of a commit.
LEMMA CommitWritten ==
    ASSUME ProjectTypes, WriteInv, NEW r \in Requests, r \in git, Write(r, claim[r])
    PROVE  /\ wrote' \in [Requests -> Seq(Windows \X Nat)] /\ there' = there \cup {r}
           /\ Kind(r) = "commit" /\ Len(wrote'[r]) = 1 /\ wrote'[r] # <<>>
           /\ wrote[r] = <<>> /\ wrote'[r][Len(wrote'[r])] = claim[r]
           /\ \A q \in Requests : q # r => wrote'[q] = wrote[q]
<1>1. claim[r] \in Windows \X Nat /\ wrote[r] = <<>> /\ Kind(r) = "commit"
  BY Signer
<1> QED
  BY <1>1, FirstWrite

\* One command of commitMu is on its way.
LEMMA OneCommit ==
    ASSUME WriteInv, NEW r \in Requests, call[r] \in {"checked", "reserved", "started"},
           NEW q \in Requests, call[q] \in {"checked", "reserved", "started"}
    PROVE  q = r
<1>1. Mutexed(q) /\ Mutexed(r)
  BY Signer DEF Mutexed
<1> QED
  BY <1>1 DEF WriteInv, SignInv

\* Git is started.
LEMMA StartKeeps ==
    ASSUME ProjectTypes, WriteInv, NEW r \in Requests, CommitStarts(r)
    PROVE  ProjectTypes' /\ WriteInv'
<1>0. /\ UNCHANGED <<cast, win, ledger, cap, tries, handed, consent, there, wrote, claim, with,
                     result, cut, file, told>>
      /\ call[r] = "reserved" /\ call' = [call EXCEPT ![r] = "started"] /\ git' = git \cup {r}
  BY Zenon DEF CommitStarts, room, broker, world
<1>1. Kind(r) = "commit" /\ wrote[r] = <<>> /\ file[r] # "none" /\ result[r] = "identity"
  BY <1>0, Signer DEF WriteInv, CommitInv
<1>2. ToolTypes'
  <2>1. ToolTypes
    BY ToolTypesParts
  <2>2. call' \in [Requests -> {"idle", "waiting", "checked", "reserved", "started"}]
    BY <1>0, <2>1 DEF ToolTypes
  <2>3. git' \subseteq Requests
    BY <1>0, <2>1 DEF ToolTypes
  <2> QED
    BY <1>0, <2>1, <2>2, <2>3, Zenon DEF ToolTypes
<1>3. \A q \in Requests : CommitInv(q)' /\ AnswerInv(q)'
  <2> SUFFICES ASSUME NEW q \in Requests PROVE CommitInv(q)' /\ AnswerInv(q)'
    OBVIOUS
  <2>1. CommitInv(q) /\ AnswerInv(q)
    BY DEF WriteInv
  <2>2. CASE q # r
    <3>1. call'[q] = call[q] /\ (q \in git' <=> q \in git)
      BY <1>0, <2>2, ToolTypesParts DEF ToolTypes
    <3> QED
      BY <1>0, <2>1, <3>1, CastFixed DEF CommitInv, AnswerInv
  <2>3. CASE q = r
    <3>1. call'[r] = "started" /\ r \in git'
      BY <1>0, ToolTypesParts DEF ToolTypes
    <3> QED
      BY <1>0, <1>1, <2>1, <2>3, <3>1, CastFixed DEF CommitInv, AnswerInv
  <2> QED
    BY <2>2, <2>3
<1>4. SignInv'
  <2>1. \A q \in Requests : q # r => call'[q] = call[q]
    BY <1>0, ToolTypesParts DEF ToolTypes
  <2>2. call'[r] = "started"
    BY <1>0, ToolTypesParts DEF ToolTypes
  <2>3. \A q \in Requests : call'[q] \in {"checked", "reserved"} => FALSE
    BY <1>0, <2>1, <2>2, OneCommit
  <2>4. \A p, q \in Requests :
          Mutexed(p) /\ Mutexed(q) /\ call'[p] # "idle" /\ call'[q] # "idle" => p = q
    BY <1>0, <2>1 DEF WriteInv, SignInv
  <2> QED
    BY <1>0, <2>3, <2>4, CastFixed DEF WriteInv, SignInv, Holder, Owner, Of
<1> QED
  BY <1>0, <1>2, <1>3, <1>4, ToolTypesParts, ToolWindows DEF WriteInv

\* Git moves the branch.
LEMMA MoveKeeps ==
    ASSUME ProjectTypes, WriteInv, NEW r \in Requests, GitMoves(r)
    PROVE  ProjectTypes' /\ WriteInv'
<1>0. /\ UNCHANGED <<cast, win, ledger, cap, tries, handed, consent, claim, with, result, cut,
                     file, told, call>>
      /\ r \in git /\ git' = git \ {r} /\ Write(r, claim[r])
  BY Zenon DEF GitMoves, room, broker
<1>1. /\ Kind(r) = "commit" /\ wrote[r] = <<>> /\ file[r] # "none" /\ result[r] = "identity"
      /\ call[r] # "reserved"
  BY <1>0, Signer DEF WriteInv, CommitInv
<1>2. /\ wrote' \in [Requests -> Seq(Windows \X Nat)] /\ Len(wrote'[r]) = 1
      /\ there' = there \cup {r} /\ \A q \in Requests : q # r => wrote'[q] = wrote[q]
  BY <1>0, CommitWritten
<1>3. there \subseteq there' /\ there' \subseteq Requests /\ git' \subseteq Requests /\ r \in there'
  BY <1>0, <1>2 DEF ProjectTypes
<1>4. ToolTypes'
  BY <1>0, <1>2, <1>3, ToolTypesParts, Zenon DEF ToolTypes
<1>5. \A q \in Requests : CommitInv(q)' /\ AnswerInv(q)'
  <2> SUFFICES ASSUME NEW q \in Requests PROVE CommitInv(q)' /\ AnswerInv(q)'
    OBVIOUS
  <2>1. CommitInv(q) /\ AnswerInv(q)
    BY DEF WriteInv
  <2>2. AnswerInv(q)'
    BY <1>0, <1>3, <2>1, CastFixed DEF AnswerInv
  <2>3. CASE q # r
    <3>1. wrote'[q] = wrote[q] /\ (q \in git' <=> q \in git) /\ (q \in there' <=> q \in there)
      BY <1>0, <1>2, <2>3
    <3>2. CommitInv(q)'
      BY <1>0, <2>1, <3>1, CastFixed DEF CommitInv
    <3> QED
      BY <2>2, <3>2
  <2>4. CASE q = r
    <3>1. r \notin git' /\ call[r] \notin {"reserved", "checked"}
      BY <1>0, <1>1, <2>1, <2>4 DEF CommitInv
    <3>2. Kind(q)' = "commit" /\ result'[q] = "identity" /\ file'[q] # "none" /\ q \in there'
      BY <1>0, <1>1, <1>3, <2>4, CastFixed
    <3>3. Len(wrote'[q]) <= 1
      <4>1. Len(wrote'[q]) = 1
        BY <1>2, <2>4, Zenon
      <4> QED
        BY <4>1
    <3>4. call'[q] \notin {"reserved", "checked"} /\ q \notin git'
      BY <1>0, <2>4, <3>1
    <3>5. Kind(q)' = "commit" /\ call'[q] \in {"waiting", "checked"} => file'[q] = "none"
      BY <1>0, <2>1, CastFixed DEF CommitInv
    <3>6. CommitInv(q)'
      BY <3>2, <3>3, <3>4, <3>5 DEF CommitInv
    <3> QED
      BY <2>2, <3>6
  <2> QED
    BY <2>3, <2>4
<1>6. SignInv'
  BY <1>0, CastFixed DEF WriteInv, SignInv, Holder, Owner, Of
<1> QED
  BY <1>0, <1>2, <1>3, <1>1, <1>4, <1>5, <1>6, ToolTypesParts, ToolWindows DEF WriteInv

\* Commit returns, and the receipt is saved or not.
LEMMA EndKeeps ==
    ASSUME ProjectTypes, WriteInv, NEW r \in Requests, CommitEnds(r)
    PROVE  ProjectTypes' /\ WriteInv'
<1>0. /\ UNCHANGED <<cast, win, ledger, cap, tries, handed, consent, claim, with, result, there,
                     wrote>>
      /\ cut' = FALSE /\ cut' \in BOOLEAN /\ git' = git \ {r}
      /\ call[r] \in {"reserved", "started"} /\ call' = [call EXCEPT ![r] = "idle"]
  BY Zenon DEF CommitEnds, room, broker, world, Return
<1>1. Kind(r) = "commit" /\ file[r] # "none" /\ (r \notin git /\ call[r] = "started" => r \in there)
  BY <1>0, Signer
<1>3. /\ file' = file \/ (file' = [file EXCEPT ![r] = "completed"] /\ r \in there)
      /\ \/ told' = [told EXCEPT ![r] = "completed"] /\ r \in there
         \/ told' = [told EXCEPT ![r] = "unknown"]
  BY <1>1 DEF CommitEnds, Return
<1>4. ToolTypes'
  <2>1. ToolTypes
    BY ToolTypesParts
  <2>2. call' \in [Requests -> {"idle", "waiting", "checked", "reserved", "started"}]
    BY <1>0, <2>1 DEF ToolTypes
  <2>3. told' \in [Requests -> {"none", "failed", "refused", "unknown", "completed", "identity"}]
    BY <1>3, <2>1 DEF ToolTypes
  <2>4. file' \in [Requests -> {"none", "unknown", "completed"}]
    BY <1>3, <2>1 DEF ToolTypes
  <2>5. git' \subseteq Requests
    BY <1>0, <2>1 DEF ToolTypes
  <2> QED
    BY <1>0, <2>1, <2>2, <2>3, <2>4, <2>5, Zenon DEF ToolTypes
<1>5. \A q \in Requests : CommitInv(q)' /\ AnswerInv(q)'
  <2> SUFFICES ASSUME NEW q \in Requests PROVE CommitInv(q)' /\ AnswerInv(q)'
    OBVIOUS
  <2>1. CommitInv(q) /\ AnswerInv(q)
    BY DEF WriteInv
  <2>3. CASE q # r
    <3>1. /\ call'[q] = call[q] /\ told'[q] = told[q] /\ file'[q] = file[q]
          /\ q \in git' <=> q \in git
      BY <1>0, <1>3, <2>3, ToolTypesParts DEF ToolTypes
    <3> QED
      BY <1>0, <2>1, <3>1, CastFixed DEF CommitInv, AnswerInv
  <2>4. CASE q = r
    <3>1. /\ call'[r] = "idle" /\ told'[r] \in {"completed", "unknown"} /\ file'[r] # "none"
          /\ r \notin git'
      BY <1>0, <1>1, <1>3, ToolTypesParts DEF ToolTypes
    <3>2. (told'[r] = "completed" => r \in there) /\ (file'[r] = "completed" => r \in there)
      BY <1>3, <2>1, <2>4, ToolTypesParts DEF ToolTypes, AnswerInv
    <3> QED
      BY <1>0, <2>1, <2>4, <3>1, <3>2, CastFixed DEF CommitInv, AnswerInv
  <2> QED
    BY <2>3, <2>4
<1>6. SignInv'
  <2>1. \A q \in Requests : call'[q] # "idle" => q # r /\ call'[q] = call[q]
    BY <1>0, ToolTypesParts DEF ToolTypes
  <2>2. \A q \in Requests : call'[q] \notin {"checked", "reserved"}
    BY <1>0, <2>1, OneCommit
  <2> QED
    BY <1>0, <2>1, <2>2, CastFixed DEF WriteInv, SignInv, Holder, Owner, Of
<1> QED
  BY <1>0, <1>1, <1>4, <1>5, <1>6, ToolTypesParts, ToolWindows DEF WriteInv

LEMMA ToolKeeps ==
    ASSUME ProjectTypes, WriteInv, ToolNext
    PROVE  ProjectTypes' /\ WriteInv'
  BY CallKeeps, ReturnKeeps, CommitKeeps, StartKeeps, MoveKeeps, EndKeeps DEF ToolNext

\* A host that dies ends every command and every poll, but not the git it started.
LEMMA RestartKeeps ==
    ASSUME ProjectTypes, WriteInv, HostRestarts
    PROVE  ProjectTypes' /\ WriteInv'
<1>0. /\ UNCHANGED <<cast, tries, claim, handed, with, file, git, ledger, consent, there, wrote>>
      /\ cap' = None /\ cut' = FALSE /\ cut' \in BOOLEAN
      /\ call' = [r \in Requests |-> "idle"]
      /\ told' = [r \in Requests |-> IF call[r] = "idle" THEN told[r] ELSE "failed"]
  BY Zenon DEF HostRestarts, room, world
<1>1. /\ result' \in [Requests -> {"none", "error", "unknown", "completed", "identity"}]
      /\ \A r \in Requests : result'[r] \in {result[r], "error"}
  BY DEF HostRestarts, ProjectTypes
<1>3. \A w \in Windows : /\ win'[w] \in WinRecords /\ GrantsLess(win'[w], win[w])
                         /\ win'[w] = win[w] \/ AtRest(win'[w])
  BY ForgetsType DEF HostRestarts, ProjectTypes, GrantsLess
<1>4. ProjectTypes'
  <2>1. win' \in [Windows -> WinRecords]
    BY <1>3 DEF HostRestarts
  <2>2. told' \in [Requests -> {"none", "failed", "refused", "unknown", "completed", "identity"}]
    BY <1>0 DEF ProjectTypes
  <2>3. call' \in [Requests -> {"idle", "waiting", "checked", "reserved", "started"}]
    BY <1>0
  <2>4. cap' \in (Messages \X Nat) \cup {None}
    BY <1>0
  <2> QED
    BY <1>0, <1>1, <2>1, <2>2, <2>3, <2>4, Zenon DEF ProjectTypes
<1>5. \A w \in Windows : WindowInv(w)'
  BY <1>0, <1>3, SameWindow, WindowRests DEF WriteInv, Grows
<1>6. LedgerInv'
  BY <1>0, <1>3, LedgerStays DEF AtRest
<1>7. \A q \in Requests : CommitInv(q)' /\ AnswerInv(q)'
  <2> SUFFICES ASSUME NEW q \in Requests PROVE CommitInv(q)' /\ AnswerInv(q)'
    OBVIOUS
  <2>1. CommitInv(q) /\ AnswerInv(q)
    BY DEF WriteInv
  <2>2. call'[q] = "idle" /\ (told'[q] = told[q] \/ told'[q] = "failed") /\ file'[q] = file[q]
    BY <1>0
  <2>3. q \in git => result'[q] = "identity"
    BY <2>1 DEF HostRestarts, CommitInv
  <2>4. CommitInv(q)'
    BY <1>0, <2>1, <2>2, <2>3, CastFixed DEF CommitInv
  <2>5. AnswerInv(q)'
    BY <1>0, <1>1, <2>1, <2>2, CastFixed DEF AnswerInv
  <2> QED
    BY <2>4, <2>5
<1>8. SignInv'
  BY <1>0, <1>1, CastFixed DEF WriteInv, SignInv, Holder, Owner, Of
<1> QED
  BY <1>4, <1>5, <1>6, <1>7, <1>8 DEF WriteInv

----------------------------------------------------------------------------
(* The windows.                                                            *)

\* What every step of window w does.
WindowStep(w) ==
    /\ UNCHANGED hostVars /\ Grows /\ ResultsGiven
    /\ \E u \in WinRecords : win' = [win EXCEPT ![w] = u]
    /\ \A r \in Requests : result[r] # "none" => claim'[r] = claim[r]
    /\ \A r \in Requests : wrote'[r] = wrote[r] \/ (Kind(r) # "commit" /\ Len(wrote'[r]) = 1)

\* The types a window can touch.
WindowTypes ==
    /\ ledger \in [Persons -> [Requests -> {"none", "unknown", "completed"}]]
    /\ result \in [Requests -> {"none", "error", "unknown", "completed", "identity"}]
    /\ wrote \in [Requests -> Seq(Windows \X Nat)] /\ there \subseteq Requests
    /\ claim \in [Requests -> (Windows \X Nat) \cup {None}]

LEMMA WindowStepInv ==
    ASSUME ProjectTypes, WriteInv, NEW w \in Windows, WindowStep(w), WindowTypes',
           WindowInv(w)', LedgerInv'
    PROVE  ProjectTypes' /\ WriteInv'
<1>0. UNCHANGED <<cast, call, with, cut, file, told, git, cap, tries>>
  BY Zenon DEF WindowStep, hostVars, tool, room
<1>1. win' \in [Windows -> WinRecords] /\ \A x \in Windows : x # w => win'[x] = win[x]
  BY DEF WindowStep, ProjectTypes
<1>2. ProjectTypes'
  BY <1>0, <1>1, Zenon DEF ProjectTypes, WindowTypes
<1>3. \A x \in Windows : WindowInv(x)'
  BY <1>1, SameWindow DEF WriteInv, WindowStep
<1>4. \A r \in Requests : CommitInv(r)' /\ AnswerInv(r)'
  BY <1>0, CommandsKeep DEF WriteInv, WindowStep
<1>5. SignInv'
  BY <1>0, SignKeeps DEF WriteInv, WindowStep
<1> QED
  BY <1>2, <1>3, <1>4, <1>5 DEF WriteInv

LEMMA WindowTypesNow ==
    ASSUME ProjectTypes
    PROVE  WindowTypes
  BY Zenon DEF ProjectTypes, WindowTypes

\* A step of window w that leaves broker, ledgers and effects alone.
LEMMA OwnStep ==
    ASSUME ProjectTypes, WriteInv, NEW w \in Windows, NEW u \in WinRecords,
           win' = [win EXCEPT ![w] = u],
           UNCHANGED <<hostVars, claim, result, handed, ledger, world, consent>>,
           u.pc = "reserved" => win[w].pc = "reserved" /\ u.work = win[w].work,
           WindowInv(w)'
    PROVE  ProjectTypes' /\ WriteInv'
<1>1. WindowStep(w)
  BY DEF WindowStep, Grows, ResultsGiven, hostVars, world
<1>2. WindowTypes'
  BY WindowTypesNow, Zenon DEF WindowTypes, world
<1>3. win'[w] = u /\ \A x \in Windows : x # w => win'[x] = win[x]
  BY DEF ProjectTypes
<1>4. LedgerInv'
  BY <1>3, LedgerKeeps DEF WriteInv, world, hostVars
<1> QED
  BY <1>1, <1>2, <1>4, WindowStepInv

\* ... and only loses grants.
LEMMA LosingStep ==
    ASSUME ProjectTypes, WriteInv, NEW w \in Windows, NEW u \in WinRecords,
           win' = [win EXCEPT ![w] = u],
           UNCHANGED <<hostVars, claim, result, handed, ledger, world, consent>>,
           GrantsLess(u, win[w]),
           \/ AtRest(u)
           \/ /\ u.res = win[w].res /\ u.work = win[w].work
              /\ \/ u.pc = win[w].pc
                 \/ win[w].pc = "idle" /\ u.pc = "asking"
                 \/ win[w].pc = "run" /\ u.pc = "packed"
    PROVE  ProjectTypes' /\ WriteInv'
<1>1. win'[w] = u
  BY DEF ProjectTypes
<1>2. Grows
  BY DEF Grows, world, hostVars
<1>3. WindowInv(w)'
  BY <1>1, <1>2, WindowKeeps, WindowRests DEF WriteInv
<1>4. u.pc = "reserved" => win[w].pc = "reserved" /\ u.work = win[w].work
  BY DEF AtRest
<1> QED
  BY <1>3, <1>4, OwnStep

\* The connection, the monitor's decision to cut and what the user takes back.
LEMMA SmallSteps ==
    ASSUME ProjectTypes, WriteInv, NEW w \in Windows,
           Connect(w) \/ Withdraw(w) \/ Decline(w) \/ Download(w)
    PROVE  ProjectTypes' /\ WriteInv'
<1>0. win[w] \in WinRecords
  BY DEF ProjectTypes
<1>1. CASE Connect(w)
  <2>1. UNCHANGED <<hostVars, claim, result, handed, ledger, world, consent>> /\ win[w].pc = "idle"
    BY <1>1 DEF Connect, broker
  <2>2. CASE win' = [win EXCEPT ![w] = Forgets(w)]
    BY <1>0, <2>1, <2>2, ForgetsType, LosingStep
  <2>3. CASE win' = [win EXCEPT ![w] = [win[w] EXCEPT !.pc = "asking", !.conn = TRUE]]
    <3> DEFINE u == [win[w] EXCEPT !.pc = "asking", !.conn = TRUE]
    <3>1. u \in WinRecords /\ GrantsLess(u, win[w]) /\ u.res = win[w].res /\ u.work = win[w].work
          /\ u.pc = "asking"
      BY <1>0 DEF WinRecords, GrantsLess
    <3> HIDE DEF u
    <3> QED
      BY <2>1, <2>3, <3>1, LosingStep DEF u
  <2> QED
    BY <1>1, <2>2, <2>3 DEF Connect
<1>2. CASE Withdraw(w)
  <2> DEFINE c == Running(w)
             u == [win[w] EXCEPT !.account = FALSE, !.git = FALSE, !.append = None, !.push = None,
                                 !.cut = c]
  <2>1. UNCHANGED <<hostVars, claim, result, handed, ledger, world, consent>>
        /\ win' = [win EXCEPT ![w] = u]
    BY <1>2 DEF Withdraw, broker
  <2>2. c \in BOOLEAN
    BY DEF Running
  <2> HIDE DEF c
  <2>3. u \in WinRecords /\ GrantsLess(u, win[w]) /\ u.res = win[w].res /\ u.work = win[w].work
        /\ u.pc = win[w].pc
    BY <1>0, <2>2 DEF WinRecords, GrantsLess, MaybeRequest
  <2> HIDE DEF u
  <2> QED
    BY <2>1, <2>3, LosingStep
<1>3. CASE Decline(w)
  <2> DEFINE u == [win[w] EXCEPT !.decline = win[w].seen]
  <2>1. UNCHANGED <<hostVars, claim, result, handed, ledger, world, consent>>
        /\ win' = [win EXCEPT ![w] = u]
    BY <1>3 DEF Decline, broker
  <2>2. u \in WinRecords /\ GrantsLess(u, win[w]) /\ u.res = win[w].res /\ u.work = win[w].work
        /\ u.pc = win[w].pc
    BY <1>0 DEF WinRecords, GrantsLess
  <2> HIDE DEF u
  <2> QED
    BY <2>1, <2>2, LosingStep
<1>4. CASE Download(w)
  <2>1. UNCHANGED <<hostVars, claim, result, handed, ledger, world, consent>> /\ win[w].pc = "run"
    BY <1>4 DEF Download, broker
  <2>2. CASE win' = [win EXCEPT ![w] = Fails(w)]
    BY <1>0, <2>1, <2>2, FailsType, LosingStep
  <2>3. CASE win' = [win EXCEPT ![w].pc = "packed"]
    <3> DEFINE u == [win[w] EXCEPT !.pc = "packed"]
    <3>1. u \in WinRecords /\ GrantsLess(u, win[w]) /\ u.res = win[w].res /\ u.work = win[w].work
          /\ u.pc = "packed"
      BY <1>0 DEF WinRecords, GrantsLess
    <3>2. win' = [win EXCEPT ![w] = u]
      BY <2>3
    <3> HIDE DEF u
    <3> QED
      BY <2>1, <3>1, <3>2, LosingStep
  <2> QED
    BY <1>4, <2>2, <2>3 DEF Download
<1> QED
  BY <1>1, <1>2, <1>3, <1>4

\* The user agrees to what the window shows.
LEMMA GrantKeeps ==
    ASSUME ProjectTypes, WriteInv, NEW w \in Windows, Grant(w)
    PROVE  ProjectTypes' /\ WriteInv'
<1> DEFINE v == win[w]
           r == v.seen
           i == Instance(w)
<1>0. v \in WinRecords /\ r \in Requests /\ Kind(r) \in Kinds /\ v.pc \notin Working
  <2>1. v \in WinRecords /\ r # None /\ ~Running(w)
    BY DEF Grant, ProjectTypes
  <2>2. r \in Requests
    BY <2>1 DEF WinRecords, MaybeRequest
  <2>3. Kind(r) \in Kinds
    BY <2>2, CastTypes DEF ProjectTypes
  <2> QED
    BY <2>1, <2>2, <2>3 DEF Running, Working
<1>1. UNCHANGED <<hostVars, claim, result, handed, ledger, world>> /\ consent \subseteq consent'
  BY DEF Grant, broker
<1>2. PICK u \in WinRecords :
        /\ win' = [win EXCEPT ![w] = u]
        /\ u.gen = v.gen /\ u.pc = v.pc /\ u.work = v.work /\ u.res = v.res
        /\ u.push = v.push \/ (u.push = r /\ <<r, i>> \in consent')
        /\ u.append = v.append \/ (u.append = r /\ <<r, i>> \in consent')
        /\ u.account = v.account \/ <<"create", i>> \in consent'
        /\ u.git = v.git \/ <<"commit", i>> \in consent'
  <2>1. CASE Kind(r) = "push"
    <3> DEFINE u == [v EXCEPT !.push = r]
    <3>1. win' = [win EXCEPT ![w] = u] /\ <<r, i>> \in consent'
      BY <2>1 DEF Grant
    <3>2. u \in WinRecords
      BY <1>0 DEF WinRecords, MaybeRequest
    <3> QED
      BY <1>0, <3>1, <3>2 DEF WinRecords
  <2>2. CASE Kind(r) = "commit"
    <3> DEFINE u == [v EXCEPT !.git = TRUE]
    <3>1. win' = [win EXCEPT ![w] = u] /\ <<"commit", i>> \in consent'
      BY <2>2 DEF Grant
    <3>2. u \in WinRecords
      BY <1>0 DEF WinRecords, MaybeRequest
    <3> QED
      BY <1>0, <3>1, <3>2 DEF WinRecords
  <2>3. CASE Kind(r) = "create"
    <3> DEFINE u == [v EXCEPT !.account = TRUE]
    <3>1. win' = [win EXCEPT ![w] = u] /\ <<"create", i>> \in consent'
      BY <2>3 DEF Grant
    <3>2. u \in WinRecords
      BY <1>0 DEF WinRecords, MaybeRequest
    <3> QED
      BY <1>0, <3>1, <3>2 DEF WinRecords
  <2>4. CASE Kind(r) = "append"
    <3> DEFINE u == [v EXCEPT !.account = TRUE, !.append = r]
    <3>1. win' = [win EXCEPT ![w] = u] /\ <<r, i>> \in consent' /\ <<"create", i>> \in consent'
      BY <2>4 DEF Grant
    <3>2. u \in WinRecords
      BY <1>0 DEF WinRecords, MaybeRequest
    <3> QED
      BY <1>0, <3>1, <3>2 DEF WinRecords
  <2> QED
    BY <1>0, <2>1, <2>2, <2>3, <2>4 DEF Kinds
<1>3. win'[w] = u /\ \A x \in Windows : x # w => win'[x] = win[x]
  BY <1>2 DEF ProjectTypes
<1>4. Grows /\ WindowStep(w)
  BY <1>1, <1>2 DEF WindowStep, Grows, ResultsGiven, hostVars, world
<1>5. WindowTypes'
  BY <1>1, WindowTypesNow, Zenon DEF WindowTypes, world
<1>6. LedgerInv'
  BY <1>1, <1>2, <1>3, LedgerKeeps DEF WriteInv, world, hostVars
<1>7. WindowInv(w)'
  <2>1. Instance(w)' = i
    BY <1>2, <1>3 DEF Instance
  <2>2. WindowInv(w)
    BY DEF WriteInv
  <2> HIDE DEF i
  <2> QED
    BY <1>0, <1>2, <1>3, <1>4, <2>1, <2>2, CastFixed DEF WindowInv, Grows, Working, i
<1> QED
  BY <1>4, <1>5, <1>6, <1>7, WindowStepInv

\* A request that is handed out has no result, and belongs to the window's holder.
LEMMA NextHands ==
    ASSUME ProjectTypes, NEW w \in Windows, NEW r \in Next1(Instance(w)), Handed(r, Instance(w))
    PROVE  /\ r \in MaybeRequest /\ handed \subseteq handed'
           /\ claim' \in [Requests -> (Windows \X Nat) \cup {None}]
           /\ \A q \in Requests : result[q] # "none" => claim'[q] = claim[q]
           /\ r # None => Holder(Instance(w)) = Owner(r) /\ <<r, Instance(w)>> \in handed'
<1> DEFINE i == Instance(w)
<1>1. i \in Windows \X Nat
  BY DEF Instance, ProjectTypes, WinRecords
<1> HIDE DEF i
<1>2. r = None \/ (r \in Requests /\ result[r] = "none" /\ Holder(i) = Owner(r))
  BY DEF Next1, Claimable, i
<1>3. CASE r = None
  BY <1>3 DEF Handed, MaybeRequest, ProjectTypes
<1>4. CASE r # None
  <2>1. claim' = [claim EXCEPT ![r] = i] /\ handed' = handed \cup {<<r, i>>}
    BY <1>4 DEF Handed, i
  <2>2. claim \in [Requests -> (Windows \X Nat) \cup {None}]
    BY DEF ProjectTypes
  <2>3. claim' \in [Requests -> (Windows \X Nat) \cup {None}]
    BY <1>1, <2>1, <2>2
  <2> QED
    BY <1>2, <1>4, <2>1, <2>2, <2>3 DEF MaybeRequest, i
<1> QED
  BY <1>3, <1>4

\* A step of window w that may claim a request and holds no new reservation.
LEMMA ClaimStep ==
    ASSUME ProjectTypes, WriteInv, NEW w \in Windows, NEW u \in WinRecords,
           win' = [win EXCEPT ![w] = u],
           UNCHANGED <<hostVars, result, ledger, world, consent>>, handed \subseteq handed',
           claim' \in [Requests -> (Windows \X Nat) \cup {None}],
           \A q \in Requests : result[q] # "none" => claim'[q] = claim[q],
           u.pc = "reserved" => win[w].pc = "reserved" /\ u.work = win[w].work,
           Grows => WindowInv(w)'
    PROVE  ProjectTypes' /\ WriteInv'
<1>1. WindowStep(w) /\ Grows
  BY DEF WindowStep, Grows, ResultsGiven, hostVars, world
<1>2. WindowTypes'
  BY WindowTypesNow, Zenon DEF WindowTypes, world
<1>3. win'[w] = u /\ \A x \in Windows : x # w => win'[x] = win[x]
  BY DEF ProjectTypes
<1>4. LedgerInv'
  BY <1>3, LedgerKeeps DEF WriteInv, world, hostVars
<1> QED
  BY <1>1, <1>2, <1>4, WindowStepInv

\* A grant of the window is an agreement of its user.
LEMMA GrantedIsAgreed ==
    ASSUME NEW w \in Windows, NEW r \in Requests, WindowInv(w), Granted(w, r),
           Kind(r) \in Kinds, Kind(r) # "commit", None \notin Requests
    PROVE  Agreed(r, Instance(w))
<1>1. CASE Kind(r) = "push"
  BY <1>1 DEF WindowInv, Granted, Agreed
<1>2. CASE Kind(r) = "append"
  BY <1>2 DEF WindowInv, Granted, Agreed
<1>3. CASE Kind(r) = "create"
  BY <1>3 DEF WindowInv, Granted, Agreed
<1> QED
  BY <1>1, <1>2, <1>3 DEF Kinds

\* The poll is answered: with nothing, with an answer to repeat, or with work.
LEMMA LearnKeeps ==
    ASSUME ProjectTypes, WriteInv, NEW w \in Windows, NEW r \in Next1(Instance(w)),
           Handed(r, Instance(w)), Grows, win' = [win EXCEPT ![w] = Learns(w, r)]
    PROVE  WindowInv(w)'
<1> DEFINE u == Learns(w, r)
<1>0. PICK i : i = Instance(w)
  OBVIOUS
<1>1. /\ r \in MaybeRequest
      /\ r # None => r \in Requests /\ Holder(i) = Owner(r) /\ <<r, i>> \in handed'
  BY <1>0, NextHands DEF MaybeRequest
<1>2. /\ u \in WinRecords /\ GrantsLess(u, win[w])
      /\ \/ AtRest(u)
         \/ /\ r # None /\ u.work = r /\ u.pc = "resend"
            /\ \/ Kind(r) = "commit" /\ win[w].git /\ u.res = "identity"
               \/ u.res \in {"unknown", "completed"} /\ u.res = ledger[cast.holder[w]][r]
         \/ /\ r # None /\ u.work = r /\ u.pc \in {"run", "packed"} /\ u.res = "none"
            /\ Kind(r) # "commit" /\ Granted(w, r)
  BY <1>1, LearnsType
<1> HIDE DEF u
<1>3. win'[w] = u
  BY DEF ProjectTypes, u
<1>4. WindowInv(w) /\ LedgerInv
  BY DEF WriteInv
<1>5. Instance(w)' = i
  BY <1>0, <1>2, <1>3 DEF Instance, GrantsLess
<1>6. CASE AtRest(u)
  BY <1>2, <1>3, <1>4, <1>6, WindowRests
<1>7. /\ u.push # None => <<u.push, i>> \in consent'
      /\ u.append # None => <<u.append, i>> \in consent'
      /\ u.account => <<"create", i>> \in consent'
      /\ u.git => <<"commit", i>> \in consent'
  BY <1>0, <1>2, <1>4 DEF WindowInv, GrantsLess, Grows
<1>8. r # None => Holder(i)' = Owner(r)' /\ Kind(r)' = Kind(r)
  BY <1>1, CastFixed DEF Grows
<1>9. CASE /\ r # None /\ u.work = r /\ u.pc = "resend"
           /\ \/ Kind(r) = "commit" /\ win[w].git /\ u.res = "identity"
              \/ u.res \in {"unknown", "completed"} /\ u.res = ledger[cast.holder[w]][r]
  <2>1. u.res = "completed" => r \in there'
    BY <1>1, <1>4, <1>9, CastTypes DEF LedgerInv, Grows, ProjectTypes
  <2>2. u.res = "identity" => Kind(r) = "commit" /\ <<"commit", i>> \in consent'
    BY <1>0, <1>4, <1>9 DEF WindowInv, Grows
  <2> QED
    BY <1>1, <1>3, <1>5, <1>7, <1>8, <1>9, <2>1, <2>2 DEF WindowInv, Working
<1>10. CASE /\ r # None /\ u.work = r /\ u.pc \in {"run", "packed"} /\ u.res = "none"
            /\ Kind(r) # "commit" /\ Granted(w, r)
  <2>1. Agreed(r, i)
    BY <1>0, <1>1, <1>4, <1>10, GrantedIsAgreed, CastTypes, PersonalAssumption DEF ProjectTypes
  <2>2. Agreed(r, i)'
    BY <1>10, <2>1, CastFixed DEF Agreed, Grows
  <2>3. Agreed(win[w].work, Instance(w))'
    BY <1>5, <1>10, <2>2, <1>3 DEF Agreed
  <2> QED
    BY <1>1, <1>3, <1>5, <1>7, <1>8, <1>10, <2>3 DEF WindowInv, Working
<1> QED
  BY <1>2, <1>6, <1>9, <1>10

LEMMA ServeKeeps ==
    ASSUME ProjectTypes, WriteInv, NEW w \in Windows, Serve(w)
    PROVE  ProjectTypes' /\ WriteInv'
<1>0. win[w] \in WinRecords /\ WindowInv(w)
  BY DEF ProjectTypes, WriteInv
<1>1. UNCHANGED <<hostVars, result, ledger, world, consent>>
  BY DEF Serve
<1>2. Forgets(w) \in WinRecords /\ AtRest(Forgets(w)) /\ GrantsLess(Forgets(w), win[w])
  BY <1>0, ForgetsType
<1>3. CASE win' = [win EXCEPT ![w] = Forgets(w)] /\ UNCHANGED <<claim, handed>>
  BY <1>1, <1>2, <1>3, LosingStep
<1>4. ASSUME NEW r \in Next1(Instance(w)), Handed(r, Instance(w)),
             win' = [win EXCEPT ![w] = Forgets(w)]
      PROVE  ProjectTypes' /\ WriteInv'
  <2>1. /\ claim' \in [Requests -> (Windows \X Nat) \cup {None}] /\ handed \subseteq handed'
        /\ \A q \in Requests : result[q] # "none" => claim'[q] = claim[q]
    BY <1>4, NextHands
  <2>2. win'[w] = Forgets(w)
    BY <1>4 DEF ProjectTypes
  <2>3. Grows => WindowInv(w)'
    BY <1>0, <1>2, <2>2, WindowRests
  <2>4. Forgets(w).pc # "reserved"
    BY <1>2 DEF AtRest
  <2> QED
    BY <1>1, <1>2, <1>4, <2>1, <2>3, <2>4, ClaimStep
<1>5. ASSUME NEW r \in Next1(Instance(w)), Handed(r, Instance(w)),
             win' = [win EXCEPT ![w] = Learns(w, r)]
      PROVE  ProjectTypes' /\ WriteInv'
  <2>1. /\ claim' \in [Requests -> (Windows \X Nat) \cup {None}] /\ handed \subseteq handed'
        /\ \A q \in Requests : result[q] # "none" => claim'[q] = claim[q]
        /\ r \in MaybeRequest
    BY <1>5, NextHands
  <2>2. Learns(w, r) \in WinRecords /\ Learns(w, r).pc # "reserved"
    BY <2>1, LearnsType DEF AtRest
  <2>3. Grows => WindowInv(w)'
    BY <1>5, LearnKeeps
  <2> QED
    BY <1>1, <1>5, <2>1, <2>2, <2>3, ClaimStep
<1> QED
  BY <1>3, <1>4, <1>5 DEF Serve

LEMMA MonitorKeeps ==
    ASSUME ProjectTypes, WriteInv, NEW w \in Windows, Monitor(w)
    PROVE  ProjectTypes' /\ WriteInv'
<1> DEFINE u == [win[w] EXCEPT !.cut = TRUE]
<1>0. win[w] \in WinRecords /\ WindowInv(w)
  BY DEF ProjectTypes, WriteInv
<1>1. UNCHANGED <<hostVars, result, ledger, world, consent>> /\ win' = [win EXCEPT ![w] = u]
  BY DEF Monitor
<1>2. u \in WinRecords /\ GrantsLess(u, win[w]) /\ u.res = win[w].res /\ u.work = win[w].work
      /\ u.pc = win[w].pc
  BY <1>0 DEF WinRecords, GrantsLess
<1> HIDE DEF u
<1>3. win'[w] = u
  BY <1>1 DEF ProjectTypes
<1>4. Grows => WindowInv(w)'
  BY <1>0, <1>2, <1>3, WindowKeeps
<1>5. CASE UNCHANGED <<claim, handed>>
  BY <1>1, <1>2, <1>5, LosingStep
<1>6. CASE \E r \in Next1(Instance(w)) : Handed(r, Instance(w))
  <2>1. /\ claim' \in [Requests -> (Windows \X Nat) \cup {None}] /\ handed \subseteq handed'
        /\ \A q \in Requests : result[q] # "none" => claim'[q] = claim[q]
    BY <1>6, NextHands
  <2> QED
    BY <1>1, <1>2, <1>4, <2>1, ClaimStep
<1> QED
  BY <1>5, <1>6 DEF Monitor

\* A window that is done may give the result of a request it claimed.
LEMMA ResolveStep ==
    ASSUME ProjectTypes, WriteInv, NEW w \in Windows, NEW u \in WinRecords,
           win' = [win EXCEPT ![w] = u], NEW r, NEW res,
           UNCHANGED result \/ Resolve(r, Instance(w), res),
           UNCHANGED <<hostVars, claim, handed, ledger, world, consent>>,
           Accepts(r, Instance(w)) =>
               /\ r \in Requests /\ res \in {"error", "unknown", "completed", "identity"}
               /\ res = "completed" => r \in there
               /\ res = "identity" => /\ <<r, Instance(w)>> \in handed
                                      /\ <<"commit", Instance(w)>> \in consent,
           GrantsLess(u, win[w]),
           AtRest(u) \/ (u.res = win[w].res /\ u.work = win[w].work /\ u.pc = win[w].pc)
    PROVE  ProjectTypes' /\ WriteInv'
<1>0. PICK i \in Windows \X Nat : i = Instance(w)
  BY DEF Instance, ProjectTypes, WinRecords
<1>1. win'[w] = u /\ \A x \in Windows : x # w => win'[x] = win[x]
  BY DEF ProjectTypes
<1>2. Grows
  BY DEF Grows, world, hostVars
<1>3. \/ UNCHANGED result
      \/ /\ r \in Requests /\ result[r] = "none" /\ result' = [result EXCEPT ![r] = res]
         /\ claim[r] = i /\ Holder(i) = Owner(r)
         /\ res \in {"error", "unknown", "completed", "identity"}
         /\ res = "completed" => r \in there
         /\ res = "identity" => <<r, i>> \in handed /\ <<"commit", i>> \in consent
  BY <1>0 DEF Resolve, Accepts
<1>4. result \in [Requests -> {"none", "error", "unknown", "completed", "identity"}]
  BY DEF ProjectTypes
<1>5. result' \in [Requests -> {"none", "error", "unknown", "completed", "identity"}]
  BY <1>3, <1>4
<1>6. ResultsGiven
  <2>1. claim' = claim /\ handed' = handed /\ consent' = consent /\ there' = there
    BY DEF world
  <2>2. CASE UNCHANGED result
    BY <2>2 DEF ResultsGiven
  <2>3. CASE result' # result
    BY <1>0, <1>3, <1>4, <2>1, <2>3 DEF ResultsGiven
  <2> QED
    BY <2>2, <2>3
<1>7. WindowStep(w)
  BY <1>2, <1>6 DEF WindowStep, world
<1>8. WindowTypes'
  BY <1>5, WindowTypesNow, Zenon DEF WindowTypes, world
<1>9. WindowInv(w)'
  BY <1>1, <1>2, WindowKeeps, WindowRests DEF WriteInv
<1>10. LedgerInv'
  BY <1>1, LedgerKeeps DEF WriteInv, world, hostVars, AtRest
<1> QED
  BY <1>7, <1>8, <1>9, <1>10, WindowStepInv

LEMMA DeclineKeeps ==
    ASSUME ProjectTypes, WriteInv, NEW w \in Windows, DeclineSent(w)
    PROVE  ProjectTypes' /\ WriteInv'
<1> DEFINE r == win[w].decline
<1>0. win[w] \in WinRecords
  BY DEF ProjectTypes
<1>1. /\ UNCHANGED <<hostVars, claim, handed, ledger, world, consent>>
      /\ UNCHANGED result \/ (Resolve(r, Instance(w), "error") /\ r # None)
  BY DEF DeclineSent
<1>2. r \in Requests
  BY <1>0 DEF DeclineSent, WinRecords, MaybeRequest
<1>3. PICK u \in WinRecords :
        /\ win' = [win EXCEPT ![w] = u] /\ GrantsLess(u, win[w])
        /\ u.res = win[w].res /\ u.work = win[w].work /\ u.pc = win[w].pc
  <2>1. CASE win' = [win EXCEPT ![w] = [win[w] EXCEPT !.decline = None, !.seen = None, !.push = None]]
    <3> DEFINE u == [win[w] EXCEPT !.decline = None, !.seen = None, !.push = None]
    <3>1. u \in WinRecords /\ GrantsLess(u, win[w]) /\ u.res = win[w].res /\ u.work = win[w].work
          /\ u.pc = win[w].pc
      BY <1>0 DEF WinRecords, GrantsLess, MaybeRequest
    <3> QED
      BY <2>1, <3>1, Zenon
  <2>2. CASE win' = [win EXCEPT ![w] = [win[w] EXCEPT !.decline = None]]
    <3> DEFINE u == [win[w] EXCEPT !.decline = None]
    <3>1. u \in WinRecords /\ GrantsLess(u, win[w]) /\ u.res = win[w].res /\ u.work = win[w].work
          /\ u.pc = win[w].pc
      BY <1>0 DEF WinRecords, GrantsLess, MaybeRequest
    <3> QED
      BY <2>2, <3>1, Zenon
  <2> QED
    BY <2>1, <2>2 DEF DeclineSent
<1> HIDE DEF r
<1>4. \/ UNCHANGED result
      \/ \E q \in Requests : q = r /\ Resolve(q, Instance(w), "error")
  BY <1>1, <1>2
<1>5. \E q \in Requests : UNCHANGED result \/ Resolve(q, Instance(w), "error")
  BY <1>2, <1>4
<1> QED
  BY <1>1, <1>3, <1>5, ResolveStep

\* What a window reports was handed to it, and is true.
LEMMA DeliverKeeps ==
    ASSUME ProjectTypes, WriteInv, NEW w \in Windows, Deliver(w)
    PROVE  ProjectTypes' /\ WriteInv'
<1>0. win[w] \in WinRecords /\ WindowInv(w)
  BY DEF ProjectTypes, WriteInv
<1>1. PICK r : r = win[w].work
  OBVIOUS
<1>2. PICK res : res = win[w].res
  OBVIOUS
<1>3. PICK o : o = Over(win[w])
  OBVIOUS
<1>4. o \in WinRecords /\ AtRest(o) /\ GrantsLess(o, win[w])
  BY <1>0, <1>3, OverType
<1>5. /\ UNCHANGED <<hostVars, claim, handed, ledger, world, consent>>
      /\ UNCHANGED result \/ Resolve(r, Instance(w), res)
  BY <1>1, <1>2 DEF Deliver
<1>6. /\ r \in Requests /\ res \in {"error", "unknown", "completed", "identity"}
      /\ res = "completed" => r \in there
      /\ res = "identity" => <<r, Instance(w)>> \in handed /\ <<"commit", Instance(w)>> \in consent
  BY <1>0, <1>1, <1>2 DEF Deliver, WindowInv
<1>7. PICK k \in WinRecords : k \in {o, [o EXCEPT !.push = None]}
          /\ (win' = [win EXCEPT ![w] = k] \/ win' = [win EXCEPT ![w] = [k EXCEPT !.seen = None]])
  <2>1. [o EXCEPT !.push = None] \in WinRecords
    BY <1>4 DEF WinRecords, MaybeRequest
  <2> QED
    BY <1>3, <1>4, <2>1 DEF Deliver
<1>8. AtRest(k) /\ GrantsLess(k, win[w])
  BY <1>4, <1>7 DEF WinRecords, AtRest, GrantsLess
<1>9. [k EXCEPT !.seen = None] \in WinRecords /\ AtRest([k EXCEPT !.seen = None])
      /\ GrantsLess([k EXCEPT !.seen = None], win[w])
  BY <1>7, <1>8 DEF WinRecords, AtRest, GrantsLess, MaybeRequest
<1>10. PICK u \in WinRecords : win' = [win EXCEPT ![w] = u] /\ AtRest(u) /\ GrantsLess(u, win[w])
  BY <1>7, <1>8, <1>9, Zenon
<1> QED
  BY <1>5, <1>6, <1>10, ResolveStep

\* A step of window w that touches only the ledger of its holder.
LEMMA LedgerStep ==
    ASSUME ProjectTypes, WriteInv, NEW w \in Windows, NEW u \in WinRecords,
           win' = [win EXCEPT ![w] = u], UNCHANGED <<hostVars, broker, world, consent>>,
           ledger' \in [Persons -> [Requests -> {"none", "unknown", "completed"}]],
           WindowInv(w)', LedgerInv'
    PROVE  ProjectTypes' /\ WriteInv'
<1>1. WindowStep(w)
  BY DEF WindowStep, Grows, ResultsGiven, hostVars, world, broker
<1>2. WindowTypes'
  BY WindowTypesNow, Zenon DEF WindowTypes, world, broker
<1> QED
  BY <1>1, <1>2, WindowStepInv

\* The window is saved with a result.
LEMMA SavedInv ==
    ASSUME NEW w \in Windows, NEW u \in WinRecords, NEW res \in {"unknown", "completed"},
           WindowInv(w), win[w] \in WinRecords, win[w].pc \in Working, Grows, win'[w] = u,
           u = [win[w] EXCEPT !.pc = "saved", !.res = res], res = "completed" => win[w].work \in there'
    PROVE  WindowInv(w)'
<1>1. u.pc = "saved" /\ u.res = res /\ GrantsLess(u, win[w]) /\ u.work = win[w].work
  BY DEF WinRecords, GrantsLess
<1>2. Instance(w)' = Instance(w)
  BY <1>1 DEF Instance, GrantsLess
<1> QED
  BY <1>1, <1>2, CastFixed DEF WindowInv, GrantsLess, Grows, Working

\* Of the windows of one member, one at most gets the reservation of a request.
LEMMA ReserveKeeps ==
    ASSUME ProjectTypes, WriteInv, NEW w \in Windows, Reserve(w)
    PROVE  ProjectTypes' /\ WriteInv'
<1>0. win[w] \in WinRecords /\ WindowInv(w) /\ win[w].pc = "packed"
  BY DEF ProjectTypes, WriteInv, Reserve
<1>1. PICK r \in Requests : r = win[w].work /\ Kind(r) # "commit" /\ cast.holder[w] = Owner(r)
  BY <1>0 DEF WindowInv, Working, Holder, Instance
<1>2. PICK p \in Persons : p = cast.holder[w] /\ p = Owner(r)
  BY <1>1, CastTypes DEF ProjectTypes
<1>3. UNCHANGED <<hostVars, broker, world, consent>> /\ Grows
  BY DEF Reserve, Grows, hostVars, world, broker
<1>4. ledger \in [Persons -> [Requests -> {"none", "unknown", "completed"}]]
  BY DEF ProjectTypes
<1>5. CASE win' = [win EXCEPT ![w] = Fails(w)] /\ UNCHANGED ledger
  BY <1>0, <1>3, <1>5, FailsType, LosingStep DEF broker
<1>6. CASE /\ ledger[p][r] # "none" /\ UNCHANGED ledger
           /\ win' = [win EXCEPT ![w] = [win[w] EXCEPT !.pc = "saved", !.res = ledger[p][r]]]
  <2> DEFINE res == ledger[p][r]
             u == [win[w] EXCEPT !.pc = "saved", !.res = res]
  <2>1. res \in {"unknown", "completed"} /\ (res = "completed" => r \in there')
    BY <1>3, <1>4, <1>6 DEF WriteInv, LedgerInv, Grows
  <2> HIDE DEF res
  <2>2. u \in WinRecords /\ u.pc = "saved"
    BY <1>0, <2>1 DEF WinRecords
  <2>3. win' = [win EXCEPT ![w] = u] /\ win'[w] = u
    BY <1>6 DEF ProjectTypes, res
  <2>4. WindowInv(w)'
    BY <1>0, <1>1, <1>3, <2>1, <2>2, <2>3, SavedInv DEF Working
  <2> HIDE DEF u
  <2> QED
    BY <1>3, <1>6, <2>2, <2>3, <2>4, OwnStep DEF broker
<1>7. CASE /\ ledger[p][r] = "none" /\ ledger' = [ledger EXCEPT ![p][r] = "unknown"]
           /\ win' = [win EXCEPT ![w].pc = "reserved"]
  <2> DEFINE u == [win[w] EXCEPT !.pc = "reserved"]
  <2>1. u \in WinRecords /\ GrantsLess(u, win[w]) /\ u.res = win[w].res /\ u.work = win[w].work
        /\ u.pc = "reserved"
    BY <1>0 DEF WinRecords, GrantsLess
  <2>2. win' = [win EXCEPT ![w] = u]
    BY <1>7
  <2> HIDE DEF u
  <2>3. win'[w] = u /\ \A x \in Windows : x # w => win'[x] = win[x]
    BY <2>2 DEF ProjectTypes
  <2>4. WindowInv(w)'
    BY <1>0, <1>3, <2>1, <2>3, WindowKeeps
  <2>5. /\ ledger' \in [Persons -> [Requests -> {"none", "unknown", "completed"}]]
        /\ ledger'[p][r] = "unknown"
        /\ \A q \in Persons, s \in Requests : ledger'[q][s] = ledger[q][s] \/ ledger'[q][s] = "unknown"
    BY <1>4, <1>7
  <2>6. LedgerInv
    BY DEF WriteInv
  <2>7. wrote[r] = <<>>
    BY <1>1, <1>2, <1>7, <2>6 DEF LedgerInv
  <2>8. \A x \in Windows : win[x].pc = "reserved" => win[x].work # r
    <3> SUFFICES ASSUME NEW x \in Windows, win[x].pc = "reserved", win[x].work = r PROVE FALSE
      OBVIOUS
    <3>1. cast.holder[x] = p
      BY <1>2 DEF WriteInv, WindowInv, Working, Holder, Instance
    <3> QED
      BY <1>7, <2>6, <3>1 DEF LedgerInv
  <2>9. LedgerInv'
    <3>1. cast' = cast /\ wrote' = wrote /\ there' = there
      BY <1>3 DEF hostVars, world
    <3>2. \A x \in Windows : win[x].pc = "reserved" =>
              win[x].work \in Requests /\ cast.holder[x] \in Persons
      BY CastTypes DEF WriteInv, WindowInv, Working, ProjectTypes
    <3>3. \A x \in Windows : win'[x].pc = "reserved" =>
              ledger'[cast'.holder[x]][win'[x].work] # "none" /\ wrote'[win'[x].work] = <<>>
      BY <1>1, <1>2, <2>1, <2>3, <2>5, <2>6, <2>7, <3>1, <3>2 DEF LedgerInv
    <3>4. \A x, y \in Windows : win'[x].pc = "reserved" /\ win'[y].pc = "reserved"
                                  /\ win'[x].work = win'[y].work => x = y
      BY <1>1, <2>1, <2>3, <2>6, <2>8 DEF LedgerInv
    <3>5. \A s \in Requests : Kind(s)' # "commit" /\ wrote'[s] # <<>> => ledger'[Owner(s)'][s] # "none"
      <4>1. \A s \in Requests : Owner(s) \in Persons /\ Owner(s)' = Owner(s) /\ Kind(s)' = Kind(s)
        BY <3>1, CastFixed, CastTypes, Zenon DEF ProjectTypes
      <4> QED
        BY <2>5, <2>6, <3>1, <4>1 DEF LedgerInv
    <3>6. \A s \in Requests, q \in Persons : ledger'[q][s] = "completed" => s \in there'
      BY <2>5, <2>6, <3>1 DEF LedgerInv
    <3> QED
      BY <3>3, <3>4, <3>5, <3>6 DEF LedgerInv
  <2> QED
    BY <1>3, <2>1, <2>2, <2>4, <2>5, <2>9, LedgerStep
<1> QED
  BY <1>1, <1>2, <1>5, <1>6, <1>7 DEF Reserve, Reserved, Receipt

\* What was reserved and is over is saved: as completed only if it can be seen.
LEMMA SaveKeeps ==
    ASSUME ProjectTypes, WriteInv, NEW w \in Windows, Save(w)
    PROVE  ProjectTypes' /\ WriteInv'
<1>0. win[w] \in WinRecords /\ WindowInv(w) /\ win[w].pc = "sent"
  BY DEF ProjectTypes, WriteInv, Save
<1>1. PICK r \in Requests : r = win[w].work
  BY <1>0 DEF WindowInv, Working
<1>2. PICK p \in Persons : p = cast.holder[w]
  BY CastTypes DEF ProjectTypes
<1>3. UNCHANGED <<hostVars, broker, world, consent>> /\ Grows
  BY DEF Save, Grows, hostVars, world, broker
<1>4. ledger \in [Persons -> [Requests -> {"none", "unknown", "completed"}]]
  BY DEF ProjectTypes
<1>5. PICK res \in {"unknown", "completed"} :
        /\ win' = [win EXCEPT ![w] = [win[w] EXCEPT !.pc = "saved", !.res = res]]
        /\ res = "completed" => r \in there
        /\ \/ UNCHANGED ledger
           \/ ledger' = [ledger EXCEPT ![p][r] = "completed"] /\ r \in there
  BY <1>1, <1>2 DEF Save, Proven
<1>6. PICK u : u = [win[w] EXCEPT !.pc = "saved", !.res = res]
  OBVIOUS
<1>7. u \in WinRecords /\ u.pc = "saved"
  BY <1>0, <1>6 DEF WinRecords
<1>8. win' = [win EXCEPT ![w] = u]
  BY <1>5, <1>6
<1>9. win'[w] = u /\ \A x \in Windows : x # w => win'[x] = win[x]
  BY <1>8 DEF ProjectTypes
<1>10. WindowInv(w)'
  BY <1>0, <1>1, <1>3, <1>5, <1>6, <1>7, <1>9, SavedInv DEF Working, Grows
<1>11. /\ ledger' \in [Persons -> [Requests -> {"none", "unknown", "completed"}]]
       /\ \A q \in Persons, s \in Requests :
            \/ ledger'[q][s] = ledger[q][s]
            \/ ledger'[q][s] = "completed" /\ s \in there
  BY <1>4, <1>5
<1>12. LedgerInv'
  <2>1. cast' = cast /\ wrote' = wrote /\ there' = there /\ LedgerInv
    BY <1>3 DEF hostVars, world, WriteInv
  <2>2. \A x \in Windows : win[x].pc = "reserved" =>
            win[x].work \in Requests /\ cast.holder[x] \in Persons
    BY CastTypes DEF WriteInv, WindowInv, Working, ProjectTypes
  <2>3. \A x \in Windows : win'[x].pc = "reserved" => x # w /\ win'[x] = win[x]
    BY <1>7, <1>9
  <2>4. \A x \in Windows : win'[x].pc = "reserved" =>
            ledger'[cast'.holder[x]][win'[x].work] # "none" /\ wrote'[win'[x].work] = <<>>
    BY <1>11, <2>1, <2>2, <2>3 DEF LedgerInv
  <2>5. \A s \in Requests : Kind(s)' # "commit" /\ wrote'[s] # <<>> => ledger'[Owner(s)'][s] # "none"
    <3>1. \A s \in Requests : Owner(s) \in Persons /\ Owner(s)' = Owner(s) /\ Kind(s)' = Kind(s)
      BY <2>1, CastFixed, CastTypes, Zenon DEF ProjectTypes
    <3> QED
      BY <1>11, <2>1, <3>1 DEF LedgerInv
  <2>6. \A s \in Requests, q \in Persons : ledger'[q][s] = "completed" => s \in there'
    BY <1>11, <2>1 DEF LedgerInv
  <2> QED
    BY <2>1, <2>3, <2>4, <2>5, <2>6 DEF LedgerInv
<1> QED
  BY <1>3, <1>7, <1>8, <1>10, <1>11, <1>12, LedgerStep

\* A window with a reservation is the first to write the request.
LEMMA FirstSend ==
    ASSUME ProjectTypes, WriteInv, NEW w \in Windows, NEW r, r = win[w].work,
           win[w].pc = "reserved", Write(r, Instance(w))
    PROVE  /\ r \in Requests /\ Kind(r) # "commit" /\ Agreed(r, Instance(w))
           /\ <<r, Instance(w)>> \in handed /\ Holder(Instance(w)) = Owner(r)
           /\ wrote[r] = <<>> /\ ledger[Owner(r)][r] # "none"
           /\ wrote' \in [Requests -> Seq(Windows \X Nat)] /\ there' = there \cup {r}
           /\ Len(wrote'[r]) = 1 /\ wrote'[r][Len(wrote'[r])] = Instance(w)
           /\ \A q \in Requests : q # r => wrote'[q] = wrote[q]
<1>1. WindowInv(w) /\ LedgerInv
  BY DEF WriteInv
<1>2. /\ r \in Requests /\ Kind(r) # "commit" /\ Agreed(r, Instance(w))
      /\ <<r, Instance(w)>> \in handed /\ Holder(Instance(w)) = Owner(r)
  BY <1>1 DEF WindowInv, Working
<1>3. wrote[r] = <<>> /\ ledger[cast.holder[w]][r] # "none"
  BY <1>1 DEF LedgerInv
<1>4. cast.holder[w] = Owner(r)
  BY <1>2 DEF Holder, Instance
<1>5. Instance(w) \in Windows \X Nat
  BY DEF Instance, ProjectTypes, WinRecords
<1> QED
  BY <1>2, <1>3, <1>4, <1>5, FirstWrite

\* A step of window w that may use up its reservation.
LEMMA SendStep ==
    ASSUME ProjectTypes, WriteInv, NEW w \in Windows, NEW u \in WinRecords,
           win' = [win EXCEPT ![w] = u], UNCHANGED <<hostVars, broker, ledger, consent>>,
           u.pc # "reserved",
           UNCHANGED world \/ (win[w].pc = "reserved" /\ Write(win[w].work, Instance(w))),
           Grows => WindowInv(w)'
    PROVE  ProjectTypes' /\ WriteInv'
<1>0. UNCHANGED <<cast, claim, result, handed, ledger, consent>>
  BY DEF hostVars, broker
<1>1. win'[w] = u /\ \A x \in Windows : x # w => win'[x] = win[x]
  BY DEF ProjectTypes
<1>2. CASE UNCHANGED world
  <2>1. Grows
    BY <1>0, <1>2 DEF Grows, world
  <2> QED
    BY <1>0, <1>2, <2>1, OwnStep
<1>3. CASE win[w].pc = "reserved" /\ Write(win[w].work, Instance(w))
  <2>0. PICK r : r = win[w].work
    OBVIOUS
  <2>1. /\ r \in Requests /\ Kind(r) # "commit" /\ ledger[Owner(r)][r] # "none"
        /\ wrote' \in [Requests -> Seq(Windows \X Nat)] /\ there' = there \cup {r}
        /\ Len(wrote'[r]) = 1 /\ \A q \in Requests : q # r => wrote'[q] = wrote[q]
    BY <1>3, <2>0, FirstSend
  <2>2. there \subseteq there' /\ there' \subseteq Requests
    BY <2>1 DEF ProjectTypes
  <2>3. Grows
    BY <1>0, <2>2 DEF Grows
  <2>4. \A q \in Requests : wrote'[q] = wrote[q] \/ (Kind(q) # "commit" /\ Len(wrote'[q]) = 1)
    BY <2>1
  <2>5. WindowStep(w)
    BY <1>0, <2>3, <2>4 DEF WindowStep, ResultsGiven
  <2>6. WindowTypes'
    BY <1>0, <2>1, <2>2, WindowTypesNow, Zenon DEF WindowTypes
  <2>7. LedgerInv'
    <3>1. LedgerInv
      BY DEF WriteInv
    <3>2. \A x \in Windows : win'[x].pc = "reserved" => win'[x] = win[x] /\ win[x].pc = "reserved"
                                                        /\ win[x].work # r /\ win[x].work \in Requests
      BY <1>1, <1>3, <2>0, <3>1 DEF LedgerInv, WriteInv, WindowInv, Working
    <3>3. \A x \in Windows : win'[x].pc = "reserved" =>
              ledger'[cast'.holder[x]][win'[x].work] # "none" /\ wrote'[win'[x].work] = <<>>
      BY <1>0, <2>1, <3>1, <3>2 DEF LedgerInv
    <3>4. \A q \in Requests : Kind(q)' # "commit" /\ wrote'[q] # <<>> => ledger'[Owner(q)'][q] # "none"
      BY <1>0, <2>1, <3>1, CastFixed DEF LedgerInv
    <3>5. \A q \in Requests, p \in Persons : ledger'[p][q] = "completed" => q \in there'
      BY <1>0, <2>2, <3>1 DEF LedgerInv
    <3> QED
      BY <3>1, <3>2, <3>3, <3>4, <3>5 DEF LedgerInv
  <2> QED
    BY <2>3, <2>5, <2>6, <2>7, WindowStepInv
<1> QED
  BY <1>2, <1>3

LEMMA SendKeeps ==
    ASSUME ProjectTypes, WriteInv, NEW w \in Windows, Send(w)
    PROVE  ProjectTypes' /\ WriteInv'
<1>0. win[w] \in WinRecords /\ WindowInv(w) /\ win[w].pc = "reserved"
  BY DEF ProjectTypes, WriteInv, Send
<1>1. /\ UNCHANGED <<hostVars, broker, ledger, consent>>
      /\ UNCHANGED world \/ Write(win[w].work, Instance(w))
  BY DEF Send
<1>2. PICK res \in {"ok", "err"} :
         win' = [win EXCEPT ![w] = [win[w] EXCEPT !.pc = "sent", !.res = res]]
  BY DEF Send
<1>3. PICK u : u = [win[w] EXCEPT !.pc = "sent", !.res = res]
  OBVIOUS
<1>4. u \in WinRecords /\ GrantsLess(u, win[w]) /\ u.pc = "sent" /\ u.res = res
      /\ u.work = win[w].work
  BY <1>0, <1>3 DEF WinRecords, GrantsLess
<1>5. win' = [win EXCEPT ![w] = u]
  BY <1>2, <1>3
<1>6. ASSUME Grows PROVE WindowInv(w)'
  <2>1. win'[w] = u
    BY <1>5 DEF ProjectTypes
  <2>2. Instance(w)' = Instance(w)
    BY <1>4, <2>1 DEF Instance, GrantsLess
  <2>3. \A r : Agreed(r, Instance(w)) => Agreed(r, Instance(w))'
    BY <1>6, <2>2, CastFixed DEF Agreed, Grows
  <2> QED
    BY <1>0, <1>4, <1>6, <2>1, <2>2, <2>3, CastFixed DEF WindowInv, GrantsLess, Grows, Working
<1> QED
  BY <1>0, <1>1, <1>4, <1>5, <1>6, SendStep

\* A window that dies may have sent its write; the next one starts with nothing.
LEMMA DeathKeeps ==
    ASSUME ProjectTypes, WriteInv, NEW w \in Windows, WindowDies(w)
    PROVE  ProjectTypes' /\ WriteInv'
<1>0. win[w] \in WinRecords
  BY DEF ProjectTypes
<1>1. /\ UNCHANGED <<hostVars, broker, ledger, consent>>
      /\ UNCHANGED world \/ (win[w].pc = "reserved" /\ Write(win[w].work, Instance(w)))
  BY DEF WindowDies
<1>2. PICK u \in WinRecords : win' = [win EXCEPT ![w] = u] /\ u = Fresh(win[w].gen + 1)
  <2>1. win[w].gen + 1 \in Nat
    BY <1>0 DEF WinRecords
  <2>2. Fresh(win[w].gen + 1) \in WinRecords
    BY <2>1, FreshType
  <2>3. win' = [win EXCEPT ![w] = Fresh(win[w].gen + 1)]
    BY DEF WindowDies
  <2> QED
    BY <2>2, <2>3, Zenon
<1>3. /\ u.pc = "idle" /\ u.res = "none" /\ u.push = None /\ u.append = None
      /\ u.account = FALSE /\ u.git = FALSE
  BY <1>2 DEF Fresh
<1>4. win'[w] = u
  BY <1>2 DEF ProjectTypes
<1>5. WindowInv(w)'
  BY <1>3, <1>4 DEF WindowInv, Working
<1> QED
  BY <1>1, <1>2, <1>3, <1>5, SendStep

LEMMA WindowNextKeeps ==
    ASSUME ProjectTypes, WriteInv, WindowNext
    PROVE  ProjectTypes' /\ WriteInv'
  BY SmallSteps, ServeKeeps, GrantKeeps, DeclineKeeps, ReserveKeeps, SendKeeps, SaveKeeps,
     DeliverKeeps, MonitorKeeps, DeathKeeps DEF WindowNext

----------------------------------------------------------------------------
(* The writes.                                                             *)

LEMMA WritesInit ==
    ASSUME ProjectInit
    PROVE  ProjectTypes /\ WriteInv
<1>1. Init
  BY DEF ProjectInit
<1>2. cast \in Casts /\ cut = FALSE /\ there = cast.there
  BY <1>1 DEF Init
<1>3. ProjectTypes
  <2>1. there \subseteq Requests
    BY <1>2, CastTypes
  <2>2. win \in [Windows -> WinRecords]
    BY <1>1, FreshType DEF Init
  <2>3. cut \in BOOLEAN
    BY <1>2
  <2>4. wrote \in [Requests -> Seq(Windows \X Nat)]
    BY <1>1 DEF Init
  <2> QED
    BY <1>1, <1>2, <2>1, <2>2, <2>3, <2>4 DEF Init, ProjectTypes
<1>4. \A w \in Windows : /\ win[w].pc = "idle" /\ win[w].res = "none" /\ win[w].push = None
                         /\ win[w].append = None /\ win[w].account = FALSE /\ win[w].git = FALSE
  BY <1>1 DEF Init, Fresh
<1>5. \A w \in Windows : WindowInv(w)
  BY <1>4 DEF WindowInv, Working
<1>6. \A r \in Requests : /\ wrote[r] = <<>> /\ call[r] = "idle" /\ file[r] = "none"
                          /\ result[r] = "none" /\ told[r] = "none" /\ Len(wrote[r]) = 0
                          /\ r \notin git
  BY <1>1 DEF Init
<1>7. \A p \in Persons, r \in Requests : ledger[p][r] = "none"
  BY <1>1 DEF Init
<1> QED
  BY <1>3, <1>4, <1>5, <1>6, <1>7 DEF WriteInv, LedgerInv, CommitInv, AnswerInv, SignInv

LEMMA WritesKeep ==
    ASSUME ProjectTypes, WriteInv, [ProjectNext]_projectVars
    PROVE  ProjectTypes' /\ WriteInv'
<1>1. CASE Next
  BY <1>1, RoomKeeps, RestartKeeps, ToolKeeps, WindowNextKeeps DEF Next, RoomNext
<1>2. CASE UNCHANGED <<cast, tries, cap, broker, tool, ledger, win, world, consent>>
  <2>1. RoomStep
    BY <1>2 DEF RoomStep, Grows, ResultsGiven, GrantsLess, broker, tool, world
  <2>2. RoomTypes'
    BY <1>2, Zenon DEF ProjectTypes, RoomTypes, broker, tool
  <2> QED
    BY <2>1, <2>2, RoomStepInv, RoomStepTypes
<1>3. CASE TasksNext
  <2>1. UNCHANGED vars \/ UNCHANGED roomRest
    BY <1>3, Zenon DEF TasksNext, Look, Convert, Complete, Reopen, Accept, Replace
  <2> QED
    BY <1>2, <2>1 DEF roomRest, vars, room
<1>4. CASE UNCHANGED projectVars
  BY <1>2, <1>4 DEF projectVars, vars, room
<1> QED
  BY <1>1, <1>3, <1>4 DEF ProjectNext

\* What OwnAuthority says of a write of request r by instance i.
Authorised(r, i) ==
    /\ <<r, i>> \in handed /\ Holder(i) = Owner(r) /\ Agreed(r, i)
    /\ Kind(r) = "commit" => r \in git

\* The three steps that write: a git process that moves its branch, and a window
\* that sends, and may die in it.
LEMMA WriteIsAuthorised ==
    ASSUME ProjectTypes, WriteInv, [ProjectNext]_projectVars,
           NEW r \in Requests, wrote'[r] # wrote[r]
    PROVE  Authorised(r, wrote'[r][Len(wrote'[r])])
<1>1. ASSUME NEW q \in Requests, q \in git, Write(q, claim[q])
      PROVE  Authorised(r, wrote'[r][Len(wrote'[r])])
  <2>1. r = q /\ wrote'[r][Len(wrote'[r])] = claim[r]
    BY <1>1, CommitWritten
  <2>2. /\ <<r, claim[r]>> \in handed /\ Holder(claim[r]) = Owner(r)
        /\ Kind(r) = "commit" /\ <<"commit", claim[r]>> \in consent
    BY <1>1, <2>1, Signer
  <2> QED
    BY <1>1, <2>1, <2>2 DEF Authorised, Agreed
<1>2. ASSUME NEW w \in Windows, win[w].pc = "reserved", Write(win[w].work, Instance(w))
      PROVE  Authorised(r, wrote'[r][Len(wrote'[r])])
  <2>1. PICK q : q = win[w].work
    OBVIOUS
  <2>2. /\ q \in Requests /\ Kind(q) # "commit" /\ Agreed(q, Instance(w))
        /\ <<q, Instance(w)>> \in handed /\ Holder(Instance(w)) = Owner(q)
        /\ wrote'[q][Len(wrote'[q])] = Instance(w)
        /\ \A s \in Requests : s # q => wrote'[s] = wrote[s]
    BY <1>2, <2>1, FirstSend
  <2>3. r = q
    BY <2>2
  <2> QED
    BY <2>2, <2>3 DEF Authorised
<1>3. wrote' # wrote
  OBVIOUS
<1>4. CASE RoomNext
  BY <1>3, <1>4, Zenon DEF RoomNext, RequestJoin, Lapse, Decide, Demote, StartTurnFor, TurnEnds,
     Review, Invalidate, ChangeMode, HostRestarts, world
<1>5. CASE ToolNext
  <2>1. \E q \in Requests : GitMoves(q)
    BY <1>3, <1>5, Zenon DEF ToolNext, Call, CallReturns, CallGivesUp, CommitChecks,
       CommitReserves, CommitStarts, CommitEnds, world
  <2> QED
    BY <1>1, <2>1, Zenon DEF GitMoves
<1>6. CASE WindowNext
  <2>1. \E w \in Windows : Send(w) \/ WindowDies(w)
    BY <1>3, <1>6, ZenonT(30) DEF WindowNext, Connect, Serve, Grant, Withdraw, Decline, DeclineSent,
       Download, Reserve, Save, Deliver, Monitor, world
  <2> QED
    BY <1>2, <1>3, <2>1, Zenon DEF Send, WindowDies, world
<1>7. CASE TasksNext
  <2>1. UNCHANGED vars \/ UNCHANGED roomRest
    BY <1>7, Zenon DEF TasksNext, Look, Convert, Complete, Reopen, Accept, Replace
  <2> QED
    BY <1>3, <2>1 DEF roomRest, vars, world
<1>8. CASE UNCHANGED projectVars
  BY <1>3, <1>8 DEF projectVars, vars, world
<1> QED
  BY <1>4, <1>5, <1>6, <1>7, <1>8 DEF ProjectNext, Next

\* Git is started by a command that holds its signature and its capability.
LEMMA StartIsAuthorised ==
    ASSUME WriteInv, [ProjectNext]_projectVars, NEW r \in Requests, r \in git' \ git
    PROVE  cap = with[r]
<1>1. ~(git' \subseteq git)
  OBVIOUS
<1>2. CASE RoomNext
  BY <1>1, <1>2, Zenon DEF RoomNext, RequestJoin, Lapse, Decide, Demote, StartTurnFor, TurnEnds,
     Review, Invalidate, ChangeMode, HostRestarts, tool, NotCall
<1>3. CASE ToolNext
  <2>1. PICK q \in Requests : \/ Call(q) \/ CallReturns(q) \/ CallGivesUp(q) \/ CommitChecks(q)
                              \/ CommitReserves(q) \/ CommitStarts(q) \/ GitMoves(q)
                              \/ CommitEnds(q)
    BY <1>3 DEF ToolNext
  <2>2. CommitStarts(q)
    <3>1. ~(git' \subseteq git) /\ git' # git \ {q}
      BY <1>1
    <3> QED
      BY <2>1, <3>1, Zenon DEF Call, CallReturns, CallGivesUp, CommitChecks, CommitReserves,
         GitMoves, CommitEnds
  <2>3. call[q] = "reserved" /\ ~cut /\ git' = git \cup {q}
    BY <2>2 DEF CommitStarts
  <2> QED
    BY <2>3, Signer
<1>4. CASE WindowNext
  <2>1. UNCHANGED tool
    BY <1>4, ZenonT(30) DEF WindowNext, Connect, Serve, Grant, Withdraw, Decline, DeclineSent,
       Download, Reserve, Send, Save, Deliver, Monitor, WindowDies, hostVars
  <2> QED
    BY <1>1, <2>1 DEF tool
<1>5. CASE TasksNext
  <2>1. UNCHANGED vars \/ UNCHANGED roomRest
    BY <1>5, Zenon DEF TasksNext, Look, Convert, Complete, Reopen, Accept, Replace
  <2> QED
    BY <1>1, <2>1 DEF roomRest, vars, tool
<1>6. CASE UNCHANGED projectVars
  BY <1>1, <1>6 DEF projectVars, vars, tool
<1> QED
  BY <1>2, <1>3, <1>4, <1>5, <1>6 DEF ProjectNext, Next

\* The invariant of the writes holds for ever.
LEMMA WritesInductive == ProjectSpec => [](ProjectTypes /\ WriteInv)
<1>1. ProjectInit => ProjectTypes /\ WriteInv
  BY WritesInit
<1>2. ProjectTypes /\ WriteInv /\ [ProjectNext]_projectVars => (ProjectTypes /\ WriteInv)'
  BY WritesKeep
<1> QED
  BY <1>1, <1>2, PTL DEF ProjectSpec

\* A request for a document, a push or a commit is written at most once, whatever
\* is lost, repeated, timed out or restarted, for any number of members, windows
\* and requests (WrittenOnce; ledger of internal/resources, receipt files of commits).
THEOREM WrittenOnceAlways == ProjectSpec => []WrittenOnce
<1>1. ProjectTypes /\ WriteInv => WrittenOnce
  BY DEF WriteInv, CommitInv, WrittenOnce
<1> QED
  BY <1>1, WritesInductive, PTL

\* A command that is said to be completed has an effect that can be seen, and a
\* commit that is said to be refused was not made (ReportIsTrue).
THEOREM ReportIsTrueAlways == ProjectSpec => []ReportIsTrue
<1>1. ProjectTypes /\ WriteInv => ReportIsTrue
  BY DEF WriteInv, CommitInv, AnswerInv, ReportIsTrue
<1> QED
  BY <1>1, WritesInductive, PTL

\* Every write is made by the window that claimed the request, which belongs to the
\* sender of the message, with the agreement of its user, and a commit by a git
\* process that was started while its turn still held the capability (OwnAuthority).
THEOREM OwnAuthorityAlways == ProjectSpec => OwnAuthority
<1> DEFINE A == \A r \in Requests :
                  /\ wrote'[r] # wrote[r] =>
                       LET i == wrote'[r][Len(wrote'[r])] IN
                       /\ <<r, i>> \in handed /\ Holder(i) = Owner(r) /\ Agreed(r, i)
                       /\ Kind(r) = "commit" => r \in git
                  /\ r \in git' \ git => cap = with[r]
<1>1. ProjectTypes /\ WriteInv /\ [ProjectNext]_projectVars => A
  BY WriteIsAuthorised, StartIsAuthorised DEF Authorised
<1>2. OwnAuthority <=> [][A]_vars
  BY DEF OwnAuthority
<1> HIDE DEF A
<1> QED
  BY <1>1, <1>2, WritesInductive, PTL DEF ProjectSpec

----------------------------------------------------------------------------
(* The task board.                                                         *)

MessageStates == {"none", "queued", "running", "needs-review", "completed", "failed"}
TaskRecords ==
    [made : BOOLEAN, done : BOOLEAN, rev : Nat, links : SUBSET Messages,
     last : Messages \cup {None}, seen : SUBSET Messages]
Views == [task : TaskIds \cup {None}, rev : Nat, links : SUBSET Messages]

\* taskState of a task that is over or has not begun: no run of it is open.
LEMMA StateIsRead ==
    ASSUME NEW t, NEW message,
           TaskState(t, message) \notin {"completed", "queued", "running", "needs_confirmation"}
    PROVE  ~task[t].done /\ \A m \in task[t].links : message[m] \notin Unfinished
<1> DEFINE states == {message[m] : m \in task[t].links}
<1>1. "needs-review" \notin states /\ "running" \notin states /\ "queued" \notin states /\ ~task[t].done
  BY DEF TaskState
<1> QED
  BY <1>1 DEF Unfinished

\* A message never comes back to nothing, and only an unfinished one changes.
MessagesMove ==
    /\ msg' \in [Messages -> MessageStates]
    /\ \A m \in Messages : msg'[m] = msg[m] \/ (msg[m] \in Unfinished /\ msg'[m] # "none")

LEMMA MessagesKeep ==
    ASSUME BoardTypes, BoardInv, MessagesMove, UNCHANGED <<cast, task, view>>
    PROVE  BoardTypes' /\ BoardInv'
<1>1. BoardTypes'
  BY Zenon DEF BoardTypes, MessagesMove, MessageStates
<1>2. \A t \in Board : task[t].links \subseteq Messages
  BY DEF BoardTypes, Board
<1>3. ViewInv'
  BY DEF BoardInv, ViewInv
<1>4. RunsInv'
  BY <1>2 DEF BoardInv, RunsInv, MessagesMove, Unfinished, Board
<1> QED
  BY <1>1, <1>3, <1>4 DEF BoardInv

LEMMA PersonalKeepsBoard ==
    ASSUME BoardTypes, BoardInv, Next, UNCHANGED taskVars
    PROVE  BoardTypes' /\ BoardInv'
<1>0. msg \in [Messages -> MessageStates] /\ cast \in Casts /\ UNCHANGED <<task, view>>
  BY DEF BoardTypes, MessageStates, taskVars
<1>1. CASE \E m \in Messages : StartTurnFor(m) \/ TurnEnds(m) \/ Review(m)
  <2>1. PICK m \in Messages : StartTurnFor(m) \/ TurnEnds(m) \/ Review(m)
    BY <1>1
  <2>2. cast.ends \subseteq {"completed", "failed", "needs-review"}
    BY <1>0, PersonalAssumption
  <2>3. /\ cast' = cast /\ msg[m] \in Unfinished
        /\ \E e \in MessageStates \ {"none"} : msg' = [msg EXCEPT ![m] = e]
    BY <2>1, <2>2 DEF StartTurnFor, TurnEnds, Review, Unfinished, MessageStates
  <2>4. MessagesMove
    BY <1>0, <2>3 DEF MessagesMove, MessageStates
  <2> QED
    BY <1>0, <2>3, <2>4, MessagesKeep
<1>2. CASE UNCHANGED <<cast, msg>>
  <2>1. MessagesMove
    BY <1>0, <1>2 DEF MessagesMove
  <2> QED
    BY <1>0, <1>2, <2>1, MessagesKeep
<1>3. CASE RoomNext
  BY <1>1, <1>2, <1>3, Zenon DEF RoomNext, RequestJoin, Lapse, Decide, Demote, Invalidate,
     ChangeMode, HostRestarts, room
<1>4. CASE ToolNext
  BY <1>2, <1>4, Zenon DEF ToolNext, Call, CallReturns, CallGivesUp, CommitChecks,
     CommitReserves, CommitStarts, GitMoves, CommitEnds, room
<1>5. CASE WindowNext
  BY <1>2, <1>5, ZenonT(30) DEF WindowNext, Connect, Serve, Grant, Withdraw, Decline, DeclineSent,
     Download, Reserve, Send, Save, Deliver, Monitor, WindowDies, hostVars, room
<1> QED
  BY <1>3, <1>4, <1>5 DEF Next

LEMMA LookKeeps ==
    ASSUME BoardTypes, BoardInv, NEW p \in Persons, NEW t \in TaskIds, Look(p, t)
    PROVE  BoardTypes' /\ BoardInv'
<1>1. UNCHANGED <<cast, msg, task>> /\ t \in Board
  BY DEF Look, vars, room
<1>2. view' = [view EXCEPT ![p] = [task |-> t, rev |-> task[t].rev, links |-> task[t].links]]
  BY DEF Look
<1>3. task \in [TaskIds -> TaskRecords] /\ view \in [Persons -> Views]
  BY DEF BoardTypes, TaskRecords, Views
<1>4. [task |-> t, rev |-> task[t].rev, links |-> task[t].links] \in Views
  BY <1>3 DEF TaskRecords, Views
<1>5. view' \in [Persons -> Views]
  BY <1>2, <1>3, <1>4
<1>6. BoardTypes'
  BY <1>1, <1>5, Zenon DEF BoardTypes, Views
<1>7. \A q \in Persons : \/ view'[q] = view[q]
                         \/ /\ view'[q].task = t /\ view'[q].rev = task[t].rev
                            /\ view'[q].links = task[t].links
  BY <1>2, <1>3
<1>8. ViewInv'
  <2> SUFFICES ASSUME NEW q \in Persons, NEW u \in TaskIds, view'[q].task = u
               PROVE  /\ task[u].made /\ view'[q].rev <= task[u].rev
                      /\ view'[q].rev = task[u].rev => view'[q].links = task[u].links
    BY <1>1 DEF ViewInv
  <2>1. CASE view'[q] = view[q]
    BY <2>1 DEF BoardInv, ViewInv
  <2>2. CASE view'[q].task = t /\ view'[q].rev = task[t].rev /\ view'[q].links = task[t].links
    BY <1>1, <1>3, <2>2 DEF Board, TaskRecords
  <2> QED
    BY <1>7, <2>1, <2>2
<1>9. RunsInv'
  BY <1>1 DEF BoardInv, RunsInv, Board
<1> QED
  BY <1>6, <1>8, <1>9 DEF BoardInv

\* What a change of the messages may do to the runs of other tasks.
Calm(x) ==
    \A m \in task[x].links :
        msg'[m] = msg[m] \/ (msg'[m] # "none" /\ msg'[m] \notin Unfinished)

\* A change of task t alone, to record u: no reading of it has its new revision.
LEMMA TaskStep ==
    ASSUME BoardTypes, BoardInv, NEW t \in TaskIds, NEW u \in TaskRecords,
           task' = [task EXCEPT ![t] = u], UNCHANGED <<cast, view>>,
           msg' \in [Messages -> MessageStates],
           u.made, ~task[t].made \/ u.rev = task[t].rev + 1,
           \A x \in Board : x # t => Calm(x),
           \A m \in u.links : msg'[m] # "none",
           \A m, n \in u.links : msg'[m] \in Unfinished /\ msg'[n] \in Unfinished => m = n,
           u.done => u.links = u.seen /\ \A m \in u.links : msg'[m] \notin Unfinished
    PROVE  BoardTypes' /\ BoardInv'
<1>1. task \in [TaskIds -> TaskRecords] /\ view \in [Persons -> Views]
  BY DEF BoardTypes, TaskRecords, Views
<1>2. task' \in [TaskIds -> TaskRecords]
  BY <1>1
<1>3. BoardTypes'
  BY <1>2, Zenon DEF BoardTypes, TaskRecords, MessageStates
<1>4. task'[t] = u /\ \A x \in TaskIds : x # t => task'[x] = task[x]
  BY <1>1
<1>5. ViewInv'
  <2> SUFFICES ASSUME NEW p \in Persons, NEW x \in TaskIds, view[p].task = x
               PROVE  /\ task'[x].made /\ view[p].rev <= task'[x].rev
                      /\ view[p].rev = task'[x].rev => view[p].links = task'[x].links
    BY DEF ViewInv
  <2>1. /\ task[x].made /\ view[p].rev <= task[x].rev
        /\ view[p].rev = task[x].rev => view[p].links = task[x].links
    BY DEF BoardInv, ViewInv
  <2>2. view[p].rev \in Nat /\ task[x].rev \in Nat
    BY <1>1 DEF Views, TaskRecords
  <2>3. CASE x # t
    BY <1>4, <2>1, <2>3
  <2>4. CASE x = t
    <3>1. u.rev = task[x].rev + 1 /\ task'[x] = u /\ u.made
      BY <1>4, <2>1, <2>4
    <3>2. view[p].rev <= u.rev /\ view[p].rev # u.rev
      BY <2>1, <2>2, <3>1
    <3> QED
      BY <3>1, <3>2
  <2> QED
    BY <2>3, <2>4
<1>6. RunsInv'
  <2> SUFFICES ASSUME NEW x \in TaskIds, task'[x].made
               PROVE  /\ \A m \in task'[x].links : msg'[m] # "none"
                      /\ \A m, n \in task'[x].links :
                            msg'[m] \in Unfinished /\ msg'[n] \in Unfinished => m = n
                      /\ task'[x].done => /\ task'[x].links = task'[x].seen
                                          /\ \A m \in task'[x].links : msg'[m] \notin Unfinished
    BY DEF RunsInv, Board
  <2>1. CASE x = t
    BY <1>4, <2>1
  <2>2. CASE x # t
    <3>1. x \in Board /\ task'[x] = task[x]
      BY <1>4, <2>2 DEF Board
    <3>2. /\ \A m \in task[x].links : msg[m] # "none"
          /\ \A m, n \in task[x].links : msg[m] \in Unfinished /\ msg[n] \in Unfinished => m = n
          /\ task[x].done => /\ task[x].links = task[x].seen
                             /\ \A m \in task[x].links : msg[m] \notin Unfinished
      BY <3>1 DEF BoardInv, RunsInv
    <3>3. Calm(x)
      BY <2>2, <3>1
    <3> QED
      BY <3>1, <3>2, <3>3 DEF Calm
  <2> QED
    BY <2>1, <2>2
<1> QED
  BY <1>3, <1>5, <1>6 DEF BoardInv

\* convert, complete and reopen
LEMMA EditKeeps ==
    ASSUME BoardTypes, BoardInv, NEW p \in Persons, NEW t \in TaskIds,
           Convert(p, t) \/ Complete(p, t) \/ Reopen(p, t)
    PROVE  BoardTypes' /\ BoardInv'
<1>0. UNCHANGED <<cast, view, msg>> /\ msg' \in [Messages -> MessageStates]
  BY Zenon DEF Convert, Complete, Reopen, roomRest, BoardTypes, MessageStates
<1>1. \A x \in Board : Calm(x)
  BY <1>0 DEF Calm
<1>2. task[t] \in TaskRecords /\ NoTask \in TaskRecords
  BY DEF BoardTypes, TaskRecords, NoTask
<1>3. CASE Convert(p, t)
  <2>1. ~task[t].made
    BY <1>3 DEF Convert, Board
  <2>2. CASE task' = [task EXCEPT ![t] = [NoTask EXCEPT !.made = TRUE]]
    <3> DEFINE u == [NoTask EXCEPT !.made = TRUE]
    <3>1. u \in TaskRecords /\ u.made /\ u.links = {} /\ ~u.done
      BY DEF NoTask, TaskRecords
    <3> HIDE DEF u
    <3> QED
      BY <1>0, <1>1, <2>1, <2>2, <3>1, TaskStep DEF u
  <2>3. ASSUME NEW m \in Messages, msg[m] # "none",
               task' = [task EXCEPT ![t] = [NoTask EXCEPT !.made = TRUE, !.links = {m}, !.last = m]]
        PROVE  BoardTypes' /\ BoardInv'
    <3> DEFINE u == [NoTask EXCEPT !.made = TRUE, !.links = {m}, !.last = m]
    <3>1. u \in TaskRecords /\ u.made /\ u.links = {m} /\ ~u.done
      BY DEF NoTask, TaskRecords
    <3>2. task' = [task EXCEPT ![t] = u]
      BY <2>3
    <3> HIDE DEF u
    <3>3. \A n \in u.links : msg'[n] # "none"
      BY <1>0, <2>3, <3>1
    <3>4. \A n, q \in u.links : n = q
      BY <3>1
    <3> QED
      BY <1>0, <1>1, <2>1, <3>1, <3>2, <3>3, <3>4, TaskStep
  <2> QED
    BY <1>3, <2>2, <2>3 DEF Convert
<1>4. CASE Complete(p, t)
  <2> DEFINE k == task[t].rev + 1
             u == [task[t] EXCEPT !.done = TRUE, !.rev = k, !.seen = view[p].links]
  <2>1. /\ task' = [task EXCEPT ![t] = u] /\ t \in Board /\ view[p].task = t
        /\ view[p].rev = task[t].rev
    BY <1>4 DEF Complete
  <2>2. view[p].links = task[t].links /\ task[t].made
    BY <2>1 DEF BoardInv, ViewInv, Board
  <2>3. \A m \in task[t].links : msg[m] \notin Unfinished /\ msg[m] # "none"
    BY <1>4, <2>1, StateIsRead DEF Complete, BoardInv, RunsInv
  <2>k. k \in Nat
    BY <1>2 DEF TaskRecords
  <2> HIDE DEF k
  <2>4. /\ u \in TaskRecords /\ u.made /\ u.rev = k
        /\ u.links = task[t].links /\ u.seen = view[p].links
    BY <1>2, <2>2, <2>k DEF TaskRecords
  <2> HIDE DEF u
  <2> QED
    BY <1>0, <1>1, <2>1, <2>2, <2>3, <2>4, TaskStep DEF k
<1>5. CASE Reopen(p, t)
  <2> DEFINE k == task[t].rev + 1
             u == [task[t] EXCEPT !.done = FALSE, !.rev = k, !.seen = {}]
  <2>1. task' = [task EXCEPT ![t] = u] /\ t \in Board
    BY <1>5 DEF Reopen
  <2>k. k \in Nat
    BY <1>2 DEF TaskRecords
  <2> HIDE DEF k
  <2>2. /\ u \in TaskRecords /\ u.made = task[t].made /\ u.rev = k
        /\ u.links = task[t].links /\ ~u.done
    BY <1>2, <2>k DEF TaskRecords
  <2>3. /\ \A m \in task[t].links : msg[m] # "none"
        /\ \A m, n \in task[t].links : msg[m] \in Unfinished /\ msg[n] \in Unfinished => m = n
    BY <2>1 DEF BoardInv, RunsInv
  <2> HIDE DEF u
  <2> QED
    BY <1>0, <1>1, <2>1, <2>2, <2>3, TaskStep DEF Board, k
<1> QED
  BY <1>3, <1>4, <1>5

\* attachTaskMessage: the new run is the only unfinished one.
LEMMA AttachKeeps ==
    ASSUME BoardTypes, BoardInv, NEW t \in Board, NEW n \in Messages, NEW message,
           Attach(t, n, message), UNCHANGED <<cast, view>>,
           msg' \in [Messages -> MessageStates], msg'[n] # "none",
           \A x \in Board : Calm(x),
           \A m \in task[t].links : m # n => msg'[m] = message[m]
    PROVE  BoardTypes' /\ BoardInv'
<1> DEFINE k == task[t].rev + 1
           s == task[t].links \cup {n}
           u == [task[t] EXCEPT !.links = s, !.last = n, !.rev = k]
<1>0. t \in TaskIds /\ task[t] \in TaskRecords /\ task[t].made
  BY DEF BoardTypes, TaskRecords, Board
<1>1. task' = [task EXCEPT ![t] = u]
  BY DEF Attach, AfterRun
<1>k. k \in Nat /\ s \in SUBSET Messages
  BY <1>0 DEF TaskRecords
<1> HIDE DEF k, s
<1>r. /\ u \in TaskRecords /\ u.made = task[t].made /\ u.rev = k
      /\ u.links = s /\ u.done = task[t].done
  BY <1>0, <1>k DEF TaskRecords
<1> HIDE DEF u
<1>2. /\ u \in TaskRecords /\ u.made = task[t].made /\ u.rev = task[t].rev + 1
      /\ u.links = task[t].links \cup {n} /\ u.done = task[t].done
  BY <1>r DEF k, s
<1>3. ~task[t].done /\ \A m \in task[t].links : message[m] \notin Unfinished
  BY StateIsRead DEF Attach
<1>4. \A m \in task[t].links : msg[m] # "none"
  BY DEF BoardInv, RunsInv
<1>5. \A m \in u.links : m # n => msg'[m] \notin Unfinished
  BY <1>2, <1>3
<1>6. \A m \in u.links : msg'[m] # "none"
  BY <1>2, <1>4 DEF Calm
<1> QED
  BY <1>0, <1>1, <1>2, <1>3, <1>5, <1>6, TaskStep

\* A prompt is accepted, alone or as a run; a run in doubt is given up for another.
LEMMA RunKeeps ==
    ASSUME BoardTypes, BoardInv,
           (\E m \in Messages : Accept(m)) \/ (\E m, n \in Messages : Replace(m, n))
    PROVE  BoardTypes' /\ BoardInv'
<1>0. /\ msg \in [Messages -> MessageStates] /\ UNCHANGED <<cast, view>>
      /\ \A x \in Board : \A m \in task[x].links : m \in Messages /\ msg[m] # "none"
  <2>1. UNCHANGED <<cast, view>> /\ msg \in [Messages -> MessageStates]
    BY Zenon DEF Accept, Replace, roomRest, BoardTypes, MessageStates
  <2> QED
    BY <2>1 DEF BoardTypes, BoardInv, RunsInv, Board
<1>1. ASSUME UNCHANGED task, msg' \in [Messages -> MessageStates], \A x \in Board : Calm(x)
      PROVE  BoardTypes' /\ BoardInv'
  <2>1. BoardTypes'
    BY <1>0, <1>1, Zenon DEF BoardTypes, MessageStates
  <2>2. ViewInv'
    BY <1>0, <1>1 DEF BoardInv, ViewInv
  <2>3. RunsInv'
    BY <1>0, <1>1 DEF BoardInv, RunsInv, Calm, Board
  <2> QED
    BY <2>1, <2>2, <2>3 DEF BoardInv
<1>2. ASSUME NEW m \in Messages, Accept(m) PROVE BoardTypes' /\ BoardInv'
  <2>1. msg' = [msg EXCEPT ![m] = "queued"] /\ msg[m] = "none"
    BY <1>2 DEF Accept
  <2>2. msg' \in [Messages -> MessageStates] /\ msg'[m] = "queued"
        /\ \A q \in Messages : q # m => msg'[q] = msg[q]
    BY <1>0, <2>1 DEF MessageStates
  <2>3. \A x \in Board : Calm(x)
    BY <1>0, <2>1, <2>2 DEF Calm
  <2>4. ASSUME NEW t \in Board, Attach(t, m, msg) PROVE BoardTypes' /\ BoardInv'
    BY <1>0, <2>2, <2>3, <2>4, AttachKeeps
  <2> QED
    BY <1>1, <1>2, <2>2, <2>3, <2>4 DEF Accept
<1>3. ASSUME NEW m \in Messages, NEW n \in Messages, Replace(m, n) PROVE BoardTypes' /\ BoardInv'
  <2> DEFINE failed == [msg EXCEPT ![m] = "failed"]
  <2>1. msg' = [failed EXCEPT ![n] = "queued"] /\ msg[m] = "needs-review" /\ msg[n] = "none"
    BY <1>3 DEF Replace
  <2>2. /\ msg' \in [Messages -> MessageStates] /\ msg'[n] = "queued" /\ msg'[m] = "failed"
        /\ \A q \in Messages : q # n => msg'[q] = failed[q]
        /\ \A q \in Messages : q # n /\ q # m => msg'[q] = msg[q]
    BY <1>0, <2>1 DEF MessageStates
  <2>3. \A x \in Board : Calm(x)
    BY <1>0, <2>1, <2>2 DEF Calm, Unfinished
  <2>4. ASSUME NEW t \in Board, Attach(t, n, failed) PROVE BoardTypes' /\ BoardInv'
    <3> HIDE DEF failed
    <3>1. PICK message : message = failed
      OBVIOUS
    <3> QED
      BY <1>0, <2>2, <2>3, <2>4, <3>1, AttachKeeps
  <2> QED
    BY <1>1, <1>3, <2>2, <2>3, <2>4 DEF Replace
<1> QED
  BY <1>2, <1>3

LEMMA BoardKeeps ==
    ASSUME BoardTypes, BoardInv, [ProjectNext]_projectVars
    PROVE  BoardTypes' /\ BoardInv'
<1>1. CASE UNCHANGED projectVars
  <2>1. UNCHANGED <<cast, task, view, msg>> /\ msg \in [Messages -> MessageStates]
    BY <1>1 DEF projectVars, vars, taskVars, room, BoardTypes, MessageStates
  <2>2. MessagesMove
    BY <2>1 DEF MessagesMove
  <2> QED
    BY <2>1, <2>2, MessagesKeep
<1> QED
  BY <1>1, PersonalKeepsBoard, LookKeeps, EditKeeps, RunKeeps DEF ProjectNext, TasksNext

LEMMA BoardStarts ==
    ASSUME ProjectInit
    PROVE  BoardTypes /\ BoardInv
<1>1. cast \in Casts /\ msg = cast.msg /\ task = [t \in TaskIds |-> NoTask]
      /\ view = [p \in Persons |-> Unread]
  BY DEF ProjectInit, Init, TasksInit
<1>2. msg \in [Messages -> MessageStates]
  BY <1>1, PersonalAssumption DEF MessageStates
<1>3. NoTask \in TaskRecords /\ Unread \in Views
  BY DEF NoTask, TaskRecords, Unread, Views
<1>4. task \in [TaskIds -> TaskRecords] /\ view \in [Persons -> Views]
  BY <1>1, <1>3
<1>5. BoardTypes
  BY <1>1, <1>2, <1>4, Zenon DEF BoardTypes, TaskRecords, Views, MessageStates
<1>6. Board = {} /\ \A p \in Persons : view[p].task = None
  BY <1>1 DEF Board, NoTask, Unread
<1> QED
  BY <1>5, <1>6, TasksAssumption DEF BoardInv, ViewInv, RunsInv

\* A task never has two unfinished runs, and a completed one has none and no run its
\* completer had not read of, for any number of tasks, members and messages
\* (TaskDone; attachTaskMessage and the revision check of internal/store).
THEOREM TaskDoneAlways == ProjectSpec => []TaskDone
<1>1. ProjectInit => BoardTypes /\ BoardInv
  BY BoardStarts
<1>2. BoardTypes /\ BoardInv /\ [ProjectNext]_projectVars => (BoardTypes /\ BoardInv)'
  BY BoardKeeps
<1>3. BoardTypes /\ BoardInv => TaskDone
  <2> SUFFICES ASSUME BoardInv, NEW t \in Board
               PROVE  LET open == {m \in task[t].links : msg[m] \in Unfinished} IN
                      /\ Cardinality(open) <= 1
                      /\ task[t].done => open = {} /\ task[t].links = task[t].seen
    BY DEF TaskDone
  <2> DEFINE open == {m \in task[t].links : msg[m] \in Unfinished}
  <2>1. \A m, n \in open : m = n
    BY DEF BoardInv, RunsInv
  <2>2. open = {} \/ \E m : open = {m}
    BY <2>1
  <2>3. Cardinality(open) <= 1
    <3> HIDE DEF open
    <3>1. CASE open = {}
      BY <3>1, FS_EmptySet
    <3>2. ASSUME NEW m, open = {m} PROVE Cardinality(open) <= 1
      <4>1. Cardinality({m}) = 1
        BY FS_Singleton
      <4>2. Cardinality(open) = 1
        BY <3>2, <4>1, Zenon
      <4> QED
        BY <4>2
    <3> QED
      BY <2>2, <3>1, <3>2
  <2>4. task[t].done => open = {} /\ task[t].links = task[t].seen
    BY DEF BoardInv, RunsInv
  <2> QED
    BY <2>3, <2>4
<1> QED
  BY <1>1, <1>2, <1>3, PTL DEF ProjectSpec
=============================================================================
