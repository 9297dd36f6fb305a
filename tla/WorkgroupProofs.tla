-------------------------- MODULE WorkgroupProofs --------------------------
(***************************************************************************)
(* The workgroup runtime, for any number of runs, steps and plans: what is *)
(* shown is journalled, a step runs after its dependencies, a result is    *)
(* credited to the job that was executed, and a run that the journal calls *)
(* ended is quiet.                                                         *)
(***************************************************************************)
EXTENDS Workgroup, SequenceTheorems, WellFoundedInduction, TLAPS

----------------------------------------------------------------------------
(* Induction on the natural numbers, for sets.                             *)

Before == {jk \in Nat \X Nat : jk[1] < jk[2]}

LEMMA BeforeWellFounded == IsWellFoundedOn(Before, Nat)
<1>1. IsWellFoundedOn(OpToRel(<, Nat), Nat)
  BY NatLessThanWellFounded
<1>2. Before \cap (Nat \X Nat) \subseteq OpToRel(<, Nat)
  BY DEF Before, OpToRel
<1> QED
  BY <1>1, <1>2, IsWellFoundedOnSubrelation

LEMMA Smallest ==
    ASSUME NEW S, S \subseteq Nat, S # {}
    PROVE  \E k \in S : \A j \in S : k <= j
<1>1. PICK k \in S : \A j \in S : ~(<<j, k>> \in Before)
  BY BeforeWellFounded, WFMin
<1>2. \A j \in S : ~(j < k)
  BY <1>1 DEF Before
<1> QED
  BY <1>2

LEMMA SetInduction ==
    ASSUME NEW S, S \subseteq Nat, 0 \in S, \A n \in S : n + 1 \in S
    PROVE  S = Nat
<1> SUFFICES ASSUME S # Nat PROVE FALSE
  OBVIOUS
<1>1. Nat \ S \subseteq Nat /\ Nat \ S # {}
  OBVIOUS
<1>2. PICK k \in Nat \ S : \A j \in Nat \ S : k <= j
  BY <1>1, Smallest
<1>3. k # 0 /\ k - 1 \in Nat /\ ~(k <= k - 1)
  OBVIOUS
<1>4. k - 1 \in S
  BY <1>2, <1>3
<1> QED
  BY <1>2, <1>4

----------------------------------------------------------------------------
(* Config.Plan: the order of a plan.                                       *)

\* One step of the recursion, for a function on 0..m.
Unrolled(p, g, m) == [n \in 0..m |-> IF n = 0 THEN <<>> ELSE Further(p, g[n - 1])]

LEMMA TakenExists ==
    ASSUME NEW p, NEW m \in Nat
    PROVE  \E g : g = Unrolled(p, g, m)
<1> DEFINE S == {k \in Nat : \E g : g = Unrolled(p, g, k)}
<1>1. 0 \in S
  <2> DEFINE g == [n \in 0..0 |-> <<>>]
  <2>1. g = Unrolled(p, g, 0)
    BY DEF Unrolled
  <2> QED
    BY <2>1
<1>2. ASSUME NEW k \in S PROVE k + 1 \in S
  <2>1. PICK g : g = Unrolled(p, g, k)
    OBVIOUS
  <2> DEFINE h == [n \in 0..(k + 1) |-> IF n = k + 1 THEN Further(p, g[k]) ELSE g[n]]
  <2>2. \A n \in 0..k : g[n] = IF n = 0 THEN <<>> ELSE Further(p, g[n - 1])
    BY <2>1 DEF Unrolled
  <2>3. \A n \in 0..k : h[n] = g[n] /\ h[k + 1] = Further(p, g[k])
    OBVIOUS
  <2> HIDE DEF h
  <2>4. \A n \in 0..(k + 1) : h[n] = IF n = 0 THEN <<>> ELSE Further(p, h[n - 1])
    <3> SUFFICES ASSUME NEW n \in 0..(k + 1)
                 PROVE  h[n] = IF n = 0 THEN <<>> ELSE Further(p, h[n - 1])
      OBVIOUS
    <3>1. CASE n = k + 1
      BY <2>3, <3>1
    <3>2. CASE n \in 0..k
      <4>1. n # 0 => n - 1 \in 0..k
        BY <3>2
      <4> QED
        BY <2>2, <2>3, <3>2, <4>1
    <3> QED
      BY <3>1, <3>2
  <2>5. h = Unrolled(p, h, k + 1)
    BY <2>4 DEF Unrolled, h
  <2> QED
    BY <2>5
<1>3. S \subseteq Nat
  OBVIOUS
<1> HIDE DEF S
<1>4. S = Nat
  BY <1>1, <1>2, <1>3, SetInduction
<1> QED
  BY <1>4 DEF S

LEMMA TakenUnrolled ==
    ASSUME NEW p, Len(p.steps) \in Nat
    PROVE  /\ Taken(p)[0] = <<>>
           /\ \A n \in 1..Len(p.steps) : Taken(p)[n] = Further(p, Taken(p)[n - 1])
<1> DEFINE m == Len(p.steps)
           G == CHOOSE g : g = Unrolled(p, g, m)
<1>1. Taken(p) = G
  BY DEF Taken, Unrolled
<1>2. \E g : g = Unrolled(p, g, m)
  BY TakenExists
<1>3. G = Unrolled(p, G, m)
  BY <1>2
<1> HIDE DEF G
<1>4. \A n \in 0..m : G[n] = IF n = 0 THEN <<>> ELSE Further(p, G[n - 1])
  BY <1>3 DEF Unrolled
<1> QED
  BY <1>1, <1>4

\* What comes next is a step of the plan that is ready and not yet taken.
LEMMA NextStepIs ==
    ASSUME NEW p, p.steps \in Seq(Steps), NEW taken
    PROVE  LET s == NextStep(p, taken) IN
           s = NoStep \/ (s \in Steps /\ s \notin taken /\ p.deps[s] \subseteq taken)
<1> DEFINE open == {k \in 1..Len(p.steps) : p.steps[k] \notin taken /\ Ready(p, taken, p.steps[k])}
           c == CHOOSE k \in open : \A j \in open : k <= j
<1>1. CASE open = {}
  BY <1>1 DEF NextStep
<1>2. CASE open # {}
  <2>1. open \subseteq Nat
    OBVIOUS
  <2>2. \E k \in open : \A j \in open : k <= j
    BY <1>2, <2>1, Smallest
  <2>3. c \in open
    BY <2>2
  <2>4. NextStep(p, taken) = p.steps[c]
    BY <1>2 DEF NextStep
  <2>5. PICK i \in open : i = c
    BY <2>3
  <2>6. /\ i \in 1..Len(p.steps) /\ p.steps[i] \notin taken
        /\ p.deps[p.steps[i]] \subseteq taken
    BY DEF Ready
  <2>7. p.steps[i] \in Steps
    BY <2>6, ElementOfSeq
  <2>8. NextStep(p, taken) = p.steps[i]
    BY <2>4, <2>5
  <2> HIDE DEF c, open
  <2> QED
    BY <2>6, <2>7, <2>8
<1> QED
  BY <1>1, <1>2

\* A sequence of steps in which each is new and stands behind its dependencies,
\* as far as it has no gap.
Ordered(p, s) ==
    \A k \in 1..Len(s) :
        s[k] # NoStep => /\ p.deps[s[k]] \subseteq {s[j] : j \in 1..(k - 1)}
                         /\ \A j \in 1..(k - 1) : s[j] # s[k]

LEMMA FurtherOrdered ==
    ASSUME NEW p, p.steps \in Seq(Steps), NEW s \in Seq(Steps \cup {NoStep}), Ordered(p, s)
    PROVE  LET t == Further(p, s) IN
           t \in Seq(Steps \cup {NoStep}) /\ Len(t) = Len(s) + 1 /\ Ordered(p, t)
<1>1. PICK x : x = NextStep(p, Range(s))
  OBVIOUS
<1>2. x = NoStep \/ (x \in Steps /\ x \notin Range(s) /\ p.deps[x] \subseteq Range(s))
  BY <1>1, NextStepIs
<1>3. Range(s) = {s[j] : j \in 1..Len(s)}
  BY DEF Range
<1>4. PICK t : t = Append(s, x)
  OBVIOUS
<1>5. /\ t \in Seq(Steps \cup {NoStep}) /\ Len(t) = Len(s) + 1 /\ t[Len(s) + 1] = x
      /\ \A j \in 1..Len(s) : t[j] = s[j]
  BY <1>2, <1>4
<1>6. Ordered(p, t)
  <2> SUFFICES ASSUME NEW k \in 1..Len(t), t[k] # NoStep
               PROVE  /\ p.deps[t[k]] \subseteq {t[j] : j \in 1..(k - 1)}
                      /\ \A j \in 1..(k - 1) : t[j] # t[k]
    BY DEF Ordered
  <2>1. CASE k = Len(s) + 1
    <3>1. {t[j] : j \in 1..(k - 1)} = Range(s)
      BY <1>3, <1>5, <2>1
    <3> QED
      BY <1>2, <1>5, <2>1, <3>1
  <2>2. CASE k \in 1..Len(s)
    <3>1. {t[j] : j \in 1..(k - 1)} = {s[j] : j \in 1..(k - 1)} /\ t[k] = s[k]
      BY <1>5, <2>2
    <3>2. \A j \in 1..(k - 1) : t[j] = s[j]
      BY <1>5, <2>2
    <3> QED
      BY <2>2, <3>1, <3>2 DEF Ordered
  <2> QED
    BY <1>5, <2>1, <2>2
<1> QED
  BY <1>1, <1>4, <1>5, <1>6 DEF Further

LEMMA OrderSound ==
    ASSUME NEW p \in Plans, ~Cyclic(p)
    PROVE  Order(p) \in Seq(Steps) /\ Ordered(p, Order(p))
<1>0. p.steps \in Seq(Steps) /\ Len(p.steps) \in Nat
  BY WorkgroupAssumption
<1> DEFINE Good(t) == t \in Seq(Steps \cup {NoStep}) /\ Ordered(p, t)
           S == {n \in Nat : n <= Len(p.steps) => Good(Taken(p)[n])}
<1>1. 0 \in S
  <2>1. <<>> \in Seq(Steps \cup {NoStep}) /\ Ordered(p, <<>>)
    BY DEF Ordered
  <2> QED
    BY <1>0, <2>1, TakenUnrolled
<1>2. ASSUME NEW n \in S PROVE n + 1 \in S
  <2> SUFFICES ASSUME n + 1 <= Len(p.steps) PROVE Good(Taken(p)[n + 1])
    OBVIOUS
  <2>1. Good(Taken(p)[n])
    BY <1>0
  <2>2. Taken(p)[n + 1] = Further(p, Taken(p)[n])
    BY <1>0, TakenUnrolled
  <2> QED
    BY <1>0, <2>1, <2>2, FurtherOrdered
<1>3. S \subseteq Nat
  OBVIOUS
<1>4. S = Nat
  <2> HIDE DEF S
  <2> QED
    BY <1>1, <1>2, <1>3, SetInduction
<1>5. Good(Order(p))
  BY <1>0, <1>4 DEF Order
<1>6. NoStep \notin {Order(p)[k] : k \in 1..Len(Order(p))}
  BY <1>5 DEF Cyclic, Range
<1>7. Order(p) \in Seq(Steps)
  BY <1>5, <1>6
<1> QED
  BY <1>5, <1>7

----------------------------------------------------------------------------
(* What the room is shown, and the order of the steps.                     *)

\* The run that executes: its order is sound, and the results of the steps
\* before the current one are in the journal.
StepInv ==
    /\ pc \in {"planning", "loop", "work"} =>
          /\ order \in Seq(Steps) /\ Ordered(plan, order) /\ at \in Nat \ {0}
          /\ \A j \in 1..Len(order) : j < at => Item("step", order[j]) \in saved
    /\ pc = "work" => at <= Len(order)
    /\ pc = "planning" => at = 1

RunInv == ShownIsJournalled /\ StepInv

LEMMA OrderedNext ==
    ASSUME NEW p, NEW s, Ordered(p, s), plan' = p, order' = s
    PROVE  Ordered(plan, order)'
BY DEF Ordered

\* The steps that leave the run, its journal and its place in it alone.
LEMMA RunInvFrame ==
    ASSUME RunInv, UNCHANGED <<saved, shown, plan, order, at>>, pc' \in {pc, "finish", "idle"}
    PROVE  RunInv'
<1>1. ShownIsJournalled'
  BY DEF RunInv, ShownIsJournalled
<1>2. Ordered(plan, order) => Ordered(plan, order)'
  BY DEF Ordered
<1>3. StepInv'
  BY <1>2 DEF RunInv, StepInv, Item
<1> QED
  BY <1>1, <1>3 DEF RunInv

\* The current step is done, and its result is recorded.
LEMMA RunInvStepDone ==
    ASSUME RunInv, pc = "work", Record({Item("step", Current)}, "loop"), at' = at + 1,
           UNCHANGED <<plan, order>>
    PROVE  RunInv'
<1>1. ShownIsJournalled'
  BY DEF RunInv, ShownIsJournalled, Record, Emit
<1>2. CASE pc' = "finish"
  BY <1>1, <1>2 DEF RunInv, StepInv
<1>3. CASE pc' # "finish"
  <2>1. pc' = "loop" /\ saved' = saved \cup {Item("step", order[at])}
    BY <1>3 DEF Record, Current
  <2>2. Ordered(plan, order)'
    <3>1. PICK p, s : p = plan /\ s = order
      OBVIOUS
    <3>2. Ordered(p, s)
      BY <3>1 DEF RunInv, StepInv
    <3> QED
      BY <3>1, <3>2, OrderedNext
  <2>3. order \in Seq(Steps) /\ at \in Nat \ {0}
    BY DEF RunInv, StepInv
  <2>4. ASSUME NEW j \in 1..Len(order), j < at + 1 PROVE Item("step", order[j]) \in saved'
    <3>1. CASE j = at
      BY <2>1, <3>1
    <3>2. CASE j < at
      BY <2>1, <3>2 DEF RunInv, StepInv
    <3> QED
      BY <2>3, <2>4, <3>1, <3>2
  <2>5. at + 1 \in Nat \ {0}
    BY <2>3
  <2>6. StepInv'
    BY <2>1, <2>2, <2>3, <2>4, <2>5 DEF StepInv, Item
  <2> QED
    BY <1>1, <2>6 DEF RunInv
<1> QED
  BY <1>2, <1>3

LEMMA RunInvInit == Init => RunInv
BY DEF Init, RunInv, StepInv, ShownIsJournalled

LEMMA RunInvStep == RunInv /\ [Next]_vars => RunInv'
<1> SUFFICES ASSUME RunInv, [Next]_vars PROVE RunInv'
  OBVIOUS
<1>1. ASSUME NEW p \in Plans, StartTurnFor(p) PROVE RunInv'
  <2>1. Order(p) \in Seq(Steps) /\ Ordered(p, Order(p))
    BY <1>1, OrderSound DEF StartTurnFor
  <2>2. /\ order' = Order(p) /\ plan' = p /\ at' = 1 /\ pc' \in {"planning", "loop"}
        /\ saved' = {} /\ shown' = {}
    BY <1>1 DEF StartTurnFor
  <2>3. Ordered(plan, order)'
    <3>1. PICK s : s = Order(p)
      OBVIOUS
    <3> QED
      BY <2>1, <2>2, <3>1, OrderedNext
  <2> QED
    BY <2>1, <2>2, <2>3 DEF RunInv, StepInv, ShownIsJournalled
<1>2. CASE Planning
  <2>1. ShownIsJournalled'
    BY <1>2 DEF Planning, RunInv, ShownIsJournalled, Record, Emit
  <2>2. CASE pc' = "finish"
    BY <2>1, <2>2 DEF RunInv, StepInv
  <2>3. CASE pc' # "finish"
    <3>1. pc = "planning" /\ pc' = "loop" /\ saved \subseteq saved' /\ UNCHANGED <<plan, order, at>>
      BY <1>2, <2>3 DEF Planning, Record
    <3>2. Ordered(plan, order)'
      <4>1. PICK p, s : p = plan /\ s = order
        OBVIOUS
      <4>2. Ordered(p, s)
        BY <3>1, <4>1 DEF RunInv, StepInv
      <4> QED
        BY <3>1, <4>1, <4>2, OrderedNext
    <3> QED
      BY <2>1, <3>1, <3>2 DEF RunInv, StepInv, Item
  <2> QED
    BY <2>2, <2>3
<1>3. CASE StepBegins
  <2>1. ShownIsJournalled'
    BY <1>3 DEF StepBegins, RunInv, ShownIsJournalled, Record, Emit
  <2>2. CASE pc' = "finish"
    BY <2>1, <2>2 DEF RunInv, StepInv
  <2>3. CASE pc' # "finish"
    <3>1. /\ pc = "loop" /\ pc' = "work" /\ at <= Len(order) /\ saved \subseteq saved'
          /\ UNCHANGED <<plan, order, at>>
      BY <1>3, <2>3 DEF StepBegins, Record
    <3>2. Ordered(plan, order)'
      <4>1. PICK p, s : p = plan /\ s = order
        OBVIOUS
      <4>2. Ordered(p, s)
        BY <3>1, <4>1 DEF RunInv, StepInv
      <4> QED
        BY <3>1, <4>1, <4>2, OrderedNext
    <3> QED
      BY <2>1, <3>1, <3>2 DEF RunInv, StepInv, Item
  <2> QED
    BY <2>2, <2>3
<1>4. CASE StepsOver
  BY <1>4, RunInvFrame DEF StepsOver, journalVars
<1>5. ASSUME NEW result, pc = "work", StepEnds(result) PROVE RunInv'
  <2>1. UNCHANGED <<plan, order>>
    BY <1>5 DEF StepEnds
  <2>2. CASE Record({Item("step", Current)}, "loop") /\ at' = at + 1
    BY <1>5, <2>1, <2>2, RunInvStepDone
  <2>3. CASE pc' = "finish" /\ UNCHANGED <<saved, shown, at>>
    BY <2>1, <2>3, RunInvFrame
  <2> QED
    BY <1>5, <2>2, <2>3 DEF StepEnds
<1>6. CASE ProviderReturns
  BY <1>5, <1>6 DEF ProviderReturns
<1>7. CASE RemoteReturns
  <2>1. PICK result : result = answer
    OBVIOUS
  <2>2. pc = "work" /\ StepEnds(result)
    BY <1>7, <2>1 DEF RemoteReturns, StepEnds
  <2> QED
    BY <1>5, <2>2
<1>8. CASE UNCHANGED groupVars
  BY <1>8, RunInvFrame DEF groupVars, runVars, journalVars
<1>9. CASE ModelStarts
  BY <1>9, RunInvFrame DEF ModelStarts, runVars, journalVars
<1>10. CASE ModelReads
  <2>1. UNCHANGED <<plan, order>> /\ pc = "work"
    BY <1>10 DEF ModelReads
  <2>2. CASE Record({Item("step", Current)}, "loop") /\ at' = at + 1
    BY <2>1, <2>2, RunInvStepDone
  <2>3. CASE pc' \in {pc, "finish"} /\ UNCHANGED <<saved, shown, at>>
    BY <2>1, <2>3, RunInvFrame
  <2> QED
    BY <1>10, <2>2, <2>3 DEF ModelReads
<1>11. CASE ModelStops
  BY <1>11, RunInvFrame DEF ModelStops, journalVars
<1>12. CASE Finish
  <2>1. ShownIsJournalled'
    BY <1>12 DEF Finish, RunInv, ShownIsJournalled
  <2> QED
    BY <1>12, <2>1 DEF Finish, RunInv, StepInv
<1>13. CASE InterruptTurn
  BY <1>13, RunInvFrame DEF InterruptTurn, journalVars
<1>14. CASE StepTimeout
  BY <1>14, RunInvFrame DEF StepTimeout, journalVars
<1>15. CASE TurnEnds
  BY <1>15, RunInvFrame DEF TurnEnds, runVars, journalVars
<1>16. CASE SessionDies
  BY <1>16, RunInvFrame DEF SessionDies, runVars, journalVars
<1>17. CASE Forward
  BY <1>17, RunInvFrame DEF Forward, runVars, journalVars
<1>18. CASE Resolve
  BY <1>18, RunInvFrame DEF Resolve, runVars, journalVars
<1>19. CASE Crash
  <2>1. ShownIsJournalled' /\ pc' = "idle"
    BY <1>19 DEF Crash, RunInv, ShownIsJournalled, journalVars
  <2> QED
    BY <2>1 DEF RunInv, StepInv
<1>20. CASE UNCHANGED vars
  BY <1>8, <1>20 DEF vars
<1>21. CASE RemoteBegins
  BY <1>8, <1>21 DEF RemoteBegins
<1> QED
  BY <1>1, <1>2, <1>3, <1>4, <1>6, <1>7, <1>8, <1>9, <1>10, <1>11, <1>12, <1>13, <1>14,
     <1>15, <1>16, <1>17, <1>18, <1>19, <1>20, <1>21 DEF Next, ExecuteStep, BrokerStep

\* Whatever the room was shown of a run is in the journal, failing writes and
\* restarts included (runtime.go:273, :329).
THEOREM ShownIsJournalledAlways == Spec => []ShownIsJournalled
<1>1. RunInv => ShownIsJournalled
  BY DEF RunInv
<1> QED
  BY <1>1, RunInvInit, RunInvStep, PTL DEF Spec

\* A step runs only when the results of all its dependencies are in the
\* journal, for every plan that Config.Plan accepts (plan.go:101).
THEOREM DependencyOrderAlways == Spec => []DependencyOrder
<1>1. RunInv => DependencyOrder
  <2> SUFFICES ASSUME RunInv, pc = "work", NEW d \in plan.deps[Current]
               PROVE  Item("step", d) \in saved
    BY DEF DependencyOrder
  <2>1. /\ order \in Seq(Steps) /\ Ordered(plan, order) /\ at \in 1..Len(order)
        /\ \A j \in 1..Len(order) : j < at => Item("step", order[j]) \in saved
    BY DEF RunInv, StepInv
  <2>2. order[at] # NoStep
    BY <2>1, WorkgroupAssumption
  <2>3. plan.deps[order[at]] \subseteq {order[j] : j \in 1..(at - 1)}
    BY <2>1, <2>2 DEF Ordered
  <2>4. PICK j \in 1..(at - 1) : d = order[j]
    BY <2>3 DEF Current
  <2>5. j \in 1..Len(order) /\ j < at
    BY <2>1
  <2> QED
    BY <2>1, <2>4, <2>5
<1> QED
  BY <1>1, RunInvInit, RunInvStep, PTL DEF Spec

----------------------------------------------------------------------------
(* Types, and how the parts of a run hang together.                        *)

JobIds == RunIds \X Steps
Event == {"none", "end", "down", "up"} \X (0..MaxRuns)

GroupTypes ==
    /\ runs \in 0..MaxRuns /\ active \in 0..MaxRuns /\ codex \in 0..MaxRuns
    /\ state \in [RunIds -> {"none", "running"} \cup Terminal]
    /\ pc \in {"idle", "planning", "loop", "work", "finish"}
    /\ model \in {"none", "start", "wait", "stop"}
    /\ failure \in {"none", "failed", "interrupted", "unknown"}
    /\ out \in Seq(Event) /\ capture \in [RunIds -> Seq(Event)]
    /\ hand \in [event : Event, to : 0..MaxRuns]

MaybeJob == JobIds \cup {NoJob}
JobRecord == [id : MaybeJob, claimed : BOOLEAN, cancel : BOOLEAN, received : BOOLEAN]
ResultRecord == [is : {"none", "ok", "failed"}, of : MaybeJob]
ReplyKinds == {"none", "error", "accepted", "busy", "idle", "cancel", "working", "received"}
ReplyRecord == [kind : ReplyKinds, job : MaybeJob, assignment : BOOLEAN]

RemoteTypes ==
    /\ job \in JobRecord /\ done \in ResultRecord
    /\ run \in {"none", "snapshot", "wait", "stopping"} /\ runFor \in MaybeJob
    /\ answer \in {"none", "ok", "failed", "unknown"}
    /\ loop \in {"gone", "top", "check", "poll", "select", "leaving"}
    /\ reply \in ReplyRecord
    /\ has \in MaybeJob /\ process \in {"none", "running", "ok", "failed"}

\* The active run is the last one and runs in the journal.
ActiveInv ==
    /\ active # 0 => active = runs /\ state[active] = "running"
    /\ active = 0 <=> pc = "idle"

\* Run works for the current step, of a member; the broker has a job exactly
\* while Run waits for its result.
LinkInv ==
    /\ run # "none" => /\ pc = "work" /\ plan.by[Current] = "remote" /\ answer = "none"
                       /\ runFor = JobOf(Current)
    /\ answer # "none" => pc = "work" /\ plan.by[Current] = "remote"
    /\ job.id = IF run \in {"wait", "stopping"} THEN runFor ELSE NoJob
    /\ pc = "work" => (model # "none" <=> plan.by[Current] = "codex")

\* The result in the channel, the job of the process and the job of a reply;
\* a worker that checks itself is not available.
HandInv ==
    /\ done # NoResult => done.of = job.id /\ job.received /\ job.id # NoJob
    /\ process # "none" => has # NoJob
    /\ reply.assignment => reply.job # NoJob
    /\ loop \in {"gone", "leaving"} => reply = NoReply
    /\ loop = "check" => ~reply.assignment
    /\ \/ loop = "check" /\ reply.kind # "accepted"
       \/ loop = "top" /\ reply.kind = "accepted"
       => ~healthy /\ job.id = NoJob

\* The events of an App Server that has seen n runs; the end e of a turn, on
\* its way through the session o, the hand h and the capture channel c.
Seen(n) == {x \in Event : x[1] = "end" => x[2] <= n}
Has(s, e) == \E i \in 1..Len(s) : s[i] = e
Once(s, e) == \A i, j \in 1..Len(s) : s[i] = e /\ s[j] = e => i = j
OnTheWay(o, h, c, e) == Has(o, e) \/ h = e \/ Has(c, e)
OnlyOnce(o, h, c, e) ==
    /\ Once(o, e) /\ Once(c, e)
    /\ h = e => ~Has(o, e)
    /\ Has(c, e) => h # e /\ ~Has(o, e)

TheEnd == <<"end", active>>
Working == pc = "work" /\ model \in {"wait", "stop"}

\* A turn of the App Server is one of a run that is running in the journal.
\* That of the active run is waited for or in doubt, and its end comes once.
TurnInv ==
    /\ codex <= runs
    /\ codex # 0 => state[codex] = "running"
    /\ out \in Seq(Seen(runs)) /\ capture \in [RunIds -> Seq(Seen(runs))]
    /\ hand.event \in Seen(runs)
    /\ active # 0 /\ codex = active => Working \/ (pc = "finish" /\ failure = "unknown")
    /\ active # 0 =>
          /\ OnlyOnce(out, hand.event, capture[active], TheEnd)
          /\ OnTheWay(out, hand.event, capture[active], TheEnd) =>
                codex # active /\ (Working \/ pc = "finish")

\* The jobs some part of the system still names, and those that work or may
\* still begin to.
KnownJobs == {j \in JobIds : has = j \/ (reply.assignment /\ reply.job = j) \/ job.id = j}
LiveJobs ==
    {j \in JobIds : \/ has = j /\ process = "running"
                    \/ reply.assignment /\ reply.job = j /\ has = NoJob
                    \/ job.id = j /\ ~job.claimed /\ ~job.cancel}

\* The steps of the active run a job was made for: the earlier ones, and the
\* current one once Run has assigned it.
AssignedSteps ==
    {s \in Steps : \E k \in 1..Len(order) :
        /\ order[k] = s
        /\ k < at \/ (k = at /\ (run \in {"wait", "stopping"} \/ answer # "none"))}

FlagInv ==
    /\ job.id # NoJob /\ ~job.claimed =>
          has # job.id /\ ~(reply.assignment /\ reply.job = job.id)
    /\ job.id # NoJob /\ job.received =>
          /\ job.claimed /\ ~(reply.assignment /\ reply.job = job.id)
          /\ has = job.id => process # "running"

KnownInv ==
    \A j \in KnownJobs :
        /\ j[1] <= runs
        /\ j[1] = active /\ pc \in {"planning", "loop", "work"} => j[2] \in AssignedSteps

\* A live job of the active run is led by Run, or its outcome is unknown.
LiveInv ==
    \A j \in LiveJobs :
        /\ state[j[1]] = "running"
        /\ j[1] = active => \/ job.id = j \/ answer = "unknown"
                            \/ pc = "finish" /\ failure = "unknown"

JobInv == FlagInv /\ KnownInv /\ LiveInv

LEMMA EventsAre ==
    /\ <<"down", 0>> \in Event /\ <<"up", 0>> \in Event /\ <<"none", 0>> \in Event
    /\ \A r \in 0..MaxRuns : <<"end", r>> \in Event
BY WorkgroupAssumption DEF Event

\* The steps that leave alone what GroupTypes and ActiveInv speak of.
LEMMA GroupFrame ==
    ASSUME GroupTypes, ActiveInv, UNCHANGED <<runs, active, state, pc>>,
           UNCHANGED <<codex, model, failure, out, capture, hand>>
    PROVE  GroupTypes' /\ ActiveInv'
BY DEF GroupTypes, ActiveInv

\* A step of the run, which may end its work.
LEMMA GroupMoves ==
    ASSUME GroupTypes, ActiveInv, active # 0, UNCHANGED <<runs, active, state, codex, out, hand>>,
           pc' \in {"loop", "work", "finish"},
           failure' \in {"none", "failed", "interrupted", "unknown"},
           model' \in {"none", "start", "wait", "stop"}, capture' \in [RunIds -> Seq(Event)]
    PROVE  GroupTypes' /\ ActiveInv'
BY DEF GroupTypes, ActiveInv

LEMMA FailedIs == Failed \in {"interrupted", "failed"}
BY DEF Failed

LEMMA GroupInit == Init => GroupTypes /\ ActiveInv
<1> SUFFICES ASSUME Init PROVE GroupTypes /\ ActiveInv
  OBVIOUS
<1>1. hand \in [event : Event, to : 0..MaxRuns]
  BY WorkgroupAssumption, EventsAre DEF Init, NoHand
<1>2. capture \in [RunIds -> Seq(Event)] /\ out \in Seq(Event)
  BY DEF Init
<1> QED
  BY <1>1, <1>2, WorkgroupAssumption DEF Init, GroupTypes, ActiveInv

LEMMA GroupStep ==
    ASSUME RunInv, GroupTypes, ActiveInv, answer \in {"none", "ok", "failed", "unknown"},
           [Next]_vars
    PROVE  GroupTypes' /\ ActiveInv'
<1>1. ASSUME NEW p \in Plans, StartTurnFor(p) PROVE GroupTypes' /\ ActiveInv'
  <2>1. runs + 1 \in 1..MaxRuns /\ runs + 1 # 0
    BY <1>1, WorkgroupAssumption DEF StartTurnFor, GroupTypes
  <2>2. PICK n \in 1..MaxRuns : n = runs + 1
    BY <2>1
  <2>3. state' = [state EXCEPT ![n] = "running"]
    BY <1>1, <2>2 DEF StartTurnFor
  <2>4. state' \in [RunIds -> {"none", "running"} \cup Terminal] /\ state'[n] = "running"
    BY <2>3 DEF GroupTypes, RunIds
  <2>5. runs' = n /\ active' = n /\ pc' \in {"planning", "loop"} /\ failure' = "none"
    BY <1>1, <2>2 DEF StartTurnFor
  <2>6. UNCHANGED <<codex, model, out, capture, hand>>
    BY <1>1 DEF StartTurnFor, agentVars
  <2>7. GroupTypes'
    BY <2>4, <2>5, <2>6, WorkgroupAssumption DEF GroupTypes
  <2>8. ActiveInv'
    BY <2>4, <2>5 DEF ActiveInv
  <2> QED
    BY <2>7, <2>8
<1>2. CASE Planning
  <2>1. /\ active # 0 /\ UNCHANGED <<runs, active, state, codex, out, hand, model, capture>>
        /\ failure' \in {failure, "unknown", "failed", "interrupted"} /\ pc' \in {"loop", "finish"}
    BY <1>2, FailedIs DEF Planning, Record, ActiveInv, agentVars
  <2> QED
    BY <2>1, GroupMoves DEF GroupTypes
<1>3. CASE StepBegins
  <2>1. /\ active # 0 /\ UNCHANGED <<runs, active, state, codex, out, hand, capture>>
        /\ failure' \in {failure, "unknown"} /\ pc' \in {"work", "finish"}
        /\ model' \in {"start", "none"}
    BY <1>3 DEF StepBegins, Record, ActiveInv
  <2> QED
    BY <2>1, GroupMoves DEF GroupTypes
<1>4. CASE StepsOver
  <2>1. /\ active # 0 /\ UNCHANGED <<runs, active, state, codex, out, hand, capture, model>>
        /\ failure' \in {failure, "interrupted"} /\ pc' = "finish"
    BY <1>4 DEF StepsOver, ActiveInv, agentVars, journalVars
  <2> QED
    BY <2>1, GroupMoves DEF GroupTypes
<1>5. ASSUME NEW result, pc = "work", StepEnds(result), UNCHANGED <<codex, model>>
      PROVE GroupTypes' /\ ActiveInv'
  <2>1. /\ active # 0 /\ UNCHANGED <<runs, active, state, codex, out, hand, capture, model>>
        /\ failure' \in {failure, "unknown", "failed", "interrupted"} /\ pc' \in {"loop", "finish"}
    BY <1>5, FailedIs DEF StepEnds, Record, ActiveInv
  <2> QED
    BY <2>1, GroupMoves DEF GroupTypes
<1>6. CASE ProviderReturns
  BY <1>5, <1>6 DEF ProviderReturns
<1>7. CASE RemoteReturns
  <2>1. PICK result : result = answer
    OBVIOUS
  <2>2. pc = "work" /\ StepEnds(result) /\ UNCHANGED <<codex, model>>
    BY <1>7, <2>1 DEF RemoteReturns, StepEnds
  <2> QED
    BY <1>5, <2>2
<1>8. CASE UNCHANGED groupVars
  BY <1>8, GroupFrame DEF groupVars, runVars, journalVars, agentVars
<1>9. CASE ModelStarts
  <2>1. /\ active # 0 /\ pc = "work" /\ UNCHANGED <<runs, active, state, out, hand, capture>>
        /\ failure' \in {failure, "unknown"} /\ pc' \in {"work", "finish"}
        /\ model' \in {"wait", "none"} /\ codex' \in {codex, active}
    BY <1>9 DEF ModelStarts, ActiveInv, runVars, journalVars
  <2> QED
    BY <2>1 DEF GroupTypes, ActiveInv
<1>10. ASSUME active # 0
       PROVE  [capture EXCEPT ![active] = Tail(@)] \in [RunIds -> Seq(Event)] \/ capture[active] = <<>>
  <2>1. active \in RunIds
    BY <1>10 DEF GroupTypes, RunIds
  <2>2. capture[active] \in Seq(Event)
    BY <2>1 DEF GroupTypes
  <2>3. CASE capture[active] # <<>>
    <3>1. Tail(capture[active]) \in Seq(Event)
      BY <2>2, <2>3
    <3> QED
      BY <2>1, <3>1 DEF GroupTypes
  <2> QED
    BY <2>3
<1>11. CASE ModelReads
  <2>1. /\ active # 0 /\ UNCHANGED <<runs, active, state, codex, out, hand>>
        /\ failure' \in {failure, "unknown", "failed", "interrupted"}
        /\ pc' \in {"loop", "work", "finish"} /\ model' \in {"none", model}
        /\ capture[active] # <<>> /\ capture' = [capture EXCEPT ![active] = Tail(@)]
    BY <1>11, FailedIs DEF ModelReads, ActiveInv, Record
  <2>2. capture' \in [RunIds -> Seq(Event)]
    BY <1>10, <2>1
  <2> QED
    BY <2>1, <2>2, GroupMoves DEF GroupTypes
<1>12. CASE ModelStops
  <2>1. /\ active # 0 /\ UNCHANGED <<runs, active, state, codex, out, hand>>
        /\ failure' \in {failure, "unknown", "failed", "interrupted"}
        /\ pc' \in {"work", "finish"} /\ model' \in {"none", "stop", model}
        /\ \/ UNCHANGED capture
           \/ capture[active] # <<>> /\ capture' = [capture EXCEPT ![active] = Tail(@)]
    BY <1>12, FailedIs DEF ModelStops, ActiveInv, journalVars
  <2>2. capture' \in [RunIds -> Seq(Event)]
    BY <1>10, <2>1 DEF GroupTypes
  <2> QED
    BY <2>1, <2>2, GroupMoves DEF GroupTypes
<1>13. CASE Finish
  <2>1. /\ active' = 0 /\ pc' = "idle" /\ failure' = "none" /\ model' = "none"
        /\ UNCHANGED <<runs, codex, out, hand, capture>>
    BY <1>13 DEF Finish
  <2>2. PICK w \in {"kept", "lost"} : state' = [state EXCEPT ![active] =
            IF failure = "unknown" \/ w = "lost" THEN @
            ELSE IF failure = "none" THEN "completed" ELSE failure]
    BY <1>13 DEF Finish
  <2>3. active \in RunIds
    BY <1>13 DEF Finish, ActiveInv, GroupTypes, RunIds
  <2>4. PICK x : x = IF failure = "unknown" \/ w = "lost" THEN state[active]
                     ELSE IF failure = "none" THEN "completed" ELSE failure
    OBVIOUS
  <2>5. x \in {"none", "running"} \cup Terminal
    <3>1. CASE failure = "unknown" \/ w = "lost"
      <4>1. x = state[active]
        BY <2>4, <3>1
      <4> QED
        BY <2>3, <4>1 DEF GroupTypes
    <3>2. CASE ~(failure = "unknown" \/ w = "lost")
      <4>1. x = "completed" \/ (x = failure /\ failure \notin {"none", "unknown"})
        BY <2>4, <3>2
      <4> QED
        BY <4>1 DEF GroupTypes, Terminal
    <3> QED
      BY <3>1, <3>2
  <2>6. state' = [state EXCEPT ![active] = x]
    BY <2>2, <2>4
  <2>7. state' \in [RunIds -> {"none", "running"} \cup Terminal]
    BY <2>5, <2>6 DEF GroupTypes
  <2> QED
    BY <2>1, <2>7, WorkgroupAssumption DEF GroupTypes, ActiveInv
<1>14. CASE InterruptTurn
  BY <1>14, GroupFrame DEF InterruptTurn, journalVars, agentVars
<1>15. CASE StepTimeout
  BY <1>15, GroupFrame DEF StepTimeout, journalVars, agentVars
<1>16. CASE TurnEnds
  <2>1. Append(out, <<"end", codex>>) \in Seq(Event)
    BY EventsAre DEF GroupTypes
  <2> QED
    BY <1>16, <2>1, WorkgroupAssumption DEF TurnEnds, GroupTypes, ActiveInv, runVars, journalVars
<1>17. CASE SessionDies
  <2>1. out \o <<<<"down", 0>>, <<"up", 0>>>> \in Seq(Event)
    BY EventsAre DEF GroupTypes
  <2> QED
    BY <1>17, <2>1, WorkgroupAssumption
    DEF SessionDies, GroupTypes, ActiveInv, runVars, journalVars
<1>18. CASE Forward
  <2>1. UNCHANGED <<runs, active, state, pc, codex, model, failure>>
    BY <1>18 DEF Forward, runVars, journalVars
  <2>2. NoHand \in [event : Event, to : 0..MaxRuns]
    BY EventsAre, WorkgroupAssumption DEF NoHand
  <2>3. /\ out' \in Seq(Event) /\ capture' \in [RunIds -> Seq(Event)]
        /\ hand' \in [event : Event, to : 0..MaxRuns]
    <3>1. CASE out # <<>> /\ hand' = [event |-> Head(out), to |-> active] /\ out' = Tail(out)
               /\ UNCHANGED capture
      <4>1. Head(out) \in Event /\ Tail(out) \in Seq(Event)
        BY <3>1 DEF GroupTypes
      <4> QED
        BY <3>1, <4>1 DEF GroupTypes
    <3>2. CASE hand.to # 0 /\ capture' = [capture EXCEPT ![hand.to] = Append(@, hand.event)]
               /\ hand' = NoHand /\ UNCHANGED out
      <4>1. hand.to \in RunIds /\ hand.event \in Event
        BY <3>2 DEF GroupTypes, RunIds
      <4>2. Append(capture[hand.to], hand.event) \in Seq(Event)
        BY <4>1 DEF GroupTypes
      <4> QED
        BY <2>2, <3>2, <4>1, <4>2 DEF GroupTypes
    <3>3. CASE hand' = NoHand /\ UNCHANGED <<capture, out>>
      BY <2>2, <3>3 DEF GroupTypes
    <3> QED
      BY <1>18, <3>1, <3>2, <3>3 DEF Forward
  <2> QED
    BY <2>1, <2>3 DEF GroupTypes, ActiveInv
<1>19. CASE Resolve
  BY <1>19, GroupFrame DEF Resolve, runVars, journalVars, agentVars
<1>20. CASE Crash
  <2>1. NoHand \in [event : Event, to : 0..MaxRuns]
    BY EventsAre, WorkgroupAssumption DEF NoHand
  <2>2. /\ active' = 0 /\ pc' = "idle" /\ failure' = "none" /\ model' = "none" /\ codex' = 0
        /\ UNCHANGED <<runs, state>> /\ out' = <<>> /\ hand' = NoHand
        /\ capture' = [r \in RunIds |-> <<>>]
    BY <1>20 DEF Crash, journalVars
  <2> QED
    BY <2>1, <2>2, WorkgroupAssumption DEF GroupTypes, ActiveInv
<1>21. CASE UNCHANGED vars
  BY <1>8, <1>21 DEF vars
<1>22. CASE RemoteBegins
  BY <1>8, <1>22 DEF RemoteBegins
<1> QED
  BY <1>1, <1>2, <1>3, <1>4, <1>6, <1>7, <1>8, <1>9, <1>11, <1>12, <1>13, <1>14,
     <1>15, <1>16, <1>17, <1>18, <1>19, <1>20, <1>21, <1>22 DEF Next, ExecuteStep, BrokerStep

----------------------------------------------------------------------------
(* The broker and the worker: types.                                       *)

LEMMA RecordsAre ==
    /\ Idle \in JobRecord /\ NoResult \in ResultRecord /\ NoReply \in ReplyRecord
    /\ \A id \in MaybeJob :
          /\ NewJob(id) \in JobRecord /\ NewJob(id).id = id
          /\ ~NewJob(id).claimed /\ ~NewJob(id).received
    /\ \A kind \in ReplyKinds, id \in MaybeJob, b \in BOOLEAN :
          Reply(kind, id, b) \in ReplyRecord
<1>1. NoJob \in MaybeJob
  BY DEF MaybeJob
<1>2. /\ Idle \in JobRecord /\ NoResult \in ResultRecord /\ NoReply \in ReplyRecord
  BY <1>1 DEF Idle, JobRecord, NoResult, ResultRecord, NoReply, ReplyRecord, ReplyKinds
<1>3. ASSUME NEW id \in MaybeJob
      PROVE  /\ NewJob(id) \in JobRecord /\ NewJob(id).id = id
             /\ ~NewJob(id).claimed /\ ~NewJob(id).received
  <2>1. PICK x : x = Idle
    OBVIOUS
  <2>2. x \in JobRecord /\ ~x.claimed /\ ~x.received
    BY <1>2, <2>1 DEF Idle
  <2>3. NewJob(id) = [x EXCEPT !.id = id]
    BY <2>1 DEF NewJob
  <2> QED
    BY <2>2, <2>3 DEF JobRecord
<1>5. \A kind \in ReplyKinds, id \in MaybeJob, b \in BOOLEAN :
          Reply(kind, id, b) \in ReplyRecord
  BY DEF Reply, ReplyRecord
<1> QED
  BY <1>2, <1>3, <1>5

LEMMA RemoteTypesFrame ==
    ASSUME RemoteTypes, UNCHANGED remoteRest
    PROVE  RemoteTypes'
BY DEF RemoteTypes, remoteRest, brokerVars, workerVars

\* A step of Run.
LEMMA BrokerTypes ==
    ASSUME RemoteTypes, UNCHANGED workerVars,
           job' \in JobRecord, done' \in {done, NoResult},
           run' \in {"none", "snapshot", "wait", "stopping"}, runFor' \in MaybeJob,
           answer' \in {"none", "ok", "failed", "unknown"}
    PROVE  RemoteTypes'
BY RecordsAre DEF RemoteTypes, workerVars

\* A request of the worker.
LEMMA RequestTypes ==
    ASSUME RemoteTypes, UNCHANGED <<run, runFor, answer, loop, has, process>>,
           job' \in JobRecord, done' \in ResultRecord, reply' \in ReplyRecord
    PROVE  RemoteTypes'
BY DEF RemoteTypes

\* A step of the worker alone.
LEMMA WorkerTypes ==
    ASSUME RemoteTypes, UNCHANGED <<job, done, run, runFor, answer>>,
           loop' \in {"gone", "top", "check", "poll", "select", "leaving"},
           reply' \in {reply, NoReply}, has' \in MaybeJob,
           process' \in {"none", "running", "ok", "failed"}
    PROVE  RemoteTypes'
BY RecordsAre DEF RemoteTypes

LEMMA RunReturnsTypes ==
    ASSUME RemoteTypes, NEW result \in {"ok", "failed", "unknown"}, RunReturns(result),
           UNCHANGED workerVars
    PROVE  RemoteTypes'
<1>1. job' \in {job, Idle} /\ done' = NoResult /\ run' = "none" /\ runFor' = NoJob /\ answer' = result
  BY DEF RunReturns
<1>2. NoJob \in MaybeJob
  BY DEF MaybeJob
<1>3. job' \in JobRecord
  BY <1>1, RecordsAre DEF RemoteTypes
<1> QED
  BY <1>1, <1>2, <1>3, BrokerTypes

LEMMA RemoteTypesInit == Init => RemoteTypes
<1> SUFFICES ASSUME Init PROVE RemoteTypes
  OBVIOUS
<1>1. RemoteInit
  BY DEF Init
<1> QED
  BY <1>1, RecordsAre DEF RemoteInit, RemoteTypes, MaybeJob

LEMMA CurrentJob ==
    ASSUME RunInv, GroupTypes, ActiveInv, pc = "work"
    PROVE  /\ active \in RunIds /\ order \in Seq(Steps) /\ at \in 1..Len(order)
           /\ Current \in Steps /\ JobOf(Current) \in JobIds
<1>1. active \in RunIds
  BY DEF ActiveInv, GroupTypes, RunIds
<1>2. order \in Seq(Steps) /\ at \in 1..Len(order)
  BY DEF RunInv, StepInv
<1>3. order[at] \in Steps
  BY <1>2, ElementOfSeq
<1> QED
  BY <1>1, <1>2, <1>3 DEF Current, JobOf, JobIds

LEMMA RemoteTypesStep ==
    ASSUME RunInv, GroupTypes, ActiveInv, RemoteTypes, [Next]_vars
    PROVE  RemoteTypes'
<1>0. NoJob \in MaybeJob /\ JobIds \subseteq MaybeJob
  BY DEF MaybeJob
<1>1. CASE UNCHANGED remoteRest
  BY <1>1, RemoteTypesFrame
<1>2. CASE RemoteBegins
  <2>1. JobOf(Current) \in MaybeJob
    BY <1>0, <1>2, CurrentJob DEF RemoteBegins
  <2>2. PICK id \in MaybeJob : id = JobOf(Current)
    BY <2>1
  <2>3. RunBegins(id)
    BY <1>2, <2>2 DEF RemoteBegins
  <2> QED
    BY <2>3, BrokerTypes DEF RunBegins, RemoteTypes
<1>3. CASE RemoteReturns
  BY <1>3 DEF RemoteReturns, RemoteTypes, workerVars
<1>4. CASE RunAssigns
  <2>1. CASE RunReturns("failed")
    BY <1>4, <2>1, RunReturnsTypes DEF RunAssigns
  <2>2. CASE run' = "wait" /\ job' = NewJob(runFor) /\ UNCHANGED <<answer, runFor, done>>
    <3>1. job' \in JobRecord
      BY <2>2, RecordsAre DEF RemoteTypes
    <3> QED
      BY <1>4, <2>2, <3>1, BrokerTypes DEF RunAssigns, RemoteTypes
  <2> QED
    BY <1>4, <2>1, <2>2 DEF RunAssigns
<1>5. CASE RunReceives
  BY <1>5, RunReturnsTypes DEF RunReceives
<1>6. CASE RunTicks
  <2>1. PICK x \in {"failed", "unknown"} : x = Expired
    BY DEF Expired
  <2>2. RunReturns(x)
    BY <1>6, <2>1 DEF RunTicks
  <2> QED
    BY <1>6, <2>2, RunReturnsTypes DEF RunTicks
<1>7. CASE RunCancelled(Late)
  <2>1. CASE RunReturns("failed")
    BY <1>7, <2>1, RunReturnsTypes DEF RunCancelled
  <2>2. CASE run' = "stopping" /\ job' = [job EXCEPT !.cancel = TRUE] /\ UNCHANGED <<answer, runFor, done>>
    <3>1. job' \in JobRecord
      BY <2>2 DEF RemoteTypes, JobRecord
    <3> QED
      BY <1>7, <2>2, <3>1, BrokerTypes DEF RunCancelled, RemoteTypes
  <2> QED
    BY <1>7, <2>1, <2>2 DEF RunCancelled
<1>8. CASE RunStops
  <2>1. PICK x \in {"failed", "unknown"} : x = IF done # NoResult THEN "failed" ELSE "unknown"
    OBVIOUS
  <2>2. RunReturns(x)
    BY <1>8, <2>1 DEF RunStops
  <2> QED
    BY <1>8, <2>2, RunReturnsTypes DEF RunStops
<1>9. CASE Invite
  BY <1>9, WorkerTypes DEF Invite, RemoteTypes
<1>10. \A kind \in ReplyKinds : Reply(kind, NoJob, FALSE) \in ReplyRecord
  BY <1>0, RecordsAre
<1>11. ASSUME NEW good, AskHealth(good) PROVE RemoteTypes'
  <2>1. reply' \in ReplyRecord
    BY <1>10, <1>11 DEF AskHealth, Refused, ReplyKinds
  <2> QED
    BY <1>11, <2>1, RequestTypes DEF AskHealth, Refused, RemoteTypes
<1>12. CASE AskPoll
  <2>1. PICK id, b : id = job.id /\ b = (~job.claimed /\ ~job.cancel)
    OBVIOUS
  <2>2. id \in MaybeJob /\ b \in BOOLEAN
    BY <2>1 DEF RemoteTypes, JobRecord
  <2>3. \A kind \in ReplyKinds : Reply(kind, id, b) \in ReplyRecord
    BY <2>2, RecordsAre
  <2>4. \/ \E kind \in ReplyKinds : reply' = Reply(kind, NoJob, FALSE)
        \/ \E kind \in ReplyKinds : reply' = Reply(kind, id, b)
    BY <1>12, <2>1 DEF AskPoll, Refused, ReplyKinds
  <2>5. reply' \in ReplyRecord
    BY <1>10, <2>3, <2>4
  <2>6. job' \in JobRecord
    <3>1. UNCHANGED job \/ job' = [job EXCEPT !.claimed = @ \/ b]
      BY <1>12, <2>1 DEF AskPoll, Refused
    <3>2. (job.claimed \/ b) \in BOOLEAN
      BY <2>2 DEF RemoteTypes, JobRecord
    <3> QED
      BY <3>1, <3>2 DEF RemoteTypes, JobRecord
  <2> QED
    BY <1>12, <2>5, <2>6, RequestTypes DEF AskPoll, Refused, RemoteTypes
<1>13. CASE AskResult
  <2>1. reply' \in ReplyRecord
    BY <1>10, <1>13 DEF AskResult, Refused, ReplyKinds
  <2>2. job' \in JobRecord
    <3>1. UNCHANGED job \/ job' = [job EXCEPT !.received = TRUE]
      BY <1>13 DEF AskResult, Refused
    <3> QED
      BY <3>1 DEF RemoteTypes, JobRecord
  <2>3. done' \in ResultRecord
    <3>1. UNCHANGED done \/ (done' = [is |-> process, of |-> has] /\ process \in {"ok", "failed"})
      BY <1>13 DEF AskResult, Refused
    <3> QED
      BY <3>1 DEF RemoteTypes, ResultRecord
  <2> QED
    BY <1>13, <2>1, <2>2, <2>3, RequestTypes DEF AskResult
<1>14. CASE Receive
  <2>1. reply.job \in MaybeJob
    BY DEF RemoteTypes, ReplyRecord
  <2>2. has' \in {has, reply.job, NoJob} /\ process' \in {process, "running", "none"}
        /\ loop' \in {"check", "poll", "select", "top"} /\ reply' = NoReply
        /\ UNCHANGED <<job, done, run, runFor, answer>>
    BY <1>14 DEF Receive, CheckAgent, brokerVars
  <2>3. has' \in MaybeJob
    BY <1>0, <2>1, <2>2 DEF RemoteTypes
  <2> QED
    BY <2>2, <2>3, WorkerTypes DEF RemoteTypes
<1>15. CASE Leave
  <2>1. job' \in JobRecord
    <3>1. PICK b \in BOOLEAN : b = (job.id # NoJob)
      OBVIOUS
    <3>2. UNCHANGED job \/ job' = [job EXCEPT !.cancel = b]
      BY <1>15, <3>1 DEF Leave
    <3> QED
      BY <3>2 DEF RemoteTypes, JobRecord
  <2> QED
    BY <1>0, <1>15, <2>1 DEF Leave, RemoteTypes
<1>16. CASE ProcessEnds
  BY <1>16, WorkerTypes DEF ProcessEnds, brokerVars, RemoteTypes
<1>17. CASE Leaving
  BY <1>17, WorkerTypes DEF Leaving, brokerVars, RemoteTypes
<1>18. CASE Tick
  BY <1>18, WorkerTypes DEF Tick, brokerVars, RemoteTypes
<1>19. CASE Lapse
  BY <1>19, WorkerTypes DEF Lapse, workerVars, RemoteTypes
<1>20. CASE Crash
  <2>1. Forgotten /\ UNCHANGED workerVars
    BY <1>20 DEF Crash
  <2> QED
    BY <1>0, <2>1, RecordsAre, BrokerTypes DEF Forgotten
<1>21. CASE UNCHANGED remoteVars
  BY <1>1, <1>21 DEF remoteVars
<1>22. CASE UNCHANGED vars
  BY <1>21, <1>22 DEF vars
<1>23. ASSUME NEW p \in Plans, StartTurnFor(p) PROVE RemoteTypes'
  BY <1>21, <1>23 DEF StartTurnFor
<1>24. ExecuteStep => RemoteTypes'
  BY <1>1, <1>2, <1>3, <1>21
  DEF ExecuteStep, Planning, StepBegins, StepsOver, ProviderReturns, ModelStarts, ModelReads,
      ModelStops, Finish
<1>25. CASE InterruptTurn \/ StepTimeout \/ TurnEnds \/ SessionDies \/ Forward \/ Resolve
  BY <1>1, <1>21, <1>25 DEF InterruptTurn, StepTimeout, TurnEnds, SessionDies, Forward, Resolve
<1> QED
  BY <1>4, <1>5, <1>6, <1>7, <1>8, <1>9, <1>11, <1>12, <1>13, <1>14, <1>15, <1>16, <1>17,
     <1>18, <1>19, <1>20, <1>22, <1>23, <1>24, <1>25 DEF Next, BrokerStep, RunStep, WorkerStep

----------------------------------------------------------------------------
(* Run belongs to the current step.                                        *)

LEMMA LinkSame ==
    ASSUME LinkInv, UNCHANGED <<pc, plan, order, at, active, model>>,
           UNCHANGED <<run, runFor, answer>>, job'.id = job.id
    PROVE  LinkInv'
BY DEF LinkInv, Current, JobOf

\* Steps of the run while Run does not work for it.
LEMMA LinkQuiet ==
    ASSUME LinkInv, run = "none", run' = "none", answer' = "none", UNCHANGED job,
           pc' = "work" => (model' # "none" <=> (plan.by[Current])' = "codex")
    PROVE  LinkInv'
BY DEF LinkInv

LEMMA LinkReturns ==
    ASSUME LinkInv, RemoteTypes, NEW result \in {"ok", "failed", "unknown"}, RunReturns(result),
           run # "none", UNCHANGED <<pc, plan, order, at, active, model>>
    PROVE  LinkInv' /\ job'.id = NoJob
<1>1. job'.id = NoJob
  <2>1. CASE job.id = runFor
    BY <2>1 DEF RunReturns, Idle
  <2>2. CASE job.id # runFor
    BY <2>2 DEF RunReturns, LinkInv
  <2> QED
    BY <2>1, <2>2
<1>2. pc = "work" /\ plan.by[Current] = "remote" /\ pc' = "work" /\ (plan.by[Current])' = "remote"
  BY DEF LinkInv, Current
<1>3. run' = "none" /\ answer' = result /\ runFor' = NoJob /\ model' = model
  BY DEF RunReturns
<1> QED
  BY <1>1, <1>2, <1>3 DEF LinkInv

LEMMA LinkInit == Init => LinkInv
BY DEF Init, RemoteInit, LinkInv, Idle

\* The steps of execute and of its agents outside Run.
LEMMA LinkExecute ==
    ASSUME ActiveInv, LinkInv, Next
    PROVE  \/ LinkInv'
           \/ RemoteBegins
           \/ (BrokerStep \/ (Invite \/ WorkerStep \/ Leaving \/ Tick \/ Lapse)) /\ UNCHANGED groupVars
<1>1. pc # "work" => run = "none" /\ answer = "none"
  BY DEF LinkInv
<1>2. pc = "work" /\ plan.by[Current] # "remote" => run = "none" /\ answer = "none"
  BY DEF LinkInv
<1>3. CASE UNCHANGED <<pc, plan, order, at, active, model>> /\ UNCHANGED remoteRest
  BY <1>3, LinkSame DEF remoteRest, brokerVars
<1>4. CASE \E p \in Plans : StartTurnFor(p)
  <2>1. pc = "idle" /\ pc' \in {"planning", "loop"} /\ UNCHANGED <<run, answer, job>>
    BY <1>4 DEF StartTurnFor, ActiveInv, remoteVars, remoteRest, brokerVars
  <2> QED
    BY <1>1, <2>1, LinkQuiet
<1>5. CASE Planning
  <2>1. pc = "planning" /\ pc' \in {"loop", "finish"} /\ UNCHANGED <<run, answer, job>>
    BY <1>5 DEF Planning, Record, remoteRest, brokerVars
  <2> QED
    BY <1>1, <2>1, LinkQuiet
<1>6. CASE StepBegins
  <2>1. pc = "loop" /\ UNCHANGED <<run, answer, job, plan, order, at>>
    BY <1>6 DEF StepBegins, remoteRest, brokerVars
  <2>2. model' = IF plan.by[Current] = "codex" THEN "start" ELSE "none"
    BY <1>6 DEF StepBegins
  <2>3. model' # "none" <=> (plan.by[Current])' = "codex"
    BY <2>1, <2>2 DEF Current
  <2> QED
    BY <1>1, <2>1, <2>3, LinkQuiet
<1>7. CASE StepsOver
  <2>1. pc = "loop" /\ pc' = "finish" /\ UNCHANGED <<run, answer, job>>
    BY <1>7 DEF StepsOver, remoteVars, remoteRest, brokerVars
  <2> QED
    BY <1>1, <2>1, LinkQuiet
<1>8. ASSUME NEW result, StepEnds(result) PROVE pc' \in {"loop", "finish"}
  BY <1>8 DEF StepEnds, Record
<1>9. CASE ProviderReturns
  <2>1. pc = "work" /\ plan.by[Current] # "remote" /\ UNCHANGED <<run, answer, job>>
    BY <1>9 DEF ProviderReturns, remoteRest, brokerVars
  <2>2. pc' \in {"loop", "finish"}
    BY <1>8, <1>9 DEF ProviderReturns
  <2> QED
    BY <1>2, <2>1, <2>2, LinkQuiet
<1>10. CASE RemoteReturns
  <2>1. answer # "none" /\ answer' = "none" /\ UNCHANGED <<run, job>>
    BY <1>10 DEF RemoteReturns
  <2>2. pc' \in {"loop", "finish"}
    <3>1. PICK result : result = answer
      OBVIOUS
    <3>2. StepEnds(result)
      BY <1>10, <3>1 DEF RemoteReturns
    <3> QED
      BY <1>8, <3>2
  <2>3. run = "none"
    BY <2>1 DEF LinkInv
  <2> QED
    BY <2>1, <2>2, <2>3, LinkQuiet
<1>11. ASSUME pc = "work", model # "none"
       PROVE  plan.by[Current] = "codex" /\ plan.by[Current] # "remote"
  BY <1>11 DEF LinkInv
<1>12. CASE ModelStarts
  <2>1. /\ pc = "work" /\ model # "none" /\ UNCHANGED <<run, answer, job, plan, order, at>>
        /\ (pc' = "work" /\ model' = "wait") \/ pc' = "finish"
    BY <1>12 DEF ModelStarts, remoteRest, brokerVars, runVars
  <2>2. (plan.by[Current])' = plan.by[Current]
    BY <2>1 DEF Current
  <2> QED
    BY <1>2, <1>11, <2>1, <2>2, LinkQuiet
<1>13. CASE ModelReads
  <2>1. /\ pc = "work" /\ model = "wait" /\ UNCHANGED <<run, answer, job, plan, order>>
        /\ (pc' = "work" /\ model' = model /\ at' = at) \/ pc' \in {"loop", "finish"}
    BY <1>13 DEF ModelReads, Record, remoteRest, brokerVars
  <2>2. pc' = "work" => (plan.by[Current])' = plan.by[Current]
    BY <2>1 DEF Current
  <2> QED
    BY <1>2, <1>11, <2>1, <2>2, LinkQuiet
<1>14. CASE ModelStops
  <2>1. /\ pc = "work" /\ model # "none" /\ UNCHANGED <<run, answer, job, plan, order, at>>
        /\ (pc' = "work" /\ model' # "none") \/ pc' = "finish"
    BY <1>14 DEF ModelStops, remoteVars, remoteRest, brokerVars
  <2>2. (plan.by[Current])' = plan.by[Current]
    BY <2>1 DEF Current
  <2> QED
    BY <1>2, <1>11, <2>1, <2>2, LinkQuiet
<1>15. CASE Finish
  <2>1. pc = "finish" /\ pc' = "idle" /\ UNCHANGED <<run, answer, job>>
    BY <1>15 DEF Finish, remoteRest, brokerVars
  <2> QED
    BY <1>1, <2>1, LinkQuiet
<1>16. CASE InterruptTurn \/ StepTimeout \/ TurnEnds \/ SessionDies \/ Forward \/ Resolve
  BY <1>3, <1>16
  DEF InterruptTurn, StepTimeout, TurnEnds, SessionDies, Forward, Resolve, runVars, agentVars,
      remoteVars
<1>17. CASE Crash
  BY <1>17 DEF Crash, Forgotten, LinkInv, Idle
<1> QED
  BY <1>4, <1>5, <1>6, <1>7, <1>9, <1>10, <1>12, <1>13, <1>14, <1>15, <1>16, <1>17
  DEF Next, ExecuteStep, BrokerStep

LEMMA LinkStep ==
    ASSUME RemoteTypes, ActiveInv, LinkInv, [Next]_vars
    PROVE  LinkInv'
<1>1. CASE UNCHANGED vars
  BY <1>1, LinkSame DEF vars, groupVars, runVars, agentVars, remoteVars, remoteRest, brokerVars
<1>2. CASE RemoteBegins
  <2>1. /\ pc = "work" /\ plan.by[Current] = "remote" /\ UNCHANGED groupVars
        /\ RunBegins(JobOf(Current))
    BY <1>2 DEF RemoteBegins
  <2>2. /\ UNCHANGED <<pc, plan, order, at, active, model, job>> /\ run = "none" /\ answer = "none"
        /\ \/ run' = "snapshot" /\ runFor' = JobOf(Current) /\ answer' = "none"
           \/ run' = "none" /\ answer' = "failed"
    BY <2>1 DEF groupVars, runVars, agentVars, RunBegins
  <2>3. (plan.by[Current])' = "remote" /\ JobOf(Current)' = JobOf(Current)
    BY <2>1, <2>2 DEF Current, JobOf
  <2> QED
    BY <2>1, <2>2, <2>3 DEF LinkInv
<1>3. ASSUME BrokerStep \/ (Invite \/ WorkerStep \/ Leaving \/ Tick \/ Lapse), UNCHANGED groupVars
      PROVE  LinkInv'
  <2>0. UNCHANGED <<pc, plan, order, at, active, model>>
    BY <1>3 DEF groupVars, runVars, agentVars
  <2>1. CASE RunAssigns
    <3>1. CASE RunReturns("failed")
      BY <2>0, <2>1, <3>1, LinkReturns DEF RunAssigns
    <3>2. CASE run' = "wait" /\ job' = NewJob(runFor) /\ UNCHANGED <<answer, runFor, done>>
      <4>1. job'.id = runFor
        BY <3>2, RecordsAre DEF RemoteTypes
      <4> QED
        BY <2>0, <2>1, <3>2, <4>1 DEF LinkInv, RunAssigns, Current, JobOf
    <3> QED
      BY <2>1, <3>1, <3>2 DEF RunAssigns
  <2>2. CASE RunReceives
    BY <2>0, <2>2, LinkReturns DEF RunReceives
  <2>3. CASE RunTicks
    <3>1. PICK x \in {"failed", "unknown"} : x = Expired
      BY DEF Expired
    <3>2. RunReturns(x) /\ run = "wait"
      BY <2>3, <3>1 DEF RunTicks
    <3> QED
      BY <2>0, <3>2, LinkReturns
  <2>4. CASE RunCancelled(Late)
    <3>1. CASE RunReturns("failed")
      BY <2>0, <2>4, <3>1, LinkReturns DEF RunCancelled
    <3>2. CASE run' = "stopping" /\ job' = [job EXCEPT !.cancel = TRUE] /\ UNCHANGED <<answer, runFor, done>>
      <4>1. job'.id = job.id
        BY <3>2 DEF RemoteTypes, JobRecord
      <4> QED
        BY <2>0, <2>4, <3>2, <4>1 DEF LinkInv, RunCancelled, Current, JobOf
    <3> QED
      BY <2>4, <3>1, <3>2 DEF RunCancelled
  <2>5. CASE RunStops
    <3>1. PICK x \in {"failed", "unknown"} : x = IF done # NoResult THEN "failed" ELSE "unknown"
      OBVIOUS
    <3>2. RunReturns(x) /\ run = "stopping"
      BY <2>5, <3>1 DEF RunStops
    <3> QED
      BY <2>0, <3>2, LinkReturns
  <2>6. CASE Invite \/ Leaving \/ Tick \/ Lapse \/ Receive \/ ProcessEnds \/ AskHealth(TRUE) \/ AskHealth(FALSE)
    <3>1. UNCHANGED <<run, runFor, answer, job>>
      BY <2>6 DEF Invite, Leaving, Tick, Lapse, Receive, ProcessEnds, AskHealth, Refused, brokerVars
    <3> QED
      BY <2>0, <3>1, LinkSame
  <2>7. CASE AskPoll \/ AskResult \/ Leave
    <3>1. /\ UNCHANGED <<run, runFor, answer>>
          /\ \/ UNCHANGED job
             \/ \E b : job' = [job EXCEPT !.claimed = b]
             \/ job' = [job EXCEPT !.received = TRUE]
             \/ \E b : job' = [job EXCEPT !.cancel = b]
      BY <2>7 DEF AskPoll, AskResult, Leave, Refused
    <3>2. job'.id = job.id
      BY <3>1 DEF RemoteTypes, JobRecord
    <3> QED
      BY <2>0, <3>1, <3>2, LinkSame
  <2> QED
    BY <1>3, <2>1, <2>2, <2>3, <2>4, <2>5, <2>6, <2>7 DEF BrokerStep, RunStep, WorkerStep
<1> QED
  BY <1>1, <1>2, <1>3, LinkExecute

----------------------------------------------------------------------------
(* The result in the channel, and the worker that checks itself.           *)

LEMMA HandFrame ==
    ASSUME HandInv, UNCHANGED <<done, process, has, reply, loop, healthy, job>>
    PROVE  HandInv'
BY DEF HandInv

\* A job that stays, with another flag.
LEMMA HandJob ==
    ASSUME HandInv, UNCHANGED <<done, process, has, reply, loop, healthy>>,
           job'.id = job.id, job.received => job'.received
    PROVE  HandInv'
BY DEF HandInv

LEMMA HandReturns ==
    ASSUME HandInv, NEW result, RunReturns(result), UNCHANGED <<healthy, workerVars>>
    PROVE  HandInv'
<1>1. done' = NoResult /\ job' \in {job, Idle} /\ Idle.id = NoJob
  BY DEF RunReturns, Idle
<1> QED
  BY <1>1 DEF HandInv, workerVars

LEMMA HandInit == Init => HandInv
BY DEF Init, RemoteInit, HandInv, Idle, NoResult, NoReply

LEMMA ReplyIs ==
    ASSUME NEW kind, NEW id, NEW b
    PROVE  /\ Reply(kind, id, b).kind = kind /\ Reply(kind, id, b).job = id
           /\ Reply(kind, id, b).assignment = b
BY DEF Reply

LEMMA HandStep ==
    ASSUME RemoteTypes, LinkInv, HandInv, [Next]_vars
    PROVE  HandInv'
<1>0. NoReply.kind = "none" /\ NoReply.assignment = FALSE /\ NoReply.job = NoJob
  BY DEF NoReply
<1>1. CASE UNCHANGED <<brokerVars, workerVars>>
  BY <1>1, HandFrame DEF brokerVars, workerVars
<1>2. CASE RemoteBegins
  BY <1>2, HandFrame DEF RemoteBegins, RunBegins, workerVars
<1>3. CASE RemoteReturns
  BY <1>3, HandFrame DEF RemoteReturns, workerVars
<1>4. CASE RunAssigns
  <2>1. CASE RunReturns("failed")
    BY <1>4, <2>1, HandReturns DEF RunAssigns
  <2>2. CASE ~RunReturns("failed")
    BY <1>4, <2>2 DEF RunAssigns, Available, HandInv, workerVars
  <2> QED
    BY <2>1, <2>2
<1>5. CASE RunReceives
  BY <1>5, HandReturns DEF RunReceives
<1>6. CASE RunTicks
  <2>1. PICK x : x = Expired
    OBVIOUS
  <2>2. RunReturns(x)
    BY <1>6, <2>1 DEF RunTicks
  <2> QED
    BY <1>6, <2>2, HandReturns DEF RunTicks
<1>7. CASE RunCancelled(Late)
  <2>1. CASE RunReturns("failed")
    BY <1>7, <2>1, HandReturns DEF RunCancelled
  <2>2. CASE job' = [job EXCEPT !.cancel = TRUE] /\ UNCHANGED done
    <3>1. job'.id = job.id /\ job'.received = job.received
      BY <2>2 DEF RemoteTypes, JobRecord
    <3> QED
      BY <1>7, <2>2, <3>1, HandJob DEF RunCancelled, workerVars
  <2> QED
    BY <1>7, <2>1, <2>2 DEF RunCancelled
<1>8. CASE RunStops
  <2>1. PICK x : x = IF done # NoResult THEN "failed" ELSE "unknown"
    OBVIOUS
  <2>2. RunReturns(x)
    BY <1>8, <2>1 DEF RunStops
  <2> QED
    BY <1>8, <2>2, HandReturns DEF RunStops
<1>9. CASE Invite
  BY <1>0, <1>9 DEF Invite, HandInv
<1>10. CASE AskHealth(TRUE)
  <2>1. /\ reply = NoReply /\ loop = "check" /\ loop' = loop
        /\ UNCHANGED <<job, done, has, process>>
    BY <1>10 DEF AskHealth, Refused
  <2>2. ~healthy /\ job.id = NoJob
    BY <1>0, <2>1 DEF HandInv
  <2>3. \/ reply' = Reply("accepted", NoJob, FALSE)
        \/ healthy' = healthy /\ reply' = Reply("error", NoJob, FALSE)
    BY <1>10, <2>2 DEF AskHealth, Refused
  <2>4. /\ ~reply'.assignment
        /\ reply'.kind = "accepted" \/ ~healthy'
    BY <2>2, <2>3 DEF Reply
  <2> QED
    BY <2>1, <2>2, <2>4 DEF HandInv
<1>11. CASE AskHealth(FALSE)
  <2>1. /\ reply = NoReply /\ loop = "top" /\ loop' = loop
        /\ UNCHANGED <<job, done, has, process>>
    BY <1>11 DEF AskHealth, Refused
  <2>2. \/ reply' = Reply("accepted", NoJob, FALSE) /\ ~healthy' /\ job.id = NoJob
        \/ reply' \in {Reply("error", NoJob, FALSE), Reply("busy", NoJob, FALSE)}
    BY <1>11 DEF AskHealth, Refused
  <2>3. /\ ~reply'.assignment
        /\ reply'.kind = "accepted" => ~healthy' /\ job.id = NoJob
    BY <2>2 DEF Reply
  <2> QED
    BY <2>1, <2>3 DEF HandInv
<1>12. CASE AskPoll
  <2>1. /\ reply = NoReply /\ loop \in {"check", "poll"}
        /\ UNCHANGED <<loop, has, process, done, healthy>>
    BY <1>12 DEF AskPoll, Refused
  <2>2. loop = "check" => ~healthy /\ job.id = NoJob
    BY <1>0, <2>1 DEF HandInv
  <2>3. CASE UNCHANGED job /\ reply' \in {Reply("idle", NoJob, FALSE), Reply("error", NoJob, FALSE)}
    <3>1. ~reply'.assignment /\ reply'.kind # "accepted"
      BY <2>3 DEF Reply
    <3> QED
      BY <2>1, <2>2, <2>3, <3>1 DEF HandInv
  <2>4. CASE ~(UNCHANGED job /\ reply' \in {Reply("idle", NoJob, FALSE), Reply("error", NoJob, FALSE)})
    <3>1. /\ job.id # NoJob
          /\ \E b : job' = [job EXCEPT !.claimed = b]
          /\ \E b : reply' \in {Reply("cancel", job.id, b), Reply("working", job.id, b)}
      BY <1>12, <2>4 DEF AskPoll, Refused
    <3>2. job'.id = job.id /\ job'.received = job.received
      BY <3>1 DEF RemoteTypes, JobRecord
    <3>3. reply'.job = job.id /\ reply'.kind # "accepted"
      BY <3>1, ReplyIs
    <3>4. loop = "poll" /\ loop' = "poll"
      BY <2>1, <2>2, <3>1
    <3> QED
      BY <2>1, <3>1, <3>2, <3>3, <3>4 DEF HandInv
  <2> QED
    BY <2>3, <2>4
<1>13. CASE AskResult
  <2>1. /\ loop = "select" /\ loop' = "select" /\ process # "none"
        /\ UNCHANGED <<has, process>>
    BY <1>13 DEF AskResult
  <2>2. ~reply'.assignment
    BY <1>13 DEF Reply, AskResult, Refused
  <2>3. CASE UNCHANGED <<job, done>>
    BY <2>1, <2>2, <2>3 DEF HandInv
  <2>4. CASE /\ Expects(has) /\ done' = [is |-> process, of |-> has]
             /\ job' = [job EXCEPT !.received = TRUE]
    <3>1. has # NoJob /\ job.id = has
      BY <2>1, <2>4 DEF HandInv, Expects
    <3>2. job'.id = job.id /\ job'.received
      BY <2>4 DEF RemoteTypes, JobRecord
    <3>3. done'.of = has
      BY <2>4
    <3> QED
      BY <2>1, <2>2, <3>1, <3>2, <3>3 DEF HandInv
  <2> QED
    BY <1>13, <2>3, <2>4 DEF AskResult, Refused
<1>14. CASE Receive
  <2>1. reply' = NoReply /\ UNCHANGED <<job, done, healthy>>
    BY <1>14 DEF Receive, brokerVars
  <2>2. CASE loop = "top"
    BY <1>0, <1>14, <2>1, <2>2 DEF Receive, CheckAgent, HandInv
  <2>3. CASE loop = "check"
    BY <1>0, <1>14, <2>1, <2>3 DEF Receive, CheckAgent, HandInv
  <2>4. CASE loop = "poll"
    BY <1>0, <1>14, <2>1, <2>4 DEF Receive, CheckAgent, HandInv
  <2>5. CASE loop = "select"
    BY <1>0, <1>14, <2>1, <2>5 DEF Receive, CheckAgent, HandInv
  <2> QED
    BY <1>14, <2>2, <2>3, <2>4, <2>5 DEF Receive, CheckAgent
<1>15. CASE Leave
  <2>1. /\ loop = "leaving" /\ loop' = "gone" /\ has' = NoJob /\ process' = "none"
        /\ UNCHANGED <<done, reply>>
    BY <1>15 DEF Leave
  <2>2. job'.id = job.id /\ job'.received = job.received
    <3>1. UNCHANGED job \/ \E b : job' = [job EXCEPT !.cancel = b]
      BY <1>15 DEF Leave
    <3> QED
      BY <3>1 DEF RemoteTypes, JobRecord
  <2> QED
    BY <1>0, <2>1, <2>2 DEF HandInv
<1>16. CASE ProcessEnds
  BY <1>16 DEF ProcessEnds, brokerVars, HandInv
<1>17. CASE Leaving
  BY <1>0, <1>17 DEF Leaving, brokerVars, HandInv
<1>18. CASE Tick
  BY <1>0, <1>18 DEF Tick, brokerVars, HandInv
<1>19. CASE Lapse
  BY <1>19 DEF Lapse, workerVars, HandInv
<1>20. CASE Crash
  <2>1. Forgotten /\ UNCHANGED workerVars
    BY <1>20 DEF Crash
  <2> QED
    BY <2>1 DEF Forgotten, HandInv, workerVars, Idle
<1>21. CASE UNCHANGED remoteVars
  BY <1>1, <1>21 DEF remoteVars, remoteRest
<1>22. CASE UNCHANGED vars
  BY <1>21, <1>22 DEF vars
<1>23. ASSUME NEW p \in Plans, StartTurnFor(p) PROVE HandInv'
  BY <1>21, <1>23 DEF StartTurnFor
<1>24. ExecuteStep => HandInv'
  BY <1>1, <1>2, <1>3, <1>21
  DEF ExecuteStep, Planning, StepBegins, StepsOver, ProviderReturns, ModelStarts, ModelReads,
      ModelStops, Finish, remoteRest
<1>25. CASE InterruptTurn \/ StepTimeout \/ TurnEnds \/ SessionDies \/ Forward \/ Resolve
  BY <1>1, <1>21, <1>25
  DEF InterruptTurn, StepTimeout, TurnEnds, SessionDies, Forward, Resolve, remoteRest
<1> QED
  BY <1>4, <1>5, <1>6, <1>7, <1>8, <1>9, <1>10, <1>11, <1>12, <1>13, <1>14, <1>15, <1>16,
     <1>17, <1>18, <1>19, <1>20, <1>22, <1>23, <1>24, <1>25 DEF Next, BrokerStep, RunStep, WorkerStep

----------------------------------------------------------------------------
(* The end of a turn comes once.                                           *)

LEMMA TailIs ==
    ASSUME NEW S, NEW s \in Seq(S), s # <<>>
    PROVE  /\ Len(s) \in Nat \ {0} /\ Tail(s) \in Seq(S) /\ Len(Tail(s)) = Len(s) - 1
           /\ \A i \in 1..Len(Tail(s)) : Tail(s)[i] = s[i + 1] /\ i + 1 \in 1..Len(s)
           /\ Head(s) = s[1] /\ 1 \in 1..Len(s) /\ Head(s) \in S
OBVIOUS

LEMMA AppendIs ==
    ASSUME NEW S, NEW s \in Seq(S), NEW x \in S
    PROVE  /\ Append(s, x) \in Seq(S) /\ Len(Append(s, x)) = Len(s) + 1 /\ Len(s) \in Nat
           /\ \A i \in 1..Len(s) : Append(s, x)[i] = s[i]
           /\ Append(s, x)[Len(s) + 1] = x
OBVIOUS

LEMMA TakeOne ==
    ASSUME NEW S, NEW s \in Seq(S), s # <<>>, NEW e, Once(s, e)
    PROVE  /\ Once(Tail(s), e)
           /\ Has(s, e) <=> Head(s) = e \/ Has(Tail(s), e)
           /\ Head(s) = e => ~Has(Tail(s), e)
<1>1. PICK t, n : t = Tail(s) /\ n = Len(t)
  OBVIOUS
<1>2. /\ Len(s) = n + 1 /\ n \in Nat /\ Head(s) = s[1] /\ t = Tail(s)
      /\ \A i \in 1..n : t[i] = s[i + 1] /\ i + 1 \in 1..Len(s) /\ i + 1 # 1
  BY <1>1, TailIs
<1>3. Once(t, e)
  <2> SUFFICES ASSUME NEW i \in 1..n, NEW j \in 1..n, t[i] = e, t[j] = e PROVE i = j
    BY <1>1 DEF Once
  <2>1. i + 1 = j + 1
    BY <1>2 DEF Once
  <2> QED
    BY <1>2, <2>1
<1>4. Has(s, e) => Head(s) = e \/ Has(t, e)
  <2> SUFFICES ASSUME NEW i \in 1..Len(s), s[i] = e, i # 1 PROVE Has(t, e)
    BY <1>2 DEF Has
  <2>1. i - 1 \in 1..n /\ t[i - 1] = s[(i - 1) + 1] /\ (i - 1) + 1 = i
    BY <1>2
  <2> QED
    BY <1>1, <2>1 DEF Has
<1>5. Head(s) = e \/ Has(t, e) => Has(s, e)
  <2>1. Head(s) = e => Has(s, e)
    BY <1>2 DEF Has
  <2>2. Has(t, e) => Has(s, e)
    BY <1>1, <1>2 DEF Has
  <2> QED
    BY <2>1, <2>2
<1>6. Head(s) = e => ~Has(t, e)
  <2> SUFFICES ASSUME s[1] = e, NEW i \in 1..n, t[i] = e PROVE FALSE
    BY <1>1, <1>2 DEF Has
  <2>1. i + 1 = 1
    BY <1>2 DEF Once
  <2> QED
    BY <1>2, <2>1
<1> QED
  BY <1>2, <1>3, <1>4, <1>5, <1>6

LEMMA PutOne ==
    ASSUME NEW S, NEW s \in Seq(S), NEW x \in S, NEW e, Once(s, e), x = e => ~Has(s, e)
    PROVE  Once(Append(s, x), e) /\ (Has(Append(s, x), e) <=> Has(s, e) \/ x = e)
<1>1. PICK t, n : t = Append(s, x) /\ n = Len(s)
  OBVIOUS
<1>2. Len(t) = n + 1 /\ n \in Nat /\ t[n + 1] = x /\ \A i \in 1..n : t[i] = s[i]
  BY <1>1, AppendIs
<1>3. Once(t, e)
  <2> SUFFICES ASSUME NEW i \in 1..(n + 1), NEW j \in 1..(n + 1), t[i] = e, t[j] = e PROVE i = j
    BY <1>2 DEF Once
  <2>1. CASE i \in 1..n /\ j \in 1..n
    BY <1>1, <1>2, <2>1 DEF Once
  <2>2. CASE i = n + 1 /\ j \in 1..n
    BY <1>1, <1>2, <2>2 DEF Has
  <2>3. CASE i \in 1..n /\ j = n + 1
    BY <1>1, <1>2, <2>3 DEF Has
  <2> QED
    BY <1>2, <2>1, <2>2, <2>3
<1>4. Has(t, e) => Has(s, e) \/ x = e
  BY <1>1, <1>2 DEF Has
<1>5. Has(s, e) \/ x = e => Has(t, e)
  <2>1. Has(s, e) => Has(t, e)
    BY <1>1, <1>2 DEF Has
  <2>2. x = e => Has(t, e)
    BY <1>2 DEF Has
  <2> QED
    BY <2>1, <2>2
<1> QED
  BY <1>1, <1>3, <1>4, <1>5

LEMMA SeenIs ==
    /\ \A n \in 0..MaxRuns : Seen(n) \subseteq Event
    /\ \A n \in 0..MaxRuns : /\ <<"none", 0>> \in Seen(n) /\ <<"down", 0>> \in Seen(n)
                             /\ <<"up", 0>> \in Seen(n)
    /\ \A n \in 0..MaxRuns : \A r \in 0..n : <<"end", r>> \in Seen(n)
    /\ \A n \in 0..MaxRuns : \A r \in 0..MaxRuns : r > n => <<"end", r>> \notin Seen(n)
    /\ \A n, m \in 0..MaxRuns : n <= m => Seen(n) \subseteq Seen(m)
BY WorkgroupAssumption DEF Seen, Event

\* What is read, forwarded or delivered was on the way, and is then no longer.
LEMMA Reading ==
    ASSUME NEW o, NEW h, NEW e, NEW S, NEW c \in Seq(S), c # <<>>, OnlyOnce(o, h, c, e)
    PROVE  /\ OnlyOnce(o, h, Tail(c), e)
           /\ OnTheWay(o, h, Tail(c), e) => OnTheWay(o, h, c, e)
           /\ Head(c) = e => OnTheWay(o, h, c, e) /\ ~OnTheWay(o, h, Tail(c), e)
<1>1. PICK t : t = Tail(c)
  OBVIOUS
<1>2. /\ Once(t, e) /\ (Has(c, e) <=> Head(c) = e \/ Has(t, e))
      /\ Head(c) = e => ~Has(t, e)
  BY <1>1, TakeOne DEF OnlyOnce
<1> QED
  BY <1>1, <1>2 DEF OnlyOnce, OnTheWay

LEMMA Fetching ==
    ASSUME NEW c, NEW h, NEW e, NEW S, NEW o \in Seq(S), o # <<>>, h # e, OnlyOnce(o, h, c, e)
    PROVE  /\ OnlyOnce(Tail(o), Head(o), c, e)
           /\ OnTheWay(Tail(o), Head(o), c, e) <=> OnTheWay(o, h, c, e)
<1>1. PICK t, x : t = Tail(o) /\ x = Head(o)
  OBVIOUS
<1>2. /\ Once(t, e) /\ (Has(o, e) <=> x = e \/ Has(t, e))
      /\ x = e => ~Has(t, e)
  BY <1>1, TakeOne DEF OnlyOnce
<1> QED
  BY <1>1, <1>2 DEF OnlyOnce, OnTheWay

LEMMA Delivering ==
    ASSUME NEW o, NEW e, NEW S, NEW h \in S, NEW c \in Seq(S), NEW no, no # e,
           OnlyOnce(o, h, c, e)
    PROVE  /\ OnlyOnce(o, no, Append(c, h), e)
           /\ OnTheWay(o, no, Append(c, h), e) <=> OnTheWay(o, h, c, e)
<1>1. PICK t : t = Append(c, h)
  OBVIOUS
<1>2. Once(t, e) /\ (Has(t, e) <=> Has(c, e) \/ h = e)
  BY <1>1, PutOne DEF OnlyOnce
<1> QED
  BY <1>1, <1>2 DEF OnlyOnce, OnTheWay

LEMMA Sending ==
    ASSUME NEW c, NEW h, NEW e, NEW S, NEW x \in S, NEW o \in Seq(S),
           x = e => ~OnTheWay(o, h, c, e), OnlyOnce(o, h, c, e)
    PROVE  /\ OnlyOnce(Append(o, x), h, c, e)
           /\ OnTheWay(Append(o, x), h, c, e) <=> OnTheWay(o, h, c, e) \/ x = e
<1>1. PICK t : t = Append(o, x)
  OBVIOUS
<1>2. Once(t, e) /\ (Has(t, e) <=> Has(o, e) \/ x = e)
  BY <1>1, PutOne DEF OnlyOnce, OnTheWay
<1> QED
  BY <1>1, <1>2 DEF OnlyOnce, OnTheWay

\* The parts of TurnInv about the active run, in the next state.
LEMMA TurnNext ==
    ASSUME NEW o, NEW h, NEW c, NEW e, out' = o, hand'.event = h, capture'[active'] = c,
           <<"end", active'>> = e, OnlyOnce(o, h, c, e),
           OnTheWay(o, h, c, e) => codex' # active' /\ (Working' \/ pc' = "finish"),
           codex' = active' => Working' \/ (pc' = "finish" /\ failure' = "unknown"),
           codex' <= runs', codex' # 0 => state'[codex'] = "running",
           out' \in Seq(Seen(runs')), capture' \in [RunIds -> Seq(Seen(runs'))],
           hand'.event \in Seen(runs')
    PROVE  TurnInv'
<1>1. OnlyOnce(out, hand.event, capture[active], TheEnd)'
  BY DEF OnlyOnce, Once, Has, TheEnd
<1>2. OnTheWay(out, hand.event, capture[active], TheEnd)' => OnTheWay(o, h, c, e)
  BY DEF OnTheWay, Has, TheEnd
<1>3. Seen(runs)' = Seen(runs')
  BY DEF Seen
<1> QED
  BY <1>1, <1>2, <1>3 DEF TurnInv

\* The same when no run is active.
LEMMA TurnNone ==
    ASSUME active' = 0, codex' <= runs', codex' # 0 => state'[codex'] = "running",
           out' \in Seq(Seen(runs')), capture' \in [RunIds -> Seq(Seen(runs'))],
           hand'.event \in Seen(runs')
    PROVE  TurnInv'
<1>1. Seen(runs)' = Seen(runs')
  BY DEF Seen
<1> QED
  BY <1>1 DEF TurnInv

\* Steps that leave the App Server and its events alone.
LEMMA TurnMoves ==
    ASSUME TurnInv, UNCHANGED <<codex, runs, state, active, out, capture, hand>>,
           active # 0 /\ codex = active => Working' \/ (pc' = "finish" /\ failure' = "unknown"),
           active # 0 /\ OnTheWay(out, hand.event, capture[active], TheEnd) =>
              Working' \/ pc' = "finish"
    PROVE  TurnInv'
<1>1. CASE active = 0
  BY <1>1, TurnNone DEF TurnInv
<1>2. CASE active # 0
  <2>1. PICK o, h, c, e : o = out /\ h = hand.event /\ c = capture[active] /\ e = TheEnd
    OBVIOUS
  <2>2. OnlyOnce(o, h, c, e)
    BY <1>2, <2>1 DEF TurnInv
  <2>3. OnTheWay(o, h, c, e) => codex # active /\ (Working' \/ pc' = "finish")
    BY <1>2, <2>1 DEF TurnInv
  <2>4. /\ codex <= runs /\ (codex # 0 => state[codex] = "running")
        /\ out \in Seq(Seen(runs)) /\ capture \in [RunIds -> Seq(Seen(runs))]
        /\ hand.event \in Seen(runs)
    BY DEF TurnInv
  <2>5. /\ out' = o /\ hand'.event = h /\ capture'[active'] = c /\ <<"end", active'>> = e
        /\ codex' = codex /\ runs' = runs /\ state' = state /\ active' = active
        /\ capture' = capture /\ hand' = hand
    BY <2>1 DEF TheEnd
  <2> HIDE DEF Working
  <2>6. codex' = active' => Working' \/ (pc' = "finish" /\ failure' = "unknown")
    BY <1>2, <2>5
  <2>7. OnTheWay(o, h, c, e) => codex' # active' /\ (Working' \/ pc' = "finish")
    BY <2>3, <2>5
  <2>8. /\ codex' <= runs' /\ (codex' # 0 => state'[codex'] = "running")
        /\ out' \in Seq(Seen(runs')) /\ capture' \in [RunIds -> Seq(Seen(runs'))]
        /\ hand'.event \in Seen(runs')
    BY <2>1, <2>4, <2>5
  <2> QED
    BY <2>2, <2>5, <2>6, <2>7, <2>8, TurnNext
<1> QED
  BY <1>1, <1>2

\* A run that does not wait for the App Server has no turn there, and none of
\* its ends is on the way.
LEMMA NotWaiting ==
    ASSUME TurnInv, active # 0, pc # "finish", ~Working
    PROVE  codex # active /\ ~OnTheWay(out, hand.event, capture[active], TheEnd)
BY DEF TurnInv

LEMMA TurnInit == Init => TurnInv
<1> SUFFICES ASSUME Init PROVE TurnInv
  OBVIOUS
<1>1. /\ codex = 0 /\ runs = 0 /\ out = <<>> /\ capture = [r \in RunIds |-> <<>>] /\ active = 0
      /\ hand.event = <<"none", 0>>
  BY DEF Init, NoHand
<1>2. hand.event \in Seen(runs)
  BY <1>1, SeenIs, WorkgroupAssumption
<1> QED
  BY <1>1, <1>2 DEF TurnInv

\* The model reads an event of its channel; what it makes of it is left open.
LEMMA TurnReads ==
    ASSUME TurnInv, GroupTypes, ActiveInv, pc = "work", Working, capture[active] # <<>>,
           capture' = [capture EXCEPT ![active] = Tail(@)],
           UNCHANGED <<codex, runs, state, active, out, hand>>,
           \/ Head(capture[active]) = TheEnd
           \/ Working'
           \/ pc' = "finish" /\ failure' = "unknown"
    PROVE  TurnInv'
<1>1. active # 0 /\ active \in RunIds
  BY DEF ActiveInv, GroupTypes, RunIds
<1>2. PICK o, h, c, e : o = out /\ h = hand.event /\ c = capture[active] /\ e = TheEnd
  OBVIOUS
<1>3. c \in Seq(Seen(runs)) /\ c # <<>> /\ OnlyOnce(o, h, c, e)
  BY <1>1, <1>2 DEF TurnInv
<1>4. PICK t, S : t = Tail(c) /\ S = Seen(runs)
  OBVIOUS
<1>5. /\ OnlyOnce(o, h, t, e) /\ (OnTheWay(o, h, t, e) => OnTheWay(o, h, c, e))
      /\ Head(c) = e => OnTheWay(o, h, c, e) /\ ~OnTheWay(o, h, t, e)
  BY <1>3, <1>4, Reading
<1>6. t \in Seq(Seen(runs))
  BY <1>3, <1>4, TailIs
<1>7. OnTheWay(o, h, c, e) => codex # active
  BY <1>1, <1>2 DEF TurnInv
<1>8. /\ codex <= runs /\ (codex # 0 => state[codex] = "running")
      /\ out \in Seq(Seen(runs)) /\ capture \in [RunIds -> Seq(Seen(runs))]
      /\ hand.event \in Seen(runs)
  BY DEF TurnInv
<1>9. /\ capture' \in [RunIds -> Seq(Seen(runs))] /\ capture'[active] = t
  BY <1>1, <1>2, <1>4, <1>6, <1>8
<1>10. /\ out' = o /\ hand'.event = h /\ capture'[active'] = t /\ <<"end", active'>> = e
       /\ codex' = codex /\ runs' = runs /\ state' = state /\ active' = active
  BY <1>2, <1>9 DEF TheEnd
<1>11. \/ Head(c) = e
       \/ Working'
       \/ pc' = "finish" /\ failure' = "unknown"
  BY <1>2
<1>12. OnTheWay(o, h, t, e) => codex' # active' /\ (Working' \/ pc' = "finish")
  BY <1>5, <1>7, <1>10, <1>11
<1>13. codex' = active' => Working' \/ (pc' = "finish" /\ failure' = "unknown")
  BY <1>5, <1>7, <1>10, <1>11
<1>14. /\ codex' <= runs' /\ (codex' # 0 => state'[codex'] = "running")
       /\ out' \in Seq(Seen(runs')) /\ capture' \in [RunIds -> Seq(Seen(runs'))]
       /\ hand'.event \in Seen(runs')
  BY <1>2, <1>8, <1>9, <1>10
<1> QED
  BY <1>5, <1>10, <1>12, <1>13, <1>14, TurnNext

LEMMA TurnStarts ==
    ASSUME TurnInv, GroupTypes, ActiveInv, NEW p \in Plans, StartTurnFor(p)
    PROVE  TurnInv'
<1>1. runs + 1 \in 1..MaxRuns /\ runs \in 0..MaxRuns
  BY WorkgroupAssumption DEF StartTurnFor, GroupTypes
<1>2. PICK n \in 1..MaxRuns : n = runs + 1
  BY <1>1
<1>3. /\ runs' = n /\ active' = n /\ state' = [state EXCEPT ![n] = "running"]
      /\ UNCHANGED <<codex, out, hand, capture>> /\ n \in 0..MaxRuns /\ n \in RunIds
  BY <1>2, WorkgroupAssumption DEF StartTurnFor, agentVars, RunIds
<1>4. Seen(runs) \subseteq Seen(n) /\ <<"end", n>> \notin Seen(runs)
  BY <1>1, <1>2, SeenIs
<1>5. PICK o, h, c, e : o = out /\ h = hand.event /\ c = capture[n] /\ e = <<"end", n>>
  OBVIOUS
<1>6. o \in Seq(Seen(runs)) /\ c \in Seq(Seen(runs)) /\ h \in Seen(runs)
  BY <1>3, <1>5 DEF TurnInv
<1>7. ASSUME NEW s \in Seq(Seen(runs)) PROVE ~Has(s, e)
  <2> SUFFICES ASSUME NEW i \in 1..Len(s), s[i] = e PROVE FALSE
    BY DEF Has
  <2>1. s[i] \in Seen(runs)
    BY <1>7, ElementOfSeq
  <2> QED
    BY <1>4, <1>5, <2>1
<1>8. ~OnTheWay(o, h, c, e)
  BY <1>4, <1>5, <1>6, <1>7 DEF OnTheWay
<1>9. OnlyOnce(o, h, c, e)
  BY <1>8 DEF OnlyOnce, OnTheWay, Once, Has
<1>10. /\ codex <= runs /\ (codex # 0 => state[codex] = "running") /\ codex \in 0..MaxRuns
       /\ out \in Seq(Seen(runs)) /\ capture \in [RunIds -> Seq(Seen(runs))]
       /\ hand.event \in Seen(runs)
  BY DEF TurnInv, GroupTypes
<1>11. codex < n /\ codex' <= runs' /\ codex' # active'
  BY <1>1, <1>2, <1>3, <1>10
<1>12. codex' # 0 => state'[codex'] = "running"
  BY <1>3, <1>10, <1>11 DEF GroupTypes
<1>13. /\ Seq(Seen(runs)) \subseteq Seq(Seen(n))
  BY <1>4
<1>14. out' \in Seq(Seen(n)) /\ capture' \in [RunIds -> Seq(Seen(n))] /\ hand'.event \in Seen(n)
  BY <1>3, <1>4, <1>10, <1>13
<1>15. /\ out' \in Seq(Seen(runs')) /\ capture' \in [RunIds -> Seq(Seen(runs'))]
       /\ hand'.event \in Seen(runs')
  BY <1>3, <1>14
<1>16. out' = o /\ hand'.event = h /\ capture'[active'] = c /\ <<"end", active'>> = e
  BY <1>3, <1>5
<1> QED
  BY <1>8, <1>9, <1>11, <1>12, <1>15, <1>16, TurnNext

LEMMA TurnModelStarts ==
    ASSUME TurnInv, GroupTypes, ActiveInv, ModelStarts
    PROVE  TurnInv'
<1>1. /\ pc = "work" /\ model = "start" /\ UNCHANGED <<runs, state, active, out, capture, hand>>
      /\ codex' \in {codex, active}
      /\ (pc' = "work" /\ model' = "wait") \/ (pc' = "finish" /\ failure' = "unknown")
  BY DEF ModelStarts, runVars, journalVars
<1>2. active # 0 /\ active = runs /\ state[active] = "running" /\ ~Working
  BY <1>1 DEF ActiveInv, Working
<1>3. PICK o, h, c, e : o = out /\ h = hand.event /\ c = capture[active] /\ e = TheEnd
  OBVIOUS
<1>4. ~OnTheWay(o, h, c, e)
  BY <1>1, <1>2, <1>3, NotWaiting
<1>5. OnlyOnce(o, h, c, e)
  BY <1>2, <1>3 DEF TurnInv
<1>6. /\ codex <= runs /\ (codex # 0 => state[codex] = "running")
      /\ out \in Seq(Seen(runs)) /\ capture \in [RunIds -> Seq(Seen(runs))]
      /\ hand.event \in Seen(runs) /\ runs \in Nat
  BY DEF TurnInv, GroupTypes
<1>7. Working' \/ (pc' = "finish" /\ failure' = "unknown")
  BY <1>1 DEF Working
<1>8. /\ codex' <= runs' /\ (codex' # 0 => state'[codex'] = "running")
  BY <1>1, <1>2, <1>6
<1>9. /\ out' \in Seq(Seen(runs')) /\ capture' \in [RunIds -> Seq(Seen(runs'))]
      /\ hand'.event \in Seen(runs')
  BY <1>1, <1>6
<1>10. out' = o /\ hand'.event = h /\ capture'[active'] = c /\ <<"end", active'>> = e
  BY <1>1, <1>3 DEF TheEnd
<1> QED
  BY <1>4, <1>5, <1>7, <1>8, <1>9, <1>10, TurnNext

\* The App Server sends the event x and has no turn then.
LEMMA TurnSends ==
    ASSUME TurnInv, GroupTypes, ActiveInv, NEW x \in Seen(runs), out' = Append(out, x), codex' = 0,
           UNCHANGED <<runs, state, active, capture, hand, pc, model, failure>>,
           active # 0 /\ x = TheEnd => codex = active
    PROVE  TurnInv'
<1>1. /\ out \in Seq(Seen(runs)) /\ capture \in [RunIds -> Seq(Seen(runs))]
      /\ hand.event \in Seen(runs) /\ runs \in Nat
  BY DEF TurnInv, GroupTypes
<1>2. out' \in Seq(Seen(runs)) /\ codex' <= runs' /\ runs' = runs
  BY <1>1
<1>3. /\ out' \in Seq(Seen(runs')) /\ capture' \in [RunIds -> Seq(Seen(runs'))]
      /\ hand'.event \in Seen(runs')
  BY <1>1, <1>2
<1>4. CASE active = 0
  BY <1>2, <1>3, <1>4, TurnNone
<1>5. CASE active # 0
  <2>1. PICK o, h, c, e : o = out /\ h = hand.event /\ c = capture[active] /\ e = TheEnd
    OBVIOUS
  <2>2. /\ OnlyOnce(o, h, c, e)
        /\ OnTheWay(o, h, c, e) => codex # active /\ (Working \/ pc = "finish")
    BY <1>5, <2>1 DEF TurnInv
  <2>3. codex = active => Working \/ pc = "finish"
    BY <1>5 DEF TurnInv
  <2>4. x = e => codex = active
    BY <1>5, <2>1
  <2>5. PICK S, o2 : S = Seen(runs) /\ o2 = Append(o, x)
    OBVIOUS
  <2>6. /\ OnlyOnce(o2, h, c, e)
        /\ OnTheWay(o2, h, c, e) <=> OnTheWay(o, h, c, e) \/ x = e
    BY <1>1, <2>1, <2>2, <2>4, <2>5, Sending
  <2>7. out' = o2 /\ hand'.event = h /\ capture'[active'] = c /\ <<"end", active'>> = e
    BY <2>1, <2>5 DEF TheEnd
  <2>8. codex' # active' /\ Working' = Working /\ pc' = pc
    BY <1>5 DEF Working
  <2>9. OnTheWay(o2, h, c, e) => codex' # active' /\ (Working' \/ pc' = "finish")
    BY <2>2, <2>3, <2>4, <2>6, <2>8
  <2> QED
    BY <1>2, <1>3, <2>6, <2>7, <2>8, <2>9, TurnNext
<1> QED
  BY <1>4, <1>5

LEMMA TurnDies ==
    ASSUME TurnInv, GroupTypes, ActiveInv, SessionDies
    PROVE  TurnInv'
<1>1. /\ out \in Seq(Seen(runs)) /\ capture \in [RunIds -> Seq(Seen(runs))]
      /\ hand.event \in Seen(runs) /\ runs \in 0..MaxRuns
  BY DEF TurnInv, GroupTypes
<1>2. PICK d, u, S : d = <<"down", 0>> /\ u = <<"up", 0>> /\ S = Seen(runs)
  OBVIOUS
<1>3. d \in S /\ u \in S
  BY <1>1, <1>2, SeenIs
<1>4. /\ out' = out \o <<d, u>> /\ codex' = 0
      /\ UNCHANGED <<runs, state, active, capture, hand, pc, model, failure>>
  BY <1>2 DEF SessionDies, runVars, journalVars
<1>5. PICK o, o1, o2 : o = out /\ o1 = Append(o, d) /\ o2 = Append(o1, u)
  OBVIOUS
<1>6. o \in Seq(S) /\ o1 \in Seq(S) /\ o2 \in Seq(S) /\ out' = o2
  <2>1. o \in Seq(S) /\ o1 \in Seq(S) /\ o2 \in Seq(S)
    BY <1>1, <1>2, <1>3, <1>5, AppendIs
  <2>2. PICK n : n = Len(o)
    OBVIOUS
  <2>3. /\ Len(o2) = n + 2 /\ n \in Nat /\ o2[n + 1] = d /\ o2[n + 2] = u
        /\ \A i \in 1..n : o2[i] = o[i]
    BY <1>3, <1>5, <2>1, <2>2
  <2>4. PICK q : q = o \o <<d, u>>
    OBVIOUS
  <2>5. /\ Len(q) = n + 2 /\ q[n + 1] = d /\ q[n + 2] = u /\ q \in Seq(S)
        /\ \A i \in 1..n : q[i] = o[i]
    BY <1>3, <2>1, <2>2, <2>4
  <2>6. \A i \in 1..Len(o2) : o2[i] = q[i]
    BY <2>3, <2>5
  <2>7. o2 = q
    BY <2>1, <2>3, <2>5, <2>6, SeqEqual
  <2> QED
    BY <1>4, <1>5, <2>1, <2>4, <2>7
<1>7. codex' <= runs'
  BY <1>1, <1>4
<1>8. /\ out' \in Seq(Seen(runs')) /\ capture' \in [RunIds -> Seq(Seen(runs'))]
      /\ hand'.event \in Seen(runs')
  BY <1>1, <1>2, <1>4, <1>6
<1>9. CASE active = 0
  BY <1>4, <1>7, <1>8, <1>9, TurnNone
<1>10. CASE active # 0
  <2>1. PICK h, c, e : h = hand.event /\ c = capture[active] /\ e = TheEnd
    OBVIOUS
  <2>2. /\ OnlyOnce(o, h, c, e)
        /\ OnTheWay(o, h, c, e) => Working \/ pc = "finish"
    BY <1>5, <1>10, <2>1 DEF TurnInv
  <2>3. d # e /\ u # e
    BY <1>2, <2>1 DEF TheEnd
  <2>4. /\ OnlyOnce(o1, h, c, e)
        /\ OnTheWay(o1, h, c, e) <=> OnTheWay(o, h, c, e) \/ d = e
    BY <1>3, <1>5, <1>6, <2>2, <2>3, Sending
  <2>5. /\ OnlyOnce(o2, h, c, e)
        /\ OnTheWay(o2, h, c, e) <=> OnTheWay(o1, h, c, e) \/ u = e
    BY <1>3, <1>5, <1>6, <2>3, <2>4, Sending
  <2>6. hand'.event = h /\ capture'[active'] = c /\ <<"end", active'>> = e
    BY <1>4, <2>1 DEF TheEnd
  <2>7. codex' # active' /\ Working' = Working /\ pc' = pc
    BY <1>4, <1>10 DEF Working
  <2>8. OnTheWay(o2, h, c, e) => codex' # active' /\ (Working' \/ pc' = "finish")
    BY <2>2, <2>3, <2>4, <2>5, <2>7
  <2> QED
    BY <1>4, <1>6, <1>7, <1>8, <2>5, <2>6, <2>7, <2>8, TurnNext
<1> QED
  BY <1>9, <1>10

LEMMA TurnForward ==
    ASSUME TurnInv, GroupTypes, ActiveInv, Forward
    PROVE  TurnInv'
<1>1. UNCHANGED <<codex, runs, state, active, pc, model, failure>>
  BY DEF Forward, runVars, journalVars
<1>2. /\ out \in Seq(Seen(runs)) /\ capture \in [RunIds -> Seq(Seen(runs))]
      /\ hand.event \in Seen(runs) /\ runs \in 0..MaxRuns
      /\ codex <= runs /\ (codex # 0 => state[codex] = "running")
  BY DEF TurnInv, GroupTypes
<1>3. PICK no, S : no = <<"none", 0>> /\ S = Seen(runs)
  OBVIOUS
<1>4. NoHand.event = no /\ no \in S
  BY <1>2, <1>3, SeenIs DEF NoHand
<1>5. PICK a, e, o, h : a = active /\ e = TheEnd /\ o = out /\ h = hand.event
  OBVIOUS
<1>6. no # e /\ e = <<"end", a>>
  BY <1>3, <1>5 DEF TheEnd
<1>7. codex' <= runs' /\ (codex' # 0 => state'[codex'] = "running") /\ Seen(runs') = S
  BY <1>1, <1>2, <1>3
<1>8. Working' = Working /\ pc' = pc /\ failure' = failure /\ codex' = codex /\ active' = a
  BY <1>1, <1>5 DEF Working
<1>9. ASSUME out' \in Seq(S), hand'.event \in S, capture' \in [RunIds -> Seq(S)],
             a # 0 => \E o2, h2, c2 :
                /\ out' = o2 /\ hand'.event = h2 /\ capture'[a] = c2
                /\ OnlyOnce(o2, h2, c2, e)
                /\ OnTheWay(o2, h2, c2, e) => OnTheWay(o, h, capture[a], e)
      PROVE  TurnInv'
  <2>1. CASE a = 0
    BY <1>7, <1>8, <1>9, <2>1, TurnNone
  <2>2. CASE a # 0
    <3>1. PICK o2, h2, c2 :
                /\ out' = o2 /\ hand'.event = h2 /\ capture'[a] = c2
                /\ OnlyOnce(o2, h2, c2, e)
                /\ OnTheWay(o2, h2, c2, e) => OnTheWay(o, h, capture[a], e)
      BY <1>9, <2>2
    <3>2. OnTheWay(o, h, capture[a], e) => codex # a /\ (Working \/ pc = "finish")
      BY <1>5, <2>2 DEF TurnInv
    <3>3. codex = a => Working \/ (pc = "finish" /\ failure = "unknown")
      BY <1>5, <2>2 DEF TurnInv
    <3>4. OnTheWay(o2, h2, c2, e) => codex' # active' /\ (Working' \/ pc' = "finish")
      BY <1>8, <3>1, <3>2
    <3>5. codex' = active' => Working' \/ (pc' = "finish" /\ failure' = "unknown")
      BY <1>8, <3>3
    <3>6. capture'[active'] = c2 /\ <<"end", active'>> = e
      BY <1>6, <1>8, <3>1
    <3>7. out' \in Seq(Seen(runs')) /\ hand'.event \in Seen(runs') /\ capture' \in [RunIds -> Seq(Seen(runs'))]
      BY <1>7, <1>9
    <3> QED
      BY <1>7, <3>1, <3>4, <3>5, <3>6, <3>7, TurnNext
  <2> QED
    BY <2>1, <2>2
<1>10. a # 0 => OnlyOnce(o, h, capture[a], e) /\ a \in RunIds
  BY <1>5 DEF TurnInv, GroupTypes, RunIds
<1>11. CASE /\ hand = NoHand /\ out # <<>> /\ hand' = [event |-> Head(out), to |-> active]
            /\ out' = Tail(out) /\ UNCHANGED capture
  <2>1. PICK x, t : x = Head(o) /\ t = Tail(o)
    OBVIOUS
  <2>2. o \in Seq(S) /\ o # <<>> /\ h = no
    BY <1>2, <1>3, <1>4, <1>5, <1>11
  <2>3. x \in S /\ t \in Seq(S) /\ hand'.event = x /\ out' = t
    BY <1>5, <1>11, <2>1, <2>2, TailIs
  <2>4. ASSUME a # 0
        PROVE  /\ OnlyOnce(t, x, capture[a], e)
               /\ OnTheWay(t, x, capture[a], e) => OnTheWay(o, h, capture[a], e)
    <3>1. PICK c : c = capture[a]
      OBVIOUS
    <3>2. OnlyOnce(o, h, c, e) /\ h # e
      BY <1>6, <1>10, <2>2, <2>4, <3>1
    <3>3. /\ OnlyOnce(t, x, c, e)
          /\ OnTheWay(t, x, c, e) <=> OnTheWay(o, h, c, e)
      BY <2>1, <2>2, <3>2, Fetching
    <3> QED
      BY <3>1, <3>3
  <2>5. capture' = capture /\ capture' \in [RunIds -> Seq(S)]
    BY <1>2, <1>3, <1>11
  <2> QED
    BY <1>9, <2>3, <2>4, <2>5
<1>12. CASE /\ hand.to # 0 /\ capture' = [capture EXCEPT ![hand.to] = Append(@, hand.event)]
            /\ hand' = NoHand /\ UNCHANGED out
  <2>1. PICK q : q = hand.to
    OBVIOUS
  <2>2. q \in RunIds
    BY <1>12, <2>1 DEF GroupTypes, RunIds
  <2>3. capture' = [capture EXCEPT ![q] = Append(capture[q], h)] /\ hand'.event = no /\ out' = o
    BY <1>4, <1>5, <1>12, <2>1
  <2>4. h \in S /\ capture \in [RunIds -> Seq(S)] /\ o \in Seq(S)
    BY <1>2, <1>3, <1>5
  <2>5. Append(capture[q], h) \in Seq(S)
    BY <2>2, <2>4
  <2>6. capture' \in [RunIds -> Seq(S)]
    BY <2>2, <2>3, <2>4, <2>5
  <2>7. ASSUME a # 0
        PROVE  \E c2 : /\ capture'[a] = c2 /\ OnlyOnce(o, no, c2, e)
                       /\ OnTheWay(o, no, c2, e) => OnTheWay(o, h, capture[a], e)
    <3>1. PICK c : c = capture[a]
      OBVIOUS
    <3>2. OnlyOnce(o, h, c, e) /\ c \in Seq(S)
      BY <1>10, <2>4, <2>7, <3>1
    <3>3. CASE q = a
      <4>1. PICK t : t = Append(c, h)
        OBVIOUS
      <4>2. capture'[a] = t
        BY <2>2, <2>3, <2>4, <3>1, <3>3, <4>1
      <4>3. /\ OnlyOnce(o, no, t, e)
            /\ OnTheWay(o, no, t, e) <=> OnTheWay(o, h, c, e)
        BY <1>6, <2>4, <3>2, <4>1, Delivering
      <4> QED
        BY <3>1, <4>2, <4>3
    <3>4. CASE q # a
      <4>1. capture'[a] = c
        BY <1>10, <2>2, <2>3, <2>4, <2>7, <3>1, <3>4
      <4>2. OnlyOnce(o, no, c, e) /\ (OnTheWay(o, no, c, e) => OnTheWay(o, h, c, e))
        BY <1>6, <3>2 DEF OnlyOnce, OnTheWay
      <4> QED
        BY <3>1, <4>1, <4>2
    <3> QED
      BY <3>3, <3>4
  <2>8. hand'.event \in S /\ out' \in Seq(S)
    BY <1>4, <2>3, <2>4
  <2> QED
    BY <1>9, <2>3, <2>6, <2>7, <2>8
<1>13. CASE hand' = NoHand /\ UNCHANGED <<capture, out>>
  <2>1. hand'.event = no /\ out' = o /\ capture' = capture
    BY <1>4, <1>5, <1>13
  <2>2. ASSUME a # 0
        PROVE  /\ OnlyOnce(o, no, capture[a], e)
               /\ OnTheWay(o, no, capture[a], e) => OnTheWay(o, h, capture[a], e)
    BY <1>6, <1>10, <2>2 DEF OnlyOnce, OnTheWay
  <2>3. hand'.event \in S /\ out' \in Seq(S) /\ capture' \in [RunIds -> Seq(S)]
    BY <1>2, <1>3, <1>4, <1>5, <2>1
  <2> QED
    BY <1>9, <2>1, <2>2, <2>3
<1> QED
  BY <1>11, <1>12, <1>13 DEF Forward

LEMMA TurnFinish ==
    ASSUME TurnInv, GroupTypes, ActiveInv, Finish
    PROVE  TurnInv'
<1>1. /\ out \in Seq(Seen(runs)) /\ capture \in [RunIds -> Seq(Seen(runs))]
      /\ hand.event \in Seen(runs) /\ codex <= runs /\ (codex # 0 => state[codex] = "running")
  BY DEF TurnInv
<1>2. active' = 0 /\ pc = "finish" /\ UNCHANGED <<runs, codex, out, hand, capture>>
  BY DEF Finish
<1>3. PICK w \in {"kept", "lost"} : state' = [state EXCEPT ![active] =
            IF failure = "unknown" \/ w = "lost" THEN @
            ELSE IF failure = "none" THEN "completed" ELSE failure]
  BY DEF Finish
<1>4. codex # 0 => state'[codex] = "running"
  <2> SUFFICES ASSUME codex # 0 PROVE state'[codex] = "running"
    OBVIOUS
  <2>1. codex \in RunIds
    BY DEF GroupTypes, RunIds
  <2>2. CASE codex # active
    BY <1>1, <1>3, <2>1, <2>2 DEF GroupTypes
  <2>3. CASE codex = active
    <3>1. failure = "unknown"
      BY <1>2, <2>3 DEF TurnInv, Working
    <3> QED
      BY <1>1, <1>3, <2>1, <2>3, <3>1 DEF GroupTypes
  <2> QED
    BY <2>2, <2>3
<1> QED
  BY <1>1, <1>2, <1>4, TurnNone

LEMMA TurnStep ==
    ASSUME GroupTypes, ActiveInv, LinkInv, TurnInv, [Next]_vars
    PROVE  TurnInv'
<1>1. CASE UNCHANGED <<codex, runs, state, active, out, capture, hand, pc, model, failure>>
  <2>1. Working' = Working
    BY <1>1 DEF Working
  <2>2. active # 0 /\ codex = active => Working' \/ (pc' = "finish" /\ failure' = "unknown")
    BY <1>1, <2>1 DEF TurnInv
  <2>3. active # 0 /\ OnTheWay(out, hand.event, capture[active], TheEnd) => Working' \/ pc' = "finish"
    BY <1>1, <2>1 DEF TurnInv
  <2> QED
    BY <1>1, <2>2, <2>3, TurnMoves
<1>2. ASSUME active # 0, pc # "finish", ~Working,
             UNCHANGED <<codex, runs, state, active, out, capture, hand>>
      PROVE  TurnInv'
  BY <1>2, NotWaiting, TurnMoves
<1>3. CASE UNCHANGED groupVars
  BY <1>1, <1>3 DEF groupVars, runVars, journalVars, agentVars
<1>4. CASE UNCHANGED vars
  BY <1>3, <1>4 DEF vars
<1>5. ASSUME NEW p \in Plans, StartTurnFor(p) PROVE TurnInv'
  BY <1>5, TurnStarts
<1>6. CASE Planning
  BY <1>2, <1>6 DEF Planning, agentVars, ActiveInv, Working
<1>7. CASE StepBegins
  BY <1>2, <1>7 DEF StepBegins, ActiveInv, Working
<1>8. CASE StepsOver
  BY <1>2, <1>8 DEF StepsOver, agentVars, journalVars, ActiveInv, Working
<1>9. CASE ProviderReturns
  <2>1. pc = "work" /\ ~Working /\ active # 0
    BY <1>9 DEF ProviderReturns, LinkInv, Working, ActiveInv
  <2> QED
    BY <1>2, <1>9, <2>1 DEF ProviderReturns, StepEnds
<1>10. CASE RemoteReturns
  <2>1. pc = "work" /\ ~Working /\ active # 0
    BY <1>10 DEF RemoteReturns, LinkInv, Working, ActiveInv
  <2> QED
    BY <1>2, <1>10, <2>1 DEF RemoteReturns, StepEnds
<1>11. CASE ModelStarts
  BY <1>11, TurnModelStarts
<1>12. CASE ModelReads
  <2>1. /\ pc = "work" /\ Working /\ capture[active] # <<>>
        /\ capture' = [capture EXCEPT ![active] = Tail(@)]
        /\ UNCHANGED <<codex, runs, state, active, out, hand>>
    BY <1>12 DEF ModelReads, Working
  <2>2. \/ Head(capture[active]) = TheEnd
        \/ Working'
        \/ pc' = "finish" /\ failure' = "unknown"
    BY <1>12 DEF ModelReads, Working, TheEnd
  <2> QED
    BY <2>1, <2>2, TurnReads
<1>13. CASE ModelStops
  <2>1. /\ pc = "work" /\ UNCHANGED <<codex, runs, state, active, out, hand>> /\ Working
    BY <1>13 DEF ModelStops, Working, journalVars
  <2>2. CASE UNCHANGED capture /\ (Working' \/ (pc' = "finish" /\ failure' = "unknown"))
    BY <2>1, <2>2, TurnMoves
  <2>3. CASE /\ capture[active] # <<>> /\ capture' = [capture EXCEPT ![active] = Tail(@)]
             /\ Head(capture[active]) = TheEnd \/ Working'
    BY <2>1, <2>3, TurnReads
  <2> QED
    BY <1>13, <2>2, <2>3 DEF ModelStops, Working, TheEnd
<1>14. CASE Finish
  BY <1>14, TurnFinish
<1>15. CASE InterruptTurn \/ StepTimeout \/ Resolve
  BY <1>1, <1>15 DEF InterruptTurn, StepTimeout, Resolve, runVars, journalVars, agentVars
<1>16. CASE TurnEnds
  <2>1. PICK x : x = <<"end", codex>>
    OBVIOUS
  <2>2. x \in Seen(runs)
    BY <1>16, <2>1, SeenIs DEF TurnInv, GroupTypes
  <2>3. x = TheEnd => codex = active
    BY <2>1 DEF TheEnd
  <2> QED
    BY <1>16, <2>1, <2>2, <2>3, TurnSends DEF TurnEnds, runVars, journalVars
<1>17. CASE SessionDies
  BY <1>17, TurnDies
<1>18. CASE Forward
  BY <1>18, TurnForward
<1>19. CASE Crash
  <2>1. /\ active' = 0 /\ codex' = 0 /\ out' = <<>> /\ hand' = NoHand /\ runs' = runs
        /\ capture' = [r \in RunIds |-> <<>>]
    BY <1>19 DEF Crash
  <2>2. hand'.event \in Seen(runs') /\ codex' <= runs'
    BY <2>1, SeenIs DEF NoHand, GroupTypes
  <2>3. out' \in Seq(Seen(runs')) /\ capture' \in [RunIds -> Seq(Seen(runs'))]
    BY <2>1
  <2> QED
    BY <2>1, <2>2, <2>3, TurnNone
<1>20. CASE RemoteBegins
  BY <1>3, <1>20 DEF RemoteBegins
<1> QED
  BY <1>3, <1>4, <1>5, <1>6, <1>7, <1>8, <1>9, <1>10, <1>11, <1>12, <1>13, <1>14, <1>15,
     <1>16, <1>17, <1>18, <1>19, <1>20 DEF Next, ExecuteStep, BrokerStep

----------------------------------------------------------------------------
(* No job of a run that has ended works, or may still begin to.            *)

LEMMA JobIs ==
    ASSUME NEW j \in JobIds
    PROVE  j[1] \in RunIds /\ j[2] \in Steps /\ j = <<j[1], j[2]>> /\ j # NoJob /\ j[1] # 0
BY WorkgroupAssumption DEF JobIds, RunIds

LEMMA KnownAre == KnownJobs \subseteq JobIds /\ LiveJobs \subseteq JobIds /\ AssignedSteps \subseteq Steps
BY DEF KnownJobs, LiveJobs, AssignedSteps

\* Steps that leave the broker's job and the worker alone.
LEMMA JobsSame ==
    ASSUME JobInv, UNCHANGED <<job, has, process, reply>>,
           KnownJobs' = KnownJobs => KnownInv', LiveJobs' = LiveJobs => LiveInv'
    PROVE  JobInv'
<1>1. FlagInv'
  BY DEF JobInv, FlagInv
<1>2. KnownJobs' = KnownJobs
  BY DEF KnownJobs, JobIds, RunIds
<1>3. LiveJobs' = LiveJobs
  BY DEF LiveJobs, JobIds, RunIds
<1> QED
  BY <1>1, <1>2, <1>3 DEF JobInv

\* Steps of the run, at its order or one further.
LEMMA JobsMove ==
    ASSUME JobInv, RunInv, UNCHANGED <<job, has, process, reply, run, runs, state, active>>,
           \/ pc' = "finish"
           \/ pc' \in {"loop", "work"} /\ order' = order
              /\ \/ at' = at + 1 /\ pc = "work"
                 \/ at' = at /\ pc \in {"planning", "loop", "work"} /\ answer' = answer,
           \/ answer' = answer /\ pc # "finish"
           \/ pc' = "finish" /\ failure' = "unknown"
           \/ \A j \in LiveJobs : j[1] # active
    PROVE  JobInv'
<1>1. ASSUME KnownJobs' = KnownJobs PROVE KnownInv'
  <2> SUFFICES ASSUME NEW j \in KnownJobs, j[1] = active, pc' # "finish", pc' \in {"planning", "loop", "work"}
               PROVE  j[2] \in AssignedSteps'
    BY <1>1 DEF KnownInv, JobInv
  <2>1. pc \in {"planning", "loop", "work"} /\ at \in Nat /\ order \in Seq(Steps) /\ order' = order
    BY DEF RunInv, StepInv
  <2>2. j[2] \in AssignedSteps
    BY <2>1 DEF JobInv, KnownInv
  <2>3. PICK k \in 1..Len(order) :
            /\ order[k] = j[2] /\ j[2] \in Steps
            /\ k < at \/ (k = at /\ (run \in {"wait", "stopping"} \/ answer # "none"))
    BY <2>2 DEF AssignedSteps
  <2>4. k < at' \/ (k = at' /\ (run' \in {"wait", "stopping"} \/ answer' # "none"))
    BY <2>1, <2>3
  <2> QED
    BY <2>1, <2>3, <2>4 DEF AssignedSteps
<1>2. ASSUME LiveJobs' = LiveJobs PROVE LiveInv'
  BY <1>2 DEF LiveInv, JobInv
<1> QED
  BY <1>1, <1>2, JobsSame

\* A step of the worker or of the broker outside Run: nothing becomes known or
\* live by it.
LEMMA JobsShrink ==
    ASSUME JobInv, FlagInv', UNCHANGED <<groupVars, run, answer>>, job'.id = job.id,
           KnownJobs' \subseteq KnownJobs, LiveJobs' \subseteq LiveJobs
    PROVE  JobInv'
<1>1. UNCHANGED <<order, at, pc, active, runs, state, failure, run, answer>>
  BY DEF groupVars, runVars, journalVars
<1>2. AssignedSteps' = AssignedSteps
  BY <1>1 DEF AssignedSteps
<1>3. KnownInv'
  BY <1>1, <1>2 DEF KnownInv, JobInv
<1>4. LiveInv'
  BY <1>1 DEF LiveInv, JobInv
<1> QED
  BY <1>3, <1>4 DEF JobInv

\* Run returns: what may still work is in doubt.
LEMMA JobsReturn ==
    ASSUME JobInv, RemoteTypes, LinkInv, NEW result \in {"ok", "failed", "unknown"},
           RunReturns(result), run # "none", UNCHANGED <<groupVars, workerVars>>,
           job.id # NoJob /\ result # "unknown" => ~job.claimed \/ job.received
    PROVE  JobInv'
<1>1. UNCHANGED <<order, at, pc, plan, active, model, runs, state, failure, has, process, reply>>
  BY DEF groupVars, runVars, journalVars, agentVars, workerVars
<1>2. /\ pc = "work" /\ answer = "none" /\ answer' = result /\ answer' # "none"
      /\ job' \in {job, Idle} /\ job'.id = NoJob
  BY <1>1, LinkReturns DEF LinkInv, RunReturns
<1>3. NoJob \notin JobIds
  BY WorkgroupAssumption DEF JobIds
<1>4. FlagInv'
  BY <1>2 DEF FlagInv
<1>5. KnownJobs' \subseteq KnownJobs
  BY <1>1, <1>2, <1>3 DEF KnownJobs, JobIds, RunIds
<1>6. AssignedSteps \subseteq AssignedSteps'
  BY <1>1, <1>2 DEF AssignedSteps
<1>7. KnownInv'
  BY <1>1, <1>5, <1>6 DEF KnownInv, JobInv
<1>8. LiveInv'
  <2> SUFFICES ASSUME NEW j \in LiveJobs'
               PROVE  state[j[1]] = "running" /\ (j[1] = active => answer' = "unknown")
    BY <1>1 DEF LiveInv
  <2>1. /\ j \in JobIds /\ j \in LiveJobs
        /\ (has = j /\ process = "running") \/ (reply.assignment /\ reply.job = j)
    BY <1>1, <1>2, <1>3 DEF LiveJobs, JobIds, RunIds
  <2>2. state[j[1]] = "running" /\ (j[1] = active => job.id = j)
    BY <1>2, <2>1 DEF JobInv, LiveInv
  <2>3. job.id = j => job.claimed /\ ~job.received
    BY <1>3, <2>1 DEF JobInv, FlagInv
  <2>4. j # NoJob
    BY <1>3, <2>1
  <2> QED
    BY <1>2, <2>2, <2>3, <2>4
<1> QED
  BY <1>4, <1>7, <1>8 DEF JobInv

\* Run assigns a job that nobody has named before.
LEMMA JobsAssign ==
    ASSUME JobInv, RunInv, GroupTypes, ActiveInv, RemoteTypes, LinkInv, run = "snapshot",
           run' = "wait", job' = NewJob(runFor), UNCHANGED <<groupVars, workerVars, answer, runFor>>
    PROVE  JobInv'
<1>1. /\ UNCHANGED <<order, at, pc, plan, active, model, runs, state, failure, has, process, reply>>
      /\ answer' = answer
  BY DEF groupVars, runVars, journalVars, agentVars, workerVars
<1>2. pc = "work" /\ answer = "none" /\ runFor = JobOf(Current) /\ job.id = NoJob
  BY DEF LinkInv
<1>3. PICK f : f = runFor
  OBVIOUS
<1>4. /\ active \in RunIds /\ order \in Seq(Steps) /\ at \in 1..Len(order) /\ order[at] \in Steps
      /\ f \in JobIds /\ f = <<active, order[at]>>
  BY <1>2, <1>3, CurrentJob DEF JobOf, Current
<1>5. job'.id = f /\ ~job'.claimed /\ ~job'.received /\ f # NoJob /\ f[1] = active /\ f[2] = order[at]
  BY <1>3, <1>4, JobIs, RecordsAre DEF MaybeJob
<1>6. f \notin KnownJobs
  <2> SUFFICES ASSUME f \in KnownJobs PROVE FALSE
    OBVIOUS
  <2>1. order[at] \in AssignedSteps
    BY <1>2, <1>5 DEF JobInv, KnownInv
  <2>2. PICK k \in 1..Len(order) :
            order[k] = order[at] /\ (k < at \/ (k = at /\ (run \in {"wait", "stopping"} \/ answer # "none")))
    BY <2>1 DEF AssignedSteps
  <2>3. k < at /\ k \in 1..(at - 1)
    BY <1>2, <1>4, <2>2
  <2>4. Ordered(plan, order) /\ order[at] # NoStep
    BY <1>2, <1>4, WorkgroupAssumption DEF RunInv, StepInv
  <2>5. \A i \in 1..(at - 1) : order[i] # order[at]
    BY <1>4, <2>4 DEF Ordered
  <2> QED
    BY <2>2, <2>3, <2>5
<1>7. has # f /\ ~(reply.assignment /\ reply.job = f)
  BY <1>4, <1>6 DEF KnownJobs
<1>8. FlagInv'
  BY <1>1, <1>5, <1>7 DEF FlagInv
<1>9. KnownJobs' \subseteq KnownJobs \cup {f}
  BY <1>1, <1>5 DEF KnownJobs, JobIds, RunIds
<1>10. AssignedSteps \subseteq AssignedSteps' /\ order[at] \in AssignedSteps'
  BY <1>1, <1>4 DEF AssignedSteps
<1>11. KnownInv'
  <2>1. active <= runs
    BY <1>4 DEF ActiveInv, GroupTypes, RunIds
  <2>2. ASSUME NEW j \in KnownJobs
        PROVE j[1] <= runs /\ (j[1] = active /\ pc \in {"planning", "loop", "work"} => j[2] \in AssignedSteps')
    BY <1>10 DEF JobInv, KnownInv
  <2>3. f[1] <= runs /\ f[2] \in AssignedSteps'
    BY <1>5, <1>10, <2>1
  <2> QED
    BY <1>1, <1>9, <2>2, <2>3 DEF KnownInv
<1>12. LiveJobs' \subseteq LiveJobs \cup {f}
  BY <1>1, <1>5 DEF LiveJobs, JobIds, RunIds
<1>13. LiveInv'
  <2>1. state[active] = "running"
    BY <1>4 DEF ActiveInv, RunIds
  <2>2. ASSUME NEW j \in LiveJobs PROVE state[j[1]] = "running" /\ j[1] # active
    <3>1. j # NoJob
      BY JobIs, KnownAre
    <3> QED
      BY <1>2, <3>1 DEF JobInv, LiveInv
  <2> QED
    BY <1>1, <1>5, <1>12, <2>1, <2>2 DEF LiveInv
<1> QED
  BY <1>8, <1>11, <1>13 DEF JobInv

LEMMA JobsInit == Init => JobInv
<1> SUFFICES ASSUME Init PROVE JobInv
  OBVIOUS
<1>1. has = NoJob /\ reply = NoReply /\ job = Idle
  BY DEF Init, RemoteInit
<1>2. job.id = NoJob /\ ~reply.assignment
  BY <1>1 DEF Idle, NoReply
<1>3. NoJob \notin JobIds
  BY WorkgroupAssumption DEF JobIds
<1>4. KnownJobs = {} /\ LiveJobs = {}
  BY <1>1, <1>2, <1>3 DEF KnownJobs, LiveJobs
<1> QED
  BY <1>2, <1>4 DEF JobInv, FlagInv, KnownInv, LiveInv

\* StartTurnFor, Finish and Crash change the active run and the journal.
LEMMA JobsRunChanges ==
    ASSUME JobInv, GroupTypes, ActiveInv, RemoteTypes, LinkInv,
           (\E p \in Plans : StartTurnFor(p)) \/ Finish \/ Crash
    PROVE  JobInv'
<1>0. \A j \in KnownJobs \cup LiveJobs : j[1] \in RunIds /\ j # NoJob /\ j[1] # 0
  BY JobIs, KnownAre
<1>1. ASSUME NEW p \in Plans, StartTurnFor(p) PROVE JobInv'
  <2>1. /\ UNCHANGED <<job, has, process, reply>> /\ runs' = runs + 1 /\ active' = runs + 1
        /\ state' = [state EXCEPT ![runs + 1] = "running"] /\ active = 0
    BY <1>1 DEF StartTurnFor, remoteVars, remoteRest, brokerVars, workerVars
  <2>2. runs \in Nat /\ runs + 1 \in RunIds
    BY <1>1, WorkgroupAssumption DEF GroupTypes, StartTurnFor, RunIds
  <2>3. ASSUME KnownJobs' = KnownJobs PROVE KnownInv'
    <3>1. ASSUME NEW j \in KnownJobs PROVE j[1] <= runs' /\ j[1] # active'
      <4>1. j[1] \in RunIds /\ j[1] <= runs
        BY <1>0 DEF JobInv, KnownInv
      <4> QED
        BY <2>1, <2>2, <4>1 DEF RunIds
    <3> QED
      BY <2>3, <3>1 DEF KnownInv
  <2>4. ASSUME LiveJobs' = LiveJobs PROVE LiveInv'
    <3>1. ASSUME NEW j \in LiveJobs PROVE state'[j[1]] = "running" /\ j[1] # active'
      <4>1. j[1] \in RunIds /\ state[j[1]] = "running" /\ j \in KnownJobs
        BY <1>0 DEF JobInv, LiveInv, LiveJobs, KnownJobs
      <4>2. j[1] <= runs
        BY <4>1 DEF JobInv, KnownInv
      <4>3. j[1] # runs + 1
        BY <2>2, <4>1, <4>2 DEF RunIds
      <4> QED
        BY <2>1, <2>2, <4>1, <4>3 DEF GroupTypes
    <3> QED
      BY <2>4, <3>1 DEF LiveInv
  <2> QED
    BY <2>1, <2>3, <2>4, JobsSame
<1>2. CASE Finish
  <2>1. UNCHANGED <<job, has, process, reply, runs>> /\ active' = 0 /\ pc = "finish" /\ pc' = "idle"
    BY <1>2 DEF Finish, remoteRest, brokerVars, workerVars
  <2>2. PICK w \in {"kept", "lost"} : state' = [state EXCEPT ![active] =
            IF failure = "unknown" \/ w = "lost" THEN @
            ELSE IF failure = "none" THEN "completed" ELSE failure]
    BY <1>2 DEF Finish
  <2>3. answer = "none" /\ job.id = NoJob
    BY <2>1 DEF LinkInv
  <2>4. ASSUME KnownJobs' = KnownJobs PROVE KnownInv'
    BY <2>1, <2>4 DEF JobInv, KnownInv
  <2>5. ASSUME LiveJobs' = LiveJobs PROVE LiveInv'
    <3>1. ASSUME NEW j \in LiveJobs PROVE state'[j[1]] = "running" /\ j[1] # 0
      <4>1. j[1] \in RunIds /\ j # NoJob /\ j[1] # 0 /\ state[j[1]] = "running"
        BY <1>0 DEF JobInv, LiveInv
      <4>2. j[1] = active => failure = "unknown"
        BY <2>3, <4>1 DEF JobInv, LiveInv
      <4>3. CASE j[1] = active
        BY <2>2, <4>1, <4>2, <4>3 DEF GroupTypes
      <4>4. CASE j[1] # active
        BY <2>2, <4>1, <4>4 DEF GroupTypes
      <4> QED
        BY <4>1, <4>3, <4>4
    <3> QED
      BY <2>1, <2>5, <3>1 DEF LiveInv
  <2> QED
    BY <2>1, <2>4, <2>5, JobsSame
<1>3. CASE Crash
  <2>1. UNCHANGED <<has, process, reply, runs, state>> /\ active' = 0 /\ pc' = "idle" /\ job' = Idle
    BY <1>3 DEF Crash, Forgotten, workerVars, journalVars
  <2>2. job'.id = NoJob /\ NoJob \notin JobIds
    BY <2>1, WorkgroupAssumption DEF Idle, JobIds
  <2>3. KnownJobs' \subseteq KnownJobs /\ LiveJobs' \subseteq LiveJobs
    BY <2>1, <2>2 DEF KnownJobs, LiveJobs, JobIds, RunIds
  <2>4. FlagInv'
    BY <2>2 DEF FlagInv
  <2>5. KnownInv'
    BY <2>1, <2>3 DEF JobInv, KnownInv
  <2>6. LiveInv'
    BY <1>0, <2>1, <2>3 DEF JobInv, LiveInv
  <2> QED
    BY <2>4, <2>5, <2>6 DEF JobInv
<1> QED
  BY <1>1, <1>2, <1>3

\* The steps of execute between the begin and the end of a run.
LEMMA JobsExecute ==
    ASSUME JobInv, RunInv, GroupTypes, ActiveInv, RemoteTypes, LinkInv, ExecuteStep, ~Finish
    PROVE  JobInv'
<1>1. CASE Planning
  BY <1>1, JobsMove DEF Planning, Record, remoteRest, brokerVars, workerVars
<1>2. CASE StepBegins
  BY <1>2, JobsMove DEF StepBegins, Record, remoteRest, brokerVars, workerVars
<1>3. CASE StepsOver
  BY <1>3, JobsMove DEF StepsOver, remoteVars, remoteRest, brokerVars, workerVars, journalVars
<1>4. ASSUME NEW result, pc = "work", StepEnds(result)
      PROVE  /\ UNCHANGED <<runs, state, active, order>>
             /\ pc' = "finish" \/ (pc' = "loop" /\ at' = at + 1)
             /\ result = "unknown" => pc' = "finish" /\ failure' = "unknown"
  BY <1>4 DEF StepEnds, Record
<1>5. CASE ProviderReturns
  <2>1. PICK result \in {"ok", "failed"} : StepEnds(result)
    BY <1>5 DEF ProviderReturns
  <2>2. pc = "work" /\ UNCHANGED <<job, has, process, reply, run, answer>>
    BY <1>5 DEF ProviderReturns, remoteRest, brokerVars, workerVars
  <2> QED
    BY <1>4, <2>1, <2>2, JobsMove
<1>6. CASE RemoteBegins
  <2>1. /\ UNCHANGED groupVars /\ RunBegins(JobOf(Current)) /\ pc = "work"
    BY <1>6 DEF RemoteBegins
  <2>2. /\ run = "none" /\ answer = "none" /\ UNCHANGED <<job, has, process, reply>>
        /\ run' \in {"snapshot", "none"} /\ answer' \in {"none", "failed"}
    BY <2>1 DEF RunBegins, workerVars
  <2>3. UNCHANGED <<runs, state, active, pc, order, at, failure>>
    BY <2>1 DEF groupVars, runVars, journalVars
  <2>4. AssignedSteps \subseteq AssignedSteps'
    BY <2>2, <2>3 DEF AssignedSteps
  <2>5. KnownJobs' = KnownJobs => KnownInv'
    BY <2>3, <2>4 DEF JobInv, KnownInv
  <2>6. LiveJobs' = LiveJobs => LiveInv'
    BY <2>2, <2>3 DEF JobInv, LiveInv
  <2> QED
    BY <2>2, <2>5, <2>6, JobsSame
<1>7. CASE RemoteReturns
  <2>1. PICK result : result = answer
    OBVIOUS
  <2>2. StepEnds(result) /\ pc = "work" /\ answer # "none" /\ UNCHANGED <<job, has, process, reply, run>>
    BY <1>7, <2>1 DEF RemoteReturns, workerVars
  <2>3. run = "none" /\ job.id = NoJob
    BY <2>2 DEF LinkInv
  <2>4. result # "unknown" => \A j \in LiveJobs : j[1] # active
    <3> SUFFICES ASSUME result # "unknown", NEW j \in LiveJobs PROVE j[1] # active
      OBVIOUS
    <3>1. j # NoJob
      BY JobIs, KnownAre
    <3> QED
      BY <2>1, <2>2, <2>3, <3>1 DEF JobInv, LiveInv
  <2>5. /\ UNCHANGED <<runs, state, active, order>>
        /\ pc' = "finish" \/ (pc' = "loop" /\ at' = at + 1)
        /\ result = "unknown" => pc' = "finish" /\ failure' = "unknown"
    BY <1>4, <2>2
  <2> QED
    BY <2>2, <2>4, <2>5, JobsMove
<1>8. CASE ModelStarts
  BY <1>8, JobsMove DEF ModelStarts, remoteRest, brokerVars, workerVars, runVars, journalVars
<1>9. CASE ModelReads
  BY <1>9, JobsMove DEF ModelReads, Record, remoteRest, brokerVars, workerVars
<1>10. CASE ModelStops
  BY <1>10, JobsMove DEF ModelStops, remoteVars, remoteRest, brokerVars, workerVars, journalVars
<1> QED
  BY <1>1, <1>2, <1>3, <1>5, <1>6, <1>7, <1>8, <1>9, <1>10 DEF ExecuteStep

\* Run, between its assignment and its return.
LEMMA JobsRun ==
    ASSUME JobInv, RunInv, GroupTypes, ActiveInv, RemoteTypes, LinkInv, HandInv, BrokerStep
    PROVE  JobInv'
<1>0. UNCHANGED groupVars
  BY DEF BrokerStep
<1>1. CASE RunAssigns
  <2>1. CASE RunReturns("failed")
    <3>1. job.id = NoJob /\ run = "snapshot" /\ UNCHANGED workerVars
      BY <1>1 DEF LinkInv, RunAssigns
    <3> QED
      BY <1>0, <2>1, <3>1, JobsReturn
  <2>2. CASE ~RunReturns("failed")
    BY <1>0, <1>1, <2>2, JobsAssign DEF RunAssigns
  <2> QED
    BY <2>1, <2>2
<1>2. CASE RunReceives
  <2>1. job.received /\ run # "none" /\ UNCHANGED workerVars
    BY <1>2 DEF RunReceives, HandInv
  <2>2. RunReturns("ok") \/ RunReturns("failed")
    BY <1>2 DEF RunReceives
  <2> QED
    BY <1>0, <2>1, <2>2, JobsReturn
<1>3. CASE RunTicks
  <2>1. PICK x \in {"failed", "unknown"} : x = Expired
    BY DEF Expired
  <2>2. RunReturns(x) /\ run = "wait" /\ UNCHANGED workerVars
    BY <1>3, <2>1 DEF RunTicks
  <2>3. x # "unknown" => ~job.claimed
    BY <2>1 DEF Expired
  <2> QED
    BY <1>0, <2>2, <2>3, JobsReturn
<1>4. CASE RunCancelled(Late)
  <2>1. CASE ~job.claimed /\ RunReturns("failed")
    BY <1>0, <1>4, <2>1, JobsReturn DEF RunCancelled
  <2>2. CASE /\ job.claimed /\ run' = "stopping" /\ job' = [job EXCEPT !.cancel = TRUE]
             /\ UNCHANGED <<answer, runFor, done>>
    <3>1. /\ job'.id = job.id /\ job'.claimed = job.claimed /\ job'.received = job.received /\ job'.cancel
      BY <2>2 DEF RemoteTypes, JobRecord
    <3>2. UNCHANGED <<has, process, reply>> /\ run = "wait"
      BY <1>4 DEF RunCancelled, workerVars
    <3>3. UNCHANGED <<order, at, pc, active, runs, state, failure>>
      BY <1>0 DEF groupVars, runVars, journalVars
    <3>4. FlagInv'
      BY <3>1, <3>2 DEF JobInv, FlagInv
    <3>5. KnownJobs' = KnownJobs
      BY <3>1, <3>2 DEF KnownJobs, JobIds, RunIds
    <3>6. LiveJobs' \subseteq LiveJobs
      BY <3>1, <3>2 DEF LiveJobs, JobIds, RunIds
    <3>7. AssignedSteps' = AssignedSteps
      BY <2>2, <3>2, <3>3 DEF AssignedSteps
    <3>8. KnownInv'
      BY <3>3, <3>5, <3>7 DEF JobInv, KnownInv
    <3>9. LiveInv'
      BY <2>2, <3>1, <3>3, <3>6 DEF JobInv, LiveInv
    <3> QED
      BY <3>4, <3>8, <3>9 DEF JobInv
  <2> QED
    BY <1>4, <2>1, <2>2 DEF RunCancelled
<1>5. CASE RunStops
  <2>1. PICK x \in {"failed", "unknown"} : x = IF done # NoResult THEN "failed" ELSE "unknown"
    OBVIOUS
  <2>2. RunReturns(x) /\ run = "stopping" /\ UNCHANGED workerVars
    BY <1>5, <2>1 DEF RunStops
  <2>3. x # "unknown" => job.received
    BY <2>1 DEF HandInv
  <2> QED
    BY <1>0, <2>2, <2>3, JobsReturn
<1> QED
  BY <1>1, <1>2, <1>3, <1>4, <1>5 DEF BrokerStep, RunStep

\* The worker and its requests.
LEMMA JobsWorker ==
    ASSUME JobInv, RemoteTypes, HandInv, Invite \/ WorkerStep \/ Leaving \/ Tick \/ Lapse,
           UNCHANGED groupVars
    PROVE  JobInv'
<1>0. NoReply.assignment = FALSE /\ ~NoReply.assignment /\ NoJob \notin JobIds
  BY WorkgroupAssumption DEF NoReply, JobIds
<1>1. ASSUME job'.id = job.id, job'.claimed = job.claimed, job'.received = job.received,
             job.cancel => job'.cancel, ~reply'.assignment \/ reply' = reply,
             has' = has \/ (has' = NoJob /\ ~reply'.assignment),
             process' = process \/ process' # "running", UNCHANGED <<run, answer>>
      PROVE  JobInv'
  <2>1. FlagInv'
    BY <1>1 DEF JobInv, FlagInv
  <2>2. KnownJobs' \subseteq KnownJobs
    BY <1>0, <1>1 DEF KnownJobs, JobIds, RunIds
  <2>3. LiveJobs' \subseteq LiveJobs
    BY <1>0, <1>1 DEF LiveJobs, JobIds, RunIds
  <2> QED
    BY <1>1, <2>1, <2>2, <2>3, JobsShrink
<1>2. CASE Invite \/ Tick \/ Lapse \/ ProcessEnds
  BY <1>1, <1>2 DEF Invite, Tick, Lapse, ProcessEnds, brokerVars, workerVars
<1>3. CASE Leaving
  BY <1>0, <1>1, <1>3 DEF Leaving, brokerVars
<1>4. CASE AskHealth(TRUE) \/ AskHealth(FALSE)
  <2>1. \E kind : reply' = Reply(kind, NoJob, FALSE)
    BY <1>4 DEF AskHealth, Refused
  <2>2. ~reply'.assignment
    BY <2>1 DEF Reply
  <2>3. UNCHANGED <<job, has, process, run, answer>>
    BY <1>4 DEF AskHealth, Refused
  <2> QED
    BY <1>1, <2>2, <2>3
<1>5. CASE AskPoll
  <2>1. UNCHANGED <<has, process, run, answer>>
    BY <1>5 DEF AskPoll
  <2>2. CASE UNCHANGED job /\ \E kind : reply' = Reply(kind, NoJob, FALSE)
    <3>1. ~reply'.assignment
      BY <2>2 DEF Reply
    <3> QED
      BY <1>1, <2>1, <2>2, <3>1
  <2>3. CASE ~(UNCHANGED job /\ \E kind : reply' = Reply(kind, NoJob, FALSE))
    <3>1. PICK b : b = (~job.claimed /\ ~job.cancel)
      OBVIOUS
    <3>2. /\ ~job.received /\ \E kind : reply' = Reply(kind, job.id, b)
          /\ job' = [job EXCEPT !.claimed = @ \/ b]
      BY <1>5, <2>3, <3>1 DEF AskPoll, Refused
    <3>3. reply'.job = job.id /\ reply'.assignment = b /\ b \in BOOLEAN
      BY <3>1, <3>2, ReplyIs
    <3>4. /\ job'.id = job.id /\ job'.received = job.received /\ job'.cancel = job.cancel
          /\ job'.claimed = (job.claimed \/ b)
      BY <3>2 DEF RemoteTypes, JobRecord
    <3>5. FlagInv'
      BY <2>1, <3>2, <3>3, <3>4 DEF JobInv, FlagInv
    <3>6. KnownJobs' \subseteq KnownJobs
      BY <2>1, <3>3, <3>4 DEF KnownJobs, JobIds, RunIds
    <3>7. LiveJobs' \subseteq LiveJobs
      BY <2>1, <3>1, <3>3, <3>4 DEF LiveJobs, JobIds, RunIds
    <3> QED
      BY <2>1, <3>4, <3>5, <3>6, <3>7, JobsShrink
  <2> QED
    BY <2>2, <2>3
<1>6. CASE AskResult
  <2>1. UNCHANGED <<has, process, run, answer>> /\ process \in {"ok", "failed"}
    BY <1>6 DEF AskResult
  <2>2. \E kind : reply' = Reply(kind, NoJob, FALSE)
    BY <1>6 DEF AskResult, Refused
  <2>3. ~reply'.assignment
    BY <2>2 DEF Reply
  <2>4. CASE UNCHANGED job
    BY <1>1, <2>1, <2>3, <2>4
  <2>5. CASE Expects(has) /\ job' = [job EXCEPT !.received = TRUE]
    <3>1. job'.id = job.id /\ job'.claimed = job.claimed /\ job'.cancel = job.cancel
      BY <2>5 DEF RemoteTypes, JobRecord
    <3>2. job.id # NoJob => job.claimed
      BY <2>5 DEF Expects, JobInv, FlagInv
    <3>3. FlagInv'
      BY <2>1, <2>3, <3>1, <3>2 DEF FlagInv
    <3>4. KnownJobs' \subseteq KnownJobs /\ LiveJobs' \subseteq LiveJobs
      BY <2>1, <2>3, <3>1 DEF KnownJobs, LiveJobs, JobIds, RunIds
    <3> QED
      BY <2>1, <3>1, <3>3, <3>4, JobsShrink
  <2> QED
    BY <1>6, <2>4, <2>5 DEF AskResult, Refused
<1>7. CASE Receive
  <2>1. reply' = NoReply /\ UNCHANGED <<job, run, answer>>
    BY <1>7 DEF Receive, brokerVars
  <2>2. CASE UNCHANGED <<has, process>> \/ (has' = NoJob /\ process' = "none")
    BY <1>0, <1>1, <2>1, <2>2
  <2>3. CASE reply.assignment /\ has = NoJob /\ has' = reply.job /\ process' = "running"
    <3>1. FlagInv'
      BY <1>0, <2>1, <2>3 DEF JobInv, FlagInv
    <3>2. KnownJobs' \subseteq KnownJobs
      BY <1>0, <2>1, <2>3 DEF KnownJobs, JobIds, RunIds
    <3>3. LiveJobs' \subseteq LiveJobs
      BY <1>0, <2>1, <2>3 DEF LiveJobs, JobIds, RunIds
    <3> QED
      BY <2>1, <3>1, <3>2, <3>3, JobsShrink
  <2> QED
    BY <1>7, <2>2, <2>3 DEF Receive, CheckAgent
<1>8. CASE Leave
  <2>1. reply' = reply /\ reply = NoReply /\ has' = NoJob /\ process' = "none" /\ UNCHANGED <<run, answer>>
    BY <1>8 DEF Leave, HandInv
  <2>2. CASE UNCHANGED job
    BY <1>0, <1>1, <2>1, <2>2
  <2>3. CASE job' = [job EXCEPT !.cancel = (job.id # NoJob)]
    <3>1. job'.id = job.id /\ job'.claimed = job.claimed /\ job'.received = job.received
      BY <2>3 DEF RemoteTypes, JobRecord
    <3>2. job'.cancel = (job.id # NoJob)
      BY <2>3 DEF RemoteTypes, JobRecord
    <3>3. FlagInv'
      BY <1>0, <2>1, <3>1 DEF JobInv, FlagInv
    <3>4. KnownJobs' \subseteq KnownJobs
      BY <1>0, <2>1, <3>1 DEF KnownJobs, JobIds, RunIds
    <3>5. LiveJobs' \subseteq LiveJobs
      BY <1>0, <2>1, <3>1, <3>2 DEF LiveJobs, JobIds, RunIds
    <3> QED
      BY <2>1, <3>1, <3>3, <3>4, <3>5, JobsShrink
  <2> QED
    BY <1>8, <2>2, <2>3 DEF Leave
<1> QED
  BY <1>2, <1>3, <1>4, <1>5, <1>6, <1>7, <1>8 DEF WorkerStep

LEMMA JobsStep ==
    ASSUME JobInv, RunInv, GroupTypes, ActiveInv, RemoteTypes, LinkInv, HandInv, [Next]_vars
    PROVE  JobInv'
<1>1. CASE (\E p \in Plans : StartTurnFor(p)) \/ Finish \/ Crash
  BY <1>1, JobsRunChanges
<1>2. CASE ExecuteStep /\ ~Finish
  BY <1>2, JobsExecute
<1>3. CASE BrokerStep
  BY <1>3, JobsRun
<1>4. CASE (Invite \/ WorkerStep \/ Leaving \/ Tick \/ Lapse) /\ UNCHANGED groupVars
  BY <1>4, JobsWorker
<1>5. CASE InterruptTurn \/ StepTimeout \/ TurnEnds \/ SessionDies \/ Forward \/ Resolve \/ UNCHANGED vars
  <2>1. /\ UNCHANGED <<job, has, process, reply, run, answer>>
        /\ UNCHANGED <<active, order, at, pc, failure, runs, state>>
    BY <1>5
    DEF InterruptTurn, StepTimeout, TurnEnds, SessionDies, Forward, Resolve, vars, groupVars,
        runVars, journalVars, remoteVars, remoteRest, brokerVars, workerVars
  <2>2. AssignedSteps' = AssignedSteps
    BY <2>1 DEF AssignedSteps
  <2>3. KnownJobs' = KnownJobs => KnownInv'
    BY <2>1, <2>2 DEF JobInv, KnownInv
  <2>4. LiveJobs' = LiveJobs => LiveInv'
    BY <2>1 DEF JobInv, LiveInv
  <2> QED
    BY <2>1, <2>3, <2>4, JobsSame
<1> QED
  BY <1>1, <1>2, <1>3, <1>4, <1>5 DEF Next

----------------------------------------------------------------------------
(* The inductive invariant and what follows from it.                       *)

WorkInv ==
    /\ RunInv /\ GroupTypes /\ ActiveInv /\ RemoteTypes /\ LinkInv /\ HandInv /\ TurnInv
    /\ JobInv

LEMMA WorkInvInit == Init => WorkInv
BY RunInvInit, GroupInit, RemoteTypesInit, LinkInit, HandInit, TurnInit, JobsInit DEF WorkInv

LEMMA WorkInvStep == WorkInv /\ [Next]_vars => WorkInv'
<1> SUFFICES ASSUME WorkInv, [Next]_vars PROVE WorkInv'
  OBVIOUS
<1>1. RunInv /\ GroupTypes /\ ActiveInv /\ RemoteTypes /\ LinkInv /\ HandInv /\ TurnInv /\ JobInv
  BY DEF WorkInv
<1>2. answer \in {"none", "ok", "failed", "unknown"}
  BY <1>1 DEF RemoteTypes
<1>3. RunInv'
  BY <1>1, RunInvStep
<1>4. GroupTypes' /\ ActiveInv'
  BY <1>1, <1>2, GroupStep
<1>5. RemoteTypes'
  BY <1>1, RemoteTypesStep
<1>6. LinkInv'
  BY <1>1, LinkStep
<1>7. HandInv'
  BY <1>1, HandStep
<1>8. TurnInv'
  BY <1>1, TurnStep
<1>9. JobInv'
  BY <1>1, JobsStep
<1> QED
  BY <1>3, <1>4, <1>5, <1>6, <1>7, <1>8, <1>9 DEF WorkInv

\* The state of the workgroup, of the broker and of the worker is well typed.
THEOREM WorkgroupTypeCorrect == Spec => [](GroupTypes /\ RemoteTypes)
<1>1. WorkInv => GroupTypes /\ RemoteTypes
  BY DEF WorkInv
<1> QED
  BY <1>1, WorkInvInit, WorkInvStep, PTL DEF Spec

\* A result in the channel is one of the job the broker has, and a worker that
\* checks itself is never handed a job (remote.go:186, :269).
THEOREM HandoverIsExactAlways == Spec => []HandoverIsExact
<1>1. WorkInv => HandoverIsExact
  BY DEF WorkInv, HandInv, HandoverIsExact
<1> QED
  BY <1>1, WorkInvInit, WorkInvStep, PTL DEF Spec

\* When the journal calls a run ended, no turn of the App Server and no job of a
\* worker is left of it, and none can still begin, for any number of runs,
\* steps, failures and restarts (runtime.go:374, remote.go:333, :349).
THEOREM TerminalMeansQuietAlways == Spec => []TerminalMeansQuiet
<1>1. WorkInv => TerminalMeansQuiet
  <2> SUFFICES ASSUME WorkInv, NEW r \in RunIds, state[r] \in Terminal
               PROVE  codex # r /\ Over({<<r, s>> : s \in Steps})
    BY DEF TerminalMeansQuiet
  <2>1. state[r] # "running" /\ r # 0
    BY DEF Terminal, RunIds
  <2>2. codex # r
    BY <2>1 DEF WorkInv, TurnInv
  <2>3. \A j \in LiveJobs : j[1] # r
    BY <2>1 DEF WorkInv, JobInv, LiveInv
  <2>4. \A s \in Steps : <<r, s>> \notin LiveJobs
    BY <2>3
  <2>5. \A s \in Steps : <<r, s>> \in JobIds
    BY DEF JobIds
  <2>6. Over({<<r, s>> : s \in Steps})
    BY <2>4, <2>5 DEF Over, LiveJobs
  <2> QED
    BY <2>2, <2>6
<1> QED
  BY <1>1, WorkInvInit, WorkInvStep, PTL DEF Spec
=============================================================================
