----------------------------- MODULE WorkQueue -----------------------------
(***************************************************************************)
(* What a room promises to the people who submit prompts, without daemon,  *)
(* App Server or database: prompts are accepted in some order and taken    *)
(* one at a time in that order; a prompt in doubt blocks the queue until   *)
(* its outcome is proven or somebody decides; an accepted prompt is never  *)
(* forgotten and a settled one never comes back.                           *)
(***************************************************************************)
EXTENDS Integers, FiniteSets

CONSTANT Work

VARIABLES phase, seq

queueVars == <<phase, seq>>

Occupying == {"dispatching", "running", "needs-review"}
Settled == {"completed", "failed", "interrupted"}

Init ==
    /\ phase = [m \in Work |-> "absent"]
    /\ seq = [m \in Work |-> 0]

\* m enters behind everything accepted so far
Enter(m) ==
    /\ phase[m] = "absent"
    /\ seq' = [seq EXCEPT ![m] = 1 + Cardinality({n \in Work : phase[n] # "absent"})]

Accept(m) ==
    /\ Enter(m)
    /\ phase' = [phase EXCEPT ![m] = "queued"]

\* the slot is free and nobody queued was accepted earlier
Take(m) ==
    /\ phase[m] = "queued"
    /\ \A n \in Work : phase[n] \notin Occupying
    /\ \A n \in Work : phase[n] = "queued" => seq[m] <= seq[n]
    /\ phase' = [phase EXCEPT ![m] = "dispatching"]
    /\ UNCHANGED seq

Move(m, from, to) ==
    /\ phase[m] \in from
    /\ \E s \in to : phase' = [phase EXCEPT ![m] = s]
    /\ UNCHANGED seq

Start(m)  == Move(m, {"dispatching"}, {"running", "failed"})
Doubt(m)  == Move(m, {"dispatching", "running"}, {"needs-review"})
Finish(m) == Move(m, {"running", "needs-review"}, Settled)
Retry(m)  == Move(m, {"needs-review"}, {"queued"})

\* give up on m and queue the replacement p
Replace(m, p) ==
    /\ phase[m] = "needs-review"
    /\ Enter(p)
    /\ phase' = [phase EXCEPT ![m] = "failed", ![p] = "queued"]

Next ==
    \/ \E m \in Work :
          Accept(m) \/ Take(m) \/ Start(m) \/ Doubt(m) \/ Finish(m) \/ Retry(m)
    \/ \E m, p \in Work : Replace(m, p)

Spec == Init /\ [][Next]_queueVars
=============================================================================
