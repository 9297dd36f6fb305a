---------------------------- MODULE MCWorkgroup ----------------------------
(* Two steps, written with the dependent one first or with a cycle; and    *)
(* the order of plans of three steps against its definition.               *)
EXTENDS Workgroup, TLC

CONSTANTS s1, s2, s3

By(a, b) == s1 :> a @@ s2 :> b
TwoSteps == {<<{}, {s1}>>, <<{s2}, {s1}>>}
MCPlans ==
    {[steps |-> <<s2, s1>>, deps |-> s1 :> d[1] @@ s2 :> d[2], by |-> b,
      automatic |-> b[s1] = "exec"] :
        d \in TwoSteps, b \in {By("remote", "codex"), By("exec", "remote")}}

\* Plan accepts exactly the acyclic plans, keeps every step, puts each behind
\* its dependencies and takes the first ready one in the authored order.
Three == {s1, s2, s3}
Acyclic(deps) ==
    ~\E S \in SUBSET Three \ {{}} : \A s \in S : deps[s] \cap S # {}
ASSUME PlanOrderSound ==
    \A deps \in [Three -> SUBSET Three] :
        (\A s \in Three : s \notin deps[s]) =>
        LET p == [steps |-> <<s1, s2, s3>>, deps |-> deps]
            o == Order(p)
        IN  /\ Cyclic(p) <=> ~Acyclic(deps)
            /\ Acyclic(deps) =>
                 /\ Range(o) = Three
                 /\ \A k \in 1..3 : deps[o[k]] \subseteq {o[j] : j \in 1..(k - 1)}
                 /\ \A k \in 1..2 : \A j \in (k + 1)..3 :
                      deps[o[j]] \subseteq {o[i] : i \in 1..(k - 1)} =>
                        \E a, b \in 1..3 : a < b /\ p.steps[a] = o[k] /\ p.steps[b] = o[j]
=============================================================================
