-------------------------- MODULE MCPolicyLifecycle --------------------------
(* A small tenant for PolicyLifecycle: two request slots, two policies. *)
EXTENDS PolicyLifecycle, TLC

CONSTANTS w1, w2, p1, p2, t1, t2, t3, i1, i2, m1, m2, linux, rhel9, c1, c2

\* i1 has two controls for one system, i2 one control for a subtyped one.
PlanDef == i1 :> {<<c1, linux>>, <<c2, linux>>} @@ i2 :> {<<c1, rhel9>>}

\* Bound: one policy is uploaded or forked, the other is its successor.
OneLineage ==
  Cardinality({i \in 1..Len(audit) : audit[i].action \in {"uploaded", "forked"}}) <= 1

Symmetric == Permutations({w1, w2}) \cup Permutations({p1, p2})
             \cup Permutations({t1, t2, t3}) \cup Permutations({m1, m2})
=============================================================================
