--------------------------- MODULE MCBundleDelivery ---------------------------
(* A small tenant for BundleDelivery: one policy, its successor, two builds.   *)
EXTENDS BundleDelivery, TLC

CONSTANTS w1, w2, p1, p2, t1, t2, i1, m1, m2, linux, c1, b1, b2

PlanDef == i1 :> {<<c1, linux>>}

\* A policy was uploaded, its IR extracted and its Rego generated: the requests
\* start from there.
GeneratedInit ==
  /\ BundleInit!2 /\ BundleInit!3 /\ BundleInit!4 /\ BundleInit!5
  /\ policy = (p1 :> [status |-> "draft", name |-> "baseline", version |-> FirstVersion,
                      ir |-> i1, prose |-> TRUE]) @@ [q \in PolicyIds |-> NoPolicy]
  /\ target = (t1 :> [review |-> "pending", policy |-> p1, key |-> linux, rego |-> m1])
              @@ [t \in TargetIds |-> NoTarget]
  /\ audit = <<Row("uploaded", p1, None, None, None, 0),
               Row("ir_extracted", p1, None, None, None, 0),
               Row("rego_generated", p1, None, None, None, 1)>>
  /\ lock = [p \in PolicyIds |-> None]
  /\ req = [w \in Workers |-> Idle]

GeneratedSpec == GeneratedInit /\ [][BundleNext]_allVars

\* Bound: the second policy is a successor of the first.
OneLineage == Cardinality({i \in 1..Len(audit) : audit[i].action \in {"uploaded", "forked"}}) <= 1

Symmetric == Permutations({w1, w2}) \cup Permutations({b1, b2})
=============================================================================
