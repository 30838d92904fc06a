---------------------------- MODULE MCRemediation ----------------------------
(* Two colleagues and a user of another tenant on one item's board. *)
EXTENDS Remediation, TLC

CONSTANTS w1, w2, i1, alice, bob, carol, acme, other

TenantOfDef == alice :> acme @@ bob :> acme @@ carol :> other
=============================================================================
