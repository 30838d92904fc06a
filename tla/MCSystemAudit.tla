---------------------------- MODULE MCSystemAudit ----------------------------
(* Two tenants, two AAP jobs and one row that can be held for two reasons.    *)
EXTENDS SystemAudit, TLC

Symmetric == Permutations(Reasons) \cup Permutations(Entries) \cup Permutations(Workers)
               \cup Permutations(Jobs) \cup Permutations(Tenants)
==============================================================================
