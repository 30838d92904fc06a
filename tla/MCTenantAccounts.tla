--------------------------- MODULE MCTenantAccounts ---------------------------
(* The users of one tenant. *)
EXTENDS TenantAccounts, TLC

CONSTANTS acme, c1, c2, o1, o2, u1, u2, s1, s2, r1, r2, f1, f2

TenantOfDef == [u \in Users |-> acme]

\* u2 is only there to be an owner: while it is, nobody has signed in.
OneCustomer ==
  Exists(u2) => /\ user[u2].role = "account_owner"
                /\ \A r \in Resets : reset[r] = NoReset

\* At most two requests at a time.
TwoRequests == Cardinality({w \in Workers : req[w] # NoReq}) <= 2

\* Of the sessions, resets and factors at most four are in use.
FewRows ==
  Cardinality({s \in Sessions : session[s] # NoSession})
  + Cardinality({r \in Resets : reset[r] # NoReset})
  + Cardinality({f \in Factors : factor[f] # NoFactor}) <= 4

Symmetric == Permutations(Clients) \cup Permutations(Operators)
             \cup Permutations(Sessions) \cup Permutations(Resets) \cup Permutations(Factors)
=============================================================================
