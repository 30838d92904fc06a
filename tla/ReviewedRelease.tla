---------------------------- MODULE ReviewedRelease ----------------------------
(***************************************************************************)
(* What the portal promises about what it ships: a module is approved      *)
(* under the name of a policy, a policy is released once and after such an *)
(* approval, and a bundle holds approved modules of released policies.     *)
(* Approvals, releases and bundles are never taken back.                   *)
(***************************************************************************)
EXTENDS Sequences

CONSTANTS Policies, Names, Keys, Modules, None

VARIABLES
  name,      \* Policies -> the name each was opened under, None before
  approved,  \* the <<name, module>> pairs a reviewer has approved
  released,  \* the policies that are published
  shipped    \* the bundles, oldest first: sets of files

releaseVars == <<name, approved, released, shipped>>

\* Some policies may be open from the start.
Init ==
  /\ name \in [Policies -> Names \cup {None}]
  /\ approved = {} /\ released = {} /\ shipped = << >>

Open(p, n) ==
  /\ name[p] = None
  /\ name' = [name EXCEPT ![p] = n]
  /\ UNCHANGED <<approved, released, shipped>>

Approve(p, m) ==
  /\ name[p] # None
  /\ approved' = approved \cup {<<name[p], m>>}
  /\ UNCHANGED <<name, released, shipped>>

Release(p) ==
  /\ p \notin released
  /\ \E m \in Modules : <<name[p], m>> \in approved
  /\ released' = released \cup {p}
  /\ UNCHANGED <<name, approved, shipped>>

Files == [policy: Policies, key: Keys, rego: Modules]

MayShip(f) == f.policy \in released /\ <<name[f.policy], f.rego>> \in approved

Ship(files) ==
  /\ \A f \in files : MayShip(f)
  /\ shipped' = Append(shipped, files)
  /\ UNCHANGED <<name, approved, released>>

Next ==
  \/ \E p \in Policies : \/ \E n \in Names : Open(p, n)
                         \/ \E m \in Modules : Approve(p, m)
                         \/ Release(p)
  \/ \E files \in SUBSET Files : Ship(files)

Spec == Init /\ [][Next]_releaseVars
================================================================================
