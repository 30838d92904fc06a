---------------------------- MODULE BundleDelivery ----------------------------
(***************************************************************************)
(* Bundles of one tenant's published policies, built while the requests of *)
(* PolicyLifecycle go on: a build reads the published targets on the pool, *)
(* spends seconds in `opa build`, then stores the bundle, and the bridge   *)
(* is served the stored bundle that is current.                            *)
(*                                                                         *)
(* A bundle's sha256 is the hash of its bytes, here the set of its files.  *)
(* The audit row bundle_built names no policy; it repeats the row the same *)
(* transaction inserts into policy_bundles, which stands for both.         *)
(***************************************************************************)
EXTENDS PolicyLifecycle

CONSTANTS
  Builders,  \* concurrent build_bundle requests
  MaxBuilds  \* bound on the transactions they begin, for model checking

ASSUME BuildersAssumption == None \notin Builders
ASSUME MaxBuildsAssumption == MaxBuilds \in Nat
ASSUME TargetIdsAssumption == IsFiniteSet(TargetIds)  \* UUIDs

VARIABLES
  bundles,  \* policy_bundles, in commit order
  stamp,    \* published_in_bundle_sha of each target row
  build,    \* what each build remembers
  clock     \* now(), advanced by each BEGIN

bundleVars == <<bundles, stamp, build, clock>>
allVars == <<policy, target, audit, lock, req, bundles, stamp, build, clock>>

NoBuild == [phase |-> "idle", files |-> {}, count |-> 0, excluded |-> 0, began |-> 0]

BundleInit ==
  /\ Init
  /\ bundles = << >>
  /\ stamp = [t \in TargetIds |-> None]
  /\ build = [b \in Builders |-> NoBuild]
  /\ clock = 0

---------------------------------------------------------------------------
(* build_tenant_bundle *)

Shipping == {t \in TargetIds : Present(t) /\ policy[target[t].policy].status = "published"}

\* Faulty variant: every target of a published policy ships.
IncludedAll == Shipping

Included == {t \in Shipping : target[t].review = "approved"}

File(t) == [policy |-> target[t].policy, key |-> target[t].key, rego |-> target[t].rego]

\* The path of a file is its policy and its key, so of several included rows
\* with one path the last in an order SQL leaves open is what the bundle holds.
FilesOf(rows) ==
  {files \in SUBSET {File(t) : t \in rows} :
     /\ \A f, g \in files : f.policy = g.policy /\ f.key = g.key => f = g
     /\ \A t \in rows : \E f \in files :
          f.policy = target[t].policy /\ f.key = target[t].key}

\* One SELECT reads the rows; the artifacts it names never change, so reading
\* them one by one afterwards yields what was approved.
BuildRead(b) ==
  /\ build[b].phase = "idle"
  /\ \E files \in FilesOf(Included) :
       build' = [build EXCEPT ![b] =
         [NoBuild EXCEPT !.phase = "read", !.files = files,
                         !.count = Cardinality(Included),
                         !.excluded = Cardinality(Shipping \ Included)]]
  /\ UNCHANGED <<bundles, stamp, clock>>

---------------------------------------------------------------------------
(* build_bundle *)

\* Faulty variant: the bundle is dated when its rows were read.
BuildBeginUndated(b) ==
  /\ build[b].phase = "read"
  /\ clock < MaxBuilds
  /\ clock' = clock + 1
  /\ build' = [build EXCEPT ![b].phase = "begun"]
  /\ UNCHANGED <<bundles, stamp>>

\* The bundle is built and signed; its transaction begins, which is what now()
\* and the column default of built_at will say.
BuildBegin(b) ==
  /\ build[b].phase = "read"
  /\ clock < MaxBuilds
  /\ clock' = clock + 1
  /\ build' = [build EXCEPT ![b].phase = "begun", ![b].began = clock']
  /\ UNCHANGED <<bundles, stamp>>

\* Faulty variant: the stamp goes to approved targets of drafts too.
StampedAnyStatus == {t \in TargetIds : Present(t) /\ target[t].review = "approved"}

\* The UPDATE selects anew: what is published and approved now.
Stamped == Included

BuildCommit(b) ==
  LET r == build[b] IN
  /\ r.phase = "begun"
  /\ bundles' = Append(bundles,
       [files |-> r.files, count |-> r.count, excluded |-> r.excluded,
        builtAt |-> r.began])
  /\ stamp' = [t \in TargetIds |-> IF t \in Stamped THEN r.files ELSE stamp[t]]
  /\ build' = [build EXCEPT ![b] = NoBuild]
  /\ UNCHANGED clock

\* opa, the signing key or the database fails: nothing is stored.
BuildFail(b) ==
  /\ build[b].phase # "idle"
  /\ build' = [build EXCEPT ![b] = NoBuild]
  /\ UNCHANGED <<bundles, stamp, clock>>

\* Faulty variant: the bundle committed last is served.
CurrentByCommit == Len(bundles)

\* bridge_get_current_bundle and _envelope: ORDER BY built_at DESC LIMIT 1.
Current ==
  CHOOSE i \in 1..Len(bundles) :
    \A j \in 1..Len(bundles) : bundles[j].builtAt <= bundles[i].builtAt

Build(b) == BuildRead(b) \/ BuildBegin(b) \/ BuildCommit(b) \/ BuildFail(b)

\* A new or copied target row starts with a NULL stamp, which is what the ids not
\* yet used have; edits and reviews leave the stamp as it is.
BundleNext ==
  \/ Next /\ UNCHANGED bundleVars
  \/ \E b \in Builders : Build(b) /\ UNCHANGED vars

BundleSpec == BundleInit /\ [][BundleNext]_allVars

---------------------------------------------------------------------------
(* Properties *)

BundleFile == [policy: PolicyIds, key: Keys, rego: Modules]

\* Bundles hold files; a stamp is the content of a stored bundle.
BundleTypeOK ==
  /\ bundles \in Seq([files: SUBSET BundleFile, count: Nat, excluded: Nat,
                      builtAt: 1..clock])
  /\ \A t \in TargetIds :
       stamp[t] # None => \E i \in 1..Len(bundles) : stamp[t] = bundles[i].files
  /\ build \in [Builders -> [phase: {"idle", "read", "begun"}, files: SUBSET BundleFile,
                             count: Nat, excluded: Nat, began: 0..MaxBuilds]]
  /\ clock \in 0..MaxBuilds

\* build_bundle: "all published+approved targets".  Whatever is edited, rejected
\* or regenerated while a build runs, each file of each bundle is a module some
\* reviewer approved under the name of its policy, and the policy was published.
BundleContentReviewed ==
  \A i \in 1..Len(bundles) : \A f \in bundles[i].files :
    /\ \E k \in 1..Len(audit) :
         audit[k].action = "published" /\ audit[k].policy = f.policy
    /\ \E k \in 1..Len(audit) :
         /\ audit[k].action = "target_approved"
         /\ audit[k].rego = f.rego
         /\ policy[audit[k].policy].name = policy[f.policy].name

\* Only targets that belong to a published policy, and were approved in it or in
\* an earlier version, carry a bundle's stamp: nothing of a draft is marked shipped.
StampedWasPublished ==
  \A t \in TargetIds : stamp[t] # None => policy[target[t].policy].status = "published"

\* The bridge polls: once it was served a bundle, a build that began earlier and
\* commits later does not take its place.
CurrentNeverGoesBack ==
  [][bundles # << >> => bundles'[Current'].builtAt >= bundles[Current].builtAt]_allVars

\* Seen from outside: a reviewer's approvals of modules under policy names, the
\* policies that are published, and what each bundle holds.
Approvals ==
  {<<policy[audit[k].policy].name, audit[k].rego>> :
     k \in {j \in 1..Len(audit) : audit[j].action = "target_approved"}}

Promise == INSTANCE ReviewedRelease WITH
  Policies <- PolicyIds,
  name <- [p \in PolicyIds |-> policy[p].name],
  approved <- Approvals,
  released <- {p \in PolicyIds : policy[p].status = "published"},
  shipped <- [i \in 1..Len(bundles) |-> bundles[i].files]

\* The pipeline and its builds implement ReviewedRelease: whatever overlaps, a policy
\* is published once and only after a module was approved under its name, and each
\* bundle stored holds approved modules of published policies (routers/policies.py,
\* routers/bundles.py, core/bundle_builder.py).
KeepsReviewedRelease == Promise!Spec

\* build_bundle: the stamp is there "so audit can answer 'what was in the bundle
\* that shipped on date Y.'"  A target that carries a bundle's sha is in it.
StampedIsInBundle ==
  \A t \in TargetIds : stamp[t] # None =>
    \E f \in stamp[t] : f.policy = target[t].policy /\ f.key = target[t].key
=============================================================================
