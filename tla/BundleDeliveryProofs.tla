------------------------- MODULE BundleDeliveryProofs -------------------------
(***************************************************************************)
(* Proofs about BundleDelivery, for any number of builds, requests and     *)
(* rows: what ships was reviewed and belongs to a published policy.        *)
(***************************************************************************)
EXTENDS BundleDelivery, PolicyReviewProofs, SequenceTheorems

USE NoneAssumption, VersionAssumption, KeyAssumption, PlanAssumption,
    BuildersAssumption, MaxBuildsAssumption, TargetIdsAssumption

---------------------------------------------------------------------------
(* What a step of PolicyLifecycle leaves as it is *)

\* The log only grows.
LogGrows ==
  \A i \in 1..Len(audit) : i \in 1..Len(audit') /\ audit'[i] = audit[i]

LEMMA LogOnlyGrows ==
  ASSUME Base, NEW row \in AuditRow, Log(row)
  PROVE  LogGrows
  BY LogAppended DEF LogGrows

\* A target row that is there has a system and a module.
Columns == \A t \in TargetIds : Present(t) => target[t].key \in Keys /\ target[t].rego \in Modules

LEMMA ColumnsInit == Init => Columns
  BY DEF Init, Columns, Present, NoTarget, Reviews

LEMMA PolicyStepKeeps ==
  ASSUME Base, Columns, [Next]_vars
  PROVE  NamesKept /\ LogGrows /\ Columns'
<1>1. CASE UNCHANGED <<policy, target, audit>>
  <2>1. Len(audit) \in Nat
    BY DEF Base, TypeOK
  <2> QED
    BY <1>1, <2>1 DEF NamesKept, LogGrows, Columns, Present
<1>2. ASSUME NEW n \in Names, Upload(n) PROVE NamesKept /\ LogGrows /\ Columns'
  <2>1. PICK p \in PolicyIds : Upload(n)!(p)
    BY <1>2 DEF Upload
  <2>2. Row("uploaded", p, None, None, None, 0) \in AuditRow
    BY <2>1 DEF Row, AuditRow, Actions
  <2>3. NamesKept
    BY <2>1 DEF NamesKept, Base, TypeOK
  <2>4. Columns'
    BY <2>1 DEF Columns, Present
  <2> QED
    BY <2>1, <2>2, <2>3, <2>4, LogOnlyGrows
<1>3. ASSUME NEW n \in Names, NEW k \in Keys \ SubtypedKeys, NEW m \in Modules,
             Fork(n, k, m)
      PROVE  NamesKept /\ LogGrows /\ Columns'
  <2>1. PICK p \in PolicyIds, t \in UnusedTargets : Fork(n, k, m)!(p, t)
    BY <1>3 DEF Fork
  <2>2. Row("forked", p, None, m, None, 0) \in AuditRow
    BY <2>1 DEF Row, AuditRow, Actions
  <2>3. NamesKept
    BY <2>1 DEF NamesKept, Base, TypeOK
  <2>4. \A u \in TargetIds : target'[u] = target[u]
                             \/ (target'[u].key = k /\ target'[u].rego = m)
    BY <2>1 DEF Base, TypeOK
  <2>5. Columns'
    BY <2>4 DEF Columns, Present
  <2> QED
    BY <2>1, <2>2, <2>3, <2>5, LogOnlyGrows
<1>4. ASSUME NEW w \in Workers, NEW ir \in Irs, ExtractCommit(w, ir)
      PROVE  NamesKept /\ LogGrows /\ Columns'
  <2>1. req[w].policy \in PolicyIds
    BY <1>4 DEF Base, RequestsRemainValid, RequestValid, ExtractCommit
  <2>2. Row("ir_extracted", req[w].policy, None, None, None, 0) \in AuditRow
    BY <2>1 DEF Row, AuditRow, Actions
  <2>3. NamesKept
    BY <1>4, <2>1 DEF NamesKept, ExtractCommit, Base, TypeOK, PolicyRow
  <2>4. Columns' /\ Log(Row("ir_extracted", req[w].policy, None, None, None, 0))
    BY <1>4 DEF ExtractCommit, Columns, Present
  <2> QED
    BY <2>2, <2>3, <2>4, LogOnlyGrows
<1>5. ASSUME NEW w \in Workers, GenerateCommit(w)
      PROVE  NamesKept /\ LogGrows /\ Columns'
  <2> DEFINE p == req[w].policy
             ir == req[w].ir
             seen == req[w].seen
             row == Row("rego_generated", p, None, None, None, Cardinality(Plan[ir]))
  <2>1. p \in PolicyIds /\ ir \in Irs
    BY <1>5 DEF Base, RequestsRemainValid, RequestValid, GenerateCommit
  <2>2. row \in AuditRow
    <3>1. Cardinality(Plan[ir]) \in Nat
      BY <2>1, FS_CardinalityType
    <3> QED
      BY <2>1, <3>1 DEF Row, AuditRow, Actions
  <2>3. Log(row) /\ NamesKept
    BY <1>5 DEF GenerateCommit, NamesKept
  <2> HIDE DEF row
  <2>4. LogGrows
    BY <2>2, <2>3, LogOnlyGrows
  <2>5. PICK new \in SUBSET UnusedTargets :
          \E key \in Bijection(new, KeysOf(ir)), rego \in [new -> Modules],
             review \in [new -> GeneratedReviews] :
            target' = [t \in TargetIds |->
              IF t \in new
              THEN [review |-> review[t], policy |-> p, key |-> key[t], rego |-> rego[t]]
              ELSE IF t \in seen /\ Present(t)
                   THEN [target[t] EXCEPT !.review = "deleted"]
                   ELSE target[t]]
    BY <1>5 DEF GenerateCommit
  <2>6. PICK key \in Bijection(new, KeysOf(ir)), rego \in [new -> Modules],
             review \in [new -> GeneratedReviews] :
          target' = [t \in TargetIds |->
            IF t \in new
            THEN [review |-> review[t], policy |-> p, key |-> key[t], rego |-> rego[t]]
            ELSE IF t \in seen /\ Present(t)
                 THEN [target[t] EXCEPT !.review = "deleted"]
                 ELSE target[t]]
    BY <2>5
  <2>7. \A t \in new : key[t] \in Keys /\ rego[t] \in Modules
    BY <2>1 DEF Bijection, Injection, KeysOf
  <2>8. ASSUME NEW t \in TargetIds, target'[t].review \in Reviews
        PROVE  target'[t].key \in Keys /\ target'[t].rego \in Modules
    <3>1. CASE t \in new
      BY <2>6, <2>7, <3>1
    <3>2. CASE t \notin new /\ target'[t] = target[t]
      BY <2>8, <3>2 DEF Columns, Present
    <3>3. CASE t \notin new /\ target'[t] = [target[t] EXCEPT !.review = "deleted"]
      <4>1. target[t] \in TargetRow
        BY DEF Base, TypeOK
      <4>2. target'[t].review = "deleted"
        BY <3>3, <4>1 DEF TargetRow
      <4> QED
        BY <2>8, <4>2 DEF Reviews
    <3> QED
      BY <2>6, <3>1, <3>2, <3>3
  <2>9. Columns'
    BY <2>8 DEF Columns, Present
  <2> QED
    BY <2>3, <2>4, <2>9
<1>6. ASSUME NEW w \in Workers, NEW m \in Modules, EditCommit(w, m)
      PROVE  NamesKept /\ LogGrows /\ Columns'
  <2> DEFINE t == req[w].target
  <2>1. req[w].policy \in PolicyIds /\ t \in TargetIds
    BY <1>6 DEF Base, RequestsRemainValid, RequestValid, EditCommit
  <2>2. Row("target_edited", req[w].policy, t, m, None, 0) \in AuditRow
    BY <2>1 DEF Row, AuditRow, Actions
  <2>3. /\ Log(Row("target_edited", req[w].policy, t, m, None, 0))
        /\ NamesKept
    BY <1>6 DEF EditCommit, NamesKept
  <2>4. \A u \in TargetIds \ {t} : target'[u] = target[u]
    BY <1>6, <2>1 DEF EditCommit, Base, TypeOK
  <2>5. \/ target'[t] = target[t]
        \/ target'[t].rego = m /\ target'[t].key = target[t].key /\ target[t].review \in Reviews
    <3>1. target[t] \in TargetRow
      BY <2>1 DEF Base, TypeOK
    <3>2. \/ target'[t] = target[t]
          \/ /\ target'[t] = [target[t] EXCEPT !.rego = m, !.review = ReviewAfterEdit(t)]
             /\ target[t].review \in Reviews
      BY <1>6, <2>1 DEF EditCommit, Base, TypeOK, Present
    <3> QED
      BY <3>1, <3>2 DEF TargetRow
  <2>6. Columns'
    BY <2>4, <2>5 DEF Columns, Present
  <2> QED
    BY <2>2, <2>3, <2>6, LogOnlyGrows
<1>7. ASSUME NEW w \in Workers, NEW op \in {"target_approved", "target_rejected"},
             ReviewCommit(w, op)
      PROVE  NamesKept /\ LogGrows /\ Columns'
  <2> DEFINE t == req[w].target
             row == Row(op, req[w].policy, t, target[t].rego, None, 0)
  <2>1. req[w].policy \in PolicyIds /\ t \in TargetIds
    BY <1>7 DEF Base, RequestsRemainValid, RequestValid, ReviewCommit
  <2>2. target[t] \in TargetRow /\ target[t].rego \in Modules \cup {None}
    BY <2>1 DEF Base, TypeOK, TargetRow
  <2>3. row \in AuditRow
    BY <2>1, <2>2 DEF Row, AuditRow, Actions
  <2>4. Log(row) /\ NamesKept
    BY <1>7 DEF ReviewCommit, NamesKept
  <2> HIDE DEF row
  <2>5. LogGrows
    BY <2>3, <2>4, LogOnlyGrows
  <2>6. \A u \in TargetIds \ {t} : target'[u] = target[u]
    BY <1>7, <2>1 DEF ReviewCommit, Base, TypeOK
  <2>7. /\ target'[t].rego = target[t].rego /\ target'[t].key = target[t].key
        /\ target[t].review \in Reviews
    <3>1. target'[t] = [target[t] EXCEPT !.review = Verdict[op]]
      BY <1>7, <2>1 DEF ReviewCommit, Base, TypeOK
    <3> QED
      BY <1>7, <2>2, <3>1 DEF TargetRow, ReviewCommit, Present
  <2>8. Columns'
    BY <2>6, <2>7 DEF Columns, Present
  <2> QED
    BY <2>4, <2>5, <2>8
<1>8. ASSUME NEW w \in Workers, PublishCommit(w)
      PROVE  NamesKept /\ LogGrows /\ Columns'
  <2>1. req[w].policy \in PolicyIds
    BY <1>8, Publishers DEF PublishCommit
  <2>2. Row("published", req[w].policy, None, None, None, 0) \in AuditRow
    BY <2>1 DEF Row, AuditRow, Actions
  <2>3. NamesKept
    BY <1>8, <2>1 DEF NamesKept, PublishCommit, Base, TypeOK, PolicyRow
  <2>4. Columns' /\ Log(Row("published", req[w].policy, None, None, None, 0))
    BY <1>8 DEF PublishCommit, Columns, Present
  <2> QED
    BY <2>2, <2>3, <2>4, LogOnlyGrows
<1>9. ASSUME NEW w \in Workers, RepublishCommit(w)
      PROVE  NamesKept /\ LogGrows /\ Columns'
  <2>1. PICK q \in PolicyIds, new \in SUBSET UnusedTargets :
          \E source \in Bijection(new, TargetsOf(req[w].policy)) :
            SuccessorOf(w, q, new, source)
    BY <1>9, RepublishWrites
  <2>2. PICK source \in Bijection(new, TargetsOf(req[w].policy)) :
          SuccessorOf(w, q, new, source)
    BY <2>1
  <2>3. req[w].policy \in PolicyIds
    BY <1>9 DEF Base, RequestsRemainValid, RequestValid, RepublishCommit
  <2>4. Row("republished_from", q, None, None, req[w].policy, 0) \in AuditRow
    BY <2>3 DEF Row, AuditRow, Actions
  <2>5. /\ Log(Row("republished_from", q, None, None, req[w].policy, 0))
        /\ NamesKept
    BY <2>2 DEF SuccessorOf, NamesKept, Base, TypeOK
  <2>6. \A t \in TargetIds :
          target'[t] = IF t \in new THEN [target[source[t]] EXCEPT !.policy = q]
                       ELSE target[t]
    BY <2>2 DEF SuccessorOf
  <2>7. ASSUME NEW t \in TargetIds, target'[t].review \in Reviews
        PROVE  target'[t].key \in Keys /\ target'[t].rego \in Modules
    <3>1. CASE t \in new
      <4>1. source[t] \in TargetIds /\ Present(source[t]) /\ target[source[t]] \in TargetRow
        BY <3>1 DEF Bijection, Injection, TargetsOf, Base, TypeOK
      <4>2. /\ target'[t].key = target[source[t]].key
            /\ target'[t].rego = target[source[t]].rego
        BY <2>6, <3>1, <4>1 DEF TargetRow
      <4> QED
        BY <4>1, <4>2 DEF Columns
    <3>2. CASE t \notin new
      BY <2>6, <2>7, <3>2 DEF Columns, Present
    <3> QED
      BY <3>1, <3>2
  <2>8. Columns'
    BY <2>7 DEF Columns, Present
  <2> QED
    BY <2>4, <2>5, <2>8, LogOnlyGrows
<1> QED
  BY <1>1, <1>2, <1>3, <1>4, <1>5, <1>6, <1>7, <1>8, <1>9, Transactions

---------------------------------------------------------------------------
(* The invariant *)

\* f's policy was published, and f's module approved under the policy's name.
FileShipped(f) ==
  /\ \E k \in 1..Len(audit) :
       audit[k].action = "published" /\ audit[k].policy = f.policy
  /\ \E k \in 1..Len(audit) :
       /\ audit[k].action = "target_approved"
       /\ audit[k].rego = f.rego
       /\ policy[audit[k].policy].name = policy[f.policy].name

BundleRow == [files: SUBSET BundleFile, count: Nat, excluded: Nat, builtAt: 1..clock]

BuildRow == [phase: {"idle", "read", "begun"}, files: SUBSET BundleFile,
             count: Nat, excluded: Nat, began: 0..MaxBuilds]

\* BundleTypeOK, and a build that began has the time it began.
BundleTyped ==
  /\ clock \in 0..MaxBuilds
  /\ bundles \in Seq(BundleRow)
  /\ build \in [Builders -> BuildRow]
  /\ \A b \in Builders : build[b].phase = "begun" => build[b].began \in 1..clock
  /\ \A t \in TargetIds :
       stamp[t] # None => \E i \in 1..Len(bundles) : stamp[t] = bundles[i].files

\* What is stored, and what running builds are about to store, may ship.
AllShipped ==
  /\ \A i \in 1..Len(bundles) : \A f \in bundles[i].files : FileShipped(f)
  /\ \A b \in Builders : \A f \in build[b].files : FileShipped(f)

\* Only rows that were created carry a stamp, and their policies are published.
StampsPublished ==
  \A t \in TargetIds : stamp[t] # None =>
    /\ target[t].review # "absent"
    /\ policy[target[t].policy].status = "published"

BundleInv == BundleTyped /\ AllShipped /\ StampsPublished

\* What PolicyLifecycle guarantees of the tables a build reads.
Tables == Base /\ Reviewed /\ PublishedOnce /\ Columns

\* The tenant's policies run exactly as they do without builds: BundleDelivery only
\* adds readers, so all that is proved of PolicyLifecycle holds under it.
THEOREM BundlesOnlyRead == BundleSpec => Spec
<1>1. BundleInit => Init
  BY DEF BundleInit
<1>2. [BundleNext]_allVars => [Next]_vars
  BY DEF BundleNext, allVars, vars
<1> QED
  BY <1>1, <1>2, PTL DEF BundleSpec, Spec

LEMMA TablesAlways == BundleSpec => []Tables
<1>1. Base /\ Columns /\ [Next]_vars => Columns'
  BY PolicyStepKeeps
<1>2. Spec => []Columns
  BY BaseInvariant, ColumnsInit, <1>1, PTL DEF Spec
<1>3. Base /\ Reviewed /\ PublishedOnce /\ Columns => Tables
  BY DEF Tables
<1> QED
  BY <1>2, <1>3, BundlesOnlyRead, BaseInvariant, ReviewedAlways, PolicyIsPublishedOnce, PTL

LEMMA BundleInvInit == BundleInit => BundleInv
<1> SUFFICES ASSUME BundleInit PROVE BundleInv
  OBVIOUS
<1>1. bundles = << >> /\ clock = 0 /\ Len(bundles) = 0
  BY DEF BundleInit
<1>2. bundles \in Seq(BundleRow)
  BY <1>1
<1>3. NoBuild \in BuildRow /\ NoBuild.files = {} /\ NoBuild.phase = "idle"
  BY DEF NoBuild, BuildRow
<1>4. BundleTyped
  BY <1>1, <1>2, <1>3 DEF BundleInit, BundleTyped
<1>5. AllShipped /\ StampsPublished
  BY <1>1, <1>3 DEF BundleInit, AllShipped, StampsPublished
<1> QED
  BY <1>4, <1>5 DEF BundleInv

\* Once a file may ship it always may: rows stay in the log, names stay.
LEMMA ShippedStays ==
  ASSUME Base, NamesKept, LogGrows, NEW f, FileShipped(f)
  PROVE  FileShipped(f)'
<1>1. PICK i \in 1..Len(audit) :
        audit[i].action = "published" /\ audit[i].policy = f.policy
  BY DEF FileShipped
<1>2. PICK k \in 1..Len(audit) :
        /\ audit[k].action = "target_approved"
        /\ audit[k].rego = f.rego
        /\ policy[audit[k].policy].name = policy[f.policy].name
  BY DEF FileShipped
<1>3. /\ i \in 1..Len(audit') /\ audit'[i] = audit[i]
      /\ k \in 1..Len(audit') /\ audit'[k] = audit[k]
  BY DEF LogGrows
<1>4. /\ audit[i].policy \in PolicyIds /\ Exists(audit[i].policy)
      /\ audit[k].policy \in PolicyIds /\ Exists(audit[k].policy)
  <2>1. audit[i] \in AuditRow /\ audit[k] \in AuditRow
    BY DEF Base, TypeOK
  <2>2. Exists(audit[i].policy) /\ Exists(audit[k].policy)
    BY DEF Base, ReferencesHold
  <2> QED
    BY <2>1, <2>2 DEF AuditRow
<1>5. policy'[audit[k].policy].name = policy'[f.policy].name
  BY <1>1, <1>2, <1>4 DEF NamesKept
<1> QED
  BY <1>1, <1>2, <1>3, <1>5 DEF FileShipped

\* While requests of PolicyLifecycle go on, what was built stays reviewed.
LEMMA PolicyStepKeepsBundles ==
  ASSUME Tables, BundleInv, [Next]_vars, UNCHANGED bundleVars
  PROVE  BundleInv'
<1>1. NamesKept /\ LogGrows
  BY PolicyStepKeeps DEF Tables
<1>2. BundleTyped'
  BY DEF BundleInv, BundleTyped, bundleVars, BundleRow
<1>3. AllShipped'
  <2>1. bundles' = bundles /\ build' = build
    BY DEF bundleVars
  <2>2. ASSUME NEW i \in 1..Len(bundles), NEW f \in bundles[i].files
        PROVE  FileShipped(f)'
    BY <1>1, <2>2, ShippedStays DEF Tables, BundleInv, AllShipped
  <2>3. ASSUME NEW b \in Builders, NEW f \in build[b].files PROVE FileShipped(f)'
    BY <1>1, <2>3, ShippedStays DEF Tables, BundleInv, AllShipped
  <2> QED
    BY <2>1, <2>2, <2>3 DEF AllShipped
<1>4. StampsPublished'
  <2> SUFFICES ASSUME NEW t \in TargetIds, stamp'[t] # None
               PROVE  /\ target'[t].review # "absent"
                      /\ policy'[target'[t].policy].status = "published"
    BY DEF StampsPublished
  <2>1. /\ target[t].review # "absent"
        /\ policy[target[t].policy].status = "published"
    BY DEF BundleInv, StampsPublished, bundleVars
  <2>2. target[t].policy \in PolicyIds
    BY <2>1 DEF Tables, Base, ReferencesHold
  <2> QED
    BY <2>1, <2>2, StepsAreHarmless DEF Tables, Harmless
<1> QED
  BY <1>2, <1>3, <1>4 DEF BundleInv

---------------------------------------------------------------------------
(* The steps of a build *)

\* An included row belongs to a published policy and holds an approved module.
LEMMA IncludedShips ==
  ASSUME Tables, NEW t \in Included
  PROVE  File(t) \in BundleFile /\ FileShipped(File(t))
<1>1. /\ t \in TargetIds /\ Present(t) /\ target[t].review = "approved"
      /\ policy[target[t].policy].status = "published"
  BY DEF Included, Shipping
<1>2. target[t].policy \in PolicyIds
  BY <1>1 DEF Tables, Base, ReferencesHold, Present, Reviews
<1>3. \E k \in 1..Len(audit) :
        audit[k].action = "published" /\ audit[k].policy = target[t].policy
  BY <1>1, <1>2 DEF Tables, PublishedOnce
<1>4. \E k \in 1..Len(audit) :
        /\ audit[k].action = "target_approved"
        /\ audit[k].rego = target[t].rego
        /\ policy[audit[k].policy].name = policy[target[t].policy].name
  BY <1>1 DEF Tables, Reviewed, ApprovedWasReviewed
<1> QED
  BY <1>1, <1>2, <1>3, <1>4 DEF File, FileShipped, BundleFile, Tables, Columns

\* Replacing what one build remembers.
LEMMA BuildRemembers ==
  ASSUME BundleTyped, NEW b \in Builders, NEW r \in BuildRow,
         build' = [build EXCEPT ![b] = r]
  PROVE  /\ build' \in [Builders -> BuildRow]
         /\ build'[b] = r
         /\ \A c \in Builders \ {b} : build'[c] = build[c]
  BY DEF BundleTyped

LEMMA ReadKeeps ==
  ASSUME Tables, BundleInv, NEW b \in Builders, BuildRead(b), UNCHANGED vars
  PROVE  BundleInv'
<1>1. PICK files \in FilesOf(Included) :
        build' = [build EXCEPT ![b] =
          [NoBuild EXCEPT !.phase = "read", !.files = files,
                          !.count = Cardinality(Included),
                          !.excluded = Cardinality(Shipping \ Included)]]
  BY DEF BuildRead
<1> DEFINE r == [NoBuild EXCEPT !.phase = "read", !.files = files,
                                !.count = Cardinality(Included),
                                !.excluded = Cardinality(Shipping \ Included)]
<1>2. \A f \in files : \E t \in Included : f = File(t)
  BY DEF FilesOf
<1>3. files \in SUBSET BundleFile /\ \A f \in files : FileShipped(f)
  BY <1>2, IncludedShips
<1>4. Cardinality(Included) \in Nat /\ Cardinality(Shipping \ Included) \in Nat
  <2>1. Included \subseteq TargetIds /\ Shipping \ Included \subseteq TargetIds
    BY DEF Included, Shipping
  <2> QED
    BY <2>1, FS_Subset, FS_CardinalityType
<1>5. r \in BuildRow /\ r.phase = "read" /\ r.files = files
  <2> DEFINE n == Cardinality(Included)
             m == Cardinality(Shipping \ Included)
  <2>1. n \in Nat /\ m \in Nat
    BY <1>4
  <2>2. r = [NoBuild EXCEPT !.phase = "read", !.files = files, !.count = n, !.excluded = m]
    OBVIOUS
  <2> HIDE DEF n, m, r
  <2>3. r = [phase |-> "read", files |-> files, count |-> n, excluded |-> m, began |-> 0]
    BY <2>2 DEF NoBuild
  <2> QED
    BY <1>3, <2>1, <2>3 DEF BuildRow
<1>6. build' = [build EXCEPT ![b] = r]
  BY <1>1
<1> HIDE DEF r
<1>7. UNCHANGED <<bundles, stamp, clock, audit, policy, target>>
  BY DEF BuildRead, vars
<1>8. /\ build' \in [Builders -> BuildRow]
      /\ build'[b] = r
      /\ \A c \in Builders \ {b} : build'[c] = build[c]
  BY <1>5, <1>6, BuildRemembers DEF BundleInv
<1>9. BundleTyped'
  BY <1>5, <1>7, <1>8 DEF BundleInv, BundleTyped, BundleRow, BuildRow
<1>10. AllShipped'
  BY <1>3, <1>5, <1>7, <1>8 DEF BundleInv, AllShipped, FileShipped
<1>11. StampsPublished'
  BY <1>7 DEF BundleInv, StampsPublished
<1> QED
  BY <1>9, <1>10, <1>11 DEF BundleInv

LEMMA BeginKeeps ==
  ASSUME Tables, BundleInv, NEW b \in Builders, BuildBegin(b), UNCHANGED vars
  PROVE  BundleInv'
<1> DEFINE r == [build[b] EXCEPT !.phase = "begun", !.began = clock + 1]
<1>1. /\ clock \in 0..MaxBuilds /\ clock < MaxBuilds /\ clock' = clock + 1
      /\ build[b] \in BuildRow
  BY DEF BundleInv, BundleTyped, BuildBegin
<1>2. r \in BuildRow /\ r.began = clock + 1 /\ r.files = build[b].files
  <2>1. clock + 1 \in 0..MaxBuilds
    BY <1>1
  <2> QED
    BY <1>1, <2>1 DEF BuildRow
<1>3. build' = [build EXCEPT ![b] = r]
  BY <1>1 DEF BuildBegin, BundleInv, BundleTyped
<1> HIDE DEF r
<1>4. UNCHANGED <<bundles, stamp, audit, policy, target>>
  BY DEF BuildBegin, vars
<1>5. /\ build' \in [Builders -> BuildRow]
      /\ build'[b] = r
      /\ \A c \in Builders \ {b} : build'[c] = build[c]
  BY <1>2, <1>3, BuildRemembers DEF BundleInv
<1>6. BundleTyped'
  <2>1. BundleRow \subseteq BundleRow'
    BY <1>1 DEF BundleRow
  <2>2. bundles' \in Seq(BundleRow')
    BY <1>4, <2>1 DEF BundleInv, BundleTyped
  <2>3. \A c \in Builders : build'[c].phase = "begun" => build'[c].began \in 1..clock'
    <3> SUFFICES ASSUME NEW c \in Builders, build'[c].phase = "begun"
                 PROVE  build'[c].began \in 1..clock'
      OBVIOUS
    <3>1. CASE c = b
      BY <1>1, <1>2, <1>5, <3>1
    <3>2. CASE c # b
      <4>1. build[c].began \in 1..clock
        BY <1>5, <3>2 DEF BundleInv, BundleTyped
      <4> QED
        BY <1>1, <1>5, <3>2, <4>1
    <3> QED
      BY <3>1, <3>2
  <2>4. clock' \in 0..MaxBuilds
    BY <1>1
  <2>5. \A t \in TargetIds :
          stamp'[t] # None => \E i \in 1..Len(bundles') : stamp'[t] = bundles'[i].files
    BY <1>4 DEF BundleInv, BundleTyped
  <2>6. BuildRow' = BuildRow
    BY DEF BuildRow, BundleFile
  <2> QED
    BY <1>5, <2>2, <2>3, <2>4, <2>5, <2>6 DEF BundleTyped
<1>7. AllShipped'
  BY <1>2, <1>4, <1>5 DEF BundleInv, AllShipped, FileShipped
<1>8. StampsPublished'
  BY <1>4 DEF BundleInv, StampsPublished
<1> QED
  BY <1>6, <1>7, <1>8 DEF BundleInv

LEMMA CommitKeeps ==
  ASSUME Tables, BundleInv, NEW b \in Builders, BuildCommit(b), UNCHANGED vars
  PROVE  BundleInv'
<1> DEFINE r == build[b]
           row == [files |-> r.files, count |-> r.count, excluded |-> r.excluded,
                   builtAt |-> r.began]
<1>1. /\ r \in BuildRow /\ r.phase = "begun" /\ r.began \in 1..clock
      /\ bundles \in Seq(BundleRow)
  BY DEF BundleInv, BundleTyped, BuildCommit
<1>2. row \in BundleRow /\ row.files = r.files
  BY <1>1 DEF BuildRow, BundleRow
<1>3. bundles' = Append(bundles, row)
  BY DEF BuildCommit
<1>4. \A f \in r.files : FileShipped(f)
  BY DEF BundleInv, AllShipped
<1>5. stamp' = [t \in TargetIds |-> IF t \in Stamped THEN r.files ELSE stamp[t]]
  BY DEF BuildCommit
<1>6. UNCHANGED <<clock, audit, policy, target>>
  BY DEF BuildCommit, vars
<1>7. /\ build' \in [Builders -> BuildRow]
      /\ build'[b] = NoBuild
      /\ \A c \in Builders \ {b} : build'[c] = build[c]
  <2>1. NoBuild \in BuildRow
    BY DEF NoBuild, BuildRow
  <2> QED
    BY <2>1, BuildRemembers DEF BundleInv, BuildCommit
<1> HIDE DEF row
<1>8. /\ bundles' \in Seq(BundleRow)
      /\ Len(bundles) \in Nat /\ Len(bundles') = Len(bundles) + 1
      /\ \A i \in 1..Len(bundles) : bundles'[i] = bundles[i]
      /\ bundles'[Len(bundles) + 1] = row
  BY <1>1, <1>2, <1>3
<1>9. BundleTyped'
  <2>1. \A c \in Builders : build'[c].phase = "begun" => build'[c].began \in 1..clock'
    BY <1>6, <1>7 DEF BundleInv, BundleTyped, NoBuild
  <2>2. ASSUME NEW t \in TargetIds, stamp'[t] # None
        PROVE  \E i \in 1..Len(bundles') : stamp'[t] = bundles'[i].files
    <3>1. CASE t \in Stamped
      <4>1. stamp'[t] = r.files
        BY <1>5, <3>1
      <4>2. Len(bundles) + 1 \in 1..Len(bundles')
        BY <1>8
      <4> QED
        BY <1>2, <1>8, <4>1, <4>2
    <3>2. CASE t \notin Stamped
      <4>1. stamp'[t] = stamp[t]
        BY <1>5, <3>2
      <4>2. PICK i \in 1..Len(bundles) : stamp[t] = bundles[i].files
        BY <2>2, <4>1 DEF BundleInv, BundleTyped
      <4> QED
        BY <1>8, <4>1, <4>2
    <3> QED
      BY <3>1, <3>2
  <2> QED
    BY <1>6, <1>7, <1>8, <2>1, <2>2 DEF BundleInv, BundleTyped, BundleRow, BuildRow
<1>10. AllShipped'
  <2>1. \A f : FileShipped(f) => FileShipped(f)'
    BY <1>6 DEF FileShipped
  <2>2. \A i \in 1..Len(bundles') : \A f \in bundles'[i].files : FileShipped(f)
    <3>1. ASSUME NEW i \in 1..Len(bundles'), NEW f \in bundles'[i].files
          PROVE  FileShipped(f)
      <4>1. CASE i \in 1..Len(bundles)
        BY <1>8, <3>1, <4>1 DEF BundleInv, AllShipped
      <4>2. CASE i = Len(bundles) + 1
        BY <1>2, <1>4, <1>8, <3>1, <4>2
      <4> QED
        BY <1>8, <4>1, <4>2
    <3> QED
      BY <3>1
  <2>3. \A c \in Builders : \A f \in build'[c].files : FileShipped(f)
    BY <1>7 DEF BundleInv, AllShipped, NoBuild
  <2> QED
    BY <2>1, <2>2, <2>3 DEF AllShipped
<1>11. StampsPublished'
  <2> SUFFICES ASSUME NEW t \in TargetIds, stamp'[t] # None
               PROVE  /\ target[t].review # "absent"
                      /\ policy[target[t].policy].status = "published"
    BY <1>6 DEF StampsPublished
  <2>1. CASE t \in Stamped
    BY <2>1 DEF Stamped, Included, Shipping
  <2>2. CASE t \notin Stamped
    BY <1>5, <2>2 DEF BundleInv, StampsPublished
  <2> QED
    BY <2>1, <2>2
<1> QED
  BY <1>9, <1>10, <1>11 DEF BundleInv

LEMMA FailKeeps ==
  ASSUME Tables, BundleInv, NEW b \in Builders, BuildFail(b), UNCHANGED vars
  PROVE  BundleInv'
<1>1. NoBuild \in BuildRow /\ NoBuild.phase = "idle" /\ NoBuild.files = {}
  BY DEF NoBuild, BuildRow
<1>2. UNCHANGED <<bundles, stamp, clock, audit, policy, target>>
  BY DEF BuildFail, vars
<1>3. /\ build' \in [Builders -> BuildRow]
      /\ build'[b] = NoBuild
      /\ \A c \in Builders \ {b} : build'[c] = build[c]
  BY <1>1, BuildRemembers DEF BundleInv, BuildFail
<1>4. BundleTyped'
  <2>1. \A c \in Builders : build'[c].phase = "begun" => build'[c].began \in 1..clock'
    BY <1>1, <1>2, <1>3 DEF BundleInv, BundleTyped
  <2> QED
    BY <1>2, <1>3, <2>1 DEF BundleInv, BundleTyped, BundleRow, BuildRow
<1>5. AllShipped'
  BY <1>1, <1>2, <1>3 DEF BundleInv, AllShipped, FileShipped
<1>6. StampsPublished'
  BY <1>2 DEF BundleInv, StampsPublished
<1> QED
  BY <1>4, <1>5, <1>6 DEF BundleInv

LEMMA BundleInvAlways == BundleSpec => []BundleInv
<1>1. Tables /\ BundleInv /\ [BundleNext]_allVars => BundleInv'
  <2> SUFFICES ASSUME Tables, BundleInv, [BundleNext]_allVars PROVE BundleInv'
    OBVIOUS
  <2>1. CASE [Next]_vars /\ UNCHANGED bundleVars
    BY <2>1, PolicyStepKeepsBundles
  <2>2. ASSUME NEW b \in Builders, Build(b), UNCHANGED vars PROVE BundleInv'
    BY <2>2, ReadKeeps, BeginKeeps, CommitKeeps, FailKeeps DEF Build
  <2> QED
    BY <2>1, <2>2 DEF BundleNext, allVars, vars, bundleVars
<1> QED
  BY <1>1, TablesAlways, BundleInvInit, PTL DEF BundleSpec

---------------------------------------------------------------------------
(* What follows *)

\* Bundles, stamps and running builds have their types, and every stamp is the
\* content of a stored bundle.
THEOREM BundlesAreTyped == BundleSpec => []BundleTypeOK
<1>1. BundleInv => BundleTypeOK
  BY DEF BundleInv, BundleTyped, BundleTypeOK, BundleRow, BuildRow
<1> QED
  BY BundleInvAlways, <1>1, PTL

\* Whatever is edited, rejected or regenerated while a bundle is being built,
\* what it ships was approved, and its policies were published.
THEOREM BundlesHoldReviewedContent == BundleSpec => []BundleContentReviewed
<1>1. BundleInv => BundleContentReviewed
  BY DEF BundleInv, AllShipped, FileShipped, BundleContentReviewed
<1> QED
  BY BundleInvAlways, <1>1, PTL

\* No target of a draft is marked as shipped.
THEOREM StampedTargetsArePublished == BundleSpec => []StampedWasPublished
<1>1. BundleInv => StampedWasPublished
  BY DEF BundleInv, StampsPublished, StampedWasPublished
<1> QED
  BY BundleInvAlways, <1>1, PTL

---------------------------------------------------------------------------
(* The bundle that is served *)

\* Once there are bundles, one of them is the newest.  Stated as an invariant, so
\* that the steps, rather than an induction over the sequence, establish it.
NewestExists ==
  bundles # << >> =>
    \E i \in 1..Len(bundles) :
      \A j \in 1..Len(bundles) : bundles[j].builtAt <= bundles[i].builtAt

LEMMA CurrentIsNewest ==
  ASSUME NewestExists, bundles # << >>
  PROVE  /\ Current \in 1..Len(bundles)
         /\ \A j \in 1..Len(bundles) : bundles[j].builtAt <= bundles[Current].builtAt
  BY DEF NewestExists, Current

\* The steps that leave the bundles alone, and the one that adds a bundle.
LEMMA BundlesGrow ==
  ASSUME BundleInv, [BundleNext]_allVars
  PROVE  \/ UNCHANGED bundles
         \/ \E row \in BundleRow : bundles' = Append(bundles, row)
<1>1. ASSUME NEW b \in Builders, BuildCommit(b)
      PROVE  \E row \in BundleRow : bundles' = Append(bundles, row)
  <2> DEFINE r == build[b]
  <2>1. r \in BuildRow /\ r.began \in 1..clock
    BY <1>1 DEF BundleInv, BundleTyped, BuildCommit
  <2>2. [files |-> r.files, count |-> r.count, excluded |-> r.excluded,
         builtAt |-> r.began] \in BundleRow
    BY <2>1 DEF BuildRow, BundleRow
  <2> QED
    BY <1>1, <2>2 DEF BuildCommit
<1>2. ASSUME NEW b \in Builders, BuildRead(b) \/ BuildBegin(b) \/ BuildFail(b)
      PROVE  UNCHANGED bundles
  BY <1>2 DEF BuildRead, BuildBegin, BuildFail
<1> QED
  BY <1>1, <1>2 DEF BundleNext, Build, allVars, bundleVars

\* The bundles after one was added.
LEMMA BundleAppended ==
  ASSUME BundleInv, NEW row \in BundleRow, bundles' = Append(bundles, row)
  PROVE  /\ Len(bundles) \in Nat /\ Len(bundles') = Len(bundles) + 1
         /\ bundles'[Len(bundles) + 1] = row
         /\ \A i \in 1..Len(bundles) :
              bundles'[i] = bundles[i] /\ bundles[i].builtAt \in Nat
         /\ row.builtAt \in Nat
<1>1. bundles \in Seq(BundleRow) /\ clock \in Nat
  BY DEF BundleInv, BundleTyped
<1>2. \A i \in 1..Len(bundles) : bundles[i] \in BundleRow
  BY <1>1
<1>3. \A r \in BundleRow : r.builtAt \in Nat
  BY <1>1 DEF BundleRow
<1> QED
  BY <1>1, <1>2, <1>3

LEMMA NewestStep ==
  ASSUME BundleInv, NewestExists, [BundleNext]_allVars
  PROVE  NewestExists'
<1>1. CASE UNCHANGED bundles
  BY <1>1 DEF NewestExists
<1>2. ASSUME NEW row \in BundleRow, bundles' = Append(bundles, row)
      PROVE  NewestExists'
  <2> DEFINE last == Len(bundles) + 1
  <2>1. /\ Len(bundles) \in Nat /\ Len(bundles') = last /\ bundles'[last] = row
        /\ \A i \in 1..Len(bundles) :
             bundles'[i] = bundles[i] /\ bundles[i].builtAt \in Nat
        /\ row.builtAt \in Nat
    BY <1>2, BundleAppended
  <2>2. \A j \in 1..last : j \in 1..Len(bundles) \/ j = last
    BY <2>1
  <2>3. last \in 1..last /\ \A j \in 1..Len(bundles) : j \in 1..last
    BY <2>1
  <2>4. CASE bundles = << >>
    <3>1. 1..Len(bundles) = {}
      BY <2>4
    <3>2. \A j \in 1..last : bundles'[j].builtAt <= bundles'[last].builtAt
      BY <2>1, <2>2, <3>1
    <3> QED
      BY <2>1, <2>3, <3>2 DEF NewestExists
  <2>5. CASE bundles # << >>
    <3>1. PICK i \in 1..Len(bundles) :
            \A j \in 1..Len(bundles) : bundles[j].builtAt <= bundles[i].builtAt
      BY <2>5 DEF NewestExists
    <3>2. CASE row.builtAt <= bundles[i].builtAt
      <4>1. \A j \in 1..last : bundles'[j].builtAt <= bundles'[i].builtAt
        BY <2>1, <2>2, <3>1, <3>2
      <4> QED
        BY <2>1, <2>3, <4>1 DEF NewestExists
    <3>3. CASE ~(row.builtAt <= bundles[i].builtAt)
      <4>1. \A j \in 1..Len(bundles) : bundles[j].builtAt <= row.builtAt
        BY <2>1, <3>1, <3>3
      <4>2. \A j \in 1..last : bundles'[j].builtAt <= bundles'[last].builtAt
        BY <2>1, <2>2, <4>1
      <4> QED
        BY <2>1, <2>3, <4>2 DEF NewestExists
    <3> QED
      BY <3>2, <3>3
  <2> QED
    BY <2>4, <2>5
<1> QED
  BY <1>1, <1>2, BundlesGrow

\* The served bundle's build time never decreases, in whatever order builds that
\* overlap begin and commit.
THEOREM CurrentOnlyMovesForward == BundleSpec => CurrentNeverGoesBack
<1> DEFINE Forward ==
      bundles # << >> => bundles'[Current'].builtAt >= bundles[Current].builtAt
<1>1. BundleInv /\ NewestExists /\ NewestExists' /\ [BundleNext]_allVars
        => [Forward]_allVars
  <2> SUFFICES ASSUME BundleInv, NewestExists, NewestExists', [BundleNext]_allVars,
                      bundles # << >>
               PROVE  bundles'[Current'].builtAt >= bundles[Current].builtAt
    OBVIOUS
  <2>1. Current \in 1..Len(bundles)
    BY CurrentIsNewest
  <2>2. bundles \in Seq(BundleRow) /\ clock \in Nat
    BY DEF BundleInv, BundleTyped
  <2>3. bundles[Current] \in BundleRow
    BY <2>1, <2>2
  <2>4. bundles[Current].builtAt \in Nat
    BY <2>2, <2>3 DEF BundleRow
  <2>5. CASE UNCHANGED bundles
    BY <2>4, <2>5 DEF Current
  <2>6. ASSUME NEW row \in BundleRow, bundles' = Append(bundles, row)
        PROVE  bundles'[Current'].builtAt >= bundles[Current].builtAt
    <3> DEFINE c == Current
               d == Current'
    <3>1. /\ Len(bundles) \in Nat /\ Len(bundles') = Len(bundles) + 1
          /\ bundles'[Len(bundles) + 1] = row /\ row.builtAt \in Nat
          /\ \A i \in 1..Len(bundles) :
               bundles'[i] = bundles[i] /\ bundles[i].builtAt \in Nat
      BY <2>6, BundleAppended
    <3>2. PICK i \in 1..Len(bundles') :
            \A j \in 1..Len(bundles') : bundles'[j].builtAt <= bundles'[i].builtAt
      <4>1. bundles' # << >>
        BY <3>1
      <4> QED
        BY <4>1 DEF NewestExists
    <3>3. /\ d \in 1..Len(bundles')
          /\ \A j \in 1..Len(bundles') : bundles'[j].builtAt <= bundles'[d].builtAt
      BY <3>2 DEF Current
    <3> HIDE DEF c, d
    <3>4. c \in 1..Len(bundles) /\ c \in 1..Len(bundles')
      BY <2>1, <3>1 DEF c
    <3>5. bundles'[c] = bundles[c] /\ bundles'[c].builtAt <= bundles'[d].builtAt
      BY <3>1, <3>3, <3>4
    <3>6. bundles'[d].builtAt \in Nat
      <4>1. d \in 1..Len(bundles) \/ d = Len(bundles) + 1
        BY <3>1, <3>3
      <4> QED
        BY <3>1, <4>1
    <3>7. bundles'[d].builtAt >= bundles[c].builtAt
      BY <3>1, <3>4, <3>5, <3>6
    <3> QED
      BY <3>7 DEF c, d
  <2> QED
    BY <2>5, <2>6, BundlesGrow
<1>2. BundleInit => NewestExists
  BY DEF BundleInit, NewestExists
<1>3. BundleSpec => []NewestExists
  BY <1>2, BundleInvAlways, NewestStep, PTL DEF BundleSpec
<1> QED
  BY <1>1, <1>3, BundleInvAlways, PTL DEF BundleSpec, CurrentNeverGoesBack

---------------------------------------------------------------------------
(* The pipeline keeps its promise *)

NameOf == [p \in PolicyIds |-> policy[p].name]
Released == {p \in PolicyIds : policy[p].status = "published"}
Shipped == [i \in 1..Len(bundles) |-> bundles[i].files]
promiseVars == <<NameOf, Approvals, Released, Shipped>>

\* The steps of the promise, said of the tables.
LEMMA PromiseIs ==
  /\ NameOf \in [PolicyIds -> Names \cup {None}] /\ Approvals = {} /\ Released = {}
     /\ Shipped = << >>
       => Promise!Init
  /\ \A p \in PolicyIds, n \in Names :
       NameOf[p] = None /\ NameOf' = [NameOf EXCEPT ![p] = n]
       /\ UNCHANGED <<Approvals, Released, Shipped>>
         => Promise!Next
  /\ \A p \in PolicyIds, m \in Modules :
       NameOf[p] # None /\ Approvals' = Approvals \cup {<<NameOf[p], m>>}
       /\ UNCHANGED <<NameOf, Released, Shipped>>
         => Promise!Next
  /\ \A p \in PolicyIds, m \in Modules :
       p \notin Released /\ <<NameOf[p], m>> \in Approvals /\ Released' = Released \cup {p}
       /\ UNCHANGED <<NameOf, Approvals, Shipped>>
         => Promise!Next
  /\ \A files \in SUBSET BundleFile :
       (\A f \in files : f.policy \in Released /\ <<NameOf[f.policy], f.rego>> \in Approvals)
       /\ Shipped' = Append(Shipped, files) /\ UNCHANGED <<NameOf, Approvals, Released>>
         => Promise!Next
  /\ UNCHANGED promiseVars => UNCHANGED Promise!releaseVars
  BY DEF NameOf, Released, Shipped, promiseVars, BundleFile, Promise!Init, Promise!Next,
     Promise!Open, Promise!Approve, Promise!Release, Promise!Ship, Promise!Files,
     Promise!MayShip, Promise!releaseVars

\* A policy has a name from the moment it exists.
Named ==
  \A p \in PolicyIds : IF Exists(p) THEN policy[p].name \in Names ELSE policy[p].name = None

\* A module was approved under the name of policy p.
Vouched(p) ==
  \E k \in 1..Len(audit) :
    /\ audit[k].action = "target_approved"
    /\ audit[k].rego \in Modules
    /\ policy[audit[k].policy].name = policy[p].name

\* What a publish request counted when it took the lock still vouches for its policy.
PublishersVouched ==
  \A w \in Workers : req[w].op = "publish" => Vouched(req[w].policy)

PromiseInv == Named /\ PublishersVouched

\* What a row adds to the approvals.
LEMMA RowApproves ==
  ASSUME Base, NamesKept, NEW row \in AuditRow, Log(row)
  PROVE  Approvals' = IF row.action = "target_approved"
                      THEN Approvals \cup {<<policy'[row.policy].name, row.rego>>}
                      ELSE Approvals
<1>1. \A k \in 1..Len(audit) :
        /\ audit[k].policy \in PolicyIds
        /\ policy'[audit[k].policy].name = policy[audit[k].policy].name
  <2> TAKE k \in 1..Len(audit)
  <2>1. audit[k] \in AuditRow /\ Exists(audit[k].policy)
    BY DEF Base, TypeOK, ReferencesHold
  <2> QED
    BY <2>1 DEF AuditRow, NamesKept
<1>2. /\ \A k \in 1..Len(audit') :
           \/ k \in 1..Len(audit) /\ audit'[k] = audit[k]
           \/ k = Len(audit) + 1 /\ audit'[k] = row
      /\ \A k \in 1..Len(audit) : k \in 1..Len(audit') /\ audit'[k] = audit[k]
      /\ Len(audit) + 1 \in 1..Len(audit') /\ audit'[Len(audit) + 1] = row
  BY LogAppended
<1> DEFINE Entry(k) == <<policy[audit[k].policy].name, audit[k].rego>>
           Later(k) == <<policy'[audit'[k].policy].name, audit'[k].rego>>
           Of == {k \in 1..Len(audit) : audit[k].action = "target_approved"}
           Since == {k \in 1..Len(audit') : audit'[k].action = "target_approved"}
<1>3. Approvals = {Entry(k) : k \in Of} /\ Approvals' = {Later(k) : k \in Since}
  BY DEF Approvals
<1>4. \A k \in Of : k \in Since /\ Later(k) = Entry(k)
  BY <1>1, <1>2
<1>5. \A k \in Since : k \in Of \/ (k = Len(audit) + 1 /\ row.action = "target_approved")
  BY <1>2
<1>6. Later(Len(audit) + 1) = <<policy'[row.policy].name, row.rego>>
  BY <1>2
<1>7. row.action = "target_approved" => Len(audit) + 1 \in Since
  BY <1>2
<1> HIDE DEF Entry, Later, Of, Since
<1>8. CASE row.action = "target_approved"
  BY <1>3, <1>4, <1>5, <1>6, <1>7, <1>8
<1>9. CASE row.action # "target_approved"
  BY <1>3, <1>4, <1>5, <1>9
<1> QED
  BY <1>8, <1>9

\* A transaction that opens no policy, publishes none and approves nothing is not seen.
LEMMA RowUnseen ==
  ASSUME Base, NamesKept, NEW row \in AuditRow, Log(row), row.action # "target_approved",
         UNCHANGED bundles,
         \A p \in PolicyIds : /\ policy'[p].name = policy[p].name
                              /\ policy'[p].status = policy[p].status
  PROVE  UNCHANGED promiseVars
<1>1. Approvals' = Approvals
  BY RowApproves
<1>2. UNCHANGED <<NameOf, Released, Shipped>>
  BY DEF NameOf, Released, Shipped
<1> QED
  BY <1>1, <1>2 DEF promiseVars

\* A transaction that inserts a policy row opens it.
LEMMA RowOpens ==
  ASSUME Base, Named, NamesKept, NEW row \in AuditRow, Log(row), row.action # "target_approved",
         UNCHANGED bundles, NEW q \in PolicyIds, ~Exists(q), NEW new \in PolicyRow,
         policy' = [policy EXCEPT ![q] = new], new.name \in Names, new.status = "draft"
  PROVE  Promise!Next
<1>1. Approvals' = Approvals
  BY RowApproves
<1>2. policy \in [PolicyIds -> PolicyRow]
  BY DEF Base, TypeOK
<1>3. /\ policy'[q] = new /\ \A p \in PolicyIds \ {q} : policy'[p] = policy[p]
      /\ policy[q].status = "absent" /\ policy[q].name = None
  BY <1>2 DEF Exists, Named
<1>4. NameOf[q] = None /\ NameOf' = [NameOf EXCEPT ![q] = new.name]
  <2>1. NameOf' = [p \in PolicyIds |-> IF p = q THEN new.name ELSE policy[p].name]
    BY <1>3 DEF NameOf
  <2>2. NameOf[q] = None
    BY <1>3 DEF NameOf
  <2>3. [NameOf EXCEPT ![q] = new.name]
          = [p \in PolicyIds |-> IF p = q THEN new.name ELSE policy[p].name]
    BY DEF NameOf
  <2> QED
    BY <2>1, <2>2, <2>3
<1>5. UNCHANGED <<Released, Shipped>>
  BY <1>3 DEF Released, Shipped
<1> QED
  BY <1>1, <1>4, <1>5, PromiseIs

LEMMA CreationOpens ==
  ASSUME Tables, Named, [Next]_vars, UNCHANGED bundles,
         \/ \E n \in Names : Upload(n)
         \/ \E n \in Names, k \in Keys \ SubtypedKeys, m \in Modules : Fork(n, k, m)
         \/ \E w \in Workers : RepublishCommit(w)
  PROVE  Promise!Next
<1>1. Base /\ NamesKept
  BY PolicyStepKeeps DEF Tables
<1>2. ASSUME NEW n \in Names, Upload(n) PROVE Promise!Next
  <2>1. PICK p \in PolicyIds : Upload(n)!(p)
    BY <1>2 DEF Upload
  <2> DEFINE row == Row("uploaded", p, None, None, None, 0)
             new == [status |-> "draft", name |-> n, version |-> FirstVersion,
                     ir |-> None, prose |-> TRUE]
  <2>2. row \in AuditRow /\ row.action = "uploaded"
    BY DEF Row, AuditRow, Actions
  <2>3. new \in PolicyRow /\ new.name = n /\ new.status = "draft"
    BY DEF PolicyRow
  <2>4. Log(row) /\ policy' = [policy EXCEPT ![p] = new] /\ ~Exists(p)
    BY <2>1
  <2> HIDE DEF row, new
  <2> QED
    BY <1>1, <2>2, <2>3, <2>4, RowOpens
<1>3. ASSUME NEW n \in Names, NEW k \in Keys \ SubtypedKeys, NEW m \in Modules, Fork(n, k, m)
      PROVE  Promise!Next
  <2>1. PICK p \in PolicyIds, t \in UnusedTargets : Fork(n, k, m)!(p, t)
    BY <1>3 DEF Fork
  <2> DEFINE row == Row("forked", p, None, m, None, 0)
             new == [status |-> "draft", name |-> n, version |-> FirstVersion,
                     ir |-> None, prose |-> FALSE]
  <2>2. row \in AuditRow /\ row.action = "forked"
    BY DEF Row, AuditRow, Actions
  <2>3. new \in PolicyRow /\ new.name = n /\ new.status = "draft"
    BY DEF PolicyRow
  <2>4. Log(row) /\ policy' = [policy EXCEPT ![p] = new] /\ ~Exists(p)
    BY <2>1
  <2> HIDE DEF row, new
  <2> QED
    BY <1>1, <2>2, <2>3, <2>4, RowOpens
<1>4. ASSUME NEW w \in Workers, RepublishCommit(w) PROVE Promise!Next
  <2>1. PICK q \in PolicyIds, ids \in SUBSET UnusedTargets :
          \E source \in Bijection(ids, TargetsOf(req[w].policy)) : SuccessorOf(w, q, ids, source)
    BY <1>4, RepublishWrites
  <2>2. PICK source \in Bijection(ids, TargetsOf(req[w].policy)) : SuccessorOf(w, q, ids, source)
    BY <2>1
  <2> DEFINE row == Row("republished_from", q, None, None, req[w].policy, 0)
             new == [status |-> "draft", name |-> req[w].name, version |-> req[w].version,
                     ir |-> req[w].ir, prose |-> req[w].prose]
  <2>3. /\ req[w].policy \in PolicyIds /\ req[w] \in Request
        /\ req[w].name = policy[req[w].policy].name
        /\ policy[req[w].policy].status = "published"
    BY <1>4, <1>1 DEF Base, TypeOK, RequestsRemainValid, RequestValid, RepublishCommit
  <2>4. req[w].name \in Names
    BY <2>3 DEF Named, Exists
  <2>5. row \in AuditRow /\ row.action = "republished_from"
    BY <2>3 DEF Row, AuditRow, Actions
  <2>6. new \in PolicyRow /\ new.name = req[w].name /\ new.status = "draft"
    BY <2>3 DEF PolicyRow, Request
  <2>7. Log(row) /\ policy' = [policy EXCEPT ![q] = new] /\ ~Exists(q)
    BY <2>2 DEF SuccessorOf
  <2> HIDE DEF row, new
  <2> QED
    BY <1>1, <2>4, <2>5, <2>6, <2>7, RowOpens
<1> QED
  BY <1>2, <1>3, <1>4

LEMMA EditsUnseen ==
  ASSUME Tables, [Next]_vars, UNCHANGED bundles,
         \/ \E w \in Workers, ir \in Irs : ExtractCommit(w, ir)
         \/ \E w \in Workers : GenerateCommit(w)
         \/ \E w \in Workers, m \in Modules : EditCommit(w, m)
         \/ \E w \in Workers : ReviewCommit(w, "target_rejected")
  PROVE  UNCHANGED promiseVars
<1>1. Base /\ NamesKept
  BY PolicyStepKeeps DEF Tables
<1>2. ASSUME NEW w \in Workers, NEW ir \in Irs, ExtractCommit(w, ir)
      PROVE  UNCHANGED promiseVars
  <2> DEFINE row == Row("ir_extracted", req[w].policy, None, None, None, 0)
  <2>1. req[w].policy \in PolicyIds
    BY <1>1, <1>2 DEF Base, RequestsRemainValid, RequestValid, ExtractCommit
  <2>2. row \in AuditRow /\ row.action = "ir_extracted"
    BY <2>1 DEF Row, AuditRow, Actions
  <2>3. policy' = [policy EXCEPT ![req[w].policy].ir = ir] /\ Log(row)
    BY <1>2 DEF ExtractCommit
  <2>4. \A p \in PolicyIds : /\ policy'[p].name = policy[p].name
                             /\ policy'[p].status = policy[p].status
    BY <1>1, <2>1, <2>3 DEF Base, TypeOK, PolicyRow
  <2> HIDE DEF row
  <2> QED
    BY <1>1, <2>2, <2>3, <2>4, RowUnseen
<1>3. ASSUME NEW w \in Workers, GenerateCommit(w) PROVE UNCHANGED promiseVars
  <2> DEFINE row == Row("rego_generated", req[w].policy, None, None, None,
                        Cardinality(Plan[req[w].ir]))
  <2>1. req[w].policy \in PolicyIds /\ req[w].ir \in Irs
    BY <1>1, <1>3 DEF Base, RequestsRemainValid, RequestValid, GenerateCommit
  <2>2. Cardinality(Plan[req[w].ir]) \in Nat
    BY <2>1, FS_CardinalityType
  <2>3. row \in AuditRow /\ row.action = "rego_generated"
    BY <2>1, <2>2 DEF Row, AuditRow, Actions
  <2>4. policy' = policy /\ Log(row)
    BY <1>3 DEF GenerateCommit
  <2> HIDE DEF row
  <2> QED
    BY <1>1, <2>3, <2>4, RowUnseen
<1>4. ASSUME NEW w \in Workers, NEW m \in Modules, EditCommit(w, m)
      PROVE  UNCHANGED promiseVars
  <2> DEFINE row == Row("target_edited", req[w].policy, req[w].target, m, None, 0)
  <2>1. req[w].policy \in PolicyIds /\ req[w].target \in TargetIds
    BY <1>1, <1>4 DEF Base, RequestsRemainValid, RequestValid, EditCommit
  <2>2. row \in AuditRow /\ row.action = "target_edited"
    BY <2>1 DEF Row, AuditRow, Actions
  <2>3. policy' = policy /\ Log(row)
    BY <1>4 DEF EditCommit
  <2> HIDE DEF row
  <2> QED
    BY <1>1, <2>2, <2>3, RowUnseen
<1>5. ASSUME NEW w \in Workers, ReviewCommit(w, "target_rejected")
      PROVE  UNCHANGED promiseVars
  <2> DEFINE row == Row("target_rejected", req[w].policy, req[w].target,
                        target[req[w].target].rego, None, 0)
  <2>1. req[w].policy \in PolicyIds /\ req[w].target \in TargetIds
    BY <1>1, <1>5 DEF Base, RequestsRemainValid, RequestValid, ReviewCommit
  <2>2. target[req[w].target] \in TargetRow
    BY <1>1, <2>1 DEF Base, TypeOK
  <2>3. target[req[w].target].rego \in Modules \cup {None}
    BY <2>2 DEF TargetRow
  <2>4. row \in AuditRow /\ row.action = "target_rejected"
    BY <2>1, <2>3 DEF Row, AuditRow, Actions
  <2>5. policy' = policy /\ Log(row)
    BY <1>5 DEF ReviewCommit
  <2> HIDE DEF row
  <2> QED
    BY <1>1, <2>4, <2>5, RowUnseen
<1> QED
  BY <1>2, <1>3, <1>4, <1>5

\* An approval is an approval ...
LEMMA ReviewApproves ==
  ASSUME Tables, Named, [Next]_vars, UNCHANGED bundles,
         NEW w \in Workers, ReviewCommit(w, "target_approved")
  PROVE  Promise!Next
<1> DEFINE p == req[w].policy
           m == target[req[w].target].rego
           row == Row("target_approved", p, req[w].target, m, None, 0)
<1>1. Base /\ NamesKept
  BY PolicyStepKeeps DEF Tables
<1>2. p \in PolicyIds /\ Exists(p) /\ req[w].target \in TargetIds
  BY <1>1 DEF Base, RequestsRemainValid, RequestValid, ReviewCommit
<1>3. m \in Modules
  BY <1>2 DEF Tables, Columns, ReviewCommit
<1>4. row \in AuditRow /\ row.action = "target_approved" /\ row.policy = p /\ row.rego = m
  BY <1>2, <1>3 DEF Row, AuditRow, Actions
<1>5. policy' = policy /\ Log(row)
  BY DEF ReviewCommit
<1> HIDE DEF row
<1>6. Approvals' = Approvals \cup {<<policy'[row.policy].name, row.rego>>}
  BY <1>1, <1>4, <1>5, RowApproves
<1>7. NameOf[p] = policy[p].name /\ NameOf[p] # None
  BY <1>2 DEF NameOf, Named
<1>8. Approvals' = Approvals \cup {<<NameOf[p], m>>}
  BY <1>4, <1>5, <1>6, <1>7
<1>9. UNCHANGED <<NameOf, Released, Shipped>>
  BY <1>5 DEF NameOf, Released, Shipped
<1> HIDE DEF p, m
<1> QED
  BY <1>2, <1>3, <1>7, <1>8, <1>9, PromiseIs

\* ... and a publication a release.
LEMMA PublishReleases ==
  ASSUME Tables, PromiseInv, [Next]_vars, UNCHANGED bundles,
         NEW w \in Workers, PublishCommit(w)
  PROVE  Promise!Next
<1> DEFINE p == req[w].policy
           row == Row("published", p, None, None, None, 0)
<1>1. Base /\ NamesKept
  BY PolicyStepKeeps DEF Tables
<1>2. p \in PolicyIds /\ policy[p].status = "draft"
  BY <1>1, Publishers DEF PublishCommit
<1>3. row \in AuditRow /\ row.action = "published"
  BY <1>2 DEF Row, AuditRow, Actions
<1>4. policy' = [policy EXCEPT ![p].status = "published"] /\ Log(row)
  BY DEF PublishCommit
<1> HIDE DEF row
<1>5. Approvals' = Approvals
  BY <1>1, <1>3, <1>4, RowApproves
<1>6. /\ \A q \in PolicyIds : policy'[q].name = policy[q].name
      /\ \A q \in PolicyIds \ {p} : policy'[q].status = policy[q].status
      /\ policy'[p].status = "published"
  BY <1>1, <1>2, <1>4 DEF Base, TypeOK, PolicyRow
<1>7. p \notin Released /\ Released' = Released \cup {p} /\ UNCHANGED <<NameOf, Shipped>>
  BY <1>2, <1>6 DEF Released, NameOf, Shipped
<1>8. PICK k \in 1..Len(audit) :
        /\ audit[k].action = "target_approved"
        /\ audit[k].rego \in Modules
        /\ policy[audit[k].policy].name = policy[p].name
  BY DEF PromiseInv, PublishersVouched, Vouched, PublishCommit
<1>9. <<NameOf[p], audit[k].rego>> \in Approvals
  <2>1. NameOf[p] = policy[audit[k].policy].name
    BY <1>2, <1>8 DEF NameOf
  <2> QED
    BY <1>8, <2>1 DEF Approvals
<1> HIDE DEF p
<1> QED
  BY <1>2, <1>5, <1>7, <1>8, <1>9, PromiseIs

\* A bundle that is stored ships what its build read.
LEMMA CommitShips ==
  ASSUME Tables, BundleInv, NEW b \in Builders, BuildCommit(b), UNCHANGED vars
  PROVE  Promise!Next
<1> DEFINE files == build[b].files
           row == [files |-> files, count |-> build[b].count,
                   excluded |-> build[b].excluded, builtAt |-> build[b].began]
<1>1. files \in SUBSET BundleFile /\ \A f \in files : FileShipped(f)
  <2>1. build[b] \in BuildRow
    BY DEF BundleInv, BundleTyped
  <2> QED
    BY <2>1 DEF BuildRow, BundleInv, AllShipped
<1>2. ASSUME NEW f \in files
      PROVE  f.policy \in Released /\ <<NameOf[f.policy], f.rego>> \in Approvals
  <2>1. f.policy \in PolicyIds
    BY <1>1, <1>2 DEF BundleFile
  <2>2. PICK i \in 1..Len(audit) : audit[i].action = "published" /\ audit[i].policy = f.policy
    BY <1>1, <1>2 DEF FileShipped
  <2>3. f.policy \in Released
    BY <2>1, <2>2 DEF Released, Tables, PublishedOnce
  <2>4. PICK k \in 1..Len(audit) :
          /\ audit[k].action = "target_approved"
          /\ audit[k].rego = f.rego
          /\ policy[audit[k].policy].name = policy[f.policy].name
    BY <1>1, <1>2 DEF FileShipped
  <2>5. <<policy[audit[k].policy].name, audit[k].rego>> \in Approvals
    BY <2>4 DEF Approvals
  <2> QED
    BY <2>1, <2>3, <2>4, <2>5 DEF NameOf
<1>3. bundles' = Append(bundles, row) /\ row.files = files
  BY DEF BuildCommit
<1>4. Len(bundles) \in Nat /\ bundles \in Seq(BundleRow)
  BY DEF BundleInv, BundleTyped
<1> HIDE DEF files, row
<1>5. Shipped' = Append(Shipped, files)
  <2> DEFINE n == Len(bundles)
             s == Shipped
             t == Shipped'
             S == SUBSET BundleFile
  <2>1. /\ Len(bundles') = n + 1 /\ bundles'[n + 1] = row
        /\ \A i \in 1..n : bundles'[i] = bundles[i] /\ bundles[i].files \in S
    <3>1. /\ Len(bundles') = n + 1 /\ bundles'[n + 1] = row
          /\ \A i \in 1..n : bundles'[i] = bundles[i]
      BY <1>3, <1>4
    <3>2. \A i \in 1..n : bundles[i] \in BundleRow
      BY <1>4
    <3>3. \A r \in BundleRow : r.files \in S
      BY DEF BundleRow
    <3> QED
      BY <3>1, <3>2, <3>3
  <2>2. s \in [1..n -> S] /\ t \in [1..n + 1 -> S]
    BY <1>1, <1>3, <1>4, <2>1 DEF Shipped
  <2>3. t[n + 1] = files /\ \A i \in 1..n : t[i] = s[i]
    <3>1. t = [i \in 1..Len(bundles') |-> bundles'[i].files]
      BY DEF Shipped
    <3>2. n + 1 \in 1..Len(bundles') /\ \A i \in 1..n : i \in 1..Len(bundles')
      BY <1>4, <2>1
    <3>3. \A i \in 1..Len(bundles') : t[i] = bundles'[i].files
      BY <3>1
    <3>4. \A i \in 1..n : s[i] = bundles[i].files
      BY DEF Shipped
    <3> HIDE DEF n, s, t
    <3> QED
      BY <1>3, <2>1, <3>2, <3>3, <3>4
  <2>4. n \in Nat /\ files \in S
    BY <1>1, <1>4
  <2> HIDE DEF n, s, t, S
  <2>5. s \in Seq(S) /\ t \in Seq(S)
    BY <2>2, <2>4, SeqDef
  <2>6. Len(s) = n /\ Len(t) = n + 1
    BY <2>2, <2>4, <2>5
  <2>7. /\ Append(s, files) \in Seq(S) /\ Len(Append(s, files)) = n + 1
        /\ \A i \in 1..n : Append(s, files)[i] = s[i]
        /\ Append(s, files)[n + 1] = files
    BY <2>4, <2>5, <2>6, AppendProperties
  <2>8. \A i \in 1..Len(t) : t[i] = Append(s, files)[i]
    BY <2>3, <2>4, <2>6, <2>7
  <2>9. t = Append(s, files)
    BY <2>5, <2>6, <2>7, <2>8, SeqEqual
  <2> QED
    BY <2>9 DEF s, t
<1>6. UNCHANGED <<NameOf, Approvals, Released>>
  BY DEF vars, NameOf, Approvals, Released
<1> QED
  BY <1>1, <1>2, <1>5, <1>6, PromiseIs

\* Every step of the requests and the builds is one of the promise's, or leaves it alone.
LEMMA StepKeepsPromise ==
  ASSUME Tables, BundleInv, PromiseInv, [BundleNext]_allVars
  PROVE  [Promise!Next]_(Promise!releaseVars)
<1> SUFFICES Promise!Next \/ UNCHANGED promiseVars
  BY PromiseIs
<1>1. ASSUME [Next]_vars, UNCHANGED bundleVars PROVE Promise!Next \/ UNCHANGED promiseVars
  <2>1. CASE UNCHANGED <<policy, target, audit>>
    BY <1>1, <2>1 DEF bundleVars, promiseVars, NameOf, Approvals, Released, Shipped
  <2> QED
    BY <1>1, <2>1, Transactions, CreationOpens, EditsUnseen, ReviewApproves, PublishReleases
       DEF bundleVars, PromiseInv
<1>2. ASSUME NEW b \in Builders, BuildRead(b) \/ BuildBegin(b) \/ BuildFail(b), UNCHANGED vars
      PROVE  UNCHANGED promiseVars
  <2>1. UNCHANGED bundles
    BY <1>2 DEF BuildRead, BuildBegin, BuildFail
  <2> QED
    BY <1>2, <2>1 DEF vars, promiseVars, NameOf, Approvals, Released, Shipped
<1>3. ASSUME NEW b \in Builders, BuildCommit(b), UNCHANGED vars PROVE Promise!Next
  BY <1>3, CommitShips
<1> QED
  BY <1>1, <1>2, <1>3 DEF BundleNext, Build, allVars, vars, bundleVars

---------------------------------------------------------------------------
(* The invariant behind the promise *)

LEMMA VouchedStays ==
  ASSUME Base, NamesKept, LogGrows, NEW p \in PolicyIds, Exists(p), Vouched(p)
  PROVE  Vouched(p)'
<1>1. PICK k \in 1..Len(audit) :
        /\ audit[k].action = "target_approved"
        /\ audit[k].rego \in Modules
        /\ policy[audit[k].policy].name = policy[p].name
  BY DEF Vouched
<1>2. k \in 1..Len(audit') /\ audit'[k] = audit[k]
  BY DEF LogGrows
<1>3. audit[k].policy \in PolicyIds /\ Exists(audit[k].policy)
  <2>1. audit[k] \in AuditRow /\ Exists(audit[k].policy)
    BY DEF Base, TypeOK, ReferencesHold
  <2> QED
    BY <2>1 DEF AuditRow
<1> QED
  BY <1>1, <1>2, <1>3 DEF Vouched, NamesKept

\* What a publish request counts, an approved target of its policy, was approved by
\* a reviewer under the name the policy has.
LEMMA PublishableVouched ==
  ASSUME Tables, NEW p \in PolicyIds, Publishable(p)
  PROVE  Vouched(p)
<1>1. PICK t \in TargetIds : Present(t) /\ target[t].policy = p /\ target[t].review = "approved"
  BY DEF Publishable, ApprovedOf, TargetsOf
<1>2. PICK k \in 1..Len(audit) :
        /\ audit[k].action = "target_approved"
        /\ audit[k].rego = target[t].rego
        /\ policy[audit[k].policy].name = policy[target[t].policy].name
  BY <1>1 DEF Tables, Reviewed, ApprovedWasReviewed
<1>3. target[t].rego \in Modules
  BY <1>1 DEF Tables, Columns
<1> QED
  BY <1>1, <1>2, <1>3 DEF Vouched

\* The only step that makes a publisher.
LEMMA NewPublisher ==
  ASSUME Base, [Next]_vars, NEW w \in Workers, req'[w].op = "publish"
  PROVE  \/ req'[w] = req[w]
         \/ /\ req'[w].policy \in PolicyIds /\ Publishable(req'[w].policy)
            /\ UNCHANGED <<policy, target, audit>>
<1>1. req \in [Workers -> Request]
  BY DEF Base, TypeOK
<1>2. Idle.op = "idle"
  BY DEF Idle
<1>3. CASE req'[w] # req[w]
  <2>1. Next
    BY <1>3 DEF vars
  <2>2. PICK v \in Workers : Step(v)
    BY <1>3, <2>1 DEF Next, Create, Upload, Fork
  <2>3. ASSUME Finish(v) PROVE FALSE
    BY <1>1, <1>2, <1>3, <2>3 DEF Finish
  <2>4. ASSUME NEW r, req' = [req EXCEPT ![v] = r] PROVE r.op = "publish"
    BY <1>1, <1>3, <2>4
  <2>5. ~Extract(v)
    <3>1. ASSUME NEW p \in PolicyIds, ExtractStart(v, p) PROVE FALSE
      <4>1. [Idle EXCEPT !.op = "extract", !.policy = p].op = "extract"
        BY DEF Idle
      <4> QED
        BY <2>4, <3>1, <4>1 DEF ExtractStart
    <3> QED
      BY <2>3, <3>1 DEF Extract, ExtractCommit
  <2>6. ~Generate(v)
    <3>1. ASSUME NEW p \in PolicyIds, GenerateStart(v, p) PROVE FALSE
      <4>1. [Idle EXCEPT !.op = "generate", !.policy = p, !.ir = policy[p].ir].op = "generate"
        BY DEF Idle
      <4> QED
        BY <2>4, <3>1, <4>1 DEF GenerateStart
    <3>2. ASSUME GenerateDelete(v) PROVE FALSE
      <4>1. req'[v].op = "replace"
        BY <1>1, <3>2 DEF GenerateDelete, Request
      <4>2. \A u \in Workers \ {v} : req'[u] = req[u]
        BY <1>1, <3>2 DEF GenerateDelete
      <4> QED
        BY <1>3, <4>1, <4>2
    <3> QED
      BY <2>3, <3>1, <3>2 DEF Generate, GenerateCommit
  <2>7. ~Review(v)
    <3>1. ASSUME NEW t \in TargetIds, NEW op \in {"edit", "target_approved", "target_rejected"},
                 TargetActionStart(v, t, op)
          PROVE  FALSE
      <4>1. [Idle EXCEPT !.op = op, !.policy = target[t].policy, !.target = t].op = op
        BY DEF Idle
      <4> QED
        BY <2>4, <3>1, <4>1 DEF TargetActionStart
    <3> QED
      BY <2>3, <3>1 DEF Review, EditCommit, ReviewCommit
  <2>8. ~Republish(v)
    <3>1. ASSUME NEW p \in PolicyIds, NEW v2 \in Versions, RepublishStart(v, p, v2) PROVE FALSE
      <4>1. [Idle EXCEPT !.op = "republish", !.policy = p, !.version = v2,
                         !.name = policy[p].name, !.ir = policy[p].ir,
                         !.prose = policy[p].prose].op = "republish"
        BY DEF Idle
      <4> QED
        BY <2>4, <3>1, <4>1 DEF RepublishStart
    <3> QED
      BY <2>3, <3>1 DEF Republish, RepublishCommit
  <2>9. ~Abort(v)
    BY <2>3 DEF Abort
  <2>10. PICK p \in PolicyIds : PublishRead(v, p)
    BY <2>2, <2>3, <2>5, <2>6, <2>7, <2>8, <2>9 DEF Step, Publish, PublishCommit
  <2>11. [Idle EXCEPT !.op = "publish", !.policy = p].policy = p
    BY DEF Idle
  <2>12. req'[w].policy = p
    BY <1>1, <1>3, <2>10, <2>11 DEF PublishRead
  <2> QED
    BY <2>10, <2>12 DEF PublishRead
<1> QED
  BY <1>3

LEMMA PublishersStayVouched ==
  ASSUME Tables, PublishersVouched, [Next]_vars
  PROVE  PublishersVouched'
<1> SUFFICES ASSUME NEW w \in Workers, req'[w].op = "publish", NEW p, p = req'[w].policy
             PROVE  Vouched(p)'
  BY DEF PublishersVouched, Vouched
<1>1. Base /\ NamesKept /\ LogGrows
  BY PolicyStepKeeps DEF Tables
<1>2. CASE req'[w] = req[w]
  <2>1. p \in PolicyIds /\ Exists(p) /\ Vouched(p)
    BY <1>1, <1>2, Publishers DEF PublishersVouched, Exists
  <2> QED
    BY <1>1, <2>1, VouchedStays
<1>3. CASE p \in PolicyIds /\ Publishable(p) /\ UNCHANGED <<policy, target, audit>>
  <2>1. Vouched(p)
    BY <1>3, PublishableVouched
  <2> QED
    BY <1>3, <2>1 DEF Vouched
<1> QED
  BY <1>1, <1>2, <1>3, NewPublisher

LEMMA StaysNamed ==
  ASSUME Base, Named, [Next]_vars
  PROVE  Named'
<1>1. policy \in [PolicyIds -> PolicyRow]
  BY DEF Base, TypeOK
<1>2. CASE UNCHANGED policy
  BY <1>2 DEF Named, Exists
<1>3. ASSUME NEW q \in PolicyIds, NEW new, policy' = [policy EXCEPT ![q] = new],
             new.name \in Names, new.status = "draft"
      PROVE  Named'
  <2>1. policy'[q] = new /\ \A p \in PolicyIds \ {q} : policy'[p] = policy[p]
    BY <1>1, <1>3
  <2> QED
    BY <1>3, <2>1 DEF Named, Exists
<1>4. ASSUME NEW n \in Names, Upload(n) PROVE Named'
  <2>1. PICK p \in PolicyIds : Upload(n)!(p)
    BY <1>4 DEF Upload
  <2> DEFINE new == [status |-> "draft", name |-> n, version |-> FirstVersion,
                     ir |-> None, prose |-> TRUE]
  <2>2. policy' = [policy EXCEPT ![p] = new] /\ new.name \in Names /\ new.status = "draft"
    BY <2>1
  <2> HIDE DEF new
  <2> QED
    BY <1>3, <2>2
<1>5. ASSUME NEW n \in Names, NEW k \in Keys \ SubtypedKeys, NEW m \in Modules, Fork(n, k, m)
      PROVE  Named'
  <2>1. PICK p \in PolicyIds, t \in UnusedTargets : Fork(n, k, m)!(p, t)
    BY <1>5 DEF Fork
  <2> DEFINE new == [status |-> "draft", name |-> n, version |-> FirstVersion,
                     ir |-> None, prose |-> FALSE]
  <2>2. policy' = [policy EXCEPT ![p] = new] /\ new.name \in Names /\ new.status = "draft"
    BY <2>1
  <2> HIDE DEF new
  <2> QED
    BY <1>3, <2>2
<1>6. ASSUME NEW w \in Workers, NEW ir \in Irs, ExtractCommit(w, ir) PROVE Named'
  <2>1. policy' = [policy EXCEPT ![req[w].policy].ir = ir]
    BY <1>6 DEF ExtractCommit
  <2> QED
    BY <1>1, <2>1 DEF Named, Exists, PolicyRow
<1>7. ASSUME NEW w \in Workers, PublishCommit(w) PROVE Named'
  <2>1. policy' = [policy EXCEPT ![req[w].policy].status = "published"]
    BY <1>7 DEF PublishCommit
  <2>2. req[w].policy \in PolicyIds /\ policy[req[w].policy].status = "draft"
    BY <1>7, Publishers DEF PublishCommit
  <2> QED
    BY <1>1, <2>1, <2>2 DEF Named, Exists, PolicyRow
<1>8. ASSUME NEW w \in Workers, RepublishCommit(w) PROVE Named'
  <2>1. PICK q \in PolicyIds, ids \in SUBSET UnusedTargets :
          \E source \in Bijection(ids, TargetsOf(req[w].policy)) : SuccessorOf(w, q, ids, source)
    BY <1>8, RepublishWrites
  <2>2. req[w].name \in Names
    <3>1. /\ req[w].policy \in PolicyIds
          /\ req[w].name = policy[req[w].policy].name
          /\ policy[req[w].policy].status = "published"
      BY <1>8 DEF Base, RequestsRemainValid, RequestValid, RepublishCommit
    <3> QED
      BY <3>1 DEF Named, Exists
  <2> DEFINE new == [status |-> "draft", name |-> req[w].name, version |-> req[w].version,
                     ir |-> req[w].ir, prose |-> req[w].prose]
  <2>3. policy' = [policy EXCEPT ![q] = new] /\ new.name \in Names /\ new.status = "draft"
    BY <2>1, <2>2 DEF SuccessorOf
  <2> HIDE DEF new
  <2> QED
    BY <1>3, <2>3
<1>9. ASSUME NEW w \in Workers,
             \/ GenerateCommit(w) \/ \E m \in Modules : EditCommit(w, m)
             \/ \E op \in {"target_approved", "target_rejected"} : ReviewCommit(w, op)
      PROVE  UNCHANGED policy
  BY <1>9 DEF GenerateCommit, EditCommit, ReviewCommit
<1> QED
  BY <1>2, <1>4, <1>5, <1>6, <1>7, <1>8, <1>9, Transactions

\* Any number of uploads, reviews, publications and builds, however they overlap,
\* implement ReviewedRelease: a policy is published once and only after a module was
\* approved under its name, and a bundle holds approved modules of published policies
\* (routers/policies.py, routers/bundles.py, core/bundle_builder.py).
THEOREM PipelineKeepsReviewedRelease == BundleSpec => KeepsReviewedRelease
<1>1. BundleInit => Promise!Init /\ PromiseInv
  <2> SUFFICES ASSUME BundleInit PROVE Promise!Init /\ PromiseInv
    OBVIOUS
  <2>1. /\ \A p \in PolicyIds : policy[p].status = "absent" /\ policy[p].name = None
        /\ audit = << >> /\ bundles = << >> /\ \A w \in Workers : req[w].op = "idle"
    BY DEF BundleInit, Init, NoPolicy, Idle
  <2>2. Len(audit) = 0 /\ Len(bundles) = 0
    BY <2>1
  <2>3. Approvals = {} /\ Released = {} /\ Shipped = << >>
    BY <2>1, <2>2 DEF Approvals, Released, Shipped
  <2>4. NameOf \in [PolicyIds -> Names \cup {None}]
    BY <2>1 DEF NameOf
  <2>5. PromiseInv
    BY <2>1 DEF PromiseInv, Named, PublishersVouched, Exists
  <2> QED
    BY <2>3, <2>4, <2>5, PromiseIs
<1>2. Tables /\ PromiseInv /\ [BundleNext]_allVars => PromiseInv'
  <2> SUFFICES ASSUME Tables, PromiseInv, [BundleNext]_allVars PROVE PromiseInv'
    OBVIOUS
  <2>1. [Next]_vars
    BY DEF BundleNext, allVars, vars
  <2> QED
    BY <2>1, PublishersStayVouched, StaysNamed DEF PromiseInv, Tables
<1>3. Tables /\ BundleInv /\ PromiseInv /\ [BundleNext]_allVars
        => [Promise!Next]_(Promise!releaseVars)
  BY StepKeepsPromise
<1> QED
  BY <1>1, <1>2, <1>3, TablesAlways, BundleInvAlways, PTL
     DEF BundleSpec, KeepsReviewedRelease, Promise!Spec
=============================================================================
