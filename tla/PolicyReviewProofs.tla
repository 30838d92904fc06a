-------------------------- MODULE PolicyReviewProofs --------------------------
(***************************************************************************)
(* Proofs about the reviews of PolicyLifecycle: the audit log explains the *)
(* state of every target, nothing is approved that was not reviewed, every *)
(* policy has one origin, and no change goes unlogged, for any number of   *)
(* workers, policies, targets and modules.                                 *)
(***************************************************************************)
EXTENDS PolicyLifecycleProofs

USE NoneAssumption, PlanAssumption

Reviewed == AuditExplainsReview /\ ApprovedWasReviewed

\* A policy that exists keeps its name, by which its versions are one lineage.
NamesKept == \A p \in PolicyIds : Exists(p) => policy'[p].name = policy[p].name

\* Target t is new, gone, or holds what it held with the verdict it had.
Untouched(t) ==
  \/ target[t].review = "absent"
  \/ ~Present(t)'
  \/ target'[t].rego = target[t].rego /\ target'[t].review = target[t].review

\* What t holds now was approved before, in a policy of the same name.
CarriedOver(t) ==
  \E s \in TargetIds :
    /\ target[s].review = "approved"
    /\ target'[t].rego = target[s].rego
    /\ policy'[target'[t].policy].name = policy[target[s].policy].name

---------------------------------------------------------------------------
(* The log *)

\* The log after an append: what row is where.
LEMMA LogAppended ==
  ASSUME Base, NEW row \in AuditRow, Log(row)
  PROVE  /\ Len(audit) \in Nat
         /\ \A i \in 1..Len(audit') :
              \/ i \in 1..Len(audit) /\ audit'[i] = audit[i]
              \/ i = Len(audit) + 1 /\ audit'[i] = row
         /\ \A i \in 1..Len(audit) : i \in 1..Len(audit') /\ audit'[i] = audit[i]
         /\ Len(audit) + 1 \in 1..Len(audit') /\ audit'[Len(audit) + 1] = row
<1>1. audit \in Seq(AuditRow)
  BY DEF Base, TypeOK
<1> QED
  BY <1>1, AuditAppended

\* An old target that was left alone, and that the new row is not about, is
\* explained by the row that explained it before.
LEMMA StillExplained ==
  ASSUME Base, AuditExplainsReview, NEW row \in AuditRow, Log(row),
         NEW t \in TargetIds, row.target # t, Untouched(t), Present(t)',
         NEW i, LastOn(t, i)'
  PROVE  /\ target'[t].rego = audit'[i].rego
         /\ target'[t].review = Verdict[audit'[i].action]
<1>1. i \in 1..Len(audit) /\ audit'[i] = audit[i] /\ audit[i].target = t
  BY LogAppended DEF LastOn
<1>2. \A j \in 1..Len(audit) : audit[j].target = t => j <= i
  BY LogAppended DEF LastOn
<1>3. LastOn(t, i)
  BY <1>1, <1>2 DEF LastOn
<1>4. target[t].review # "absent"
  BY <1>1 DEF Base, ReferencesHold
<1>5. target'[t].rego = target[t].rego /\ target'[t].review = target[t].review
  BY <1>4 DEF Untouched
<1>6. Present(t)
  BY <1>5 DEF Present
<1> QED
  BY <1>1, <1>3, <1>5, <1>6 DEF AuditExplainsReview

\* A step that writes no verdict: whatever it created, copied or deleted.
LEMMA UnjudgedStep ==
  ASSUME Base, Reviewed, NEW row \in AuditRow, Log(row), row.target = None,
         NamesKept, \A t \in TargetIds : Untouched(t),
         \A t \in TargetIds : target'[t].review = "approved" => CarriedOver(t)
  PROVE  Reviewed'
<1>1. AuditExplainsReview'
  <2> SUFFICES ASSUME NEW t \in TargetIds, Present(t)',
                      NEW i \in 1..Len(audit'), LastOn(t, i)'
               PROVE  /\ target'[t].rego = audit'[i].rego
                      /\ target'[t].review = Verdict[audit'[i].action]
    BY DEF AuditExplainsReview
  <2>1. row.target # t
    OBVIOUS
  <2> QED
    BY <2>1, StillExplained DEF Reviewed
<1>2. ApprovedWasReviewed'
  <2> SUFFICES ASSUME NEW t \in TargetIds, target'[t].review = "approved"
               PROVE  \E i \in 1..Len(audit') :
                        /\ audit'[i].action = "target_approved"
                        /\ audit'[i].rego = target'[t].rego
                        /\ policy'[audit'[i].policy].name = policy'[target'[t].policy].name
    BY DEF ApprovedWasReviewed
  <2>1. PICK s \in TargetIds :
          /\ target[s].review = "approved"
          /\ target'[t].rego = target[s].rego
          /\ policy'[target'[t].policy].name = policy[target[s].policy].name
    BY DEF CarriedOver
  <2>2. PICK i \in 1..Len(audit) :
          /\ audit[i].action = "target_approved"
          /\ audit[i].rego = target[s].rego
          /\ policy[audit[i].policy].name = policy[target[s].policy].name
    BY <2>1 DEF Reviewed, ApprovedWasReviewed
  <2>3. audit[i] \in AuditRow /\ audit[i].policy \in PolicyIds
    <3>1. audit \in Seq(AuditRow)
      BY DEF Base, TypeOK
    <3>2. audit[i] \in AuditRow
      BY <3>1
    <3> QED
      BY <3>2 DEF AuditRow
  <2>4. policy'[audit[i].policy].name = policy[audit[i].policy].name
    BY <2>3 DEF NamesKept, Base, ReferencesHold
  <2>5. i \in 1..Len(audit') /\ audit'[i] = audit[i]
    BY LogAppended
  <2> QED
    BY <2>1, <2>2, <2>4, <2>5
<1> QED
  BY <1>1, <1>2 DEF Reviewed

\* A step that judges one target, or edits it: its row says what the target now
\* holds and which verdict it has, unless the target is gone.
LEMMA JudgedStep ==
  ASSUME Base, Reviewed, NEW row \in AuditRow, Log(row), UNCHANGED policy,
         NEW t \in TargetIds, row.target = t, row.action \in DOMAIN Verdict,
         row.policy = target[t].policy,
         \A u \in TargetIds \ {t} : target'[u] = target[u],
         target'[t].policy = target[t].policy,
         target'[t].review \in Reviews =>
           target'[t].rego = row.rego /\ target'[t].review = Verdict[row.action]
  PROVE  Reviewed'
<1>1. AuditExplainsReview'
  <2> SUFFICES ASSUME NEW u \in TargetIds, Present(u)',
                      NEW i \in 1..Len(audit'), LastOn(u, i)'
               PROVE  /\ target'[u].rego = audit'[i].rego
                      /\ target'[u].review = Verdict[audit'[i].action]
    BY DEF AuditExplainsReview
  <2>1. CASE u = t
    <3>1. Len(audit) + 1 <= i
      BY <2>1, LogAppended DEF LastOn
    <3>2. audit'[i] = row
      BY <3>1, LogAppended
    <3>3. target'[t].review \in Reviews
      BY <2>1 DEF Present
    <3> QED
      BY <2>1, <3>2, <3>3
  <2>2. CASE u # t
    <3>1. Untouched(u)
      BY <2>2 DEF Untouched
    <3> QED
      BY <2>2, <3>1, StillExplained DEF Reviewed
  <2> QED
    BY <2>1, <2>2
<1>2. ApprovedWasReviewed'
  <2> SUFFICES ASSUME NEW u \in TargetIds, target'[u].review = "approved"
               PROVE  \E i \in 1..Len(audit') :
                        /\ audit'[i].action = "target_approved"
                        /\ audit'[i].rego = target'[u].rego
                        /\ policy[audit'[i].policy].name = policy[target'[u].policy].name
    BY DEF ApprovedWasReviewed
  <2>1. CASE u = t
    <3>1. target'[t].review \in Reviews
      BY <2>1 DEF Reviews
    <3>2. row.action = "target_approved" /\ row.rego = target'[t].rego
      BY <2>1, <3>1 DEF Verdict
    <3>3. Len(audit) + 1 \in 1..Len(audit') /\ audit'[Len(audit) + 1] = row
      BY LogAppended
    <3> QED
      BY <2>1, <3>2, <3>3
  <2>2. CASE u # t
    <3>1. target'[u] = target[u] /\ target[u].review = "approved"
      BY <2>2
    <3>2. PICK i \in 1..Len(audit) :
            /\ audit[i].action = "target_approved"
            /\ audit[i].rego = target[u].rego
            /\ policy[audit[i].policy].name = policy[target[u].policy].name
      BY <3>1 DEF Reviewed, ApprovedWasReviewed
    <3>3. i \in 1..Len(audit') /\ audit'[i] = audit[i]
      BY LogAppended
    <3> QED
      BY <3>1, <3>2, <3>3
  <2> QED
    BY <2>1, <2>2
<1> QED
  BY <1>1, <1>2 DEF Reviewed

---------------------------------------------------------------------------
(* One lemma for each transaction *)

\* A target whose row is as it was is carried over, if its policy existed.
LEMMA SameRowCarriesOver ==
  ASSUME Base, NamesKept, NEW t \in TargetIds, target'[t] = target[t],
         target'[t].review = "approved"
  PROVE  CarriedOver(t)
<1>1. target[t].policy \in PolicyIds /\ Exists(target[t].policy)
  BY DEF Base, ReferencesHold
<1> QED
  BY <1>1 DEF NamesKept, CarriedOver

LEMMA ReviewedUpload ==
  ASSUME Base, Reviewed, NEW n \in Names, Upload(n)
  PROVE  Reviewed'
<1>1. PICK p \in PolicyIds : Upload(n)!(p)
  BY DEF Upload
<1> DEFINE row == Row("uploaded", p, None, None, None, 0)
<1>2. row \in AuditRow /\ Log(row) /\ row.target = None
  BY <1>1 DEF Row, AuditRow, Actions
<1>3. NamesKept
  BY <1>1 DEF NamesKept, Base, TypeOK
<1>4. target' = target
  BY <1>1
<1> HIDE DEF row
<1>5. \A t \in TargetIds : Untouched(t)
  BY <1>4 DEF Untouched
<1> QED
  BY <1>2, <1>3, <1>4, <1>5, UnjudgedStep, SameRowCarriesOver

LEMMA ReviewedFork ==
  ASSUME Base, Reviewed, NEW n \in Names, NEW k \in Keys \ SubtypedKeys,
         NEW m \in Modules, Fork(n, k, m)
  PROVE  Reviewed'
<1>1. PICK p \in PolicyIds, t \in UnusedTargets : Fork(n, k, m)!(p, t)
  BY DEF Fork
<1> DEFINE row == Row("forked", p, None, m, None, 0)
<1>2. row \in AuditRow /\ Log(row) /\ row.target = None
  BY <1>1 DEF Row, AuditRow, Actions
<1>3. NamesKept
  BY <1>1 DEF NamesKept, Base, TypeOK
<1>4. /\ t \in TargetIds /\ target[t].review = "absent"
      /\ target'[t].review = "pending"
      /\ \A u \in TargetIds \ {t} : target'[u] = target[u]
  BY <1>1 DEF UnusedTargets, Base, TypeOK
<1> HIDE DEF row
<1>5. \A u \in TargetIds : Untouched(u)
  BY <1>4 DEF Untouched
<1>6. \A u \in TargetIds : target'[u].review = "approved" => CarriedOver(u)
  BY <1>3, <1>4, SameRowCarriesOver
<1> QED
  BY <1>2, <1>3, <1>5, <1>6, UnjudgedStep

LEMMA ReviewedExtract ==
  ASSUME Base, Reviewed, NEW w \in Workers, NEW ir \in Irs, ExtractCommit(w, ir)
  PROVE  Reviewed'
<1> DEFINE p == req[w].policy
           row == Row("ir_extracted", p, None, None, None, 0)
<1>1. p \in PolicyIds
  BY DEF Base, RequestsRemainValid, RequestValid, ExtractCommit
<1>2. row \in AuditRow /\ Log(row) /\ row.target = None
  BY <1>1 DEF Row, AuditRow, Actions, ExtractCommit
<1>3. NamesKept
  BY <1>1 DEF NamesKept, ExtractCommit, Base, TypeOK, PolicyRow
<1>4. target' = target
  BY DEF ExtractCommit
<1> HIDE DEF row
<1>5. \A t \in TargetIds : Untouched(t)
  BY <1>4 DEF Untouched
<1> QED
  BY <1>2, <1>3, <1>4, <1>5, UnjudgedStep, SameRowCarriesOver

LEMMA ReviewedGenerate ==
  ASSUME Base, Reviewed, NEW w \in Workers, GenerateCommit(w)
  PROVE  Reviewed'
<1> DEFINE p == req[w].policy
           ir == req[w].ir
           seen == req[w].seen
           row == Row("rego_generated", p, None, None, None, Cardinality(Plan[ir]))
<1>1. p \in PolicyIds /\ ir \in Irs
  BY DEF Base, RequestsRemainValid, RequestValid, GenerateCommit
<1>2. row \in AuditRow
  <2>1. Cardinality(Plan[ir]) \in Nat
    BY <1>1, FS_CardinalityType
  <2> QED
    BY <1>1, <2>1 DEF Row, AuditRow, Actions
<1>3. row.target = None /\ Log(row) /\ policy' = policy
  BY DEF Row, GenerateCommit
<1>4. PICK new \in SUBSET UnusedTargets :
        \E key \in Bijection(new, KeysOf(ir)), rego \in [new -> Modules],
           review \in [new -> GeneratedReviews] :
          target' = [t \in TargetIds |->
            IF t \in new
            THEN [review |-> review[t], policy |-> p, key |-> key[t], rego |-> rego[t]]
            ELSE IF t \in seen /\ Present(t)
                 THEN [target[t] EXCEPT !.review = "deleted"]
                 ELSE target[t]]
  BY DEF GenerateCommit
<1>5. PICK key \in Bijection(new, KeysOf(ir)), rego \in [new -> Modules],
           review \in [new -> GeneratedReviews] :
        target' = [t \in TargetIds |->
          IF t \in new
          THEN [review |-> review[t], policy |-> p, key |-> key[t], rego |-> rego[t]]
          ELSE IF t \in seen /\ Present(t)
               THEN [target[t] EXCEPT !.review = "deleted"]
               ELSE target[t]]
  BY <1>4
<1>6. ASSUME NEW t \in TargetIds, t \in new
      PROVE  target[t].review = "absent" /\ target'[t].review # "approved"
  <2>1. target[t].review = "absent"
    BY <1>6 DEF UnusedTargets
  <2>2. target'[t].review = review[t] /\ review[t] \in GeneratedReviews
    BY <1>5, <1>6
  <2> QED
    BY <2>1, <2>2 DEF GeneratedReviews
<1>7. ASSUME NEW t \in TargetIds, t \notin new
      PROVE  target'[t].review = "deleted" \/ target'[t] = target[t]
  <2>1. target[t] \in TargetRow
    BY DEF Base, TypeOK
  <2> QED
    BY <1>5, <1>7, <2>1 DEF TargetRow
<1> HIDE DEF row
<1>8. NamesKept
  BY <1>3 DEF NamesKept
<1>9. ASSUME NEW t \in TargetIds
      PROVE  Untouched(t) /\ (target'[t].review = "approved" => CarriedOver(t))
  <2>1. CASE t \in new
    BY <1>6, <2>1 DEF Untouched
  <2>2. CASE t \notin new /\ target'[t].review = "deleted"
    BY <2>2 DEF Untouched, Present, Reviews
  <2>3. CASE target'[t] = target[t]
    BY <1>8, <2>3, SameRowCarriesOver DEF Untouched
  <2> QED
    BY <1>7, <2>1, <2>2, <2>3
<1> QED
  BY <1>2, <1>3, <1>8, <1>9, UnjudgedStep

LEMMA ReviewedEdit ==
  ASSUME Base, Reviewed, NEW w \in Workers, NEW m \in Modules, EditCommit(w, m)
  PROVE  Reviewed'
<1> DEFINE p == req[w].policy
           t == req[w].target
           row == Row("target_edited", p, t, m, None, 0)
<1>1. /\ p \in PolicyIds /\ t \in TargetIds /\ target[t].policy = p
  BY DEF Base, RequestsRemainValid, RequestValid, EditCommit
<1>2. /\ row \in AuditRow /\ Log(row) /\ row.target = t /\ row.policy = p
      /\ row.rego = m /\ row.action = "target_edited" /\ policy' = policy
  BY <1>1 DEF Row, AuditRow, Actions, EditCommit
<1>3. Verdict["target_edited"] = "pending" /\ "target_edited" \in DOMAIN Verdict
  BY DEF Verdict
<1>4. target[t] \in TargetRow
  BY <1>1 DEF Base, TypeOK
<1>5. \A u \in TargetIds \ {t} : target'[u] = target[u]
  BY <1>1 DEF EditCommit, Base, TypeOK
<1>6. \/ ~Present(t) /\ target'[t] = target[t]
      \/ target'[t] = [target[t] EXCEPT !.rego = m, !.review = "pending"]
  BY <1>1 DEF EditCommit, Base, TypeOK, ReviewAfterEdit
<1> HIDE DEF row
<1>7. /\ target'[t].policy = target[t].policy
      /\ target'[t].review \in Reviews =>
           target'[t].rego = m /\ target'[t].review = "pending"
  <2>1. CASE ~Present(t) /\ target'[t] = target[t]
    BY <2>1 DEF Present
  <2>2. CASE target'[t] = [target[t] EXCEPT !.rego = m, !.review = "pending"]
    BY <1>4, <2>2 DEF TargetRow
  <2> QED
    BY <1>6, <2>1, <2>2
<1>8. target'[t].review \in Reviews =>
        target'[t].rego = row.rego /\ target'[t].review = Verdict[row.action]
  BY <1>2, <1>3, <1>7
<1>9. row.action \in DOMAIN Verdict /\ row.policy = target[t].policy
  BY <1>1, <1>2, <1>3
<1> QED
  BY <1>1, <1>2, <1>5, <1>7, <1>8, <1>9, JudgedStep

LEMMA ReviewedReview ==
  ASSUME Base, Reviewed, NEW w \in Workers,
         NEW op \in {"target_approved", "target_rejected"}, ReviewCommit(w, op)
  PROVE  Reviewed'
<1> DEFINE p == req[w].policy
           t == req[w].target
           row == Row(op, p, t, target[t].rego, None, 0)
<1>1. /\ p \in PolicyIds /\ t \in TargetIds /\ target[t].policy = p
  BY DEF Base, RequestsRemainValid, RequestValid, ReviewCommit
<1>2. target[t] \in TargetRow /\ target[t].rego \in Modules \cup {None}
  BY <1>1 DEF Base, TypeOK, TargetRow
<1>3. /\ row \in AuditRow /\ Log(row) /\ row.target = t /\ row.policy = p
      /\ row.rego = target[t].rego /\ row.action = op /\ policy' = policy
  BY <1>1, <1>2 DEF Row, AuditRow, Actions, ReviewCommit
<1>4. op \in DOMAIN Verdict
  BY DEF Verdict
<1>5. \A u \in TargetIds \ {t} : target'[u] = target[u]
  BY <1>1 DEF ReviewCommit, Base, TypeOK
<1>6. target'[t] = [target[t] EXCEPT !.review = Verdict[op]]
  BY <1>1 DEF ReviewCommit, Base, TypeOK
<1> HIDE DEF row
<1>7. /\ target'[t].policy = target[t].policy
      /\ target'[t].rego = target[t].rego /\ target'[t].review = Verdict[op]
  BY <1>2, <1>6 DEF TargetRow
<1> QED
  BY <1>1, <1>3, <1>4, <1>5, <1>7, JudgedStep

LEMMA ReviewedPublish ==
  ASSUME Base, Reviewed, NEW w \in Workers, PublishCommit(w)
  PROVE  Reviewed'
<1> DEFINE p == req[w].policy
           row == Row("published", p, None, None, None, 0)
<1>1. p \in PolicyIds
  BY Publishers DEF PublishCommit
<1>2. row \in AuditRow /\ Log(row) /\ row.target = None
  BY <1>1 DEF Row, AuditRow, Actions, PublishCommit
<1>3. NamesKept
  BY <1>1 DEF NamesKept, PublishCommit, Base, TypeOK, PolicyRow
<1>4. target' = target
  BY DEF PublishCommit
<1> HIDE DEF row
<1>5. \A t \in TargetIds : Untouched(t)
  BY <1>4 DEF Untouched
<1> QED
  BY <1>2, <1>3, <1>4, <1>5, UnjudgedStep, SameRowCarriesOver

LEMMA ReviewedRepublish ==
  ASSUME Base, Reviewed, NEW w \in Workers, RepublishCommit(w)
  PROVE  Reviewed'
<1>1. PICK q \in PolicyIds, new \in SUBSET UnusedTargets :
        \E source \in Bijection(new, TargetsOf(req[w].policy)) :
          SuccessorOf(w, q, new, source)
  BY RepublishWrites
<1>2. PICK source \in Bijection(new, TargetsOf(req[w].policy)) :
        SuccessorOf(w, q, new, source)
  BY <1>1
<1> DEFINE p == req[w].policy
           row == Row("republished_from", q, None, None, p, 0)
<1>3. p \in PolicyIds /\ req[w].name = policy[p].name
  BY DEF Base, RequestsRemainValid, RequestValid, RepublishCommit
<1>4. row \in AuditRow /\ Log(row) /\ row.target = None
  BY <1>2, <1>3 DEF Row, AuditRow, Actions, SuccessorOf
<1>5. /\ policy'[q].name = policy[p].name
      /\ \A r \in PolicyIds \ {q} : policy'[r] = policy[r]
      /\ ~Exists(q)
  BY <1>2, <1>3 DEF SuccessorOf, Base, TypeOK
<1> HIDE DEF row
<1>6. NamesKept
  BY <1>5 DEF NamesKept
<1>7. \A t \in TargetIds :
        target'[t] = IF t \in new THEN [target[source[t]] EXCEPT !.policy = q]
                     ELSE target[t]
  BY <1>2 DEF SuccessorOf
<1>8. ASSUME NEW t \in TargetIds
      PROVE  Untouched(t) /\ (target'[t].review = "approved" => CarriedOver(t))
  <2>1. CASE t \in new
    <3>1. target[t].review = "absent"
      BY <2>1 DEF UnusedTargets
    <3>2. source[t] \in TargetIds /\ target[source[t]].policy = p
          /\ target[source[t]] \in TargetRow
      BY <2>1 DEF Bijection, Injection, TargetsOf, Base, TypeOK
    <3>3. /\ target'[t].policy = q /\ target'[t].rego = target[source[t]].rego
          /\ target'[t].review = target[source[t]].review
      BY <1>7, <2>1, <3>2 DEF TargetRow
    <3>4. target'[t].review = "approved" => CarriedOver(t)
      BY <1>5, <3>2, <3>3 DEF CarriedOver
    <3> QED
      BY <3>1, <3>4 DEF Untouched
  <2>2. CASE t \notin new
    <3>1. target'[t] = target[t]
      BY <1>7, <2>2
    <3> QED
      BY <1>6, <3>1, SameRowCarriesOver DEF Untouched
  <2> QED
    BY <2>1, <2>2
<1> QED
  BY <1>4, <1>6, <1>8, UnjudgedStep

---------------------------------------------------------------------------
(* The invariants *)

LEMMA ReviewedStep ==
  ASSUME Base, Reviewed, [Next]_vars
  PROVE  Reviewed'
<1>1. CASE UNCHANGED <<policy, target, audit>>
  BY <1>1 DEF Reviewed, AuditExplainsReview, ApprovedWasReviewed, LastOn, Present
<1> QED
  BY <1>1, Transactions, ReviewedUpload, ReviewedFork, ReviewedExtract,
     ReviewedGenerate, ReviewedEdit, ReviewedReview, ReviewedPublish,
     ReviewedRepublish

LEMMA ReviewedInit == Init => Reviewed
  BY DEF Init, Reviewed, AuditExplainsReview, ApprovedWasReviewed, LastOn, Present,
         NoTarget, Reviews

LEMMA ReviewedAlways == Spec => []Reviewed
  BY BaseInvariant, ReviewedInit, ReviewedStep, PTL DEF Spec

\* Whatever interleaves, the last audit row about a target says what the target
\* holds and which verdict it has.
THEOREM AuditExplainsReviews == Spec => []AuditExplainsReview
<1>1. Reviewed => AuditExplainsReview
  BY DEF Reviewed
<1> QED
  BY ReviewedAlways, <1>1, PTL

\* Approved content was approved by a reviewer, through any chain of generations
\* and successors.
THEOREM ApprovedContentWasReviewed == Spec => []ApprovedWasReviewed
<1>1. Reviewed => ApprovedWasReviewed
  BY DEF Reviewed
<1> QED
  BY ReviewedAlways, <1>1, PTL

---------------------------------------------------------------------------
(* Where policies come from *)

\* A request to republish goes for another version than its parent's.
VersionsDiffer ==
  \A w \in Workers : req[w].op = "republish" =>
    req[w].version # policy[req[w].policy].version

\* How a request comes to republish, or to replace what a generation found.
Begins(w) ==
  \/ req'[w] = req[w]
  \/ req'[w].op \notin {"republish", "replace"}
  \/ GenerateDelete(w)
  \/ \E p \in PolicyIds, v \in Versions : RepublishStart(w, p, v)

LEMMA RequestsBegin ==
  ASSUME TypeOK, [Next]_vars, NEW w \in Workers
  PROVE  Begins(w)
<1>1. w \in DOMAIN req
  BY DEF TypeOK
<1>2. CASE UNCHANGED req
  BY <1>2 DEF Begins
<1>3. CASE Create
  BY <1>3 DEF Create, Upload, Fork, Begins
<1>4. ASSUME NEW u \in Workers, Step(u)
      PROVE  Begins(w)
  <2>1. ASSUME Finish(u) PROVE Begins(w)
    BY <1>1, <2>1 DEF Finish, Idle, Begins
  <2>2. CASE Extract(u)
    <3>1. ASSUME NEW p \in PolicyIds, ExtractStart(u, p) PROVE Begins(w)
      BY <1>1, <3>1 DEF ExtractStart, Idle, Begins
    <3> QED
      BY <2>1, <2>2, <3>1 DEF Extract, ExtractCommit
  <2>3. CASE Generate(u)
    <3>1. ASSUME NEW p \in PolicyIds, GenerateStart(u, p) PROVE Begins(w)
      BY <1>1, <3>1 DEF GenerateStart, Idle, Begins
    <3>2. ASSUME GenerateDelete(u) PROVE Begins(w)
      BY <1>1, <3>2 DEF GenerateDelete, Begins
    <3> QED
      BY <2>1, <2>3, <3>1, <3>2 DEF Generate, GenerateCommit
  <2>4. CASE Review(u)
    <3>1. ASSUME NEW t \in TargetIds, NEW op \in {"edit", "target_approved", "target_rejected"},
                 TargetActionStart(u, t, op)
          PROVE  Begins(w)
      BY <1>1, <3>1 DEF TargetActionStart, Idle, Begins
    <3> QED
      BY <2>1, <2>4, <3>1 DEF Review, EditCommit, ReviewCommit
  <2>5. CASE Publish(u)
    <3>1. ASSUME NEW p \in PolicyIds, PublishRead(u, p) PROVE Begins(w)
      BY <1>1, <3>1 DEF PublishRead, Idle, Begins
    <3> QED
      BY <2>1, <2>5, <3>1 DEF Publish, PublishCommit
  <2>6. CASE Republish(u)
    <3>1. ASSUME NEW p \in PolicyIds, NEW v \in Versions, RepublishStart(u, p, v)
          PROVE  Begins(w)
      <4>1. CASE u = w
        BY <3>1, <4>1 DEF Begins
      <4>2. CASE u # w
        BY <1>1, <3>1, <4>2 DEF RepublishStart, Begins
      <4> QED
        BY <4>1, <4>2
    <3> QED
      BY <2>1, <2>6, <3>1 DEF Republish, RepublishCommit
  <2>7. CASE Abort(u)
    BY <2>1, <2>7 DEF Abort
  <2> QED
    BY <1>4, <2>2, <2>3, <2>4, <2>5, <2>6, <2>7 DEF Step
<1> QED
  BY <1>2, <1>3, <1>4 DEF Next, vars

LEMMA VersionsStayDifferent ==
  ASSUME Base, VersionsDiffer, [Next]_vars
  PROVE  VersionsDiffer'
<1> SUFFICES ASSUME NEW w \in Workers, req'[w].op = "republish"
             PROVE  req'[w].version # policy'[req'[w].policy].version
  BY DEF VersionsDiffer
<1>1. TypeOK
  BY DEF Base
<1>2. CASE req'[w] = req[w]
  <2>1. /\ req[w].policy \in PolicyIds /\ policy[req[w].policy].status = "published"
        /\ req[w].version # policy[req[w].policy].version
    BY <1>2 DEF Base, RequestsRemainValid, RequestValid, VersionsDiffer
  <2>2. policy'[req[w].policy] = policy[req[w].policy]
    BY <2>1, StepsAreHarmless DEF Harmless
  <2> QED
    BY <1>2, <2>1, <2>2
<1>3. ASSUME NEW p \in PolicyIds, NEW v \in Versions, RepublishStart(w, p, v)
      PROVE  req'[w].version # policy'[req'[w].policy].version
  <2>1. req'[w].policy = p /\ req'[w].version = v /\ policy' = policy
    BY <1>1, <1>3 DEF RepublishStart, Idle, TypeOK
  <2>2. policy[p].version # v
    BY <1>3 DEF RepublishStart
  <2> QED
    BY <2>1, <2>2
<1>4. ~GenerateDelete(w)
  BY <1>1 DEF GenerateDelete, TypeOK, Request
<1> QED
  BY <1>1, <1>2, <1>3, <1>4, RequestsBegin DEF Begins

\* What a row appended to the log says of the policies.
NamesAndVersionsKept ==
  \A p \in PolicyIds : /\ Exists(p)' <=> Exists(p)
                       /\ Exists(p) => /\ policy'[p].name = policy[p].name
                                       /\ policy'[p].version = policy[p].version

Adds(q) ==
  /\ q \in PolicyIds /\ ~Exists(q) /\ policy'[q].status # "absent"
  /\ \A p \in PolicyIds \ {q} : policy'[p] = policy[p]

Succeeds(q, p) ==
  /\ p \in PolicyIds /\ policy[p].status = "published"
  /\ policy'[q].name = policy[p].name /\ policy'[q].version # policy[p].version

LogsStep(row) ==
  \/ row.action \notin Creations /\ NamesAndVersionsKept
  \/ /\ row.action \in Creations /\ Adds(row.policy)
     /\ row.action = "republished_from" => Succeeds(row.policy, row.parent)

LEMMA WhatIsLogged ==
  ASSUME Base, VersionsDiffer, [Next]_vars
  PROVE  UNCHANGED <<policy, audit>> \/ \E row \in AuditRow : Log(row) /\ LogsStep(row)
<1> DEFINE Goal == \E row \in AuditRow : Log(row) /\ LogsStep(row)
<1>1. ASSUME NEW n \in Names, Upload(n) PROVE Goal
  <2>1. PICK p \in PolicyIds : Upload(n)!(p)
    BY <1>1 DEF Upload
  <2> DEFINE row == Row("uploaded", p, None, None, None, 0)
  <2>2. row \in AuditRow /\ row.action = "uploaded" /\ row.policy = p /\ Log(row)
    BY <2>1 DEF Row, AuditRow, Actions
  <2>3. Adds(p)
    BY <2>1 DEF Adds, Base, TypeOK
  <2> HIDE DEF row
  <2> QED
    BY <2>2, <2>3 DEF LogsStep, Creations
<1>2. ASSUME NEW n \in Names, NEW k \in Keys \ SubtypedKeys, NEW m \in Modules, Fork(n, k, m)
      PROVE  Goal
  <2>1. PICK p \in PolicyIds, t \in UnusedTargets : Fork(n, k, m)!(p, t)
    BY <1>2 DEF Fork
  <2> DEFINE row == Row("forked", p, None, m, None, 0)
  <2>2. row \in AuditRow /\ row.action = "forked" /\ row.policy = p /\ Log(row)
    BY <2>1 DEF Row, AuditRow, Actions
  <2>3. Adds(p)
    BY <2>1 DEF Adds, Base, TypeOK
  <2> HIDE DEF row
  <2> QED
    BY <2>2, <2>3 DEF LogsStep, Creations
<1>3. ASSUME NEW w \in Workers, NEW ir \in Irs, ExtractCommit(w, ir) PROVE Goal
  <2> DEFINE p == req[w].policy
             row == Row("ir_extracted", p, None, None, None, 0)
  <2>1. p \in PolicyIds
    BY <1>3 DEF Base, RequestsRemainValid, RequestValid, ExtractCommit
  <2>2. row \in AuditRow /\ row.action = "ir_extracted" /\ Log(row)
    BY <1>3, <2>1 DEF Row, AuditRow, Actions, ExtractCommit
  <2>3. \A q \in PolicyIds : /\ policy'[q].status = policy[q].status
                             /\ policy'[q].name = policy[q].name
                             /\ policy'[q].version = policy[q].version
    BY <1>3, <2>1 DEF ExtractCommit, Base, TypeOK, PolicyRow
  <2> HIDE DEF row
  <2> QED
    BY <2>2, <2>3 DEF LogsStep, Creations, NamesAndVersionsKept, Exists
<1>4. ASSUME NEW w \in Workers, GenerateCommit(w) PROVE Goal
  <2> DEFINE row == Row("rego_generated", req[w].policy, None, None, None,
                        Cardinality(Plan[req[w].ir]))
  <2>1. req[w].policy \in PolicyIds /\ req[w].ir \in Irs
    BY <1>4 DEF Base, RequestsRemainValid, RequestValid, GenerateCommit
  <2>2. row \in AuditRow
    <3>1. Cardinality(Plan[req[w].ir]) \in Nat
      BY <2>1, FS_CardinalityType
    <3> QED
      BY <2>1, <3>1 DEF Row, AuditRow, Actions
  <2>3. row.action = "rego_generated" /\ Log(row) /\ policy' = policy
    BY <1>4 DEF Row, GenerateCommit
  <2> HIDE DEF row
  <2> QED
    BY <2>2, <2>3 DEF LogsStep, Creations, NamesAndVersionsKept, Exists
<1>5. ASSUME NEW w \in Workers, NEW m \in Modules, EditCommit(w, m) PROVE Goal
  <2> DEFINE row == Row("target_edited", req[w].policy, req[w].target, m, None, 0)
  <2>1. req[w].policy \in PolicyIds /\ req[w].target \in TargetIds
    BY <1>5 DEF Base, RequestsRemainValid, RequestValid, EditCommit
  <2>2. row \in AuditRow /\ row.action = "target_edited" /\ Log(row) /\ policy' = policy
    BY <1>5, <2>1 DEF Row, AuditRow, Actions, EditCommit
  <2> HIDE DEF row
  <2> QED
    BY <2>2 DEF LogsStep, Creations, NamesAndVersionsKept, Exists
<1>6. ASSUME NEW w \in Workers, NEW op \in {"target_approved", "target_rejected"},
             ReviewCommit(w, op)
      PROVE  Goal
  <2> DEFINE row == Row(op, req[w].policy, req[w].target, target[req[w].target].rego,
                        None, 0)
  <2>1. req[w].policy \in PolicyIds /\ req[w].target \in TargetIds
    BY <1>6 DEF Base, RequestsRemainValid, RequestValid, ReviewCommit
  <2>2. row \in AuditRow /\ row.action = op /\ Log(row) /\ policy' = policy
    BY <1>6, <2>1 DEF Row, AuditRow, Actions, ReviewCommit, Base, TypeOK, TargetRow
  <2> HIDE DEF row
  <2> QED
    BY <2>2 DEF LogsStep, Creations, NamesAndVersionsKept, Exists
<1>7. ASSUME NEW w \in Workers, PublishCommit(w) PROVE Goal
  <2> DEFINE p == req[w].policy
             row == Row("published", p, None, None, None, 0)
  <2>1. p \in PolicyIds /\ policy[p].status = "draft"
    BY <1>7, Publishers DEF PublishCommit
  <2>2. row \in AuditRow /\ row.action = "published" /\ Log(row)
    BY <1>7, <2>1 DEF Row, AuditRow, Actions, PublishCommit
  <2>3. /\ policy'[p].status = "published" /\ policy'[p].name = policy[p].name
        /\ policy'[p].version = policy[p].version
        /\ \A q \in PolicyIds \ {p} : policy'[q] = policy[q]
    BY <1>7, <2>1 DEF PublishCommit, Base, TypeOK, PolicyRow
  <2> HIDE DEF row
  <2> QED
    BY <2>1, <2>2, <2>3 DEF LogsStep, Creations, NamesAndVersionsKept, Exists
<1>8. ASSUME NEW w \in Workers, RepublishCommit(w) PROVE Goal
  <2> DEFINE p == req[w].policy
  <2>1. PICK q \in PolicyIds, new \in SUBSET UnusedTargets :
          \E source \in Bijection(new, TargetsOf(p)) : SuccessorOf(w, q, new, source)
    BY <1>8, RepublishWrites
  <2> DEFINE row == Row("republished_from", q, None, None, p, 0)
  <2>2. /\ p \in PolicyIds /\ policy[p].status = "published"
        /\ req[w].name = policy[p].name /\ req[w].version # policy[p].version
    BY <1>8 DEF Base, RequestsRemainValid, RequestValid, RepublishCommit, VersionsDiffer
  <2>3. /\ row \in AuditRow /\ row.action = "republished_from" /\ row.policy = q
        /\ row.parent = p /\ Log(row)
    BY <2>1, <2>2 DEF Row, AuditRow, Actions, SuccessorOf
  <2>4. Adds(q) /\ policy'[q].name = req[w].name /\ policy'[q].version = req[w].version
    BY <2>1 DEF Adds, SuccessorOf, Base, TypeOK
  <2>5. Succeeds(q, p)
    BY <2>2, <2>4 DEF Succeeds
  <2> HIDE DEF row, p
  <2> QED
    BY <2>3, <2>4, <2>5 DEF LogsStep, Creations
<1> QED
  BY <1>1, <1>2, <1>3, <1>4, <1>5, <1>6, <1>7, <1>8, Transactions

---------------------------------------------------------------------------
(* The lineage *)

Created == \A p \in PolicyIds : Exists(p) =>
  \E i \in 1..Len(audit) : audit[i].policy = p /\ audit[i].action \in Creations

CreatedOnce == \A i, j \in 1..Len(audit) :
  /\ audit[i].policy = audit[j].policy
  /\ audit[i].action \in Creations /\ audit[j].action \in Creations
  => i = j

Descends(i) ==
  LET q == audit[i].policy
      p == audit[i].parent
  IN  /\ \E j \in 1..Len(audit) :
           j < i /\ audit[j].action = "published" /\ audit[j].policy = p
      /\ policy[q].name = policy[p].name
      /\ policy[q].version # policy[p].version

LEMMA LineageIs ==
  LineageIsRecorded <=>
    /\ Created /\ CreatedOnce
    /\ \A i \in 1..Len(audit) : audit[i].action = "republished_from" => Descends(i)
  BY DEF LineageIsRecorded, Created, CreatedOnce, Descends

\* The rows there were still descend when the policies they name are kept.
LEMMA StillDescends ==
  ASSUME Base, NEW row \in AuditRow, Log(row), LogsStep(row),
         NEW i \in 1..Len(audit), audit[i].action = "republished_from", Descends(i)
  PROVE  Descends(i)'
<1> DEFINE q == audit[i].policy
           p == audit[i].parent
<1>1. PICK j \in 1..Len(audit) :
        j < i /\ audit[j].action = "published" /\ audit[j].policy = p
  BY DEF Descends
<1>2. \A k \in 1..Len(audit) : k \in 1..Len(audit') /\ audit'[k] = audit[k]
  BY LogAppended
<1>3. /\ q \in PolicyIds /\ Exists(q) /\ p \in PolicyIds /\ Exists(p)
  <2>1. audit[i] \in AuditRow /\ audit[j] \in AuditRow
    BY DEF Base, TypeOK
  <2>2. q \in PolicyIds /\ p \in PolicyIds
    BY <1>1, <2>1 DEF AuditRow
  <2> QED
    BY <1>1, <2>2 DEF Base, ReferencesHold
<1>4. /\ policy'[q].name = policy[q].name /\ policy'[q].version = policy[q].version
      /\ policy'[p].name = policy[p].name /\ policy'[p].version = policy[p].version
  BY <1>3 DEF LogsStep, NamesAndVersionsKept, Adds
<1>5. policy'[q].name = policy'[p].name /\ policy'[q].version # policy'[p].version
  BY <1>4 DEF Descends
<1>6. /\ j \in 1..Len(audit') /\ j < i
      /\ audit'[j].action = "published" /\ audit'[j].policy = p
  BY <1>1, <1>2
<1>7. audit'[i] = audit[i]
  BY <1>2
<1> QED
  BY <1>5, <1>6, <1>7 DEF Descends

LEMMA LineageStep ==
  ASSUME Base, PublishedOnce, LineageIsRecorded, NEW row \in AuditRow, Log(row), LogsStep(row)
  PROVE  LineageIsRecorded'
<1> DEFINE last == Len(audit) + 1
<1>1. /\ Len(audit) \in Nat
      /\ \A i \in 1..Len(audit') : \/ i \in 1..Len(audit) /\ audit'[i] = audit[i]
                                   \/ i = last /\ audit'[i] = row
      /\ \A i \in 1..Len(audit) : i \in 1..Len(audit') /\ audit'[i] = audit[i]
      /\ last \in 1..Len(audit') /\ audit'[last] = row
  BY LogAppended
<1>2. \A i \in 1..Len(audit) : audit[i].policy \in PolicyIds /\ Exists(audit[i].policy)
  <2>1. \A i \in 1..Len(audit) : audit[i] \in AuditRow
    BY DEF Base, TypeOK
  <2> QED
    BY <2>1 DEF AuditRow, Base, ReferencesHold
<1>3. Created /\ CreatedOnce
      /\ \A i \in 1..Len(audit) : audit[i].action = "republished_from" => Descends(i)
  BY LineageIs
<1>4. Created'
  <2> SUFFICES ASSUME NEW p \in PolicyIds, policy'[p].status # "absent"
               PROVE  \E i \in 1..Len(audit') :
                        audit'[i].policy = p /\ audit'[i].action \in Creations
    BY DEF Created, Exists
  <2>1. CASE Exists(p)
    <3>1. PICK i \in 1..Len(audit) : audit[i].policy = p /\ audit[i].action \in Creations
      BY <1>3, <2>1 DEF Created
    <3> QED
      BY <1>1, <3>1
  <2>2. CASE ~Exists(p)
    <3>1. row.policy = p /\ row.action \in Creations
      BY <2>2 DEF LogsStep, NamesAndVersionsKept, Adds, Exists
    <3> QED
      BY <1>1, <3>1
  <2> QED
    BY <2>1, <2>2
<1>5. CreatedOnce'
  <2> SUFFICES ASSUME NEW i \in 1..Len(audit'), NEW j \in 1..Len(audit'),
                      audit'[i].policy = audit'[j].policy,
                      audit'[i].action \in Creations, audit'[j].action \in Creations
               PROVE  i = j
    BY DEF CreatedOnce
  <2>1. row.action \in Creations => ~Exists(row.policy)
    BY DEF LogsStep, Adds
  <2>2. CASE i \in 1..Len(audit) /\ j \in 1..Len(audit)
    BY <1>1, <1>3, <2>2 DEF CreatedOnce
  <2>3. CASE i = last /\ j \in 1..Len(audit)
    BY <1>1, <1>2, <2>1, <2>3
  <2>4. CASE i \in 1..Len(audit) /\ j = last
    BY <1>1, <1>2, <2>1, <2>4
  <2> QED
    BY <1>1, <2>2, <2>3, <2>4
<1>6. ASSUME NEW i \in 1..Len(audit'), audit'[i].action = "republished_from"
      PROVE  Descends(i)'
  <2>1. CASE i \in 1..Len(audit)
    BY <1>1, <1>3, <1>6, <2>1, StillDescends
  <2>2. CASE i = last
    <3>1. audit'[i] = row
      BY <1>1, <2>2
    <3>2. /\ Adds(row.policy) /\ Succeeds(row.policy, row.parent)
      BY <1>6, <3>1 DEF LogsStep, Creations
    <3>3. PICK j \in 1..Len(audit) :
            audit[j].action = "published" /\ audit[j].policy = row.parent
      BY <3>2 DEF PublishedOnce, Succeeds
    <3>4. policy'[row.parent] = policy[row.parent]
      BY <3>2 DEF Adds, Succeeds, Exists
    <3>5. /\ j \in 1..Len(audit') /\ j < i
          /\ audit'[j].action = "published" /\ audit'[j].policy = row.parent
      BY <1>1, <2>2, <3>3
    <3> QED
      BY <3>1, <3>2, <3>4, <3>5 DEF Descends, Succeeds
  <2> QED
    BY <1>1, <2>1, <2>2
<1>7. (\A i \in 1..Len(audit) : audit[i].action = "republished_from" => Descends(i))'
  BY <1>6
<1> QED
  BY <1>4, <1>5, <1>7, LineageIs DEF LineageIsRecorded, Created, CreatedOnce, Descends

LineageInv == Base /\ PublishedOnce /\ VersionsDiffer /\ LineageIsRecorded

\* Where a policy came from is in the log once, and a successor's parent was published
\* before it, under the same name and another version: republications that overlap
\* with one another and with publications form no cycle (policies.py,
\* republish_policy).
THEOREM LineageIsKept == Spec => []LineageIsRecorded
<1>1. Init => VersionsDiffer /\ LineageIsRecorded
  <2>1. Init => VersionsDiffer
    BY DEF Init, VersionsDiffer, Idle
  <2>2. Init => LineageIsRecorded
    BY DEF Init, LineageIsRecorded, Exists, NoPolicy
  <2> QED
    BY <2>1, <2>2
<1>2. Base /\ PublishedOnce /\ VersionsDiffer /\ LineageIsRecorded /\ [Next]_vars
      => VersionsDiffer' /\ LineageIsRecorded'
  <2> SUFFICES ASSUME LineageInv, [Next]_vars PROVE VersionsDiffer' /\ LineageIsRecorded'
    BY DEF LineageInv
  <2>1. VersionsDiffer'
    BY VersionsStayDifferent DEF LineageInv
  <2>2. ASSUME UNCHANGED <<policy, audit>> PROVE LineageIsRecorded'
    <3>1. LineageIsRecorded
      BY DEF LineageInv
    <3> QED
      BY <2>2, <3>1, Zenon DEF LineageIsRecorded, Exists, Creations
  <2>3. ASSUME NEW row \in AuditRow, Log(row), LogsStep(row) PROVE LineageIsRecorded'
    BY <2>3, LineageStep DEF LineageInv
  <2> QED
    BY <2>1, <2>2, <2>3, WhatIsLogged DEF LineageInv
<1> QED
  BY <1>1, <1>2, BaseInvariant, PolicyIsPublishedOnce, PTL DEF Spec

---------------------------------------------------------------------------
(* What changes is logged *)

\* The rows a generation found are of the policy it is for, and stay so.
SeenBelong ==
  \A w \in Workers : req[w].op = "replace" =>
    \A t \in req[w].seen :
      /\ t \in TargetIds /\ target[t].review # "absent"
      /\ target[t].policy = req[w].policy

LEMMA SeenStillBelong ==
  ASSUME Base, SeenBelong, [Next]_vars
  PROVE  SeenBelong'
<1> SUFFICES ASSUME NEW w \in Workers, req'[w].op = "replace", NEW t \in req'[w].seen
             PROVE  /\ t \in TargetIds /\ target'[t].review # "absent"
                    /\ target'[t].policy = req'[w].policy
  BY DEF SeenBelong
<1>1. TypeOK
  BY DEF Base
<1>2. CASE req'[w] = req[w]
  <2>1. /\ t \in TargetIds /\ target[t].review # "absent"
        /\ target[t].policy = req[w].policy
    BY <1>2 DEF SeenBelong
  <2> QED
    BY <1>2, <2>1, StepsAreHarmless DEF Harmless
<1>3. CASE GenerateDelete(w)
  <2>1. /\ req'[w].policy = req[w].policy /\ target' = target
        /\ t \in TargetsOf(req[w].policy)
    BY <1>1, <1>3 DEF GenerateDelete, TypeOK, Request
  <2> QED
    BY <2>1 DEF TargetsOf, Present, Reviews
<1>4. ASSUME NEW p \in PolicyIds, NEW v \in Versions, RepublishStart(w, p, v) PROVE FALSE
  BY <1>1, <1>4 DEF RepublishStart, TypeOK, Idle
<1> QED
  BY <1>1, <1>2, <1>3, <1>4, RequestsBegin DEF Begins

OnlyOf(p) ==
  /\ \A q \in PolicyIds \ {p} : policy'[q] = policy[q]
  /\ \A t \in TargetIds : target'[t] = target[t] \/ target'[t].policy = p

LEMMA WhatChanges ==
  ASSUME Base, SeenBelong, [Next]_vars
  PROVE  \/ UNCHANGED <<policy, target>>
         \/ \E row \in AuditRow : Log(row) /\ OnlyOf(row.policy)
<1> DEFINE Goal == \E row \in AuditRow : Log(row) /\ OnlyOf(row.policy)
<1>0. TypeOK
  BY DEF Base
<1>1. ASSUME NEW n \in Names, Upload(n) PROVE Goal
  <2>1. PICK p \in PolicyIds : Upload(n)!(p)
    BY <1>1 DEF Upload
  <2> DEFINE row == Row("uploaded", p, None, None, None, 0)
  <2>2. row \in AuditRow /\ row.policy = p /\ Log(row)
    BY <2>1 DEF Row, AuditRow, Actions
  <2>3. OnlyOf(p)
    BY <1>0, <2>1 DEF OnlyOf, TypeOK
  <2> HIDE DEF row
  <2> QED
    BY <2>2, <2>3
<1>2. ASSUME NEW n \in Names, NEW k \in Keys \ SubtypedKeys, NEW m \in Modules, Fork(n, k, m)
      PROVE  Goal
  <2>1. PICK p \in PolicyIds, t \in UnusedTargets : Fork(n, k, m)!(p, t)
    BY <1>2 DEF Fork
  <2> DEFINE row == Row("forked", p, None, m, None, 0)
  <2>2. row \in AuditRow /\ row.policy = p /\ Log(row)
    BY <2>1 DEF Row, AuditRow, Actions
  <2>3. OnlyOf(p)
    BY <1>0, <2>1 DEF OnlyOf, TypeOK
  <2> HIDE DEF row
  <2> QED
    BY <2>2, <2>3
<1>3. ASSUME NEW w \in Workers, NEW ir \in Irs, ExtractCommit(w, ir) PROVE Goal
  <2> DEFINE p == req[w].policy
             row == Row("ir_extracted", p, None, None, None, 0)
  <2>1. p \in PolicyIds
    BY <1>3 DEF Base, RequestsRemainValid, RequestValid, ExtractCommit
  <2>2. row \in AuditRow /\ row.policy = p /\ Log(row)
    BY <1>3, <2>1 DEF Row, AuditRow, Actions, ExtractCommit
  <2>3. OnlyOf(p)
    BY <1>0, <1>3 DEF OnlyOf, ExtractCommit, TypeOK
  <2> HIDE DEF row, p
  <2> QED
    BY <2>2, <2>3
<1>4. ASSUME NEW w \in Workers, GenerateCommit(w) PROVE Goal
  <2> DEFINE p == req[w].policy
             ir == req[w].ir
             seen == req[w].seen
             row == Row("rego_generated", p, None, None, None, Cardinality(Plan[ir]))
  <2>1. p \in PolicyIds /\ ir \in Irs /\ \A t \in seen : target[t].policy = p
    BY <1>4 DEF Base, RequestsRemainValid, RequestValid, GenerateCommit, SeenBelong
  <2>2. row \in AuditRow /\ row.policy = p
    <3>1. Cardinality(Plan[ir]) \in Nat
      BY <2>1, FS_CardinalityType
    <3> QED
      BY <2>1, <3>1 DEF Row, AuditRow, Actions
  <2>3. Log(row) /\ policy' = policy
    BY <1>4 DEF GenerateCommit
  <2>4. PICK new \in SUBSET UnusedTargets :
          \E key \in Bijection(new, KeysOf(ir)), rego \in [new -> Modules],
             review \in [new -> GeneratedReviews] :
            target' = [t \in TargetIds |->
              IF t \in new
              THEN [review |-> review[t], policy |-> p, key |-> key[t], rego |-> rego[t]]
              ELSE IF t \in seen /\ Present(t)
                   THEN [target[t] EXCEPT !.review = "deleted"]
                   ELSE target[t]]
    BY <1>4 DEF GenerateCommit
  <2>5. ASSUME NEW t \in TargetIds PROVE target'[t] = target[t] \/ target'[t].policy = p
    <3>1. target[t] \in TargetRow
      BY <1>0 DEF TypeOK
    <3> QED
      BY <2>1, <2>4, <3>1 DEF TargetRow
  <2>6. OnlyOf(p)
    BY <2>3, <2>5 DEF OnlyOf
  <2> HIDE DEF row, p
  <2> QED
    BY <2>2, <2>3, <2>6
<1>5. ASSUME NEW w \in Workers, NEW m \in Modules, EditCommit(w, m) PROVE Goal
  <2> DEFINE p == req[w].policy
             t == req[w].target
             row == Row("target_edited", p, t, m, None, 0)
  <2>1. p \in PolicyIds /\ t \in TargetIds /\ target[t].policy = p
    BY <1>5 DEF Base, RequestsRemainValid, RequestValid, EditCommit
  <2>2. row \in AuditRow /\ row.policy = p /\ Log(row) /\ policy' = policy
    BY <1>5, <2>1 DEF Row, AuditRow, Actions, EditCommit
  <2>3. OnlyOf(p)
    BY <1>0, <1>5, <2>1, <2>2 DEF OnlyOf, EditCommit, TypeOK, TargetRow
  <2> HIDE DEF row, p
  <2> QED
    BY <2>2, <2>3
<1>6. ASSUME NEW w \in Workers, NEW op \in {"target_approved", "target_rejected"},
             ReviewCommit(w, op)
      PROVE  Goal
  <2> DEFINE p == req[w].policy
             t == req[w].target
             row == Row(op, p, t, target[t].rego, None, 0)
  <2>1. p \in PolicyIds /\ t \in TargetIds /\ target[t].policy = p
    BY <1>6 DEF Base, RequestsRemainValid, RequestValid, ReviewCommit
  <2>2. row \in AuditRow /\ row.policy = p /\ Log(row) /\ policy' = policy
    BY <1>0, <1>6, <2>1 DEF Row, AuditRow, Actions, ReviewCommit, TypeOK, TargetRow
  <2>3. OnlyOf(p)
    BY <1>0, <1>6, <2>1, <2>2 DEF OnlyOf, ReviewCommit, TypeOK, TargetRow
  <2> HIDE DEF row, p
  <2> QED
    BY <2>2, <2>3
<1>7. ASSUME NEW w \in Workers, PublishCommit(w) PROVE Goal
  <2> DEFINE p == req[w].policy
             row == Row("published", p, None, None, None, 0)
  <2>1. p \in PolicyIds
    BY <1>7, Publishers DEF PublishCommit
  <2>2. row \in AuditRow /\ row.policy = p /\ Log(row)
    BY <1>7, <2>1 DEF Row, AuditRow, Actions, PublishCommit
  <2>3. OnlyOf(p)
    BY <1>0, <1>7 DEF OnlyOf, PublishCommit, TypeOK
  <2> HIDE DEF row, p
  <2> QED
    BY <2>2, <2>3
<1>8. ASSUME NEW w \in Workers, RepublishCommit(w) PROVE Goal
  <2> DEFINE p == req[w].policy
  <2>1. PICK q \in PolicyIds, new \in SUBSET UnusedTargets :
          \E source \in Bijection(new, TargetsOf(p)) : SuccessorOf(w, q, new, source)
    BY <1>8, RepublishWrites
  <2>2. PICK source \in Bijection(new, TargetsOf(p)) : SuccessorOf(w, q, new, source)
    BY <2>1
  <2> DEFINE row == Row("republished_from", q, None, None, p, 0)
  <2>3. p \in PolicyIds
    BY <1>8 DEF Base, RequestsRemainValid, RequestValid, RepublishCommit
  <2>4. row \in AuditRow /\ row.policy = q /\ Log(row)
    BY <2>2, <2>3 DEF Row, AuditRow, Actions, SuccessorOf
  <2>5. ASSUME NEW t \in TargetIds PROVE target'[t] = target[t] \/ target'[t].policy = q
    <3>1. CASE t \in new
      <4>1. source[t] \in TargetIds
        BY <3>1 DEF Bijection, Injection, IsInjective, Surjection, TargetsOf
      <4>2. target[source[t]] \in TargetRow
        BY <1>0, <4>1 DEF TypeOK
      <4>3. target'[t] = [target[source[t]] EXCEPT !.policy = q]
        BY <2>2, <3>1 DEF SuccessorOf
      <4> QED
        BY <4>2, <4>3 DEF TargetRow
    <3>2. CASE t \notin new
      BY <2>2, <3>2 DEF SuccessorOf
    <3> QED
      BY <3>1, <3>2
  <2>6. OnlyOf(q)
    BY <1>0, <2>2, <2>5 DEF OnlyOf, SuccessorOf, TypeOK
  <2> HIDE DEF row, p
  <2> QED
    BY <2>4, <2>6
<1> QED
  BY <1>1, <1>2, <1>3, <1>4, <1>5, <1>6, <1>7, <1>8, Transactions

\* No change of a policy or of a target goes unlogged, and each is logged under the
\* policy it concerns, those that come after the publication included (policies.py,
\* the INSERT INTO policy_audit_log of every transaction).
THEOREM EveryChangeGetsARow == Spec => EveryChangeIsLogged
<1> DEFINE Logged ==
      \A p \in PolicyIds :
        \/ policy'[p] # policy[p]
        \/ \E t \in TargetIds : target'[t] # target[t] /\ target'[t].policy = p
        => Len(audit') = Len(audit) + 1 /\ audit'[Len(audit')].policy = p
<1>1. Init => SeenBelong
  BY DEF Init, SeenBelong, Idle
<1>2. Base /\ SeenBelong /\ [Next]_vars => SeenBelong'
  BY SeenStillBelong
<1>3. Base /\ SeenBelong /\ [Next]_vars => [Logged]_vars
  <2> SUFFICES ASSUME Base, SeenBelong, [Next]_vars PROVE Logged
    OBVIOUS
  <2>1. CASE UNCHANGED <<policy, target>>
    BY <2>1
  <2>2. ASSUME NEW row \in AuditRow, Log(row), OnlyOf(row.policy) PROVE Logged
    <3>1. audit \in Seq(AuditRow)
      BY DEF Base, TypeOK
    <3>2. Len(audit') = Len(audit) + 1 /\ audit'[Len(audit')] = row
      BY <2>2, <3>1, AuditAppended
    <3> QED
      BY <2>2, <3>2 DEF OnlyOf
  <2> QED
    BY <2>1, <2>2, WhatChanges
<1> QED
  BY <1>1, <1>2, <1>3, BaseInvariant, PTL DEF Spec, EveryChangeIsLogged

=============================================================================
