------------------------ MODULE PolicyLifecycleProofs ------------------------
(***************************************************************************)
(* Proofs about PolicyLifecycle, for any number of workers, policies,      *)
(* targets and any bound on the log.                                       *)
(***************************************************************************)
EXTENDS PolicyLifecycle, FiniteSetTheorems, TLAPS

\* What appending a row to the audit log changes.
LEMMA AuditAppended ==
  ASSUME audit \in Seq(AuditRow), NEW row \in AuditRow, Log(row)
  PROVE  /\ audit' \in Seq(AuditRow)
         /\ Len(audit') = Len(audit) + 1
         /\ Len(audit) \in Nat
         /\ \A i \in 1..Len(audit) : audit'[i] = audit[i]
         /\ audit'[Len(audit) + 1] = row
  BY DEF Log

\* A step writes the tables only through one of the transactions.
LEMMA Transactions ==
  ASSUME [Next]_vars
  PROVE  \/ UNCHANGED <<policy, target, audit>>
         \/ \E n \in Names : Upload(n)
         \/ \E n \in Names, k \in Keys \ SubtypedKeys, m \in Modules : Fork(n, k, m)
         \/ \E w \in Workers, ir \in Irs : ExtractCommit(w, ir)
         \/ \E w \in Workers : GenerateCommit(w)
         \/ \E w \in Workers, m \in Modules : EditCommit(w, m)
         \/ \E w \in Workers, op \in {"target_approved", "target_rejected"} :
              ReviewCommit(w, op)
         \/ \E w \in Workers : PublishCommit(w)
         \/ \E w \in Workers : RepublishCommit(w)
<1>1. CASE UNCHANGED vars
  BY <1>1 DEF vars
<1>2. CASE Create
  BY <1>2 DEF Create
<1>3. ASSUME NEW w \in Workers, Step(w)
      PROVE  \/ UNCHANGED <<policy, target, audit>>
             \/ \E ir \in Irs : ExtractCommit(w, ir)
             \/ GenerateCommit(w)
             \/ \E m \in Modules : EditCommit(w, m)
             \/ \E op \in {"target_approved", "target_rejected"} : ReviewCommit(w, op)
             \/ PublishCommit(w)
             \/ RepublishCommit(w)
  <2>1. CASE Extract(w)
    BY <2>1 DEF Extract, ExtractStart
  <2>2. CASE Generate(w)
    BY <2>2 DEF Generate, GenerateStart, GenerateDelete
  <2>3. CASE Review(w)
    BY <2>3 DEF Review, TargetActionStart
  <2>4. CASE Publish(w)
    BY <2>4 DEF Publish, PublishRead
  <2>5. CASE Republish(w)
    BY <2>5 DEF Republish, RepublishStart
  <2>6. CASE Abort(w)
    BY <2>6 DEF Abort
  <2> QED
    BY <1>3, <2>1, <2>2, <2>3, <2>4, <2>5, <2>6 DEF Step
<1> QED
  BY <1>1, <1>2, <1>3 DEF Next

---------------------------------------------------------------------------
(* The base invariant: types, what requests remember, references.  It is   *)
(* inductive as a whole: a commit is well typed only because the request   *)
(* still names an existing policy, and that holds because rows are never   *)
(* removed from customer_policies.                                         *)

Base == TypeOK /\ RequestsRemainValid /\ ReferencesHold

USE NoneAssumption, VersionAssumption, KeyAssumption, PlanAssumption

LEMMA IdleIsRequest == Idle \in Request
  BY DEF Idle, Request, Ops

\* Replacing what one worker remembers.
LEMMA Remembers ==
  ASSUME TypeOK, NEW w \in Workers, NEW r \in Request, req' = [req EXCEPT ![w] = r]
  PROVE  /\ req' \in [Workers -> Request]
         /\ req'[w] = r
         /\ \A v \in Workers \ {w} : req'[v] = req[v]
  BY DEF TypeOK

LEMMA BaseInit == Init => Base
<1> SUFFICES ASSUME Init PROVE Base
  OBVIOUS
<1>1. TypeOK
  BY IdleIsRequest DEF Init, TypeOK, PolicyRow, TargetRow, NoPolicy, NoTarget, Reviews
<1>2. RequestsRemainValid
  BY DEF Init, RequestsRemainValid, RequestValid, Idle
<1>3. ReferencesHold
  BY DEF Init, ReferencesHold, NoTarget
<1> QED
  BY <1>1, <1>2, <1>3 DEF Base

\* A step of worker w that leaves policies, targets and locks alone disturbs no
\* other request.
LEMMA OthersStayValid ==
  ASSUME RequestsRemainValid, UNCHANGED <<policy, target, lock>>, NEW w \in Workers,
         \A v \in Workers \ {w} : req'[v] = req[v],
         RequestValid(w)'
  PROVE  RequestsRemainValid'
<1> SUFFICES ASSUME NEW v \in Workers, v # w PROVE RequestValid(v)'
  BY DEF RequestsRemainValid
<1>1. req'[v] = req[v] /\ RequestValid(v)
  BY DEF RequestsRemainValid
<1> QED
  BY <1>1 DEF RequestValid, Exists

\* The admission of a request changes only the worker's memory.
LEMMA BaseStart ==
  ASSUME Base, NEW w \in Workers,
         \/ \E p \in PolicyIds : ExtractStart(w, p)
         \/ \E p \in PolicyIds : GenerateStart(w, p)
         \/ GenerateDelete(w)
         \/ \E t \in TargetIds, op \in {"edit", "target_approved", "target_rejected"} :
              TargetActionStart(w, t, op)
         \/ \E p \in PolicyIds, v \in Versions : RepublishStart(w, p, v)
  PROVE  Base'
<1>1. SUFFICES ASSUME UNCHANGED <<policy, target, audit, lock>>,
                      \A v \in Workers \ {w} : req'[v] = req[v],
                      req' \in [Workers -> Request], RequestValid(w)'
               PROVE  Base'
  <2> USE IdleIsRequest DEF Base
  <2>1. CASE \E p \in PolicyIds : ExtractStart(w, p)
    <3>1. PICK p \in PolicyIds : ExtractStart(w, p)
      BY <2>1
    <3> DEFINE r == [Idle EXCEPT !.op = "extract", !.policy = p]
    <3>a. r \in Request
      BY DEF Idle, Request, Ops
    <3>2. req'[w] = r /\ req' \in [Workers -> Request]
      BY <3>1, <3>a, Remembers DEF ExtractStart
    <3>3. RequestValid(w)'
      BY <3>1, <3>2 DEF ExtractStart, RequestValid, Idle, Exists
    <3> QED
      BY <3>1, <3>2, <3>3 DEF ExtractStart, TypeOK
  <2>2. CASE \E p \in PolicyIds : GenerateStart(w, p)
    <3>1. PICK p \in PolicyIds : GenerateStart(w, p)
      BY <2>2
    <3>2. policy[p].ir \in Irs
      BY <3>1 DEF GenerateStart, TypeOK, PolicyRow
    <3> DEFINE r == [Idle EXCEPT !.op = "generate", !.policy = p, !.ir = policy[p].ir]
    <3>a. r \in Request
      BY <3>2 DEF Idle, Request, Ops
    <3>b. req' = [req EXCEPT ![w] = r]
      BY <3>1 DEF GenerateStart
    <3>3. req'[w] = r /\ req' \in [Workers -> Request]
      BY <3>a, <3>b, Remembers
    <3>4. RequestValid(w)'
      BY <3>1, <3>2, <3>3 DEF GenerateStart, RequestValid, Idle, Exists
    <3> QED
      BY <3>1, <3>3, <3>4 DEF GenerateStart, TypeOK
  <2>3. CASE GenerateDelete(w)
    <3>1. RequestValid(w)
      BY DEF RequestsRemainValid
    <3> DEFINE seen == {t \in TargetsOf(req[w].policy) :
                          target[t].key \in KeysOf(req[w].ir)}
               r == [req[w] EXCEPT !.op = "replace", !.seen = seen]
    <3>a. seen \in SUBSET TargetIds
      BY DEF TargetsOf
    <3>b. req[w] \in Request
      BY DEF TypeOK
    <3> HIDE DEF seen
    <3>c. r \in Request
      BY <3>a, <3>b DEF Request, Ops
    <3>d. req' = [req EXCEPT ![w] = r]
      BY <2>3, <3>b DEF GenerateDelete, seen, TypeOK, Request
    <3>e. r.op = "replace" /\ r.policy = req[w].policy /\ r.ir = req[w].ir
      BY <3>b DEF Request
    <3>2. /\ req' \in [Workers -> Request]
          /\ req'[w].op = "replace"
          /\ req'[w].policy = req[w].policy /\ req'[w].ir = req[w].ir
      BY <3>c, <3>d, <3>e, Remembers
    <3>3. RequestValid(w)'
      BY <2>3, <3>1, <3>2 DEF GenerateDelete, RequestValid, Exists
    <3> QED
      BY <2>3, <3>2, <3>3 DEF GenerateDelete, TypeOK
  <2>4. CASE \E t \in TargetIds, op \in {"edit", "target_approved", "target_rejected"} :
               TargetActionStart(w, t, op)
    <3>1. PICK t \in TargetIds, op \in {"edit", "target_approved", "target_rejected"} :
               TargetActionStart(w, t, op)
      BY <2>4
    <3>2. target[t].review # "absent" /\ target[t].policy \in PolicyIds
          /\ Exists(target[t].policy)
      BY <3>1 DEF TargetActionStart, TargetActionAllowed, Present, Reviews, ReferencesHold
    <3> DEFINE r == [Idle EXCEPT !.op = op, !.policy = target[t].policy, !.target = t]
    <3>a. r \in Request
      BY <3>2 DEF Idle, Request, Ops
    <3>b. req' = [req EXCEPT ![w] = r]
      BY <3>1 DEF TargetActionStart
    <3>3. req'[w] = r /\ req' \in [Workers -> Request]
      BY <3>a, <3>b, Remembers
    <3>4. RequestValid(w)'
      BY <3>1, <3>2, <3>3 DEF TargetActionStart, RequestValid, Idle, Exists
    <3> QED
      BY <3>1, <3>3, <3>4 DEF TargetActionStart, TypeOK
  <2>5. CASE \E p \in PolicyIds, v \in Versions : RepublishStart(w, p, v)
    <3>1. PICK p \in PolicyIds, v \in Versions : RepublishStart(w, p, v)
      BY <2>5
    <3> DEFINE r == [Idle EXCEPT !.op = "republish", !.policy = p, !.version = v,
                       !.name = policy[p].name, !.ir = policy[p].ir,
                       !.prose = policy[p].prose]
    <3>a. policy[p] \in PolicyRow
      BY DEF TypeOK
    <3>b. r \in Request
      BY <3>a DEF Idle, Request, Ops, PolicyRow
    <3>2. req'[w] = r /\ req' \in [Workers -> Request]
      BY <3>1, <3>b, Remembers DEF RepublishStart
    <3>3. RequestValid(w)'
      BY <3>1, <3>2 DEF RepublishStart, RequestValid, Idle, Exists, MayBeParent
    <3> QED
      BY <3>1, <3>2, <3>3 DEF RepublishStart, TypeOK
  <2> QED
    BY <2>1, <2>2, <2>3, <2>4, <2>5
<1>2. TypeOK'
  BY <1>1 DEF Base, TypeOK
<1>3. RequestsRemainValid'
  BY <1>1, OthersStayValid DEF Base
<1>4. ReferencesHold'
  BY <1>1 DEF Base, ReferencesHold, Exists
<1> QED
  BY <1>2, <1>3, <1>4 DEF Base

---------------------------------------------------------------------------
(* The transactions.  Each is Harmless to the requests still in flight:    *)
(* policies and targets are not removed, a published row is final, and a   *)
(* row held FOR UPDATE stays held and unpublished by others.               *)

Harmless ==
  /\ \A p \in PolicyIds :
       /\ Exists(p) => policy'[p].status # "absent"
       /\ policy[p].status = "published" => policy'[p] = policy[p]
  /\ \A t \in TargetIds : target[t].review # "absent" =>
       target'[t].review # "absent" /\ target'[t].policy = target[t].policy
  /\ \A v \in Workers :
       \/ req'[v] = Idle
       \/ /\ req'[v] = req[v]
          /\ req[v].op = "publish" =>
               /\ lock'[req[v].policy] = v
               /\ policy'[req[v].policy].status = "draft"

\* A publisher holds the lock of a draft.
LEMMA Publishers ==
  ASSUME Base, NEW v \in Workers, req[v].op = "publish"
  PROVE  /\ req[v].policy \in PolicyIds
         /\ lock[req[v].policy] = v
         /\ policy[req[v].policy].status = "draft"
  BY DEF Base, RequestsRemainValid, RequestValid

LEMMA HarmlessKeepsRequests ==
  ASSUME Base, Harmless
  PROVE  RequestsRemainValid'
<1> SUFFICES ASSUME NEW v \in Workers PROVE RequestValid(v)'
  BY DEF RequestsRemainValid
<1>1. CASE req'[v] = Idle
  BY <1>1 DEF RequestValid, Idle
<1>2. CASE /\ req'[v] = req[v]
           /\ req[v].op = "publish" =>
                /\ lock'[req[v].policy] = v
                /\ policy'[req[v].policy].status = "draft"
  <2> DEFINE r == req[v]
  <2>1. RequestValid(v) /\ r \in Request
    BY DEF Base, TypeOK, RequestsRemainValid
  <2>2. r.op = "idle" \/ r.policy \in PolicyIds
    BY <2>1 DEF RequestValid
  <2>3. r.op # "idle" => policy'[r.policy].status # "absent"
    BY <2>1, <2>2 DEF RequestValid, Harmless
  <2>4. r.op \in {"edit", "target_approved", "target_rejected"} =>
          /\ r.target \in TargetIds
          /\ target'[r.target].review # "absent"
          /\ target'[r.target].policy = r.policy
    BY <2>1 DEF RequestValid, Harmless
  <2>5. r.op = "republish" => policy'[r.policy] = policy[r.policy]
    BY <2>1, <2>2 DEF RequestValid, Harmless
  <2> QED
    BY <1>2, <2>1, <2>2, <2>3, <2>4, <2>5 DEF RequestValid, Exists
<1> QED
  BY <1>1, <1>2 DEF Harmless

\* A transaction that appends one row about an existing policy and adds only
\* targets of existing policies keeps the references.
LEMMA AppendKeepsReferences ==
  ASSUME Base, Harmless, NEW row \in AuditRow, Log(row),
         row.policy \in PolicyIds, policy'[row.policy].status # "absent",
         row.target # None => /\ row.action \in DOMAIN Verdict
                              /\ target'[row.target].review # "absent",
         \A t \in TargetIds : target[t].review = "absent" /\ target'[t].review # "absent"
           => /\ target'[t].policy \in PolicyIds
                /\ policy'[target'[t].policy].status # "absent"
  PROVE  ReferencesHold'
<1>1. audit \in Seq(AuditRow)
  BY DEF Base, TypeOK
<1>2. \A t \in TargetIds : target'[t].review # "absent" =>
        /\ target'[t].policy \in PolicyIds
                /\ policy'[target'[t].policy].status # "absent"
  BY DEF Base, ReferencesHold, Harmless, Exists
<1>3. ASSUME NEW i \in 1..Len(audit')
      PROVE  /\ policy'[audit'[i].policy].status # "absent"
             /\ audit'[i].target # None =>
                  /\ audit'[i].action \in DOMAIN Verdict
                  /\ target'[audit'[i].target].review # "absent"
  <2>1. CASE i \in 1..Len(audit)
    <3>1. audit'[i] = audit[i] /\ audit[i] \in AuditRow
      BY <1>1, <2>1, AuditAppended
    <3>2. audit[i].policy \in PolicyIds /\ audit[i].target \in TargetIds \cup {None}
      BY <3>1 DEF AuditRow
    <3> QED
      BY <2>1, <3>1, <3>2 DEF Base, ReferencesHold, Harmless, Exists
  <2>2. CASE i = Len(audit) + 1
    BY <1>1, <2>2, AuditAppended
  <2> QED
    BY <1>1, <1>3, <2>1, <2>2, AuditAppended
<1> QED
  BY <1>2, <1>3 DEF ReferencesHold, Exists

\* A transaction of these kinds has done with its request.
LEMMA Finishes ==
  ASSUME TypeOK, NEW w \in Workers, Finish(w)
  PROVE  /\ req' \in [Workers -> Request]
         /\ req'[w] = Idle
         /\ \A v \in Workers \ {w} : req'[v] = req[v]
  BY IdleIsRequest, Remembers DEF Finish

LEMMA BaseUpload ==
  ASSUME Base, NEW n \in Names, Upload(n)
  PROVE  Base' /\ Harmless
<1> USE DEF Base
<1>1. PICK p \in PolicyIds : Upload(n)!(p)
  BY DEF Upload
<1> DEFINE row == Row("uploaded", p, None, None, None, 0)
<1>2. row \in AuditRow
  BY DEF Row, AuditRow, Actions
<1>3. TypeOK'
  BY <1>1, <1>2, AuditAppended DEF TypeOK, PolicyRow
<1>4. Harmless
  BY <1>1, Publishers DEF Harmless, Exists, TypeOK
<1>5. /\ Log(row) /\ row.policy = p /\ row.target = None
      /\ policy'[p].status # "absent" /\ target' = target
  BY <1>1 DEF Row, TypeOK
<1> HIDE DEF row
<1>6. ReferencesHold'
  BY <1>2, <1>4, <1>5, AppendKeepsReferences
<1> QED
  BY <1>3, <1>4, <1>6, HarmlessKeepsRequests

LEMMA BaseFork ==
  ASSUME Base, NEW n \in Names, NEW k \in Keys \ SubtypedKeys, NEW m \in Modules,
         Fork(n, k, m)
  PROVE  Base' /\ Harmless
<1> USE DEF Base
<1>1. PICK p \in PolicyIds, t \in UnusedTargets : Fork(n, k, m)!(p, t)
  BY DEF Fork
<1> DEFINE row == Row("forked", p, None, m, None, 0)
<1>2. row \in AuditRow
  BY DEF Row, AuditRow, Actions
<1>3. TypeOK'
  BY <1>1, <1>2, AuditAppended DEF TypeOK, PolicyRow, TargetRow, UnusedTargets, Reviews
<1>4. Harmless
  BY <1>1, Publishers DEF Harmless, Exists, TypeOK, UnusedTargets
<1>5. /\ Log(row) /\ row.policy = p /\ row.target = None
      /\ policy'[p].status # "absent"
      /\ target'[t].policy = p /\ \A u \in TargetIds \ {t} : target'[u] = target[u]
  BY <1>1 DEF Row, TypeOK, UnusedTargets
<1> HIDE DEF row
<1>6. ReferencesHold'
  BY <1>2, <1>4, <1>5, AppendKeepsReferences
<1> QED
  BY <1>3, <1>4, <1>6, HarmlessKeepsRequests

LEMMA BaseExtract ==
  ASSUME Base, NEW w \in Workers, NEW ir \in Irs, ExtractCommit(w, ir)
  PROVE  Base' /\ Harmless
<1> USE DEF Base
<1> DEFINE p == req[w].policy
           row == Row("ir_extracted", p, None, None, None, 0)
<1>1. p \in PolicyIds /\ Exists(p)
  BY DEF ExtractCommit, RequestsRemainValid, RequestValid
<1>2. row \in AuditRow
  BY <1>1 DEF Row, AuditRow, Actions
<1>3. policy' \in [PolicyIds -> PolicyRow]
  <2>1. policy[p] \in PolicyRow
    BY <1>1 DEF TypeOK
  <2>2. [policy[p] EXCEPT !.ir = ir] \in PolicyRow
    BY <2>1 DEF PolicyRow
  <2> QED
    BY <1>1, <2>2 DEF ExtractCommit, TypeOK
<1>4. TypeOK'
  BY <1>2, <1>3, AuditAppended, Finishes DEF TypeOK, ExtractCommit
<1>5. \A q \in PolicyIds : /\ policy'[q].status = policy[q].status
                           /\ policy[q].status = "published" => policy'[q] = policy[q]
  BY <1>1 DEF ExtractCommit, TypeOK, PolicyRow, TriggerAccepts
<1>6. Harmless
  <2>1. \A v \in Workers : req'[v] = Idle \/ req'[v] = req[v]
    BY Finishes DEF ExtractCommit
  <2>2. UNCHANGED <<target, lock>>
    BY DEF ExtractCommit
  <2> QED
    BY <1>5, <2>1, <2>2, Publishers DEF Harmless, Exists
<1>7. /\ Log(row) /\ row.policy = p /\ row.target = None
      /\ policy'[p].status # "absent" /\ target' = target
  BY <1>1, <1>5 DEF Row, Exists, ExtractCommit
<1> HIDE DEF row
<1>8. ReferencesHold'
  BY <1>1, <1>2, <1>6, <1>7, AppendKeepsReferences
<1> QED
  BY <1>4, <1>6, <1>8, HarmlessKeepsRequests

LEMMA BaseGenerate ==
  ASSUME Base, NEW w \in Workers, GenerateCommit(w)
  PROVE  Base' /\ Harmless
<1> USE DEF Base
<1> DEFINE p == req[w].policy
           ir == req[w].ir
           seen == req[w].seen
           row == Row("rego_generated", p, None, None, None, Cardinality(Plan[ir]))
<1>1. p \in PolicyIds /\ Exists(p) /\ ir \in Irs
  BY DEF GenerateCommit, RequestsRemainValid, RequestValid
<1>2. row \in AuditRow
  <2>1. Cardinality(Plan[ir]) \in Nat
    BY <1>1, PlanAssumption, FS_CardinalityType
  <2> QED
    BY <1>1, <2>1 DEF Row, AuditRow, Actions
<1>3. PICK new \in SUBSET UnusedTargets :
        \E key \in Bijection(new, KeysOf(ir)), rego \in [new -> Modules],
           review \in [new -> GeneratedReviews] :
          target' = [t \in TargetIds |->
            IF t \in new
            THEN [review |-> review[t], policy |-> p, key |-> key[t], rego |-> rego[t]]
            ELSE IF t \in seen /\ Present(t)
                 THEN [target[t] EXCEPT !.review = "deleted"]
                 ELSE target[t]]
  BY DEF GenerateCommit
<1>4. PICK key \in Bijection(new, KeysOf(ir)), rego \in [new -> Modules],
           review \in [new -> GeneratedReviews] :
          target' = [t \in TargetIds |->
            IF t \in new
            THEN [review |-> review[t], policy |-> p, key |-> key[t], rego |-> rego[t]]
            ELSE IF t \in seen /\ Present(t)
                 THEN [target[t] EXCEPT !.review = "deleted"]
                 ELSE target[t]]
  BY <1>3
<1>5. \A t \in new : key[t] \in Keys
  BY <1>1, PlanAssumption DEF Bijection, Injection, KeysOf
<1>6. target' \in [TargetIds -> TargetRow]
  <2>1. \A t \in new :
          [review |-> review[t], policy |-> p, key |-> key[t], rego |-> rego[t]]
            \in TargetRow
    BY <1>1, <1>5 DEF TargetRow, Reviews, GeneratedReviews
  <2>a. \A t \in TargetIds : target[t] \in TargetRow
    BY DEF TypeOK
  <2>b. \A old \in TargetRow : [old EXCEPT !.review = "deleted"] \in TargetRow
    BY DEF TargetRow
  <2>2. \A t \in TargetIds :
          target[t] \in TargetRow /\ [target[t] EXCEPT !.review = "deleted"] \in TargetRow
    BY <2>a, <2>b
  <2> DEFINE After(t) ==
        IF t \in new
        THEN [review |-> review[t], policy |-> p, key |-> key[t], rego |-> rego[t]]
        ELSE IF t \in seen /\ Present(t)
             THEN [target[t] EXCEPT !.review = "deleted"]
             ELSE target[t]
  <2>3. target' = [t \in TargetIds |-> After(t)]
    BY <1>4
  <2>4. \A t \in TargetIds : After(t) \in TargetRow
    BY <2>1, <2>2
  <2> HIDE DEF After
  <2> QED
    BY <2>3, <2>4
<1>7. TypeOK'
  BY <1>2, <1>6, AuditAppended, Finishes DEF TypeOK, GenerateCommit
<1>8. \A t \in TargetIds :
        IF t \in new THEN target'[t].policy = p
        ELSE target'[t].policy = target[t].policy
             /\ (target'[t].review = "absent" <=> target[t].review = "absent")
  BY <1>4 DEF TypeOK, TargetRow, Present, Reviews
<1>9. Harmless
  <2>1. \A v \in Workers : req'[v] = Idle \/ req'[v] = req[v]
    BY Finishes DEF GenerateCommit
  <2>2. UNCHANGED <<policy, lock>>
    BY DEF GenerateCommit
  <2>3. \A t \in new : target[t].review = "absent"
    BY DEF UnusedTargets
  <2> QED
    BY <1>8, <2>1, <2>2, <2>3, Publishers DEF Harmless, Exists
<1>10. /\ Log(row) /\ row.policy = p /\ row.target = None
       /\ policy' = policy
  BY DEF Row, GenerateCommit
<1> HIDE DEF row
<1>11. ReferencesHold'
  BY <1>1, <1>2, <1>8, <1>9, <1>10, AppendKeepsReferences DEF Exists
<1> QED
  BY <1>7, <1>9, <1>11, HarmlessKeepsRequests

LEMMA BaseEdit ==
  ASSUME Base, NEW w \in Workers, NEW m \in Modules, EditCommit(w, m)
  PROVE  Base' /\ Harmless
<1> USE DEF Base
<1> DEFINE p == req[w].policy
           t == req[w].target
           row == Row("target_edited", p, t, m, None, 0)
<1>1. /\ p \in PolicyIds /\ Exists(p) /\ t \in TargetIds
      /\ target[t].review # "absent"
  BY DEF EditCommit, RequestsRemainValid, RequestValid
<1>2. row \in AuditRow
  BY <1>1 DEF Row, AuditRow, Actions
<1>3. target' \in [TargetIds -> TargetRow]
  <2>1. target \in [TargetIds -> TargetRow] /\ target[t] \in TargetRow
    BY <1>1 DEF TypeOK
  <2>2. [target[t] EXCEPT !.rego = m, !.review = ReviewAfterEdit(t)] \in TargetRow
    BY <2>1 DEF TargetRow, ReviewAfterEdit, Reviews
  <2>3. \/ target' = target
        \/ target' = [target EXCEPT ![t] =
             [target[t] EXCEPT !.rego = m, !.review = ReviewAfterEdit(t)]]
    BY <1>1, <2>1 DEF EditCommit
  <2> QED
    BY <1>1, <2>1, <2>2, <2>3
<1>4. TypeOK'
  BY <1>2, <1>3, AuditAppended, Finishes DEF TypeOK, EditCommit
<1>5. \A u \in TargetIds : /\ target'[u].policy = target[u].policy
                           /\ target'[u].review = "absent" <=> target[u].review = "absent"
  BY <1>1 DEF EditCommit, TypeOK, TargetRow, ReviewAfterEdit, Reviews
<1>6. Harmless
  <2>1. \A v \in Workers : req'[v] = Idle \/ req'[v] = req[v]
    BY Finishes DEF EditCommit
  <2>2. UNCHANGED <<policy, lock>>
    BY DEF EditCommit
  <2> QED
    BY <1>5, <2>1, <2>2, Publishers DEF Harmless, Exists
<1>7. /\ Log(row) /\ row.policy = p /\ row.target = t
      /\ row.action \in DOMAIN Verdict /\ policy' = policy
  BY DEF Row, EditCommit, Verdict
<1> HIDE DEF row
<1>8. ReferencesHold'
  BY <1>1, <1>2, <1>5, <1>6, <1>7, AppendKeepsReferences DEF Exists
<1> QED
  BY <1>4, <1>6, <1>8, HarmlessKeepsRequests

LEMMA BaseReview ==
  ASSUME Base, NEW w \in Workers, NEW op \in {"target_approved", "target_rejected"},
         ReviewCommit(w, op)
  PROVE  Base' /\ Harmless
<1> USE DEF Base
<1> DEFINE p == req[w].policy
           t == req[w].target
           row == Row(op, p, t, target[t].rego, None, 0)
<1>1. /\ p \in PolicyIds /\ Exists(p) /\ t \in TargetIds
      /\ target[t].review # "absent"
  BY DEF ReviewCommit, RequestsRemainValid, RequestValid
<1>2. row \in AuditRow
  BY <1>1 DEF Row, AuditRow, Actions, TypeOK, TargetRow
<1>3. Verdict[op] \in Reviews /\ Verdict[op] # "absent"
  BY DEF Verdict, Reviews
<1>4. target' \in [TargetIds -> TargetRow]
  BY <1>1, <1>3 DEF ReviewCommit, TypeOK, TargetRow
<1>5. TypeOK'
  BY <1>2, <1>4, AuditAppended, Finishes DEF TypeOK, ReviewCommit
<1>6. \A u \in TargetIds : /\ target'[u].policy = target[u].policy
                           /\ target'[u].review = "absent" <=> target[u].review = "absent"
  BY <1>1, <1>3 DEF ReviewCommit, TypeOK, TargetRow
<1>7. Harmless
  <2>1. \A v \in Workers : req'[v] = Idle \/ req'[v] = req[v]
    BY Finishes DEF ReviewCommit
  <2>2. UNCHANGED <<policy, lock>>
    BY DEF ReviewCommit
  <2> QED
    BY <1>6, <2>1, <2>2, Publishers DEF Harmless, Exists
<1>8. /\ Log(row) /\ row.policy = p /\ row.target = t
      /\ row.action \in DOMAIN Verdict /\ policy' = policy
  BY DEF Row, ReviewCommit, Verdict
<1> HIDE DEF row
<1>9. ReferencesHold'
  BY <1>1, <1>2, <1>6, <1>7, <1>8, AppendKeepsReferences DEF Exists
<1> QED
  BY <1>5, <1>7, <1>9, HarmlessKeepsRequests

LEMMA BasePublishRead ==
  ASSUME Base, NEW w \in Workers, NEW p \in PolicyIds, PublishRead(w, p)
  PROVE  Base'
<1> USE DEF Base
<1> DEFINE r == [Idle EXCEPT !.op = "publish", !.policy = p]
<1>1. r \in Request
  BY DEF Idle, Request, Ops
<1>2. /\ req' \in [Workers -> Request] /\ req'[w] = r
      /\ \A v \in Workers \ {w} : req'[v] = req[v]
  BY <1>1, Remembers DEF PublishRead
<1>3. TypeOK'
  BY <1>2 DEF PublishRead, TypeOK
<1>4. ReferencesHold'
  BY DEF PublishRead, ReferencesHold, Exists
<1>5. policy[p].status = "draft"
  BY DEF PublishRead, Publishable, Exists, TypeOK, PolicyRow
<1>6. lock'[p] = w /\ \A q \in PolicyIds \ {p} : lock'[q] = lock[q]
  BY DEF PublishRead, TypeOK
<1>7. ASSUME NEW v \in Workers, v # w, req[v].op = "publish"
      PROVE  lock'[req[v].policy] = v /\ policy'[req[v].policy].status = "draft"
  BY <1>6, <1>7, Publishers DEF PublishRead, Unlocked
<1>8. RequestsRemainValid'
  <2>1. RequestValid(w)'
    BY <1>2, <1>5, <1>6 DEF PublishRead, RequestValid, Idle, Exists
  <2>2. ASSUME NEW v \in Workers, v # w PROVE RequestValid(v)'
    BY <1>2, <1>7, <2>2 DEF PublishRead, RequestsRemainValid, RequestValid, Exists
  <2> QED
    BY <2>1, <2>2 DEF RequestsRemainValid
<1> QED
  BY <1>3, <1>4, <1>8

LEMMA BasePublish ==
  ASSUME Base, NEW w \in Workers, PublishCommit(w)
  PROVE  Base' /\ Harmless
<1> USE DEF Base
<1> DEFINE p == req[w].policy
           row == Row("published", p, None, None, None, 0)
<1>1. p \in PolicyIds /\ lock[p] = w /\ policy[p].status = "draft"
  BY Publishers DEF PublishCommit
<1>2. row \in AuditRow
  BY <1>1 DEF Row, AuditRow, Actions
<1>3. policy' \in [PolicyIds -> PolicyRow]
  <2>1. policy[p] \in PolicyRow
    BY <1>1 DEF TypeOK
  <2>2. [policy[p] EXCEPT !.status = "published"] \in PolicyRow
    BY <2>1 DEF PolicyRow
  <2> QED
    BY <1>1, <2>2 DEF PublishCommit, TypeOK
<1>4. lock' \in [PolicyIds -> Workers \cup {None}]
  BY DEF PublishCommit, TypeOK
<1>5. TypeOK'
  BY <1>2, <1>3, <1>4, AuditAppended, Finishes DEF TypeOK, PublishCommit
<1>6. /\ policy'[p].status = "published"
      /\ \A q \in PolicyIds \ {p} : policy'[q] = policy[q] /\ lock'[q] = lock[q]
  BY <1>1 DEF PublishCommit, TypeOK, PolicyRow
<1>7. Harmless
  <2>1. req'[w] = Idle /\ \A v \in Workers \ {w} : req'[v] = req[v]
    BY Finishes DEF PublishCommit
  <2>2. UNCHANGED target
    BY DEF PublishCommit
  <2>3. ASSUME NEW v \in Workers \ {w}, req[v].op = "publish"
        PROVE  /\ lock'[req[v].policy] = v
               /\ policy'[req[v].policy].status = "draft"
    BY <1>1, <1>6, <2>3, Publishers
  <2> QED
    BY <1>1, <1>6, <2>1, <2>2, <2>3 DEF Harmless, Exists
<1>8. /\ Log(row) /\ row.policy = p /\ row.target = None
      /\ policy'[p].status # "absent" /\ target' = target
  BY <1>6 DEF Row, PublishCommit
<1> HIDE DEF row
<1>9. ReferencesHold'
  BY <1>1, <1>2, <1>7, <1>8, AppendKeepsReferences
<1> QED
  BY <1>5, <1>7, <1>9, HarmlessKeepsRequests

\* What the republish transaction writes, with the successor and the copies named.
SuccessorOf(w, q, new, source) ==
  LET p == req[w].policy IN
  /\ ~Exists(q)
  /\ policy' = [policy EXCEPT ![q] =
        [status |-> "draft", name |-> req[w].name, version |-> req[w].version,
         ir |-> req[w].ir, prose |-> req[w].prose]]
  /\ target' = [t \in TargetIds |->
        IF t \in new THEN [target[source[t]] EXCEPT !.policy = q] ELSE target[t]]
  /\ Log(Row("republished_from", q, None, None, p, 0))

LEMMA RepublishWrites ==
  ASSUME NEW w \in Workers, RepublishCommit(w)
  PROVE  \E q \in PolicyIds, new \in SUBSET UnusedTargets :
           \E source \in Bijection(new, TargetsOf(req[w].policy)) :
             SuccessorOf(w, q, new, source)
<1> DEFINE p == req[w].policy
           Writes(q, new, source) ==
             target' = [t \in TargetIds |->
               IF t \in new THEN [target[source[t]] EXCEPT !.policy = q] ELSE target[t]]
<1>1. PICK q \in PolicyIds, new \in SUBSET UnusedTargets :
        /\ ~Exists(q)
        /\ policy' = [policy EXCEPT ![q] =
              [status |-> "draft", name |-> req[w].name, version |-> req[w].version,
               ir |-> req[w].ir, prose |-> req[w].prose]]
        /\ \E source \in Bijection(new, TargetsOf(p)) : Writes(q, new, source)
        /\ Log(Row("republished_from", q, None, None, p, 0))
  BY ZenonT(30) DEF RepublishCommit
<1>2. PICK source \in Bijection(new, TargetsOf(p)) : Writes(q, new, source)
  BY <1>1
<1>3. SuccessorOf(w, q, new, source)
  BY <1>1, <1>2 DEF SuccessorOf
<1> QED
  BY <1>3

LEMMA BaseRepublish ==
  ASSUME Base, NEW w \in Workers, RepublishCommit(w)
  PROVE  Base' /\ Harmless
<1> USE DEF Base
<1>1. PICK q \in PolicyIds, new \in SUBSET UnusedTargets :
        \E source \in Bijection(new, TargetsOf(req[w].policy)) :
          SuccessorOf(w, q, new, source)
  BY RepublishWrites
<1>2. PICK source \in Bijection(new, TargetsOf(req[w].policy)) :
        SuccessorOf(w, q, new, source)
  BY <1>1
<1> DEFINE p == req[w].policy
           row == Row("republished_from", q, None, None, p, 0)
<1>3. /\ p \in PolicyIds
      /\ req[w] \in Request
  BY DEF RepublishCommit, RequestsRemainValid, RequestValid, TypeOK
<1>4. row \in AuditRow
  BY <1>3 DEF Row, AuditRow, Actions
<1>5. policy' \in [PolicyIds -> PolicyRow]
  BY <1>2, <1>3 DEF SuccessorOf, TypeOK, PolicyRow, Request
<1>6. \A t \in new : source[t] \in TargetIds /\ Present(source[t])
  BY DEF Bijection, Injection, TargetsOf
<1>7. target' \in [TargetIds -> TargetRow]
  <2>1. \A t \in new : target[source[t]] \in TargetRow
    BY <1>6 DEF TypeOK
  <2>2. \A t \in new : [target[source[t]] EXCEPT !.policy = q] \in TargetRow
    BY <2>1 DEF TargetRow
  <2> QED
    BY <1>2, <2>2 DEF SuccessorOf, TypeOK
<1>8. TypeOK'
  BY <1>2, <1>4, <1>5, <1>7, AuditAppended, Finishes
  DEF TypeOK, RepublishCommit, SuccessorOf
<1>9. \A t \in TargetIds :
        IF t \in new THEN target'[t].policy = q /\ target[t].review = "absent"
        ELSE target'[t] = target[t]
  BY <1>2, <1>6 DEF SuccessorOf, TypeOK, TargetRow, UnusedTargets
<1>10. /\ policy[q].status = "absent" /\ policy'[q].status = "draft"
       /\ \A r \in PolicyIds \ {q} : policy'[r] = policy[r]
  BY <1>2 DEF SuccessorOf, Exists, TypeOK
<1>11. Harmless
  <2>1. \A v \in Workers : req'[v] = Idle \/ req'[v] = req[v]
    BY Finishes DEF RepublishCommit
  <2>2. UNCHANGED lock
    BY DEF RepublishCommit
  <2> QED
    BY <1>9, <1>10, <2>1, <2>2, Publishers DEF Harmless, Exists
<1>12. Log(row) /\ row.policy = q /\ row.target = None
  BY <1>2 DEF Row, SuccessorOf
<1> HIDE DEF row
<1>13. ReferencesHold'
  BY <1>4, <1>9, <1>10, <1>11, <1>12, AppendKeepsReferences
<1> QED
  BY <1>8, <1>11, <1>13, HarmlessKeepsRequests

LEMMA BaseAbort ==
  ASSUME Base, NEW w \in Workers, Abort(w)
  PROVE  Base'
<1> USE DEF Base
<1>1. /\ req' \in [Workers -> Request] /\ req'[w] = Idle
      /\ \A v \in Workers \ {w} : req'[v] = req[v]
  BY Finishes DEF Abort
<1>2. TypeOK'
  BY <1>1 DEF Abort, TypeOK
<1>3. ReferencesHold'
  BY DEF Abort, ReferencesHold, Exists
<1>4. Harmless
  <2>1. ASSUME NEW v \in Workers \ {w}, req[v].op = "publish"
        PROVE  lock'[req[v].policy] = v
    BY <2>1, Publishers DEF Abort
  <2> QED
    BY <1>1, <2>1, Publishers DEF Abort, Harmless, Exists
<1> QED
  BY <1>2, <1>3, <1>4, HarmlessKeepsRequests

\* The base invariant holds: no interleaving leaves a request with a stale row,
\* a dangling target or an audit row about nothing.
THEOREM BaseInvariant == Spec => []Base
<1>1. Base /\ [Next]_vars => Base'
  <2> SUFFICES ASSUME Base, [Next]_vars PROVE Base'
    OBVIOUS
  <2>1. CASE UNCHANGED vars
    BY <2>1 DEF vars, Base, TypeOK, RequestsRemainValid, RequestValid,
       ReferencesHold, Exists
  <2>2. CASE Create
    BY <2>2, BaseUpload, BaseFork DEF Create
  <2>3. ASSUME NEW w \in Workers, Step(w) PROVE Base'
    <3>1. CASE Extract(w)
      BY <3>1, BaseStart, BaseExtract DEF Extract
    <3>2. CASE Generate(w)
      BY <3>2, BaseStart, BaseGenerate DEF Generate
    <3>3. CASE Review(w)
      BY <3>3, BaseStart, BaseEdit, BaseReview DEF Review
    <3>4. CASE Publish(w)
      BY <3>4, BasePublishRead, BasePublish DEF Publish
    <3>5. CASE Republish(w)
      BY <3>5, BaseStart, BaseRepublish DEF Republish
    <3>6. CASE Abort(w)
      BY <3>6, BaseAbort
    <3> QED
      BY <2>3, <3>1, <3>2, <3>3, <3>4, <3>5, <3>6 DEF Step
  <2> QED
    BY <2>1, <2>2, <2>3 DEF Next
<1> QED
  BY BaseInit, <1>1, PTL DEF Spec

\* Every table is well typed in every reachable state.
THEOREM TypeCorrect == Spec => []TypeOK
<1>1. Base => TypeOK
  BY DEF Base
<1> QED
  BY BaseInvariant, <1>1, PTL

\* What a request remembered is true when it commits (RequestsRemainValid).
THEOREM RequestsStayValid == Spec => []RequestsRemainValid
<1>1. Base => RequestsRemainValid
  BY DEF Base
<1> QED
  BY BaseInvariant, <1>1, PTL

\* Targets and audit rows belong to policies that exist, and audit rows about a
\* target to one that was created (ReferencesHold).
THEOREM ReferencesAreKept == Spec => []ReferencesHold
<1>1. Base => ReferencesHold
  BY DEF Base
<1> QED
  BY BaseInvariant, <1>1, PTL

---------------------------------------------------------------------------
(* Action properties that follow from the base invariant.                  *)

\* A step either leaves the tables alone or is harmless.
LEMMA StepsAreHarmless ==
  ASSUME Base, [Next]_vars
  PROVE  UNCHANGED <<policy, target, audit>> \/ Harmless
  BY Transactions, BaseUpload, BaseFork, BaseExtract, BaseGenerate, BaseEdit,
     BaseReview, BasePublish, BaseRepublish

\* A published policy row never changes again: not its status, version, name, IR.
THEOREM PublishedRowsAreFinal == Spec => PublishedIsFinal
<1>1. Base /\ [Next]_vars =>
        [\A p \in PolicyIds :
           policy[p].status = "published" => policy'[p] = policy[p]]_vars
  BY StepsAreHarmless DEF Harmless
<1> QED
  BY BaseInvariant, <1>1, PTL DEF Spec, PublishedIsFinal

\* Every draft successor equals the parent it names, at the moment it is made.
THEOREM SuccessorsInherit == Spec => SuccessorInheritsParent
<1> DEFINE Inherits ==
      \A q \in PolicyIds : ~Exists(q) /\ Exists(q)' =>
        LET row == audit'[Len(audit')] IN
        row.action = "republished_from" =>
          /\ policy'[q].ir = policy[row.parent].ir
          /\ policy'[q].name = policy[row.parent].name
          /\ policy'[q].prose = policy[row.parent].prose
<1>1. Base /\ [Next]_vars => Inherits
  <2> SUFFICES ASSUME Base, [Next]_vars PROVE Inherits
    OBVIOUS
  <2>1. audit \in Seq(AuditRow)
    BY DEF Base, TypeOK
  <2>2. ASSUME NEW n \in Names, Upload(n) PROVE Inherits
    <3>1. PICK p \in PolicyIds : Upload(n)!(p)
      BY <2>2 DEF Upload
    <3>2. Row("uploaded", p, None, None, None, 0) \in AuditRow
      BY DEF Row, AuditRow, Actions
    <3> QED
      BY <2>1, <3>1, <3>2, AuditAppended DEF Row
  <2>3. ASSUME NEW n \in Names, NEW k \in Keys \ SubtypedKeys, NEW m \in Modules,
               Fork(n, k, m)
        PROVE  Inherits
    <3>1. PICK p \in PolicyIds, t \in UnusedTargets : Fork(n, k, m)!(p, t)
      BY <2>3 DEF Fork
    <3>2. Row("forked", p, None, m, None, 0) \in AuditRow
      BY DEF Row, AuditRow, Actions
    <3> QED
      BY <2>1, <3>1, <3>2, AuditAppended DEF Row
  <2>4. ASSUME NEW w \in Workers, NEW ir \in Irs, ExtractCommit(w, ir) PROVE Inherits
    <3>1. req[w].policy \in PolicyIds
      BY <2>4 DEF Base, RequestsRemainValid, RequestValid, ExtractCommit
    <3>2. \A q \in PolicyIds : policy'[q].status = policy[q].status
      BY <2>4, <3>1 DEF ExtractCommit, Base, TypeOK, PolicyRow
    <3> QED
      BY <3>2 DEF Exists
  <2>5. ASSUME NEW w \in Workers, PublishCommit(w) PROVE Inherits
    <3>1. req[w].policy \in PolicyIds /\ policy[req[w].policy].status = "draft"
      BY <2>5, Publishers DEF PublishCommit
    <3>2. \A q \in PolicyIds : policy[q].status = "absent" => policy'[q] = policy[q]
      BY <2>5, <3>1 DEF PublishCommit, Base, TypeOK
    <3> QED
      BY <3>2 DEF Exists
  <2>6. ASSUME NEW w \in Workers, RepublishCommit(w) PROVE Inherits
    <3>1. PICK q \in PolicyIds, new \in SUBSET UnusedTargets :
            \E source \in Bijection(new, TargetsOf(req[w].policy)) :
              SuccessorOf(w, q, new, source)
      BY <2>6, RepublishWrites
    <3>2. PICK source \in Bijection(new, TargetsOf(req[w].policy)) :
            SuccessorOf(w, q, new, source)
      BY <3>1
    <3> DEFINE p == req[w].policy
               row == Row("republished_from", q, None, None, p, 0)
    <3>3. /\ p \in PolicyIds
          /\ req[w].ir = policy[p].ir /\ req[w].name = policy[p].name
          /\ req[w].prose = policy[p].prose
      BY <2>6 DEF Base, RequestsRemainValid, RequestValid, RepublishCommit
    <3>4. row \in AuditRow
      BY <3>3 DEF Row, AuditRow, Actions
    <3>5. Log(row) /\ row.parent = p
      BY <3>2 DEF SuccessorOf, Row
    <3> HIDE DEF row
    <3>6. audit'[Len(audit')].parent = p
      BY <2>1, <3>4, <3>5, AuditAppended
    <3>7. /\ policy'[q].ir = policy[p].ir /\ policy'[q].name = policy[p].name
          /\ policy'[q].prose = policy[p].prose
          /\ \A r \in PolicyIds \ {q} : policy'[r] = policy[r]
      BY <3>2, <3>3 DEF SuccessorOf, Base, TypeOK
    <3> QED
      BY <3>6, <3>7 DEF Exists
  <2>7. CASE UNCHANGED policy
    BY <2>7 DEF Exists
  <2> QED
    BY <2>2, <2>3, <2>4, <2>5, <2>6, <2>7, Transactions
    DEF GenerateCommit, EditCommit, ReviewCommit
<1> QED
  BY BaseInvariant, <1>1, PTL DEF Spec, SuccessorInheritsParent

---------------------------------------------------------------------------
(* Invariants about the audit log.                                         *)

\* A transaction that publishes nothing keeps PublishedOnce.
LEMMA NothingPublished ==
  ASSUME Base, PublishedOnce, NEW row \in AuditRow, Log(row),
         row.action # "published",
         \A p \in PolicyIds :
           policy'[p].status = "published" <=> policy[p].status = "published"
  PROVE  PublishedOnce'
<1>1. audit \in Seq(AuditRow)
  BY DEF Base, TypeOK
<1>2. \A i \in 1..Len(audit') :
        audit'[i].action = "published" => i \in 1..Len(audit) /\ audit'[i] = audit[i]
  BY <1>1, AuditAppended
<1>3. \A i \in 1..Len(audit) : i \in 1..Len(audit') /\ audit'[i] = audit[i]
  BY <1>1, AuditAppended
<1> QED
  BY <1>2, <1>3 DEF PublishedOnce

LEMMA PublishedOnceStep ==
  ASSUME Base, PublishedOnce, [Next]_vars
  PROVE  PublishedOnce'
<1>0. audit \in Seq(AuditRow)
  BY DEF Base, TypeOK
<1>1. CASE UNCHANGED <<policy, target, audit>>
  BY <1>1 DEF PublishedOnce
<1>2. ASSUME NEW n \in Names, Upload(n) PROVE PublishedOnce'
  <2>1. PICK p \in PolicyIds : Upload(n)!(p)
    BY <1>2 DEF Upload
  <2> DEFINE row == Row("uploaded", p, None, None, None, 0)
  <2>2. row \in AuditRow /\ row.action # "published" /\ Log(row)
    BY <2>1 DEF Row, AuditRow, Actions
  <2>3. \A q \in PolicyIds :
          policy'[q].status = "published" <=> policy[q].status = "published"
    BY <2>1 DEF Base, TypeOK, Exists
  <2> HIDE DEF row
  <2> QED
    BY <2>2, <2>3, NothingPublished
<1>3. ASSUME NEW n \in Names, NEW k \in Keys \ SubtypedKeys, NEW m \in Modules,
             Fork(n, k, m)
      PROVE  PublishedOnce'
  <2>1. PICK p \in PolicyIds, t \in UnusedTargets : Fork(n, k, m)!(p, t)
    BY <1>3 DEF Fork
  <2> DEFINE row == Row("forked", p, None, m, None, 0)
  <2>2. row \in AuditRow /\ row.action # "published" /\ Log(row)
    BY <2>1 DEF Row, AuditRow, Actions
  <2>3. \A q \in PolicyIds :
          policy'[q].status = "published" <=> policy[q].status = "published"
    BY <2>1 DEF Base, TypeOK, Exists
  <2> HIDE DEF row
  <2> QED
    BY <2>2, <2>3, NothingPublished
<1>4. ASSUME NEW w \in Workers, NEW ir \in Irs, ExtractCommit(w, ir)
      PROVE  PublishedOnce'
  <2> DEFINE p == req[w].policy
             row == Row("ir_extracted", p, None, None, None, 0)
  <2>1. p \in PolicyIds
    BY <1>4 DEF Base, RequestsRemainValid, RequestValid, ExtractCommit
  <2>2. row \in AuditRow /\ row.action # "published" /\ Log(row)
    BY <1>4, <2>1 DEF Row, AuditRow, Actions, ExtractCommit
  <2>3. \A q \in PolicyIds : policy'[q].status = policy[q].status
    BY <1>4, <2>1 DEF ExtractCommit, Base, TypeOK, PolicyRow
  <2> HIDE DEF row
  <2> QED
    BY <2>2, <2>3, NothingPublished
<1>5. ASSUME NEW w \in Workers, GenerateCommit(w) PROVE PublishedOnce'
  <2> DEFINE row == Row("rego_generated", req[w].policy, None, None, None,
                        Cardinality(Plan[req[w].ir]))
  <2>1. req[w].policy \in PolicyIds /\ req[w].ir \in Irs
    BY <1>5 DEF Base, RequestsRemainValid, RequestValid, GenerateCommit
  <2>2. row \in AuditRow
    <3>1. Cardinality(Plan[req[w].ir]) \in Nat
      BY <2>1, FS_CardinalityType
    <3> QED
      BY <2>1, <3>1 DEF Row, AuditRow, Actions
  <2>3. row.action # "published" /\ Log(row) /\ policy' = policy
    BY <1>5 DEF Row, GenerateCommit
  <2> HIDE DEF row
  <2> QED
    BY <2>2, <2>3, NothingPublished
<1>6. ASSUME NEW w \in Workers, NEW m \in Modules, EditCommit(w, m)
      PROVE  PublishedOnce'
  <2> DEFINE row == Row("target_edited", req[w].policy, req[w].target, m, None, 0)
  <2>1. req[w].policy \in PolicyIds /\ req[w].target \in TargetIds
    BY <1>6 DEF Base, RequestsRemainValid, RequestValid, EditCommit
  <2>2. row \in AuditRow /\ row.action # "published" /\ Log(row) /\ policy' = policy
    BY <1>6, <2>1 DEF Row, AuditRow, Actions, EditCommit
  <2> HIDE DEF row
  <2> QED
    BY <2>2, NothingPublished
<1>7. ASSUME NEW w \in Workers, NEW op \in {"target_approved", "target_rejected"},
             ReviewCommit(w, op)
      PROVE  PublishedOnce'
  <2> DEFINE row == Row(op, req[w].policy, req[w].target, target[req[w].target].rego,
                        None, 0)
  <2>1. req[w].policy \in PolicyIds /\ req[w].target \in TargetIds
    BY <1>7 DEF Base, RequestsRemainValid, RequestValid, ReviewCommit
  <2>2. row \in AuditRow /\ row.action # "published" /\ Log(row) /\ policy' = policy
    BY <1>7, <2>1 DEF Row, AuditRow, Actions, ReviewCommit, Base, TypeOK, TargetRow
  <2> HIDE DEF row
  <2> QED
    BY <2>2, NothingPublished
<1>8. ASSUME NEW w \in Workers, PublishCommit(w) PROVE PublishedOnce'
  <2> DEFINE p == req[w].policy
             row == Row("published", p, None, None, None, 0)
  <2>1. p \in PolicyIds /\ policy[p].status = "draft"
    BY <1>8, Publishers DEF PublishCommit
  <2>2. row \in AuditRow /\ row.action = "published" /\ row.policy = p /\ Log(row)
    BY <1>8, <2>1 DEF Row, AuditRow, Actions, PublishCommit
  <2>3. /\ policy'[p].status = "published"
        /\ \A q \in PolicyIds \ {p} : policy'[q] = policy[q]
    BY <1>8, <2>1 DEF PublishCommit, Base, TypeOK, PolicyRow
  <2> HIDE DEF row
  <2>4. \A i \in 1..Len(audit) :
          ~(audit[i].action = "published" /\ audit[i].policy = p)
    BY <2>1 DEF PublishedOnce
  <2>5. /\ Len(audit) \in Nat /\ Len(audit') = Len(audit) + 1
        /\ \A i \in 1..Len(audit) : audit'[i] = audit[i]
        /\ audit'[Len(audit) + 1] = row
    BY <1>0, <2>2, AuditAppended
  <2>6. ASSUME NEW q \in PolicyIds, q # p
        PROVE  {i \in 1..Len(audit') :
                  audit'[i].action = "published" /\ audit'[i].policy = q}
               = {i \in 1..Len(audit) :
                    audit[i].action = "published" /\ audit[i].policy = q}
    BY <2>2, <2>5, <2>6
  <2>7. {i \in 1..Len(audit') :
           audit'[i].action = "published" /\ audit'[i].policy = p} = {Len(audit) + 1}
    BY <2>2, <2>4, <2>5
  <2> DEFINE Rows(q) == {i \in 1..Len(audit) :
                           audit[i].action = "published" /\ audit[i].policy = q}
             RowsAfter(q) == {i \in 1..Len(audit') :
                                audit'[i].action = "published" /\ audit'[i].policy = q}
  <2>8. ASSUME NEW q \in PolicyIds
        PROVE  /\ \A i, j \in RowsAfter(q) : i = j
               /\ (policy'[q].status = "published") <=> (RowsAfter(q) # {})
    <3>1. CASE q = p
      <4>1. RowsAfter(q) = {Len(audit) + 1}
        BY <2>7, <3>1
      <4>2. policy'[q].status = "published"
        BY <2>3, <3>1
      <4> HIDE DEF RowsAfter
      <4> QED
        BY <4>1, <4>2
    <3>2. CASE q # p
      <4>1. policy'[q] = policy[q]
        BY <2>3, <3>2
      <4>3. RowsAfter(q) = Rows(q)
        BY <2>6, <3>2
      <4>2. /\ \A i, j \in Rows(q) : i = j
            /\ (policy[q].status = "published") <=> (Rows(q) # {})
        BY DEF PublishedOnce
      <4> HIDE DEF Rows, RowsAfter
      <4> QED
        BY <4>1, <4>2, <4>3
    <3> QED
      BY <3>1, <3>2
  <2> QED
    BY <2>8 DEF PublishedOnce
<1>9. ASSUME NEW w \in Workers, RepublishCommit(w) PROVE PublishedOnce'
  <2>1. PICK q \in PolicyIds, new \in SUBSET UnusedTargets :
          \E source \in Bijection(new, TargetsOf(req[w].policy)) :
            SuccessorOf(w, q, new, source)
    BY <1>9, RepublishWrites
  <2> DEFINE row == Row("republished_from", q, None, None, req[w].policy, 0)
  <2>2. req[w].policy \in PolicyIds
    BY <1>9 DEF Base, RequestsRemainValid, RequestValid, RepublishCommit
  <2>3. row \in AuditRow /\ row.action # "published" /\ Log(row)
    BY <2>1, <2>2 DEF Row, AuditRow, Actions, SuccessorOf
  <2>4. \A p \in PolicyIds :
          policy'[p].status = "published" <=> policy[p].status = "published"
    BY <2>1 DEF SuccessorOf, Base, TypeOK, Exists
  <2> HIDE DEF row
  <2> QED
    BY <2>3, <2>4, NothingPublished
<1> QED
  BY <1>1, <1>2, <1>3, <1>4, <1>5, <1>6, <1>7, <1>8, <1>9, Transactions

\* A policy's status says published exactly when one published row says so: the
\* row lock makes concurrent publish requests exclude each other.
THEOREM PolicyIsPublishedOnce == Spec => []PublishedOnce
<1>1. Init => PublishedOnce
  BY DEF Init, PublishedOnce, NoPolicy
<1> QED
  BY BaseInvariant, <1>1, PublishedOnceStep, PTL DEF Spec

===========================================================================
