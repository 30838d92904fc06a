--------------------------- MODULE PolicyLifecycle ---------------------------
(***************************************************************************)
(* The customer-policy pipeline of the portal API for one tenant: upload   *)
(* or fork, IR extraction, Rego generation, review of the generated        *)
(* targets, publication, and the draft successor of a published policy.    *)
(*                                                                         *)
(* Requests run concurrently in Workers.  A request that awaits an LLM,    *)
(* `opa check` or another pool connection between its checks and its       *)
(* transaction is split at that await: the ...Start step is what it reads  *)
(* on the pool, the ...Commit step is its transaction.  PostgreSQL runs    *)
(* them READ COMMITTED: a statement sees what was committed before it.     *)
(*                                                                         *)
(* The Rego artifacts put_rego stores are immutable rows, so a target's    *)
(* storage key and sha256 are one value here, the module of Rego itself.   *)
(***************************************************************************)
EXTENDS Naturals, Sequences, FiniteSets, Functions

CONSTANTS
  Workers,      \* the API's request slots
  PolicyIds,    \* ids of customer_policies rows
  TargetIds,    \* ids of customer_policy_targets rows
  Names,        \* policy names
  Versions,     \* version_semver values
  FirstVersion, \* the column's default, v0.1.0
  Irs,          \* structured policies an extraction can return
  Plan,         \* Plan[ir]: the <<control, key>> pairs the IR applies to
  Modules,      \* Rego modules, by content hash
  Keys,         \* (target_system, target_subtype) pairs
  SubtypedKeys, \* those whose subtype is not NULL
  None,
  MaxLog        \* bound on the audit log, for model checking

ASSUME NoneAssumption ==
  /\ None \notin Workers \cup PolicyIds \cup TargetIds \cup Irs \cup Modules
  /\ None \notin Names \cup Versions \cup Keys
ASSUME VersionAssumption == FirstVersion \in Versions
ASSUME KeyAssumption == SubtypedKeys \subseteq Keys
ASSUME PlanAssumption ==
  /\ DOMAIN Plan = Irs
  /\ \A ir \in Irs :
       IsFiniteSet(Plan[ir]) /\ \A item \in Plan[ir] : item[2] \in Keys
ASSUME MaxLogAssumption == MaxLog \in Nat

VARIABLES
  policy,  \* customer_policies: PolicyIds -> row
  target,  \* customer_policy_targets: TargetIds -> row
  audit,   \* policy_audit_log, in id order
  lock,    \* the worker whose transaction holds a policy row FOR UPDATE
  req      \* what each worker's request remembers between its steps

vars == <<policy, target, audit, lock, req>>

Reviews == {"pending", "approved", "rejected"}

NoPolicy == [status |-> "absent", name |-> None, version |-> None,
             ir |-> None, prose |-> FALSE]

NoTarget == [review |-> "absent", policy |-> None, key |-> None, rego |-> None]

Idle == [op |-> "idle", policy |-> None, target |-> None, ir |-> None,
         name |-> None, version |-> None, prose |-> FALSE, seen |-> {}]

Init ==
  /\ policy = [p \in PolicyIds |-> NoPolicy]
  /\ target = [t \in TargetIds |-> NoTarget]
  /\ audit = << >>
  /\ lock = [p \in PolicyIds |-> None]
  /\ req = [w \in Workers |-> Idle]

---------------------------------------------------------------------------
(* Helpers *)

Exists(p) == policy[p].status # "absent"
Present(t) == target[t].review \in Reviews
TargetsOf(p) == {t \in TargetIds : Present(t) /\ target[t].policy = p}
ApprovedOf(p) == {t \in TargetsOf(p) : target[t].review = "approved"}
UnusedTargets == {t \in TargetIds : target[t].review = "absent"}
KeysOf(ir) == {item[2] : item \in Plan[ir]}

\* An audit row.  `n` is the count some actions record, `parent` the policy a
\* successor was made from.
Row(action, p, t, rego, parent, n) ==
  [action |-> action, policy |-> p, target |-> t, rego |-> rego,
   parent |-> parent, n |-> n]

Log(row) == Len(audit) < MaxLog /\ audit' = Append(audit, row)

\* The INSERT of a row that references policy p takes a key-share lock on p and
\* waits for a transaction that holds p FOR UPDATE.
Unlocked(p) == lock[p] = None

Finish(w) == req' = [req EXCEPT ![w] = Idle]

---------------------------------------------------------------------------
(* Creating policies: one transaction each *)

\* upload_policy, once the document is parsed.
Upload(n) ==
  \E p \in PolicyIds :
    /\ ~Exists(p)
    /\ policy' = [policy EXCEPT ![p] =
          [status |-> "draft", name |-> n, version |-> FirstVersion,
           ir |-> None, prose |-> TRUE]]
    /\ Log(Row("uploaded", p, None, None, None, 0))
    /\ UNCHANGED <<target, lock, req>>

\* fork_standard_policy: the overlay starts with one pending target holding the
\* library file, its system inferred from the path and no subtype.
Fork(n, k, m) ==
  \E p \in PolicyIds, t \in UnusedTargets :
    /\ ~Exists(p)
    /\ policy' = [policy EXCEPT ![p] =
          [status |-> "draft", name |-> n, version |-> FirstVersion,
           ir |-> None, prose |-> FALSE]]
    /\ target' = [target EXCEPT ![t] =
          [review |-> "pending", policy |-> p, key |-> k, rego |-> m]]
    /\ Log(Row("forked", p, None, m, None, 0))
    /\ UNCHANGED <<lock, req>>

---------------------------------------------------------------------------
(* extract_policy_ir *)

\* Faulty variant: the 404 and the check for a source document are missing.
ExtractStartUnchecked(w, p) ==
  /\ req[w] = Idle
  /\ req' = [req EXCEPT ![w] = [Idle EXCEPT !.op = "extract", !.policy = p]]
  /\ UNCHANGED <<policy, target, audit, lock>>

ExtractStart(w, p) ==
  /\ req[w] = Idle
  /\ Exists(p)
  /\ policy[p].prose
  /\ req' = [req EXCEPT ![w] = [Idle EXCEPT !.op = "extract", !.policy = p]]
  /\ UNCHANGED <<policy, target, audit, lock>>

\* Faulty variant: the trigger compares nothing.
TriggerAcceptsAll(p, ir) == TRUE

\* The trigger enforce_published_immutability, for an UPDATE that sets ir_json.
TriggerAccepts(p, ir) == policy[p].status = "published" => ir = policy[p].ir

\* The UPDATE has no status condition of its own; the trigger's exception rolls
\* the transaction back (Abort).
ExtractCommit(w, ir) ==
  LET p == req[w].policy IN
  /\ req[w].op = "extract"
  /\ Unlocked(p)
  /\ TriggerAccepts(p, ir)
  /\ policy' = [policy EXCEPT ![p].ir = ir]
  /\ Log(Row("ir_extracted", p, None, None, None, 0))
  /\ Finish(w)
  /\ UNCHANGED <<target, lock>>

---------------------------------------------------------------------------
(* generate_policy_rego *)

\* Reads the IR; there is no check of the policy's status.
GenerateStart(w, p) ==
  /\ req[w] = Idle
  /\ Exists(p)
  /\ policy[p].ir # None
  /\ req' = [req EXCEPT ![w] =
        [Idle EXCEPT !.op = "generate", !.policy = p, !.ir = policy[p].ir]]
  /\ UNCHANGED <<policy, target, audit, lock>>

\* The modules are generated and the transaction deletes the rows with the same
\* (policy, system, subtype).  Its DELETE sees only rows committed by now.
GenerateDelete(w) ==
  LET p == req[w].policy IN
  /\ req[w].op = "generate"
  /\ req' = [req EXCEPT ![w].op = "replace",
                        ![w].seen = {t \in TargetsOf(p) :
                                       target[t].key \in KeysOf(req[w].ir)}]
  /\ UNCHANGED <<policy, target, audit, lock>>

\* Faulty variant: a module that passes `opa check` needs no reviewer.
AutoApprove == {"approved", "rejected"}

\* Faulty variant: a status the column's CHECK does not list.
FailedReviews == {"pending", "failed"}

\* pending when `opa check` accepted the module, rejected when it did not.
GeneratedReviews == {"pending", "rejected"}

\* UNIQUE (customer_policy_id, target_system, target_subtype) treats NULL
\* subtypes as distinct; a conflict rolls the transaction back (Abort).
NoKeyConflict(p, ir, seen) ==
  \A t \in TargetsOf(p) \ seen :
    target[t].key \notin KeysOf(ir) \cap SubtypedKeys

\* The transaction's end.  Its loop runs DELETE and INSERT once per (control,
\* target), and the DELETE's key has no control in it: of the controls that
\* apply to one key only the last one's row is left, and each was counted.
GenerateCommit(w) ==
  LET p == req[w].policy
      ir == req[w].ir
      seen == req[w].seen
  IN
  /\ req[w].op = "replace"
  /\ Unlocked(p)
  /\ NoKeyConflict(p, ir, seen)
  /\ \E new \in SUBSET UnusedTargets :
       \E key \in Bijection(new, KeysOf(ir)), rego \in [new -> Modules],
          review \in [new -> GeneratedReviews] :
         target' = [t \in TargetIds |->
           IF t \in new
           THEN [review |-> review[t], policy |-> p, key |-> key[t], rego |-> rego[t]]
           ELSE IF t \in seen /\ Present(t)
                THEN [target[t] EXCEPT !.review = "deleted"]
                ELSE target[t]]
  /\ Log(Row("rego_generated", p, None, None, None, Cardinality(Plan[ir])))
  /\ Finish(w)
  /\ UNCHANGED <<policy, lock>>

---------------------------------------------------------------------------
(* Target review: edit_policy_target, approve_policy_target,               *)
(* reject_policy_target                                                    *)

\* _fetch_policy_for_target_action reads the policy on the pool, outside the
\* transaction that follows.
TargetActionAllowed(t) ==
  /\ Present(t)
  /\ policy[target[t].policy].status # "published"

TargetActionStart(w, t, op) ==
  /\ req[w] = Idle
  /\ TargetActionAllowed(t)
  /\ req' = [req EXCEPT ![w] =
        [Idle EXCEPT !.op = op, !.policy = target[t].policy, !.target = t]]
  /\ UNCHANGED <<policy, target, audit, lock>>

\* Faulty variant: an edit keeps the verdict the previous content got.
KeptReview(t) == target[t].review

\* An edit resets the verdict: the new content must be reviewed again.
ReviewAfterEdit(t) == "pending"

\* `opa check` accepted the new text m.  If the row was deleted meanwhile the
\* UPDATE finds nothing, yet the audit row is inserted and committed before the
\* handler fails on the missing row.
EditCommit(w, m) ==
  LET t == req[w].target IN
  /\ req[w].op = "edit"
  /\ Unlocked(req[w].policy)
  /\ target' = IF Present(t)
               THEN [target EXCEPT ![t].rego = m, ![t].review = ReviewAfterEdit(t)]
               ELSE target
  /\ Log(Row("target_edited", req[w].policy, t, m, None, 0))
  /\ Finish(w)
  /\ UNCHANGED <<policy, lock>>

\* The verdict an audit action stands for.
Verdict == [target_edited |-> "pending", target_approved |-> "approved",
            target_rejected |-> "rejected"]

\* Approve and reject: the UPDATE looks at neither the policy's status nor the
\* content the reviewer saw; it judges, and records, the row's content now.
\* A deleted row is a 404 (Abort).
ReviewCommit(w, op) ==
  LET t == req[w].target IN
  /\ req[w].op = op
  /\ Unlocked(req[w].policy)
  /\ Present(t)
  /\ target' = [target EXCEPT ![t].review = Verdict[op]]
  /\ Log(Row(op, req[w].policy, t, target[t].rego, None, 0))
  /\ Finish(w)
  /\ UNCHANGED <<policy, lock>>

---------------------------------------------------------------------------
(* publish_policy: one transaction that holds the policy row FOR UPDATE *)

Publishable(p) ==
  /\ Exists(p)
  /\ policy[p].status # "published"
  /\ ApprovedOf(p) # {}

\* Faulty variant: SELECT without FOR UPDATE.
PublishReadUnlocked(w, p) ==
  /\ req[w] = Idle
  /\ Publishable(p)
  /\ req' = [req EXCEPT ![w] = [Idle EXCEPT !.op = "publish", !.policy = p]]
  /\ UNCHANGED <<policy, target, audit, lock>>

\* SELECT ... FOR UPDATE waits for another holder, then the status and the
\* number of approved targets are checked.
PublishRead(w, p) ==
  /\ req[w] = Idle
  /\ Unlocked(p)
  /\ Publishable(p)
  /\ lock' = [lock EXCEPT ![p] = w]
  /\ req' = [req EXCEPT ![w] = [Idle EXCEPT !.op = "publish", !.policy = p]]
  /\ UNCHANGED <<policy, target, audit>>

PublishCommit(w) ==
  LET p == req[w].policy IN
  /\ req[w].op = "publish"
  /\ policy' = [policy EXCEPT ![p].status = "published"]
  /\ Log(Row("published", p, None, None, None, 0))
  /\ lock' = [lock EXCEPT ![p] = None]
  /\ Finish(w)
  /\ UNCHANGED target

---------------------------------------------------------------------------
(* republish_policy *)

\* Faulty variant: any existing policy may have a successor.
MayBeParentAny(p) == Exists(p)

MayBeParent(p) == policy[p].status = "published"

\* The parent and the version collision are read on the pool.
RepublishStart(w, p, v) ==
  /\ req[w] = Idle
  /\ MayBeParent(p)
  /\ ~\E q \in PolicyIds : policy[q].name = policy[p].name /\ policy[q].version = v
  /\ req' = [req EXCEPT ![w] =
        [Idle EXCEPT !.op = "republish", !.policy = p, !.version = v,
                     !.name = policy[p].name, !.ir = policy[p].ir,
                     !.prose = policy[p].prose]]
  /\ UNCHANGED <<policy, target, audit, lock>>

\* The draft successor takes the parent row read before and the parent's
\* targets as they are now, verdicts included.
RepublishCommit(w) ==
  LET p == req[w].policy IN
  /\ req[w].op = "republish"
  /\ \E q \in PolicyIds, new \in SUBSET UnusedTargets :
       /\ ~Exists(q)
       /\ policy' = [policy EXCEPT ![q] =
             [status |-> "draft", name |-> req[w].name, version |-> req[w].version,
              ir |-> req[w].ir, prose |-> req[w].prose]]
       /\ \E source \in Bijection(new, TargetsOf(p)) :
            target' = [t \in TargetIds |->
              IF t \in new THEN [target[source[t]] EXCEPT !.policy = q] ELSE target[t]]
       /\ Log(Row("republished_from", q, None, None, p, 0))
  /\ Finish(w)
  /\ UNCHANGED lock

---------------------------------------------------------------------------
(* A request that ends in an error (the LLM, opa, a 404, a constraint, the *)
(* trigger, a lost connection) leaves no write behind: its transaction is  *)
(* rolled back and its row lock released.                                  *)
Abort(w) ==
  /\ req[w] # Idle
  /\ Finish(w)
  /\ lock' = [p \in PolicyIds |-> IF lock[p] = w THEN None ELSE lock[p]]
  /\ UNCHANGED <<policy, target, audit>>

Create ==
  \E n \in Names :
    \/ Upload(n)
    \/ \E k \in Keys \ SubtypedKeys, m \in Modules : Fork(n, k, m)

Extract(w) ==
  \/ \E p \in PolicyIds : ExtractStart(w, p)
  \/ \E ir \in Irs : ExtractCommit(w, ir)

Generate(w) ==
  \/ \E p \in PolicyIds : GenerateStart(w, p)
  \/ GenerateDelete(w)
  \/ GenerateCommit(w)

Review(w) ==
  \/ \E t \in TargetIds, op \in {"edit", "target_approved", "target_rejected"} :
       TargetActionStart(w, t, op)
  \/ \E m \in Modules : EditCommit(w, m)
  \/ \E op \in {"target_approved", "target_rejected"} : ReviewCommit(w, op)

Publish(w) == (\E p \in PolicyIds : PublishRead(w, p)) \/ PublishCommit(w)

Republish(w) ==
  \/ \E p \in PolicyIds, v \in Versions : RepublishStart(w, p, v)
  \/ RepublishCommit(w)

Step(w) ==
  Extract(w) \/ Generate(w) \/ Review(w) \/ Publish(w) \/ Republish(w) \/ Abort(w)

Next == Create \/ \E w \in Workers : Step(w)

Spec == Init /\ [][Next]_vars

---------------------------------------------------------------------------
(* Properties *)

PolicyRow ==
  [status: {"absent", "draft", "published"}, name: Names \cup {None},
   version: Versions \cup {None}, ir: Irs \cup {None}, prose: BOOLEAN]

TargetRow ==
  [review: Reviews \cup {"absent", "deleted"}, policy: PolicyIds \cup {None},
   key: Keys \cup {None}, rego: Modules \cup {None}]

Actions ==
  {"uploaded", "forked", "ir_extracted", "rego_generated", "target_edited",
   "target_approved", "target_rejected", "published", "republished_from"}

AuditRow ==
  [action: Actions, policy: PolicyIds, target: TargetIds \cup {None},
   rego: Modules \cup {None}, parent: PolicyIds \cup {None}, n: Nat]

Ops == {"idle", "extract", "generate", "replace", "edit", "target_approved",
        "target_rejected", "publish", "republish"}

Request ==
  [op: Ops, policy: PolicyIds \cup {None}, target: TargetIds \cup {None},
   ir: Irs \cup {None}, name: Names \cup {None}, version: Versions \cup {None},
   prose: BOOLEAN, seen: SUBSET TargetIds]

\* Every table holds rows of its columns' types.
TypeOK ==
  /\ policy \in [PolicyIds -> PolicyRow]
  /\ target \in [TargetIds -> TargetRow]
  /\ audit \in Seq(AuditRow)
  /\ lock \in [PolicyIds -> Workers \cup {None}]
  /\ req \in [Workers -> Request]

RequestValid(w) ==
  LET r == req[w] IN
  /\ r.op # "idle" => r.policy \in PolicyIds /\ Exists(r.policy)
  /\ r.op \in {"edit", "target_approved", "target_rejected"} =>
       /\ r.target \in TargetIds
       /\ target[r.target].review # "absent"
       /\ target[r.target].policy = r.policy
  /\ r.op \in {"generate", "replace"} => r.ir \in Irs
  /\ r.op = "publish" => lock[r.policy] = w /\ policy[r.policy].status = "draft"
  /\ r.op = "republish" =>
       /\ policy[r.policy].status = "published"
       /\ r.name = policy[r.policy].name
       /\ r.ir = policy[r.policy].ir
       /\ r.prose = policy[r.policy].prose

\* What a request remembers is still true when it commits: the row it works on
\* exists, a target it was admitted to has not moved to another policy, a
\* publisher still holds the unpublished row, and a parent still is what was read.
RequestsRemainValid == \A w \in Workers : RequestValid(w)

\* Referential integrity: every target and every audit row belongs to a policy
\* that exists, an audit row about a target to one that was created, and only
\* the review actions name a target.
ReferencesHold ==
  /\ \A t \in TargetIds : target[t].review # "absent" =>
       target[t].policy \in PolicyIds /\ Exists(target[t].policy)
  /\ \A i \in 1..Len(audit) :
       /\ Exists(audit[i].policy)
       /\ audit[i].target # None =>
            /\ audit[i].action \in DOMAIN Verdict
            /\ target[audit[i].target].review # "absent"

\* Row i is the last word of the audit log on target t.
LastOn(t, i) ==
  /\ i \in 1..Len(audit)
  /\ audit[i].target = t
  /\ \A j \in 1..Len(audit) : audit[j].target = t => j <= i

\* The audit log explains every review: the last row about a target that still
\* exists names the content it holds and the verdict it carries, however edits,
\* reviews, regenerations and their failures interleave.
AuditExplainsReview ==
  \A t \in TargetIds : Present(t) =>
    \A i \in 1..Len(audit) : LastOn(t, i) =>
      /\ target[t].rego = audit[i].rego
      /\ target[t].review = Verdict[audit[i].action]

\* No content is approved that no reviewer approved: whatever generation and
\* republication copied or replaced, an approved module has a target_approved
\* row for this very module under a policy of the same name.
ApprovedWasReviewed ==
  \A t \in TargetIds : target[t].review = "approved" =>
    \E i \in 1..Len(audit) :
      /\ audit[i].action = "target_approved"
      /\ audit[i].rego = target[t].rego
      /\ policy[audit[i].policy].name = policy[target[t].policy].name

\* A policy is published by exactly one request, and has been when its status
\* says so: two concurrent publish requests do not both succeed.
PublishedOnce ==
  \A p \in PolicyIds :
    LET rows == {i \in 1..Len(audit) :
                   audit[i].action = "published" /\ audit[i].policy = p}
    IN  /\ \A i, j \in rows : i = j
        /\ (policy[p].status = "published") <=> (rows # {})

\* A published row is final: an extraction that was running when the policy was
\* published cannot change its IR, and nothing takes the status back.
PublishedIsFinal ==
  [][\A p \in PolicyIds : policy[p].status = "published" => policy'[p] = policy[p]]_vars

\* A draft successor inherits what its parent holds when it is created, although
\* the parent row was read in an earlier transaction.
SuccessorInheritsParent ==
  [][\A q \in PolicyIds : ~Exists(q) /\ Exists(q)' =>
       LET row == audit'[Len(audit')] IN
       row.action = "republished_from" =>
         /\ policy'[q].ir = policy[row.parent].ir
         /\ policy'[q].name = policy[row.parent].name
         /\ policy'[q].prose = policy[row.parent].prose]_vars

Creations == {"uploaded", "forked", "republished_from"}

\* The log tells where every policy came from: one row created it, and a successor's
\* row follows the publication of its parent, which still has its name and another
\* version.  So no policy is its own ancestor, although the parent and the collision
\* check were read long before the successor was inserted.
LineageIsRecorded ==
  /\ \A p \in PolicyIds : Exists(p) =>
       \E i \in 1..Len(audit) : audit[i].policy = p /\ audit[i].action \in Creations
  /\ \A i, j \in 1..Len(audit) :
       /\ audit[i].policy = audit[j].policy
       /\ audit[i].action \in Creations /\ audit[j].action \in Creations
       => i = j
  /\ \A i \in 1..Len(audit) : audit[i].action = "republished_from" =>
       LET q == audit[i].policy
           p == audit[i].parent
       IN  /\ \E j \in 1..Len(audit) :
                j < i /\ audit[j].action = "published" /\ audit[j].policy = p
           /\ policy[q].name = policy[p].name
           /\ policy[q].version # policy[p].version

\* Whatever changes a policy or a target appends one audit row in the same step, and
\* that row names the policy: no step changes two policies, and a late edit, review or
\* generation of a published policy is in the log, its old rows included.
EveryChangeIsLogged ==
  [][\A p \in PolicyIds :
       \/ policy'[p] # policy[p]
       \/ \E t \in TargetIds : target'[t] # target[t] /\ target'[t].policy = p
       => Len(audit') = Len(audit) + 1 /\ audit'[Len(audit')].policy = p]_vars

\* _fetch_policy_for_target_action: "Once a policy is published, its targets are
\* frozen".  A late review, edit or regeneration changes them.
TargetsFrozenOncePublished ==
  [][\A t \in TargetIds :
       Present(t) /\ policy[target[t].policy].status = "published"
         => target'[t] = target[t]]_vars

\* generate_policy_rego: "generates one Rego module per (control x target)"; as
\* many rows appear as the audit row counts.
OneTargetPerControl ==
  [][LET new == {t \in TargetIds : ~Present(t) /\ Present(t)'} IN
     audit' # audit /\ audit'[Len(audit')].action = "rego_generated"
       => Cardinality(new) = audit'[Len(audit')].n]_vars

=============================================================================
