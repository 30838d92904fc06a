----------------------------- MODULE Remediation -----------------------------
(***************************************************************************)
(* The remediation board: items that go open -> in_progress ->             *)
(* pending_approval -> approved, or back to in_progress when rejected.     *)
(*                                                                         *)
(* Each transition is one transaction of three steps the others can        *)
(* interleave with: BEGIN; SELECT ... FOR UPDATE, which waits for the      *)
(* row's lock; and the UPDATE, the history row and COMMIT.                 *)
(***************************************************************************)
EXTENDS Naturals, Sequences

CONSTANTS
  Workers,   \* request slots of the API
  Users,     \* tenant_users rows
  Tenants,
  TenantOf,  \* Users -> Tenants
  Items,     \* ids of remediation_items rows
  None,
  MaxRows    \* bound on the history an item has when a transaction on it
             \* begins, for model checking

ASSUME NoneAssumption == None \notin Workers \cup Users \cup Items \cup Tenants
ASSUME TenantOfAssumption == TenantOf \in [Users -> Tenants]
ASSUME MaxRowsAssumption == MaxRows \in Nat

VARIABLES
  item,     \* remediation_items: Items -> row
  history,  \* remediation_history: Items -> the item's rows in id order
  lock,     \* Items -> the worker whose transaction holds the row
  tx        \* Workers -> the transaction of its request

vars == <<item, history, lock, tx>>

Statuses == {"open", "in_progress", "pending_approval", "approved"}
Transitions == {"create", "assign", "submit", "approve", "reject"}

NoItem == [status |-> "absent", tenant |-> None, assigned |-> None,
           requester |-> None, approver |-> None]

NoTx == [phase |-> "none", op |-> "create", item |-> None, user |-> None,
         assignee |-> None]

Init ==
  /\ item = [i \in Items |-> NoItem]
  /\ history = [i \in Items |-> << >>]
  /\ lock = [i \in Items |-> None]
  /\ tx = [w \in Workers |-> NoTx]

---------------------------------------------------------------------------
(* The state machine the handlers check and write *)

From == [assign |-> "open", submit |-> "in_progress",
         approve |-> "pending_approval", reject |-> "pending_approval"]

\* Faulty variant: rejecting writes a status the column's CHECK does not list.
ToRejected ==
  [create |-> "open", assign |-> "in_progress", submit |-> "pending_approval",
   approve |-> "approved", reject |-> "rejected"]

To == [create |-> "open", assign |-> "in_progress", submit |-> "pending_approval",
       approve |-> "approved", reject |-> "in_progress"]

Operations == DOMAIN From

\* Faulty variant: only approval is subject to the rule.
SeparateActorsOnApproval(op, row, u) == op = "approve" => row.requester # u

\* "four-eyes: the user who submitted for approval cannot approve" or reject.
SeparateActors(op, row, u) == op \in {"approve", "reject"} => row.requester # u

\* Faulty variant: the assignee's tenant is not looked up.
AssigneeAllowedAny(op, u, assignee) == TRUE

AssigneeAllowed(op, u, assignee) == op = "assign" => TenantOf[assignee] = TenantOf[u]

\* Faulty variant: rejecting keeps who asked for approval.
UpdatedKeepingRequester(row, op, u, assignee) ==
  [row EXCEPT !.status = To[op],
              !.assigned = IF op = "assign" THEN assignee ELSE @,
              !.requester = IF op = "submit" THEN u ELSE @,
              !.approver = IF op = "approve" THEN u ELSE @]

\* The columns each UPDATE sets.
Updated(row, op, u, assignee) ==
  [row EXCEPT !.status = To[op],
              !.assigned = IF op = "assign" THEN assignee ELSE @,
              !.requester = CASE op = "submit" -> u
                              [] op = "reject" -> None
                              [] OTHER -> @,
              !.approver = IF op = "approve" THEN u ELSE @]

\* CHECK constraint four_eyes_separate_actors.
FourEyesCheck(row) ==
  row.approver = None \/ row.requester = None \/ row.approver # row.requester

Record(i, op, u, from) ==
  history' = [history EXCEPT ![i] =
    Append(@, [transition |-> op, actor |-> u, from |-> from, to |-> To[op]])]

---------------------------------------------------------------------------
(* Transactions *)

\* BEGIN, once the session and the role were checked.  The client names an item it
\* was shown; any other id is a 404 whatever happens.
Begin(w, op, i, u, assignee) ==
  /\ tx[w] = NoTx
  /\ op # "create" => item[i] # NoItem /\ Len(history[i]) < MaxRows
  /\ tx' = [tx EXCEPT ![w] = [phase |-> "begun", op |-> op, item |-> i, user |-> u,
                              assignee |-> assignee]]
  /\ UNCHANGED <<item, history, lock>>

\* create_item: the INSERT of a row only its own transaction sees, its history
\* row, COMMIT.
Create(w) ==
  LET r == tx[w] IN
  /\ r.phase = "begun" /\ r.op = "create"
  /\ \E i \in Items :
       /\ item[i] = NoItem
       /\ item' = [item EXCEPT ![i] = [NoItem EXCEPT !.status = "open",
                                                     !.tenant = TenantOf[r.user]]]
       /\ Record(i, "create", r.user, None)
  /\ tx' = [tx EXCEPT ![w] = NoTx]
  /\ UNCHANGED lock

\* The checks on the row as it is once the lock is held.
Admissible(w) ==
  LET r == tx[w]  row == item[r.item] IN
  /\ row.tenant = TenantOf[r.user]
  /\ row.status = From[r.op]
  /\ SeparateActors(r.op, row, r.user)
  /\ AssigneeAllowed(r.op, r.user, r.assignee)

\* Faulty variant: _load_item in place of _load_item_for_update.
LoadUnlocked(w) ==
  /\ tx[w].phase = "begun" /\ tx[w].op \in Operations
  /\ Admissible(w)
  /\ tx' = [tx EXCEPT ![w].phase = "locked"]
  /\ UNCHANGED <<item, history, lock>>

\* _load_item_for_update: waits until no other transaction holds the row.
Load(w) ==
  /\ tx[w].phase = "begun" /\ tx[w].op \in Operations
  /\ lock[tx[w].item] = None
  /\ Admissible(w)
  /\ lock' = [lock EXCEPT ![tx[w].item] = w]
  /\ tx' = [tx EXCEPT ![w].phase = "locked"]
  /\ UNCHANGED <<item, history>>

\* Another tenant's row, which the SELECT does not even wait for, a status the
\* operation is not valid from, the four-eyes rule or the assignee's tenant: 404,
\* 409, 403 or 400, and the transaction ends.
Refuse(w) ==
  /\ tx[w].phase = "begun" /\ tx[w].op \in Operations
  /\ item[tx[w].item].tenant = TenantOf[tx[w].user] => lock[tx[w].item] = None
  /\ ~Admissible(w)
  /\ tx' = [tx EXCEPT ![w] = NoTx]
  /\ UNCHANGED <<item, history, lock>>

\* Faulty variant: the transaction ends without giving up its locks.
ReleasedNothing(w) == lock

\* The locks a transaction that ends leaves held by others.
Released(w) == [i \in Items |-> IF lock[i] = w THEN None ELSE lock[i]]

\* UPDATE ... WHERE id, the history row, COMMIT.
Commit(w) ==
  LET r == tx[w]
      row == Updated(item[r.item], r.op, r.user, r.assignee)
  IN
  /\ r.phase = "locked"
  /\ FourEyesCheck(row)
  /\ item' = [item EXCEPT ![r.item] = row]
  /\ Record(r.item, r.op, r.user, From[r.op])
  /\ lock' = Released(w)
  /\ tx' = [tx EXCEPT ![w] = NoTx]

\* A lost connection, or the CHECK constraint, rolls the transaction back.
Rollback(w) ==
  /\ tx[w].phase # "none"
  /\ lock' = Released(w)
  /\ tx' = [tx EXCEPT ![w] = NoTx]
  /\ UNCHANGED <<item, history>>

Start(w) ==
  \E u \in Users :
    \/ Begin(w, "create", None, u, None)
    \/ \E i \in Items :
         \/ \E v \in Users : Begin(w, "assign", i, u, v)
         \/ \E op \in Operations \ {"assign"} : Begin(w, op, i, u, None)

Proceed(w) == Create(w) \/ Load(w) \/ Refuse(w) \/ Commit(w) \/ Rollback(w)

Next == \E w \in Workers : Start(w) \/ Proceed(w)

\* A transaction runs on: PostgreSQL grants a row's lock to those who wait for it
\* in turn, and asyncpg's transaction() ends what the handler began.
Fairness == \A w \in Workers : WF_vars(Commit(w)) /\ SF_vars(Load(w) \/ Refuse(w))

Spec == Init /\ [][Next]_vars /\ Fairness

---------------------------------------------------------------------------
(* Properties *)

ItemRow ==
  [status: Statuses \cup {"absent"}, tenant: Tenants \cup {None},
   assigned: Users \cup {None}, requester: Users \cup {None},
   approver: Users \cup {None}]

HistoryRow ==
  [transition: Transitions, actor: Users, from: Statuses \cup {None}, to: Statuses]

Transaction ==
  [phase: {"none", "begun", "locked"}, op: Transitions, item: Items \cup {None},
   user: Users \cup {None}, assignee: Users \cup {None}]

\* Rows are of their columns' types and a transaction knows its row and its user.
TypeOK ==
  /\ item \in [Items -> ItemRow]
  /\ history \in [Items -> Seq(HistoryRow)]
  /\ lock \in [Items -> Workers \cup {None}]
  /\ tx \in [Workers -> Transaction]
  /\ \A w \in Workers : tx[w].phase # "none" =>
       /\ tx[w].user \in Users
       /\ tx[w].op \in Operations => tx[w].item \in Items
       /\ tx[w].op = "assign" => tx[w].assignee \in Users

\* The row and its history tell one story, however transactions on the item
\* overlap: no item without its create row, each row starts from the status the
\* one before it left, and the last one left the status the item has.
HistoryIsAChain ==
  \A i \in Items :
    LET h == history[i] IN
    /\ (item[i].status = "absent") <=> (h = << >>)
    /\ h # << >> => h[1].from = None /\ h[Len(h)].to = item[i].status
    /\ \A k \in 1..(Len(h) - 1) : h[k + 1].from = h[k].to

\* The columns about the approval agree with the history: an item that waits for
\* approval, or got it, names who submitted it last, and an item sent back or not
\* yet submitted names nobody.
ApprovalColumnsMatchHistory ==
  \A i \in Items :
    LET h == history[i] IN
    /\ item[i].status = "pending_approval" =>
         item[i].requester = h[Len(h)].actor /\ item[i].approver = None
    /\ item[i].status = "approved" =>
         /\ Len(h) > 1
         /\ item[i].requester = h[Len(h) - 1].actor
         /\ item[i].approver = h[Len(h)].actor
    /\ item[i].status \in {"absent", "open", "in_progress"} =>
         item[i].requester = None /\ item[i].approver = None

\* Everyone who acted on an item, or is assigned to it, is of the item's tenant.
OneTenantPerItem ==
  \A i \in Items :
    /\ \A k \in 1..Len(history[i]) : TenantOf[history[i][k].actor] = item[i].tenant
    /\ item[i].assigned # None => TenantOf[item[i].assigned] = item[i].tenant

\* The trail of an item, for the board's promise.
Trail ==
  [i \in Items |->
     [k \in 1..Len(history[i]) |->
        [transition |-> history[i][k].transition, actor |-> history[i][k].actor]]]

Board == INSTANCE FourEyes WITH trail <- Trail

\* The board keeps its promise: at every moment the items' histories are trails
\* FourEyes allows, and each step extends at most one by a transition it allows.
KeepsFourEyes == Board!Spec

\* No transition waits forever: whatever overlaps on an item, each request for it
\* commits, is refused or is rolled back.
RequestsEnd ==
  \A w \in Workers :
    tx[w].phase # "none" /\ tx[w].op \in Operations ~> tx[w].phase = "none"
=============================================================================
