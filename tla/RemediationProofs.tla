-------------------------- MODULE RemediationProofs --------------------------
(***************************************************************************)
(* Proofs about Remediation, for any number of workers, users, tenants and *)
(* items: the board's invariants, that it implements FourEyes, and what    *)
(* its timeline keeps in order.                                            *)
(***************************************************************************)
EXTENDS RemediationTimeline, TLAPS, SequenceTheorems

\* A transaction past its SELECT holds the row, and the checks it made on the row
\* still hold: nobody else can have written it.
LocksHeld ==
  \A w \in Workers : tx[w].phase = "locked" =>
    /\ tx[w].op \in Operations
    /\ lock[tx[w].item] = w
    /\ Admissible(w)

\* Every history row says what its transition does.
RowsSayTransitions ==
  \A i \in Items : \A k \in 1..Len(history[i]) :
    history[i][k].to = To[history[i][k].transition]

\* What the board's invariants need besides the types.
Story == HistoryIsAChain /\ ApprovalColumnsMatchHistory /\ OneTenantPerItem
         /\ RowsSayTransitions

\* The inductive invariant.
Inv == TypeOK /\ LocksHeld /\ Story

---------------------------------------------------------------------------
(* The state machine's tables *)

LEMMA Tables ==
  /\ Operations = {"assign", "submit", "approve", "reject"}
  /\ \A op \in Operations : /\ From[op] \in Statuses
                            /\ op \in Transitions
  /\ \A op \in Transitions : To[op] \in Statuses
  BY DEF Operations, From, To, Statuses, Transitions

\* Appending one history row: the new row comes last, the others stay.
LEMMA HistoryGrows ==
  ASSUME TypeOK, NEW i \in Items, NEW op \in Transitions, NEW u \in Users,
         NEW from \in Statuses \cup {None}, Record(i, op, u, from)
  PROVE  LET e == [transition |-> op, actor |-> u, from |-> from, to |-> To[op]]
         IN /\ e \in HistoryRow
            /\ history' \in [Items -> Seq(HistoryRow)]
            /\ history'[i] = Append(history[i], e)
            /\ Len(history[i]) \in Nat
            /\ Len(history'[i]) = Len(history[i]) + 1
            /\ history'[i][Len(history[i]) + 1] = e
            /\ \A k \in 1..Len(history[i]) : history'[i][k] = history[i][k]
            /\ \A j \in Items \ {i} : history'[j] = history[j]
<1> DEFINE e == [transition |-> op, actor |-> u, from |-> from, to |-> To[op]]
<1>1. e \in HistoryRow
  BY Tables DEF HistoryRow
<1>2. history \in [Items -> Seq(HistoryRow)] /\ history[i] \in Seq(HistoryRow)
  BY DEF TypeOK
<1>3. history' = [history EXCEPT ![i] = Append(history[i], e)]
  BY DEF Record
<1> HIDE DEF e
<1>4. /\ Append(history[i], e) \in Seq(HistoryRow)
      /\ Len(history[i]) \in Nat
      /\ Len(Append(history[i], e)) = Len(history[i]) + 1
      /\ Append(history[i], e)[Len(history[i]) + 1] = e
      /\ \A k \in 1..Len(history[i]) : Append(history[i], e)[k] = history[i][k]
  BY <1>1, <1>2
<1>5. history' \in [Items -> Seq(HistoryRow)]
  BY <1>2, <1>3, <1>4
<1>6. /\ history'[i] = Append(history[i], e)
      /\ \A j \in Items \ {i} : history'[j] = history[j]
  BY <1>2, <1>3
<1> QED
  BY <1>1, <1>4, <1>5, <1>6 DEF e

---------------------------------------------------------------------------
(* Steps that write nothing but a transaction and its locks *)

LEMMA InitInv == Init => Inv
<1> SUFFICES ASSUME Init PROVE Inv
  OBVIOUS
<1>1. TypeOK
  BY DEF Init, TypeOK, ItemRow, NoItem, Transaction, NoTx, Transitions
<1>2. LocksHeld
  BY DEF Init, LocksHeld, NoTx
<1>3. \A i \in Items : Len(history[i]) = 0
  BY DEF Init
<1>4. Story
  BY <1>3 DEF Init, Story, HistoryIsAChain, ApprovalColumnsMatchHistory,
              OneTenantPerItem, RowsSayTransitions, NoItem
<1> QED
  BY <1>1, <1>2, <1>4 DEF Inv

LEMMA StoryUnchanged ==
  ASSUME Story, UNCHANGED <<item, history>>
  PROVE  Story'
  BY DEF Story, HistoryIsAChain, ApprovalColumnsMatchHistory, OneTenantPerItem,
         RowsSayTransitions

\* A step of w that leaves the rows alone and the locks of others held keeps what
\* the others rely on.
LEMMA OthersKeepTheirLocks ==
  ASSUME TypeOK, LocksHeld, NEW w \in Workers, UNCHANGED item,
         \A v \in Workers \ {w} : tx'[v] = tx[v],
         \A i \in Items : lock[i] \notin {None, w} => lock'[i] = lock[i],
         None \notin Workers,
         tx'[w].phase = "locked" =>
           tx'[w].op \in Operations /\ lock'[tx'[w].item] = w /\ Admissible(w)'
  PROVE  LocksHeld'
<1> SUFFICES ASSUME NEW v \in Workers, tx'[v].phase = "locked"
             PROVE  /\ tx'[v].op \in Operations
                    /\ lock'[tx'[v].item] = v
                    /\ Admissible(v)'
  BY DEF LocksHeld
<1>1. CASE v = w
  BY <1>1
<1>2. CASE v # w
  <2>1. tx'[v] = tx[v] /\ tx[v].phase = "locked"
    BY <1>2
  <2>2. /\ tx[v].op \in Operations /\ lock[tx[v].item] = v /\ Admissible(v)
        /\ tx[v].item \in Items
    BY <2>1 DEF LocksHeld, TypeOK
  <2>3. lock'[tx[v].item] = v
    BY <1>2, <2>2
  <2> QED
    BY <2>1, <2>2, <2>3 DEF Admissible
<1> QED
  BY <1>1, <1>2

\* A transaction that ends.
LEMMA EndsItsTransaction ==
  ASSUME TypeOK, NEW w \in Workers, tx' = [tx EXCEPT ![w] = NoTx]
  PROVE  /\ tx' \in [Workers -> Transaction]
         /\ tx'[w] = NoTx
         /\ \A v \in Workers \ {w} : tx'[v] = tx[v]
<1>1. NoTx \in Transaction
  BY DEF NoTx, Transaction, Transitions
<1> QED
  BY <1>1 DEF TypeOK

LEMMA ReleasedType ==
  ASSUME TypeOK, NEW w \in Workers, None \notin Workers
  PROVE  /\ Released(w) \in [Items -> Workers \cup {None}]
         /\ \A i \in Items : lock[i] \notin {None, w} => Released(w)[i] = lock[i]
  BY DEF Released, TypeOK

LEMMA InvBegin ==
  ASSUME Inv, NEW w \in Workers, NEW op \in Transitions, NEW i \in Items \cup {None},
         NEW u \in Users, NEW assignee \in Users \cup {None},
         op # "create" => i \in Items, op = "assign" => assignee \in Users,
         Begin(w, op, i, u, assignee)
  PROVE  Inv'
<1> DEFINE r == [phase |-> "begun", op |-> op, item |-> i, user |-> u,
                 assignee |-> assignee]
<1>1. r \in Transaction
  BY DEF Transaction
<1>2. tx' = [tx EXCEPT ![w] = r] /\ UNCHANGED <<item, history, lock>>
  BY DEF Begin
<1>3. /\ tx' \in [Workers -> Transaction] /\ tx'[w] = r
      /\ \A v \in Workers \ {w} : tx'[v] = tx[v]
  BY <1>1, <1>2 DEF Inv, TypeOK
<1>5. "create" \notin Operations
  BY Tables
<1>6. TypeOK'
  BY <1>2, <1>3, <1>5 DEF Inv, TypeOK
<1>7. LocksHeld'
  BY <1>2, <1>3, OthersKeepTheirLocks, NoneAssumption DEF Inv
<1> QED
  BY <1>2, <1>6, <1>7, StoryUnchanged DEF Inv

LEMMA InvLoad ==
  ASSUME Inv, NEW w \in Workers, Load(w)
  PROVE  Inv'
<1> DEFINE r == [tx[w] EXCEPT !.phase = "locked"]
<1>1. /\ tx[w] \in Transaction /\ tx[w].phase = "begun" /\ tx[w].op \in Operations
      /\ tx[w].item \in Items /\ tx[w].user \in Users
  BY DEF Inv, TypeOK, Load
<1>2. r \in Transaction /\ r.op = tx[w].op /\ r.item = tx[w].item /\ r.user = tx[w].user
      /\ r.assignee = tx[w].assignee /\ r.phase = "locked"
  BY <1>1 DEF Transaction
<1>3. /\ tx' = [tx EXCEPT ![w] = r] /\ UNCHANGED <<item, history>>
      /\ lock' = [lock EXCEPT ![tx[w].item] = w] /\ lock[tx[w].item] = None
      /\ Admissible(w)
  BY DEF Load
<1> HIDE DEF r
<1>4. /\ tx' \in [Workers -> Transaction] /\ tx'[w] = r
      /\ \A v \in Workers \ {w} : tx'[v] = tx[v]
  BY <1>2, <1>3 DEF Inv, TypeOK
<1>5. /\ lock' \in [Items -> Workers \cup {None}] /\ lock'[tx[w].item] = w
      /\ \A i \in Items : lock[i] \notin {None, w} => lock'[i] = lock[i]
  BY <1>1, <1>3 DEF Inv, TypeOK
<1>6. TypeOK'
  BY <1>1, <1>2, <1>3, <1>4, <1>5 DEF Inv, TypeOK
<1>7. Admissible(w)'
  BY <1>2, <1>3, <1>4 DEF Admissible
<1>8. LocksHeld'
  BY <1>1, <1>2, <1>3, <1>4, <1>5, <1>7, OthersKeepTheirLocks, NoneAssumption DEF Inv
<1> QED
  BY <1>3, <1>6, <1>8, StoryUnchanged DEF Inv

\* Refuse, Rollback: the transaction ends and no row was written.
LEMMA InvEnd ==
  ASSUME Inv, NEW w \in Workers, Refuse(w) \/ Rollback(w)
  PROVE  Inv'
<1>1. /\ tx' = [tx EXCEPT ![w] = NoTx] /\ UNCHANGED <<item, history>>
      /\ lock' \in {lock, Released(w)}
  BY DEF Refuse, Rollback
<1>2. /\ tx' \in [Workers -> Transaction] /\ tx'[w] = NoTx
      /\ \A v \in Workers \ {w} : tx'[v] = tx[v]
  BY <1>1, EndsItsTransaction DEF Inv
<1>3. /\ lock' \in [Items -> Workers \cup {None}]
      /\ \A i \in Items : lock[i] \notin {None, w} => lock'[i] = lock[i]
  BY <1>1, ReleasedType, NoneAssumption DEF Inv, TypeOK
<1>4. NoTx.phase = "none"
  BY DEF NoTx
<1>5. TypeOK'
  BY <1>1, <1>2, <1>3, <1>4 DEF Inv, TypeOK
<1>6. LocksHeld'
  BY <1>1, <1>2, <1>3, <1>4, OthersKeepTheirLocks, NoneAssumption DEF Inv
<1> QED
  BY <1>1, <1>5, <1>6, StoryUnchanged DEF Inv

---------------------------------------------------------------------------
(* Steps that write an item and its history *)

LEMMA InvCreate ==
  ASSUME Inv, NEW w \in Workers, Create(w)
  PROVE  Inv'
<1> DEFINE u == tx[w].user
           new == [NoItem EXCEPT !.status = "open", !.tenant = TenantOf[u]]
<1>1. PICK i \in Items : /\ item[i] = NoItem
                         /\ item' = [item EXCEPT ![i] = new]
                         /\ Record(i, "create", u, None)
  BY DEF Create
<1>2. /\ u \in Users /\ TenantOf[u] \in Tenants
      /\ tx' = [tx EXCEPT ![w] = NoTx] /\ UNCHANGED lock
  BY TenantOfAssumption DEF Create, Inv, TypeOK
<1>3. /\ new \in ItemRow /\ new.status = "open" /\ new.tenant = TenantOf[u]
      /\ new.requester = None /\ new.approver = None /\ new.assigned = None
  BY <1>2 DEF NoItem, ItemRow, Statuses
<1> HIDE DEF new
<1>4. /\ item' \in [Items -> ItemRow] /\ item'[i] = new
      /\ \A j \in Items \ {i} : item'[j] = item[j]
  BY <1>1, <1>3 DEF Inv, TypeOK
<1> DEFINE e == [transition |-> "create", actor |-> u, from |-> None, to |-> To["create"]]
           n == Len(history[i])
<1>5. /\ history' \in [Items -> Seq(HistoryRow)]
      /\ n \in Nat /\ Len(history'[i]) = n + 1 /\ history'[i][n + 1] = e
      /\ \A k \in 1..n : history'[i][k] = history[i][k]
      /\ \A j \in Items \ {i} : history'[j] = history[j]
  BY <1>1, <1>2, HistoryGrows DEF Inv, Transitions
<1>6. item[i].status = "absent" /\ n = 0
  BY <1>1 DEF NoItem, Inv, Story, HistoryIsAChain
<1>7. e.to = "open" /\ e.from = None /\ e.actor = u /\ e.transition = "create"
  BY DEF To
<1> HIDE DEF e
<1>8. /\ tx' \in [Workers -> Transaction] /\ tx'[w] = NoTx /\ NoTx.phase = "none"
      /\ \A v \in Workers \ {w} : tx'[v] = tx[v]
  BY <1>2, EndsItsTransaction DEF Inv, NoTx
<1>9. TypeOK'
  BY <1>2, <1>4, <1>5, <1>8 DEF Inv, TypeOK
<1>10. LocksHeld'
  <2> SUFFICES ASSUME NEW v \in Workers, tx'[v].phase = "locked"
               PROVE  /\ tx'[v].op \in Operations
                      /\ lock'[tx'[v].item] = v
                      /\ Admissible(v)'
    BY DEF LocksHeld
  <2>1. tx'[v] = tx[v] /\ tx[v].phase = "locked"
    BY <1>8
  <2>2. /\ tx[v].op \in Operations /\ lock[tx[v].item] = v /\ Admissible(v)
        /\ tx[v].item \in Items
    BY <2>1 DEF Inv, LocksHeld, TypeOK
  <2>3. item[tx[v].item].status # "absent"
    BY <2>2, Tables DEF Admissible, Statuses
  <2>4. item'[tx[v].item] = item[tx[v].item]
    BY <1>4, <1>6, <2>2, <2>3
  <2> QED
    BY <1>2, <2>1, <2>2, <2>4 DEF Admissible
<1>11. HistoryIsAChain'
  BY <1>3, <1>4, <1>5, <1>6, <1>7 DEF Inv, Story, HistoryIsAChain, TypeOK
<1>12. ApprovalColumnsMatchHistory'
  BY <1>3, <1>4, <1>5 DEF Inv, Story, ApprovalColumnsMatchHistory
<1>13. OneTenantPerItem'
  BY <1>3, <1>4, <1>5, <1>6, <1>7 DEF Inv, Story, OneTenantPerItem
<1>14. RowsSayTransitions'
  BY <1>5, <1>6, <1>7 DEF Inv, Story, RowsSayTransitions, To
<1> QED
  BY <1>9, <1>10, <1>11, <1>12, <1>13, <1>14 DEF Inv, Story

\* What Commit finds and writes.
LEMMA CommitWrites ==
  ASSUME Inv, NEW w \in Workers, Commit(w)
  PROVE  LET r == tx[w]
             row == item[r.item]
             new == Updated(row, r.op, r.user, r.assignee)
         IN /\ r.item \in Items /\ r.op \in Operations /\ r.user \in Users
            /\ r.op = "assign" => r.assignee \in Users
            /\ row \in ItemRow /\ row.status = From[r.op]
            /\ row.tenant = TenantOf[r.user]
            /\ SeparateActors(r.op, row, r.user)
            /\ AssigneeAllowed(r.op, r.user, r.assignee)
            /\ item' \in [Items -> ItemRow] /\ item'[r.item] = new
            /\ \A j \in Items \ {r.item} : item'[j] = item[j]
            /\ Record(r.item, r.op, r.user, From[r.op])
            /\ new.status = To[r.op] /\ new.tenant = row.tenant
            /\ new.assigned = IF r.op = "assign" THEN r.assignee ELSE row.assigned
            /\ new.requester = IF r.op = "submit" THEN r.user
                               ELSE IF r.op = "reject" THEN None ELSE row.requester
            /\ new.approver = IF r.op = "approve" THEN r.user ELSE row.approver
<1> DEFINE r == tx[w]
           row == item[r.item]
           new == Updated(row, r.op, r.user, r.assignee)
<1>1. /\ r.op \in Operations /\ Admissible(w) /\ r.phase = "locked"
  BY DEF Inv, LocksHeld, Commit
<1>2. /\ r.item \in Items /\ r.user \in Users
      /\ r.op = "assign" => r.assignee \in Users
      /\ row \in ItemRow
  BY <1>1 DEF Inv, TypeOK
<1>3. /\ row.status = From[r.op] /\ row.tenant = TenantOf[r.user]
      /\ SeparateActors(r.op, row, r.user)
      /\ AssigneeAllowed(r.op, r.user, r.assignee)
  BY <1>1 DEF Admissible
<1>4. /\ item' = [item EXCEPT ![r.item] = new]
      /\ Record(r.item, r.op, r.user, From[r.op])
  BY DEF Commit
<1>5. /\ new.status = To[r.op] /\ new.tenant = row.tenant
      /\ new.assigned = IF r.op = "assign" THEN r.assignee ELSE row.assigned
      /\ new.requester = IF r.op = "submit" THEN r.user
                         ELSE IF r.op = "reject" THEN None ELSE row.requester
      /\ new.approver = IF r.op = "approve" THEN r.user ELSE row.approver
  BY <1>2 DEF Updated, ItemRow
<1>6. new \in ItemRow
  <2>1. To[r.op] \in Statuses
    BY <1>1, Tables
  <2> QED
    BY <1>2, <2>1 DEF Updated, ItemRow
<1> HIDE DEF new
<1>7. /\ item' \in [Items -> ItemRow] /\ item'[r.item] = new
      /\ \A j \in Items \ {r.item} : item'[j] = item[j]
  BY <1>2, <1>4, <1>6 DEF Inv, TypeOK
<1> QED
  BY <1>1, <1>2, <1>3, <1>4, <1>5, <1>7 DEF new

LEMMA InvCommit ==
  ASSUME Inv, NEW w \in Workers, Commit(w)
  PROVE  Inv'
<1> DEFINE i == tx[w].item
           op == tx[w].op
           u == tx[w].user
           row == item[i]
           new == Updated(row, op, u, tx[w].assignee)
           n == Len(history[i])
           e == [transition |-> op, actor |-> u, from |-> From[op], to |-> To[op]]
<1>1. /\ i \in Items /\ op \in Operations /\ u \in Users
      /\ op = "assign" => tx[w].assignee \in Users
      /\ row \in ItemRow /\ row.status = From[op] /\ row.tenant = TenantOf[u]
      /\ SeparateActors(op, row, u)
      /\ AssigneeAllowed(op, u, tx[w].assignee)
      /\ item' \in [Items -> ItemRow] /\ item'[i] = new
      /\ \A j \in Items \ {i} : item'[j] = item[j]
      /\ Record(i, op, u, From[op])
  BY CommitWrites
<1>2. /\ new.status = To[op] /\ new.tenant = row.tenant
      /\ new.assigned = IF op = "assign" THEN tx[w].assignee ELSE row.assigned
      /\ new.requester = IF op = "submit" THEN u
                         ELSE IF op = "reject" THEN None ELSE row.requester
      /\ new.approver = IF op = "approve" THEN u ELSE row.approver
  BY CommitWrites
<1>3. op \in Transitions /\ From[op] \in Statuses
  BY <1>1, Tables
<1>4. /\ history' \in [Items -> Seq(HistoryRow)]
      /\ n \in Nat /\ Len(history'[i]) = n + 1 /\ history'[i][n + 1] = e
      /\ \A k \in 1..n : history'[i][k] = history[i][k]
      /\ \A j \in Items \ {i} : history'[j] = history[j]
  BY <1>1, <1>3, HistoryGrows DEF Inv
<1>5. /\ e.to = To[op] /\ e.from = From[op] /\ e.actor = u /\ e.transition = op
  OBVIOUS
<1>6. /\ n > 0 /\ history[i][n].to = From[op] /\ history[i] # << >>
      /\ history[i][1].from = None
  <2>1. row.status # "absent"
    BY <1>1, <1>3 DEF Statuses
  <2>2. history[i] # << >>
    BY <1>1, <2>1 DEF Inv, Story, HistoryIsAChain
  <2>3. n # 0
    BY <1>1, <2>2 DEF Inv, TypeOK
  <2> QED
    BY <1>1, <1>4, <2>2, <2>3 DEF Inv, Story, HistoryIsAChain
<1>7. /\ tx' = [tx EXCEPT ![w] = NoTx] /\ lock' = Released(w)
  BY DEF Commit
<1>8. /\ tx' \in [Workers -> Transaction] /\ tx'[w] = NoTx /\ NoTx.phase = "none"
      /\ \A v \in Workers \ {w} : tx'[v] = tx[v]
  BY <1>7, EndsItsTransaction DEF Inv, NoTx
<1>9. /\ lock' \in [Items -> Workers \cup {None}]
      /\ \A j \in Items : lock[j] \notin {None, w} => lock'[j] = lock[j]
  BY <1>7, ReleasedType, NoneAssumption DEF Inv
<1> HIDE DEF new, e
<1>a. /\ history'[i][n + 1].actor = u /\ history'[i][n + 1].transition = op
      /\ history'[i][n + 1].from = From[op] /\ history'[i][n + 1].to = To[op]
  BY <1>4, <1>5
<1>b. \A k \in 1..(n + 1) : k = n + 1 \/ (k \in 1..n /\ history'[i][k] = history[i][k])
  BY <1>4
<1>10. TypeOK'
  <2>1. ASSUME NEW v \in Workers, tx'[v].phase # "none"
        PROVE  /\ tx'[v].user \in Users
               /\ tx'[v].op \in Operations => tx'[v].item \in Items
               /\ tx'[v].op = "assign" => tx'[v].assignee \in Users
    <3>1. tx'[v] = tx[v]
      BY <1>8, <2>1
    <3> QED
      BY <2>1, <3>1 DEF Inv, TypeOK
  <2> QED
    BY <1>1, <1>4, <1>8, <1>9, <2>1 DEF TypeOK
<1>11. LocksHeld'
  <2> SUFFICES ASSUME NEW v \in Workers, tx'[v].phase = "locked"
               PROVE  /\ tx'[v].op \in Operations
                      /\ lock'[tx'[v].item] = v
                      /\ Admissible(v)'
    BY DEF LocksHeld
  <2>1. v # w /\ tx'[v] = tx[v] /\ tx[v].phase = "locked"
    BY <1>8
  <2>2. /\ tx[v].op \in Operations /\ lock[tx[v].item] = v /\ Admissible(v)
        /\ tx[v].item \in Items
    BY <2>1 DEF Inv, LocksHeld, TypeOK
  <2>3. lock[i] = w
    BY DEF Inv, LocksHeld, Commit
  <2>4. tx[v].item # i /\ lock'[tx[v].item] = v
    BY <1>9, <2>1, <2>2, <2>3, NoneAssumption
  <2>5. item'[tx[v].item] = item[tx[v].item]
    BY <1>1, <2>2, <2>4
  <2> QED
    BY <2>1, <2>2, <2>4, <2>5 DEF Admissible
<1>12. HistoryIsAChain'
  <2> SUFFICES ASSUME NEW j \in Items
               PROVE  LET h == history'[j] IN
                      /\ (item'[j].status = "absent") <=> (h = << >>)
                      /\ h # << >> => h[1].from = None /\ h[Len(h)].to = item'[j].status
                      /\ \A k \in 1..(Len(h) - 1) : h[k + 1].from = h[k].to
    BY DEF HistoryIsAChain
  <2>1. CASE j # i
    BY <1>1, <1>4, <2>1 DEF Inv, Story, HistoryIsAChain
  <2>2. CASE j = i
    <3>1. item'[i].status = To[op] /\ To[op] # "absent" /\ history'[i] # << >>
      BY <1>1, <1>2, <1>3, <1>4, Tables DEF Statuses
    <3>a. 1 \in 1..n
      BY <1>4, <1>6
    <3>2. history'[i][1].from = None /\ history'[i][n + 1].to = To[op]
      BY <1>4, <1>6, <1>a, <3>a
    <3>3. \A k \in 1..n : history'[i][k + 1].from = history'[i][k].to
      <4> SUFFICES ASSUME NEW k \in 1..n
                   PROVE  history'[i][k + 1].from = history'[i][k].to
        OBVIOUS
      <4>1. CASE k = n
        BY <1>4, <1>5, <1>6, <4>1
      <4>2. CASE k # n
        <5>1. k \in 1..(n - 1) /\ k + 1 \in 1..n
          BY <1>4, <4>2
        <5>2. history[i][k + 1].from = history[i][k].to
          BY <1>1, <5>1 DEF Inv, Story, HistoryIsAChain
        <5> QED
          BY <1>4, <5>1, <5>2
      <4> QED
        BY <4>1, <4>2
    <3> QED
      BY <1>4, <2>2, <3>1, <3>2, <3>3
  <2> QED
    BY <2>1, <2>2
<1>13. ApprovalColumnsMatchHistory'
  <2> SUFFICES ASSUME NEW j \in Items
               PROVE  LET h == history'[j] IN
                      /\ item'[j].status = "pending_approval" =>
                           item'[j].requester = h[Len(h)].actor /\ item'[j].approver = None
                      /\ item'[j].status = "approved" =>
                           /\ Len(h) > 1
                           /\ item'[j].requester = h[Len(h) - 1].actor
                           /\ item'[j].approver = h[Len(h)].actor
                      /\ item'[j].status \in {"absent", "open", "in_progress"} =>
                           item'[j].requester = None /\ item'[j].approver = None
    BY DEF ApprovalColumnsMatchHistory
  <2>1. CASE j # i
    BY <1>1, <1>4, <2>1 DEF Inv, Story, ApprovalColumnsMatchHistory
  <2>2. CASE j = i
    <3>1. /\ row.status = "pending_approval" =>
               row.requester = history[i][n].actor /\ row.approver = None
          /\ row.status \in {"open", "in_progress"} =>
               row.requester = None /\ row.approver = None
      BY <1>1 DEF Inv, Story, ApprovalColumnsMatchHistory
    <3>2. op \in {"assign", "submit", "approve", "reject"}
      BY <1>1, Tables
    <3>b. n \in 1..n /\ n + 1 > 1 /\ (n + 1) - 1 = n
      BY <1>4, <1>6
    <3>c. history'[i][n] = history[i][n] /\ Len(history'[i]) = n + 1
      BY <1>4, <3>b
    <3>3. /\ history'[i][Len(history'[i])].actor = u /\ Len(history'[i]) > 1
          /\ history'[i][Len(history'[i]) - 1].actor = history[i][n].actor
      BY <1>a, <3>b, <3>c
    <3>d. item'[i] = new /\ item'[j] = new /\ history'[j] = history'[i]
      BY <1>1, <2>2
    <3>4. CASE op = "assign"
      <4>1. row.status = "open" /\ item'[i].status = "in_progress"
        BY <1>1, <1>2, <3>4 DEF From, To
      <4> QED
        BY <1>1, <1>2, <2>2, <3>1, <3>4, <4>1
    <3>5. CASE op = "submit"
      <4>1. row.status = "in_progress" /\ item'[i].status = "pending_approval"
        BY <1>1, <1>2, <3>5 DEF From, To
      <4>2. new.requester = u /\ new.approver = None
        BY <1>2, <3>1, <3>5, <4>1
      <4> QED
        BY <3>3, <3>d, <4>1, <4>2
    <3>6. CASE op = "approve"
      <4>1. row.status = "pending_approval" /\ item'[i].status = "approved"
        BY <1>1, <1>2, <3>6 DEF From, To
      <4>2. new.requester = history[i][n].actor /\ new.approver = u
        BY <1>2, <3>1, <3>6, <4>1
      <4> QED
        BY <3>3, <3>d, <4>1, <4>2
    <3>7. CASE op = "reject"
      <4>1. row.status = "pending_approval" /\ item'[i].status = "in_progress"
        BY <1>1, <1>2, <3>7 DEF From, To
      <4> QED
        BY <1>1, <1>2, <2>2, <3>1, <3>7, <4>1
    <3> QED
      BY <3>2, <3>4, <3>5, <3>6, <3>7
  <2> QED
    BY <2>1, <2>2
<1>14. OneTenantPerItem'
  <2>1. ASSUME NEW j \in Items, j # i
        PROVE  /\ \A k \in 1..Len(history'[j]) : TenantOf[history'[j][k].actor] = item'[j].tenant
               /\ item'[j].assigned # None => TenantOf[item'[j].assigned] = item'[j].tenant
    BY <1>1, <1>4, <2>1 DEF Inv, Story, OneTenantPerItem
  <2>2. \A k \in 1..(n + 1) : TenantOf[history'[i][k].actor] = item'[i].tenant
    <3>1. \A k \in 1..n : TenantOf[history[i][k].actor] = row.tenant
      BY <1>1 DEF Inv, Story, OneTenantPerItem
    <3> QED
      BY <1>1, <1>2, <1>a, <1>b, <3>1
  <2>3. item'[i].assigned # None => TenantOf[item'[i].assigned] = item'[i].tenant
    BY <1>1, <1>2 DEF Inv, Story, OneTenantPerItem, AssigneeAllowed
  <2> QED
    BY <1>4, <2>1, <2>2, <2>3 DEF OneTenantPerItem
<1>15. RowsSayTransitions'
  <2>1. ASSUME NEW j \in Items, j # i, NEW k \in 1..Len(history'[j])
        PROVE  history'[j][k].to = To[history'[j][k].transition]
    BY <1>4, <2>1 DEF Inv, Story, RowsSayTransitions
  <2>2. ASSUME NEW k \in 1..(n + 1)
        PROVE  history'[i][k].to = To[history'[i][k].transition]
    <3>1. \A l \in 1..n : history[i][l].to = To[history[i][l].transition]
      BY <1>1 DEF Inv, Story, RowsSayTransitions
    <3> QED
      BY <1>a, <1>b, <3>1
  <2> QED
    BY <1>4, <2>1, <2>2 DEF RowsSayTransitions
<1> QED
  BY <1>10, <1>11, <1>12, <1>13, <1>14, <1>15 DEF Inv, Story

---------------------------------------------------------------------------
(* The invariants *)

LEMMA InvStep == Inv /\ [Next]_vars => Inv'
<1> SUFFICES ASSUME Inv, [Next]_vars PROVE Inv'
  OBVIOUS
<1>1. CASE UNCHANGED vars
  <2>1. UNCHANGED <<item, history, lock, tx>>
    BY <1>1 DEF vars
  <2>2. TypeOK'
    BY <2>1 DEF Inv, TypeOK
  <2>3. LocksHeld'
    BY <2>1 DEF Inv, LocksHeld, Admissible
  <2> QED
    BY <2>1, <2>2, <2>3, StoryUnchanged DEF Inv
<1>2. ASSUME NEW w \in Workers, Start(w) PROVE Inv'
  <2>1. PICK u \in Users :
          \/ Begin(w, "create", None, u, None)
          \/ \E i \in Items :
               \/ \E v \in Users : Begin(w, "assign", i, u, v)
               \/ \E op \in Operations \ {"assign"} : Begin(w, op, i, u, None)
    BY <1>2 DEF Start
  <2>2. CASE Begin(w, "create", None, u, None)
    <3>1. "create" \in Transitions
      BY DEF Transitions
    <3> QED
      BY <2>2, <3>1, InvBegin
  <2>3. ASSUME NEW i \in Items, NEW v \in Users, Begin(w, "assign", i, u, v) PROVE Inv'
    <3>1. "assign" \in Transitions
      BY DEF Transitions
    <3> QED
      BY <2>3, <3>1, InvBegin
  <2>4. ASSUME NEW i \in Items, NEW op \in Operations \ {"assign"},
               Begin(w, op, i, u, None)
        PROVE  Inv'
    <3>1. op \in Transitions
      BY Tables
    <3> QED
      BY <2>4, <3>1, InvBegin
  <2> QED
    BY <2>1, <2>2, <2>3, <2>4
<1>3. ASSUME NEW w \in Workers, Proceed(w) PROVE Inv'
  BY <1>3, InvCreate, InvLoad, InvEnd, InvCommit DEF Proceed
<1> QED
  BY <1>1, <1>2, <1>3 DEF Next

\* Everything below follows from this invariant.
THEOREM BoardInvariant == Spec => []Inv
  BY InitInv, InvStep, PTL DEF Spec

\* The tables keep their columns' types.
THEOREM RowsAreTyped == Spec => []TypeOK
<1>1. Inv => TypeOK
  BY DEF Inv
<1> QED
  BY BoardInvariant, <1>1, PTL

\* Row and history of every item tell one story.
THEOREM HistoriesAreChains == Spec => []HistoryIsAChain
<1>1. Inv => HistoryIsAChain
  BY DEF Inv, Story
<1> QED
  BY BoardInvariant, <1>1, PTL

\* The columns about the approval name who submitted and who approved.
THEOREM ColumnsMatchHistories == Spec => []ApprovalColumnsMatchHistory
<1>1. Inv => ApprovalColumnsMatchHistory
  BY DEF Inv, Story
<1> QED
  BY BoardInvariant, <1>1, PTL

\* Nobody of another tenant acts on an item or is assigned to it.
THEOREM ItemsStayInTheirTenant == Spec => []OneTenantPerItem
<1>1. Inv => OneTenantPerItem
  BY DEF Inv, Story
<1> QED
  BY BoardInvariant, <1>1, PTL

---------------------------------------------------------------------------
(* Remediation implements FourEyes *)

\* The trail of one history.
TrailOf(h) ==
  [k \in 1..Len(h) |-> [transition |-> h[k].transition, actor |-> h[k].actor]]

LEMMA TrailIsTrailOf == Trail = [i \in Items |-> TrailOf(history[i])]
  BY DEF Trail, TrailOf

LEMMA TrailOfEmpty == TrailOf(<< >>) = << >>
<1>1. TrailOf(<< >>) \in Seq({}) /\ Len(TrailOf(<< >>)) = 0
  BY DEF TrailOf
<1> QED
  BY <1>1, EmptySeq

LEMMA TrailOfAppend ==
  ASSUME NEW h \in Seq(HistoryRow), NEW e \in HistoryRow
  PROVE  TrailOf(Append(h, e)) =
           Append(TrailOf(h), [transition |-> e.transition, actor |-> e.actor])
<1> DEFINE S == [transition: Transitions, actor: Users]
           x == [transition |-> e.transition, actor |-> e.actor]
           n == Len(h)
           g == Append(h, e)
<1>1. n \in Nat /\ Len(g) = n + 1 /\ g[n + 1] = e /\ \A k \in 1..n : g[k] = h[k]
  OBVIOUS
<1>2. \A k \in 1..n : h[k] \in HistoryRow
  OBVIOUS
<1>3. x \in S
  BY DEF HistoryRow
<1>4. \A k \in 1..n : [transition |-> h[k].transition, actor |-> h[k].actor] \in S
  BY <1>2 DEF HistoryRow
<1>5. TrailOf(h) \in Seq(S) /\ Len(TrailOf(h)) = n
  BY <1>1, <1>4 DEF TrailOf
<1> HIDE DEF x, S
<1>6. /\ Append(TrailOf(h), x) \in Seq(S)
      /\ Len(Append(TrailOf(h), x)) = n + 1
      /\ Append(TrailOf(h), x)[n + 1] = x
      /\ \A k \in 1..n : Append(TrailOf(h), x)[k] = TrailOf(h)[k]
  BY <1>3, <1>5
<1>7. Append(TrailOf(h), x) = [k \in 1..(n + 1) |-> Append(TrailOf(h), x)[k]]
  <2> DEFINE s == Append(TrailOf(h), x)
  <2>1. s \in Seq(S) /\ Len(s) = n + 1
    BY <1>6
  <2> HIDE DEF s, n
  <2>2. s \in [1..(n + 1) -> S]
    BY <2>1, LenProperties
  <2>3. s = [k \in 1..(n + 1) |-> s[k]]
    BY <2>2
  <2> QED
    BY <2>3 DEF s, n
<1>8. \A k \in 1..n : TrailOf(h)[k] = [transition |-> h[k].transition, actor |-> h[k].actor]
  BY DEF TrailOf
<1> HIDE DEF g, n
<1>9. TrailOf(g) =
        [k \in 1..(n + 1) |-> [transition |-> g[k].transition, actor |-> g[k].actor]]
  BY <1>1 DEF TrailOf
<1>10. ASSUME NEW k \in 1..(n + 1)
       PROVE  Append(TrailOf(h), x)[k] = [transition |-> g[k].transition, actor |-> g[k].actor]
  <2>1. CASE k = n + 1
    BY <1>1, <1>6, <2>1 DEF x
  <2>2. CASE k # n + 1
    <3>1. k \in 1..n
      BY <1>1, <2>2
    <3> QED
      BY <1>1, <1>6, <1>8, <3>1
  <2> QED
    BY <2>1, <2>2
<1>11. TrailOf(g) = Append(TrailOf(h), x)
  BY <1>7, <1>9, <1>10
<1> QED
  BY <1>11 DEF g, x

\* A history row recorded is a transition added to the item's trail.
LEMMA TrailGrows ==
  ASSUME TypeOK, NEW i \in Items, NEW op \in Transitions, NEW u \in Users,
         NEW from \in Statuses \cup {None}, Record(i, op, u, from)
  PROVE  Board!Record(i, op, u)
<1> DEFINE e == [transition |-> op, actor |-> u, from |-> from, to |-> To[op]]
<1>1. /\ e \in HistoryRow /\ history'[i] = Append(history[i], e)
      /\ \A j \in Items \ {i} : history'[j] = history[j]
  BY HistoryGrows
<1>2. e.transition = op /\ e.actor = u
  OBVIOUS
<1>3. history[i] \in Seq(HistoryRow)
  BY DEF TypeOK
<1> HIDE DEF e
<1>4. TrailOf(history'[i]) =
        Append(TrailOf(history[i]), [transition |-> op, actor |-> u])
  BY <1>1, <1>2, <1>3, TrailOfAppend
<1>5. Trail' = [j \in Items |-> TrailOf(history'[j])]
  BY DEF Trail, TrailOf
<1>6. Trail = [j \in Items |-> TrailOf(history[j])]
  BY TrailIsTrailOf
<1>7. Trail' = [Trail EXCEPT ![i] = Append(@, [transition |-> op, actor |-> u])]
  BY <1>1, <1>4, <1>5, <1>6
<1> QED
  BY <1>7 DEF Board!Record

LEMMA CreateIsCreate ==
  ASSUME Inv, NEW w \in Workers, Create(w)
  PROVE  Board!Next
<1>1. PICK i \in Items : item[i] = NoItem /\ Record(i, "create", tx[w].user, None)
  BY DEF Create
<1>2. tx[w].user \in Users /\ "create" \in Transitions
  BY DEF Create, Inv, TypeOK, Transitions
<1>3. history[i] = << >>
  BY <1>1 DEF Inv, Story, HistoryIsAChain, NoItem
<1>4. Trail[i] = << >>
  BY <1>3, TrailIsTrailOf, TrailOfEmpty
<1>5. Board!Record(i, "create", tx[w].user)
  BY <1>1, <1>2, TrailGrows DEF Inv
<1> QED
  BY <1>2, <1>4, <1>5 DEF Board!Next, Board!Create

LEMMA CommitIsTransition ==
  ASSUME Inv, NEW w \in Workers, Commit(w)
  PROVE  Board!Next
<1> DEFINE i == tx[w].item
           op == tx[w].op
           u == tx[w].user
           row == item[i]
           n == Len(history[i])
<1>1. /\ i \in Items /\ op \in Operations /\ u \in Users
      /\ row \in ItemRow /\ row.status = From[op]
      /\ SeparateActors(op, row, u)
      /\ Record(i, op, u, From[op])
  BY CommitWrites
<1>2. op \in Transitions /\ From[op] \in Statuses
  BY <1>1, Tables
<1>3. Board!Record(i, op, u)
  BY <1>1, <1>2, TrailGrows DEF Inv
<1>4. n \in Nat /\ n > 0 /\ history[i][n].to = From[op] /\ history[i] \in Seq(HistoryRow)
  <2>1. row.status # "absent"
    BY <1>1, <1>2 DEF Statuses
  <2>2. history[i] # << >> /\ history[i] \in Seq(HistoryRow)
    BY <1>1, <2>1 DEF Inv, Story, HistoryIsAChain, TypeOK
  <2>3. n \in Nat /\ n # 0
    BY <2>2
  <2> QED
    BY <1>1, <2>2, <2>3 DEF Inv, Story, HistoryIsAChain
<1>5. /\ history[i][n].transition \in Transitions
      /\ To[history[i][n].transition] = From[op]
  <2>1. n \in 1..Len(history[i]) /\ history[i][n] \in HistoryRow
    BY <1>4
  <2>2. history[i][n].transition \in Transitions
    BY <2>1 DEF HistoryRow
  <2>3. history[i][n].to = To[history[i][n].transition]
    BY <1>1, <2>1 DEF Inv, Story, RowsSayTransitions
  <2> QED
    BY <1>4, <2>2, <2>3
<1>6. /\ Trail[i] = TrailOf(history[i]) /\ Len(Trail[i]) = n /\ Trail[i] # << >>
      /\ Trail[i][n].transition = history[i][n].transition
      /\ Trail[i][n].actor = history[i][n].actor
  <2>1. Trail[i] = TrailOf(history[i])
    BY <1>1, TrailIsTrailOf
  <2>2. Len(TrailOf(history[i])) = n
    BY <1>4 DEF TrailOf
  <2>3. TrailOf(history[i])[n] =
          [transition |-> history[i][n].transition, actor |-> history[i][n].actor]
    BY <1>4 DEF TrailOf
  <2>4. TrailOf(history[i]) # << >>
    BY <1>4, <2>2
  <2> QED
    BY <2>1, <2>2, <2>3, <2>4
<1>7. op \in {"assign", "submit", "approve", "reject"}
  BY <1>1, Tables
<1>8. history[i][n].transition \in Board!Follows[op]
  BY <1>5, <1>7 DEF From, To, Transitions, Board!Follows
<1>9. Board!SeparateActors(Trail[i], op, u)
  <2>1. CASE op \in {"approve", "reject"}
    <3>1. row.status = "pending_approval" /\ row.requester # u
      BY <1>1, <2>1 DEF From, SeparateActors
    <3>2. row.requester = history[i][n].actor
      BY <1>1, <3>1 DEF Inv, Story, ApprovalColumnsMatchHistory
    <3> QED
      BY <1>6, <3>1, <3>2 DEF Board!SeparateActors, Board!Latest
  <2>2. CASE op \notin {"approve", "reject"}
    BY <2>2 DEF Board!SeparateActors
  <2> QED
    BY <2>1, <2>2
<1>10. op \in DOMAIN Board!Follows
  BY <1>7 DEF Board!Follows
<1>11. Board!Transition(i, op, u)
  BY <1>3, <1>6, <1>8, <1>9 DEF Board!Transition, Board!Latest
<1> QED
  BY <1>1, <1>10, <1>11 DEF Board!Next

\* The board implements FourEyes: every commit is a transition FourEyes allows by
\* an actor it allows, and nothing else touches the trails.
THEOREM BoardKeepsFourEyes == Spec => KeepsFourEyes
<1>1. Init => Board!Init
  <2> SUFFICES ASSUME Init PROVE Board!Init
    OBVIOUS
  <2>1. \A i \in Items : TrailOf(history[i]) = << >>
    BY TrailOfEmpty DEF Init
  <2>2. Trail = [i \in Items |-> << >>]
    BY <2>1, TrailIsTrailOf
  <2> QED
    BY <2>2 DEF Board!Init
<1>2. Inv /\ [Next]_vars => [Board!Next]_Trail
  <2> SUFFICES ASSUME Inv, [Next]_vars PROVE [Board!Next]_Trail
    OBVIOUS
  <2>1. CASE UNCHANGED history
    BY <2>1 DEF Trail
  <2>2. ASSUME NEW w \in Workers, Create(w) PROVE Board!Next
    BY <2>2, CreateIsCreate
  <2>3. ASSUME NEW w \in Workers, Commit(w) PROVE Board!Next
    BY <2>3, CommitIsTransition
  <2> QED
    BY <2>1, <2>2, <2>3 DEF Next, Start, Begin, Proceed, Load, Refuse, Rollback, vars
<1> QED
  BY BoardInvariant, <1>1, <1>2, PTL DEF Spec, KeepsFourEyes, Board!Spec

---------------------------------------------------------------------------
(* The timeline *)

LEMMA TimelineSteps == [TimelineNext]_timelineVars => [Next]_vars
  BY DEF TimelineNext, timelineVars, StartAt, ProceedAt, Next, vars

\* The timeline watches the board and holds nothing up: what it sees is a run of the
\* board, whose invariants and promise it therefore inherits.
THEOREM TimelineWatchesTheBoard == TimelineSpec => Init /\ [][Next]_vars /\ []Inv
<1>1. TimelineInit => Init
  BY DEF TimelineInit
<1> QED
  BY <1>1, TimelineSteps, InitInv, InvStep, PTL DEF TimelineSpec

\* The timestamp of an item's k-th row counts rows that were there when its request
\* began: fewer than k, and none only for the row of the creation.
Timely ==
  \A i \in Items :
    /\ Len(at[i]) = Len(history[i])
    /\ \A k \in 1..Len(at[i]) : at[i][k] < k /\ (k # 1 => 1 <= at[i][k])

\* A request on an item began when it had rows that it still has.
Begun(w) ==
  tx[w].phase # "none" =>
    IF tx[w].op = "create" THEN began[w] = 0
    ELSE 1 <= began[w] /\ began[w] <= Len(history[tx[w].item])

\* The inductive invariant.
TimeInv ==
  /\ Inv
  /\ began \in [Workers -> Nat] /\ at \in [Items -> Seq(Nat)]
  /\ \A i \in Items : item[i].status = "absent" => item[i] = NoItem
  /\ Timely
  /\ \A w \in Workers : Begun(w)

LEMMA TimeInit == TimelineInit => TimeInv
<1> SUFFICES ASSUME TimelineInit PROVE TimeInv
  OBVIOUS
<1>1. Init /\ began = [w \in Workers |-> 0] /\ at = [i \in Items |-> << >>]
  BY DEF TimelineInit
<1>2. Inv
  BY <1>1, InitInv
<1>3. Timely
  BY <1>1 DEF Timely, Init
<1>4. \A w \in Workers : Begun(w)
  BY <1>1 DEF Begun, Init, NoTx
<1> QED
  BY <1>1, <1>2, <1>3, <1>4 DEF TimeInv, Init

\* BEGIN: the item named is there, and so is the row of its creation.
LEMMA BeginTimed ==
  ASSUME TimeInv, NEW w \in Workers, StartAt(w)
  PROVE  TimeInv'
<1>1. PICK u \in Users, op \in Transitions, i \in Items \cup {None}, v \in Users \cup {None} :
        Begin(w, op, i, u, v) /\ (op # "create" => i \in Items)
  <2>1. "create" \in Transitions /\ "assign" \in Transitions /\ Operations \subseteq Transitions
    BY Tables DEF Transitions
  <2> QED
    BY <2>1 DEF StartAt, Start
<1>2. UNCHANGED <<item, history, at>>
  BY <1>1 DEF Begin, StartAt
<1>3. PICK r \in Transaction : tx' = [tx EXCEPT ![w] = r] /\ r.op = op /\ r.item = i
  <2>1. [phase |-> "begun", op |-> op, item |-> i, user |-> u, assignee |-> v] \in Transaction
    BY DEF Transaction
  <2> QED
    BY <1>1, <2>1 DEF Begin
<1>4. /\ tx'[w] = r /\ \A v2 \in Workers \ {w} : tx'[v2] = tx[v2]
  BY <1>3 DEF TimeInv, Inv, TypeOK
<1>5. Inv'
  <2>1. Next
    BY DEF StartAt, Next
  <2> QED
    BY <2>1, InvStep DEF TimeInv
<1>6. PICK n : n = IF op = "create" THEN 0 ELSE Len(history[i])
  OBVIOUS
<1>6a. began' = [began EXCEPT ![w] = n]
  <2>1. PICK b : b = IF tx'[w].op = "create" THEN 0 ELSE Len(history[tx'[w].item])
    OBVIOUS
  <2>2. began' = [began EXCEPT ![w] = b]
    BY <2>1 DEF StartAt
  <2>3. tx'[w].op = op /\ tx'[w].item = i
    BY <1>3, <1>4
  <2>4. b = n
    BY <1>6, <2>1, <2>3
  <2> QED
    BY <2>2, <2>4
<1>7. n \in Nat /\ (op # "create" => 1 <= n /\ n = Len(history[i]))
  <2>1. ASSUME op # "create" PROVE Len(history[i]) \in Nat /\ 1 <= Len(history[i])
    <3>1. i \in Items /\ item[i] # NoItem
      BY <1>1, <2>1 DEF Begin
    <3>2. history[i] \in Seq(HistoryRow) /\ history[i] # << >>
      BY <3>1 DEF TimeInv, Inv, Story, HistoryIsAChain, TypeOK
    <3>3. Len(history[i]) \in Nat /\ Len(history[i]) # 0
      BY <3>2, EmptySeq
    <3> QED
      BY <3>3
  <2> QED
    BY <1>6, <2>1
<1>8. /\ began' \in [Workers -> Nat] /\ began'[w] = n
      /\ \A v2 \in Workers \ {w} : began'[v2] = began[v2]
  BY <1>6a, <1>7 DEF TimeInv
<1>9. ASSUME NEW v2 \in Workers PROVE Begun(v2)'
  <2>1. CASE v2 = w
    <3>1. n <= n
      BY <1>7
    <3> QED
      BY <1>2, <1>3, <1>4, <1>6, <1>7, <1>8, <2>1, <3>1 DEF Begun
  <2>2. CASE v2 # w
    BY <1>2, <1>4, <1>8, <2>2 DEF Begun, TimeInv
  <2> QED
    BY <2>1, <2>2
<1> QED
  BY <1>2, <1>5, <1>8, <1>9 DEF TimeInv, Timely

\* A step that writes one row of history, or none.
LEMMA ProceedTimed ==
  ASSUME TimeInv, NEW w \in Workers, ProceedAt(w)
  PROVE  TimeInv'
<1>1. /\ Inv /\ Timely /\ Begun(w) /\ TypeOK
      /\ at \in [Items -> Seq(Nat)] /\ began \in [Workers -> Nat]
      /\ history \in [Items -> Seq(HistoryRow)]
  BY DEF TimeInv, Inv, TypeOK
<1>2. Inv'
  <2>1. Next
    BY DEF ProceedAt, Next
  <2> QED
    BY <2>1, InvStep DEF TimeInv
<1>3. /\ at' = [i \in Items |-> IF Len(history'[i]) > Len(history[i])
                                THEN Append(at[i], began[w]) ELSE at[i]]
      /\ began' = began
  BY DEF ProceedAt
<1>4. \A v \in Workers \ {w} : tx'[v] = tx[v]
  BY <1>1 DEF ProceedAt, Proceed, Create, Load, Refuse, Commit, Rollback, TypeOK
<1>5. CASE UNCHANGED <<item, history>> /\ tx'[w] \in {NoTx, [tx[w] EXCEPT !.phase = "locked"]}
           /\ (tx'[w] # NoTx => tx[w].phase # "none")
  <2>1. \A i \in Items : Len(history[i]) \in Nat
    BY <1>1
  <2>2. at' = at
    BY <1>1, <1>3, <1>5, <2>1
  <2>3. ASSUME NEW v \in Workers PROVE Begun(v)'
    <3>1. CASE v # w
      BY <1>3, <1>4, <1>5, <3>1 DEF Begun, TimeInv
    <3>2. CASE v = w /\ tx'[w] = NoTx
      BY <3>2 DEF Begun, NoTx
    <3>3. CASE v = w /\ tx'[w] # NoTx
      <4>1. tx[w] \in Transaction /\ tx'[w].op = tx[w].op /\ tx'[w].item = tx[w].item
        BY <1>1, <1>5, <3>3 DEF TypeOK, Transaction
      <4> QED
        BY <1>1, <1>3, <1>5, <3>3, <4>1 DEF Begun
    <3> QED
      BY <3>1, <3>2, <3>3
  <2> QED
    BY <1>1, <1>2, <1>3, <1>5, <2>2, <2>3 DEF TimeInv, Timely
<1>6. ASSUME NEW i \in Items, NEW op \in Transitions, NEW u \in Users,
             NEW from \in Statuses \cup {None}, Record(i, op, u, from),
             tx'[w] = NoTx, \A j \in Items : item'[j].status = "absent" => item'[j] = NoItem,
             began[w] <= Len(history[i]), 1 <= began[w] \/ Len(history[i]) = 0
      PROVE  TimeInv'
  <2> DEFINE n == Len(history[i])
  <2>1. /\ n \in Nat /\ Len(history'[i]) = n + 1
        /\ \A j \in Items \ {i} : history'[j] = history[j]
    BY <1>1, <1>6, HistoryGrows
  <2>2. PICK b \in Nat : b = began[w] /\ b <= n /\ (1 <= b \/ n = 0)
    BY <1>1, <1>6
  <2> HIDE DEF n
  <2>3. at'[i] = Append(at[i], b) /\ \A j \in Items \ {i} : at'[j] = at[j]
    <3>1. n + 1 > n /\ \A j \in Items : Len(history[j]) \in Nat
      BY <1>1, <2>1
    <3> QED
      BY <1>3, <2>1, <2>2, <3>1 DEF n
  <2>4. at[i] \in Seq(Nat) /\ Len(at[i]) = n
    BY <1>1 DEF Timely, n
  <2>5. /\ Append(at[i], b) \in Seq(Nat) /\ Len(Append(at[i], b)) = n + 1
        /\ Append(at[i], b)[n + 1] = b
        /\ \A k \in 1..n : Append(at[i], b)[k] = at[i][k]
    BY <2>4, AppendProperties
  <2>6. at' \in [Items -> Seq(Nat)]
    BY <1>1, <1>3, <2>3, <2>5
  <2>7. ASSUME NEW k \in 1..(n + 1) PROVE at'[i][k] < k /\ (k # 1 => 1 <= at'[i][k])
    <3>1. CASE k \in 1..n
      <4>1. at[i][k] < k /\ (k # 1 => 1 <= at[i][k])
        BY <1>1, <2>4, <3>1 DEF Timely
      <4> QED
        BY <2>3, <2>5, <3>1, <4>1
    <3>2. CASE k = n + 1
      <4>1. at'[i][k] = b /\ b < n + 1 /\ (n + 1 # 1 => 1 <= b)
        BY <2>1, <2>2, <2>3, <2>5, <3>2
      <4> QED
        BY <3>2, <4>1
    <3> QED
      BY <2>1, <3>1, <3>2
  <2>8. Timely'
    BY <1>1, <2>1, <2>3, <2>5, <2>7 DEF Timely
  <2>9. ASSUME NEW v \in Workers PROVE Begun(v)'
    <3>1. CASE v = w
      BY <1>6, <3>1 DEF Begun, NoTx
    <3>2. CASE v # w /\ tx[v].phase # "none" /\ tx[v].op # "create"
      <4>1. tx'[v] = tx[v] /\ began'[v] = began[v] /\ began[v] \in Nat
        BY <1>1, <1>3, <1>4, <3>2
      <4>2. tx[v].item \in Items
        <5>1. tx[v].op \in Operations
          <6>1. tx[v].op \in Transitions
            BY <1>1 DEF TypeOK, Transaction
          <6> QED
            BY <3>2, <6>1 DEF Transitions, Operations, From
        <5> QED
          BY <1>1, <3>2, <5>1 DEF TypeOK
      <4>3. 1 <= began[v] /\ began[v] <= Len(history[tx[v].item])
        BY <3>2 DEF Begun, TimeInv
      <4>4. \/ history'[tx[v].item] = history[tx[v].item]
            \/ tx[v].item = i
        BY <2>1, <4>2
      <4>5. began[v] <= Len(history'[tx[v].item])
        BY <2>1, <4>1, <4>3, <4>4 DEF n
      <4> QED
        BY <4>1, <4>3, <4>5, <3>2 DEF Begun
    <3>3. CASE v # w /\ ~(tx[v].phase # "none" /\ tx[v].op # "create")
      BY <1>3, <1>4, <3>3 DEF Begun, TimeInv
    <3> QED
      BY <3>1, <3>2, <3>3
  <2> QED
    BY <1>1, <1>2, <1>3, <1>6, <2>6, <2>8, <2>9 DEF TimeInv
<1>7. CASE Create(w)
  <2>1. PICK i \in Items :
          /\ item[i] = NoItem /\ Record(i, "create", tx[w].user, None)
          /\ item' = [item EXCEPT ![i] = [NoItem EXCEPT !.status = "open",
                                                        !.tenant = TenantOf[tx[w].user]]]
    BY <1>7 DEF Create
  <2>2. /\ tx[w].phase = "begun" /\ tx[w].op = "create" /\ tx[w].user \in Users
        /\ tx' = [tx EXCEPT ![w] = NoTx]
    BY <1>1, <1>7 DEF Create, TypeOK
  <2>3. tx'[w] = NoTx
    BY <1>1, <2>2 DEF TypeOK
  <2>4. began[w] = 0
    BY <1>1, <2>2 DEF Begun
  <2>5. Len(history[i]) = 0
    BY <1>1, <2>1 DEF Inv, Story, HistoryIsAChain, NoItem
  <2>6. \A j \in Items : item'[j].status = "absent" => item'[j] = NoItem
    <3>1. [NoItem EXCEPT !.status = "open", !.tenant = TenantOf[tx[w].user]].status = "open"
      BY DEF NoItem
    <3>2. \A j \in Items : item[j].status = "absent" => item[j] = NoItem
      BY DEF TimeInv
    <3>3. item'[i].status = "open" /\ \A j \in Items \ {i} : item'[j] = item[j]
      BY <1>1, <2>1, <3>1 DEF TypeOK
    <3> QED
      BY <3>2, <3>3
  <2>7. "create" \in Transitions
    BY DEF Transitions
  <2> QED
    BY <1>6, <2>1, <2>2, <2>3, <2>4, <2>5, <2>6, <2>7
<1>8. CASE Commit(w)
  <2>1. PICK r : r = tx[w]
    OBVIOUS
  <2>2. /\ r.item \in Items /\ r.op \in Operations /\ r.user \in Users
        /\ Record(r.item, r.op, r.user, From[r.op])
        /\ item'[r.item].status = To[r.op]
        /\ \A j \in Items \ {r.item} : item'[j] = item[j]
    BY <1>1, <1>8, <2>1, CommitWrites
  <2>3. From[r.op] \in Statuses /\ r.op \in Transitions /\ To[r.op] \in Statuses /\ r.op # "create"
    BY <2>2, Tables
  <2>4. tx'[w] = NoTx /\ r.phase = "locked"
    BY <1>1, <1>8, <2>1 DEF Commit, TypeOK
  <2>5. 1 <= began[w] /\ began[w] <= Len(history[r.item])
    BY <1>1, <2>1, <2>3, <2>4 DEF Begun
  <2>6. \A j \in Items : item'[j].status = "absent" => item'[j] = NoItem
    <3>1. \A j \in Items : item[j].status = "absent" => item[j] = NoItem
      BY DEF TimeInv
    <3>2. item'[r.item].status # "absent"
      BY <2>2, <2>3 DEF Statuses
    <3> QED
      BY <2>2, <3>1, <3>2
  <2> QED
    BY <1>6, <2>2, <2>3, <2>4, <2>5, <2>6
<1>9. CASE Load(w) \/ Refuse(w) \/ Rollback(w)
  BY <1>1, <1>5, <1>9 DEF Load, Refuse, Rollback, TypeOK
<1> QED
  BY <1>7, <1>8, <1>9 DEF ProceedAt, Proceed

LEMMA TimeKept == TimeInv /\ [TimelineNext]_timelineVars => TimeInv'
<1> SUFFICES ASSUME TimeInv, [TimelineNext]_timelineVars PROVE TimeInv'
  OBVIOUS
<1>1. CASE TimelineNext
  BY <1>1, BeginTimed, ProceedTimed DEF TimelineNext
<1>2. CASE UNCHANGED timelineVars
  <2>1. Inv'
    BY <1>2, InvStep DEF TimeInv, timelineVars, vars
  <2> QED
    BY <1>2, <2>1 DEF TimeInv, Timely, Begun, timelineVars
<1> QED
  BY <1>1, <1>2

\* A transition whose request began after another was recorded is shown after it, and
\* the creation first, however transactions on the item overlap: only transitions that
\* waited for one another can be shown out of order.
THEOREM LaterIsShownLater == TimelineSpec => []LaterRequestsShownLater
<1>1. TimeInv => LaterRequestsShownLater
  <2> SUFFICES ASSUME TimeInv, NEW i \in Items, NEW k \in 1..Len(at[i]), NEW l \in 1..Len(at[i]),
                      k <= at[i][l] \/ (k = 1 /\ l # 1)
               PROVE  at[i][k] < at[i][l]
    BY DEF LaterRequestsShownLater
  <2>1. /\ at[i][k] \in Nat /\ at[i][l] \in Nat /\ at[i][k] < k /\ at[i][l] < l
        /\ l # 1 => 1 <= at[i][l]
    <3>1. at[i] \in Seq(Nat)
      BY DEF TimeInv
    <3>2. at[i][k] \in Nat /\ at[i][l] \in Nat
      BY <3>1
    <3> QED
      BY <3>2 DEF TimeInv, Timely
  <2> QED
    BY <2>1
<1> QED
  BY <1>1, TimeInit, TimeKept, PTL DEF TimelineSpec
=============================================================================
