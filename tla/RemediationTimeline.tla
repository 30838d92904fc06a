-------------------------- MODULE RemediationTimeline --------------------------
(***************************************************************************)
(* The timeline get_history shows: the rows of remediation_history sorted  *)
(* by `at`, whose default now() is the time the row's transaction began.   *)
(* Time on an item is counted in its history rows: a transaction that      *)
(* begins when the item has n of them writes a row whose `at` is n.        *)
(***************************************************************************)
EXTENDS Remediation

VARIABLES
  began,  \* Workers -> now() of the transaction
  at      \* Items -> the `at` column of the item's history, in id order

timelineVars == <<item, history, lock, tx, began, at>>

TimelineInit ==
  /\ Init
  /\ began = [w \in Workers |-> 0]
  /\ at = [i \in Items |-> << >>]

\* BEGIN fixes now() for the transaction.
StartAt(w) ==
  /\ Start(w)
  /\ began' = [began EXCEPT ![w] =
       IF tx'[w].op = "create" THEN 0 ELSE Len(history[tx'[w].item])]
  /\ UNCHANGED at

\* _record_history leaves `at` to its default.
ProceedAt(w) ==
  /\ Proceed(w)
  /\ at' = [i \in Items |->
       IF Len(history'[i]) > Len(history[i]) THEN Append(at[i], began[w]) ELSE at[i]]
  /\ UNCHANGED began

TimelineNext == \E w \in Workers : StartAt(w) \/ ProceedAt(w)

TimelineSpec == TimelineInit /\ [][TimelineNext]_timelineVars

\* test_history_records_every_transition reads an item's transitions in the order
\* they happened from get_history, which sorts by `at`.
TimelineInOrder ==
  \A i \in Items : \A k, l \in 1..Len(at[i]) : k < l => at[i][k] <= at[i][l]

\* What get_history's ORDER BY does keep, however transactions overlap: a transition
\* whose request began after another was recorded is shown after it, and the creation is
\* shown before everything else (remediation.py, _record_history and get_history).
LaterRequestsShownLater ==
  \A i \in Items : \A k, l \in 1..Len(at[i]) :
    (k <= at[i][l] \/ (k = 1 /\ l # 1)) => at[i][k] < at[i][l]
=============================================================================
