------------------------ MODULE VulnerabilityFeedsProofs ------------------------
(***************************************************************************)
(* Proofs about VulnerabilityFeeds, for any workers, plans, entries, page  *)
(* sizes, windows and bounds.                                              *)
(***************************************************************************)
EXTENDS VulnerabilityFeeds, FiniteSetTheorems, FunctionTheorems, SequenceTheorems, WellFoundedInduction, TLAPS

USE PlansAssumption, OrderAssumption, NumbersAssumption

---------------------------------------------------------------------------
(* Least and greatest elements *)

\* A nonempty set of naturals has a least element.
LEMMA Least == ASSUME NEW S \in SUBSET Nat, S # {} PROVE \E n \in S : \A m \in S : n <= m
<1> DEFINE Less == OpToRel(<, Nat)
<1>1. IsWellFoundedOn(Less, Nat)
  BY NatLessThanWellFounded DEF OpToRel
<1>2. \A m, n \in Nat : <<m, n>> \in Less <=> m < n
  BY DEF OpToRel
<1> HIDE DEF Less
<1>3. PICK n \in S : \A m \in S : ~(<<m, n>> \in Less)
  BY <1>1, WFMin
<1>4. ASSUME NEW m \in S PROVE n <= m
  <2>1. m \in Nat /\ n \in Nat /\ ~(m < n)
    BY <1>2, <1>3
  <2> QED
    BY <2>1
<1> QED
  BY <1>4

\* A nonempty bounded set of naturals has a greatest element.
LEMMA Greatest ==
  ASSUME NEW N \in Nat, NEW S \in SUBSET (0 .. N), S # {}
  PROVE  \E n \in S : \A m \in S : m <= n
<1> DEFINE T == {t \in Nat : \E s \in S : t = N - s}
<1>1. T \in SUBSET Nat /\ \A s \in S : N - s \in T
  OBVIOUS
<1>2. PICK t \in T : \A u \in T : t <= u
  BY <1>1, Least
<1>3. PICK n \in S : t = N - n
  OBVIOUS
<1>4. ASSUME NEW m \in S PROVE m <= n
  <2>1. N - n <= N - m /\ m \in 0 .. N /\ n \in 0 .. N
    BY <1>1, <1>2, <1>3
  <2> QED
    BY <2>1
<1> QED
  BY <1>4

---------------------------------------------------------------------------
(* Positions in a listing *)

Before(L, c) == {d \in L : Order[d] < Order[c]}
At(L, c) == Cardinality(Before(L, c))

LEMMA AtIs ==
  ASSUME NEW L \in SUBSET Cves, NEW c \in L
  PROVE  At(L, c) \in Nat /\ IsFiniteSet(L) /\ At(L, c) < Cardinality(L)
         /\ Cardinality(L) \in Nat
<1>1. IsFiniteSet(L) /\ Cardinality(L) \in Nat
  BY FS_Subset, FS_CardinalityType
<1>2. Before(L, c) \in SUBSET L /\ c \notin Before(L, c)
  BY DEF Before
<1>3. IsFiniteSet(Before(L, c)) /\ At(L, c) \in Nat
  BY <1>1, <1>2, FS_Subset, FS_CardinalityType DEF At
<1>4. At(L, c) <= Cardinality(L) /\ At(L, c) # Cardinality(L)
  BY <1>1, <1>2, FS_Subset DEF At
<1> QED
  BY <1>1, <1>3, <1>4

LEMMA AtOrders ==
  ASSUME NEW L \in SUBSET Cves, NEW c \in L, NEW d \in L, Order[c] < Order[d]
  PROVE  At(L, c) < At(L, d)
<1>1. Order[c] \in Nat /\ Order[d] \in Nat /\ \A e \in L : Order[e] \in Nat
  OBVIOUS
<1>2. Before(L, c) \in SUBSET Before(L, d) /\ c \in Before(L, d) /\ c \notin Before(L, c)
  BY <1>1 DEF Before
<1>3. IsFiniteSet(Before(L, d))
  <2>1. Before(L, d) \in SUBSET Cves
    BY DEF Before
  <2> QED
    BY <2>1, FS_Subset
<1>4. At(L, c) <= At(L, d) /\ At(L, c) # At(L, d)
  BY <1>2, <1>3, FS_Subset DEF At
<1>5. At(L, c) \in Nat /\ At(L, d) \in Nat
  BY AtIs
<1> QED
  BY <1>4, <1>5

LEMMA AtDiffers ==
  ASSUME NEW L \in SUBSET Cves, NEW c \in L, NEW d \in L, At(L, c) = At(L, d)
  PROVE  c = d
<1>1. Order[c] \in Nat /\ Order[d] \in Nat /\ At(L, c) \in Nat
  BY AtIs
<1>2. ~(Order[c] < Order[d]) /\ ~(Order[d] < Order[c])
  BY <1>1, AtOrders
<1> QED
  BY <1>1, <1>2

\* Entries at positions below n, from m on, are no more than n - m.
LEMMA Fewer ==
  ASSUME NEW L \in SUBSET Cves, NEW S \in SUBSET L, NEW m \in Nat, NEW n \in Nat, m <= n,
         \A c \in S : m <= At(L, c) /\ At(L, c) < n
  PROVE  Cardinality(S) \in Nat /\ Cardinality(S) <= n - m
<1> DEFINE f == [c \in S |-> At(L, c) - m]
<1>1. ASSUME NEW c \in S PROVE At(L, c) \in Nat /\ At(L, c) - m \in 0 .. (n - m - 1)
  <2>1. At(L, c) \in Nat /\ m <= At(L, c) /\ At(L, c) < n
    BY AtIs
  <2> QED
    BY <2>1
<1>2. f \in [S -> 0 .. (n - m - 1)]
  BY <1>1
<1>3. ASSUME NEW c \in S, NEW d \in S, f[c] = f[d] PROVE c = d
  <2>1. At(L, c) = At(L, d)
    BY <1>1, <1>3
  <2> QED
    BY <2>1, AtDiffers
<1>4. f \in Injection(S, 0 .. (n - m - 1))
  BY <1>2, <1>3, Fun_IsInj
<1>5. IsFiniteSet(0 .. (n - m - 1)) /\ Cardinality(0 .. (n - m - 1)) = n - m
  BY FS_Interval
<1>6. Cardinality(S) <= Cardinality(0 .. (n - m - 1))
  BY <1>4, <1>5, FS_Injection
<1>7. IsFiniteSet(S)
  BY FS_Subset
<1> QED
  BY <1>5, <1>6, <1>7, FS_CardinalityType

LEMMA PageIs ==
  ASSUME NEW L \in SUBSET Cves, NEW index \in Nat
  PROVE  /\ Page(L, index) = {c \in L : index <= At(L, c) /\ At(L, c) < index + PageSize}
         /\ Cardinality(Page(L, index)) \in Nat /\ Cardinality(Page(L, index)) <= PageSize
<1>1. Page(L, index) = {c \in L : index <= At(L, c) /\ At(L, c) < index + PageSize}
  BY DEF Page, At, Before
<1>2. Cardinality(Page(L, index)) \in Nat
      /\ Cardinality(Page(L, index)) <= (index + PageSize) - index
  <2>1. Page(L, index) \in SUBSET L /\ index + PageSize \in Nat /\ index <= index + PageSize
    BY <1>1
  <2>2. \A c \in Page(L, index) : index <= At(L, c) /\ At(L, c) < index + PageSize
    BY <1>1
  <2> QED
    BY <2>1, <2>2, Fewer
<1> QED
  BY <1>1, <1>2

\* After the last page no entry is at a later position.
LEMMA LastPage ==
  ASSUME NEW L \in SUBSET Cves, NEW index \in Nat, NEW c \in L,
         \/ Page(L, index) = {}
         \/ index + Cardinality(Page(L, index)) >= Cardinality(L)
  PROVE  At(L, c) < index + PageSize
<1>1. CASE index + Cardinality(Page(L, index)) >= Cardinality(L)
  <2>1. /\ At(L, c) \in Nat /\ Cardinality(L) \in Nat /\ At(L, c) < Cardinality(L)
        /\ Cardinality(Page(L, index)) \in Nat /\ Cardinality(Page(L, index)) <= PageSize
    BY AtIs, PageIs
  <2> QED
    BY <1>1, <2>1
<1>2. CASE Page(L, index) = {}
  <2> SUFFICES ASSUME ~(At(L, c) < index + PageSize) PROVE FALSE
    OBVIOUS
  <2> DEFINE S == {n \in Nat : index + PageSize <= n /\ \E d \in L : At(L, d) = n}
  <2>1. At(L, c) \in S
    BY AtIs
  <2>2. PICK n \in S : \A m \in S : n <= m
    BY <2>1, Least
  <2>3. PICK d \in L : At(L, d) = n
    OBVIOUS
  <2>4. ASSUME NEW e \in Before(L, d) PROVE 0 <= At(L, e) /\ At(L, e) < index
    <3>1. e \in L /\ At(L, e) < n /\ At(L, e) \in Nat
      BY <2>3, AtOrders, AtIs DEF Before
    <3>2. At(L, e) \notin S
      BY <2>2, <3>1
    <3>3. At(L, e) < index + PageSize
      BY <3>1, <3>2
    <3>4. ~(index <= At(L, e))
      BY <1>2, <3>1, <3>3, PageIs
    <3> QED
      BY <3>1, <3>4
  <2>5. Before(L, d) \in SUBSET L
    BY DEF Before
  <2>6. At(L, d) <= index
    <3>1. 0 \in Nat /\ 0 <= index
      OBVIOUS
    <3>2. Cardinality(Before(L, d)) \in Nat /\ Cardinality(Before(L, d)) <= index - 0
      BY <2>4, <2>5, <3>1, Fewer
    <3> QED
      BY <3>2 DEF At
  <2> QED
    BY <2>2, <2>3, <2>6
<1> QED
  BY <1>1, <1>2

---------------------------------------------------------------------------
(* The jobs *)

JobPhases == {"none", "open", "fetch", "store", "fetch_kev", "store_kev", "close"}
JobRow == [phase : JobPhases, todo : Seq(Sources), run : Nat, slice : Nat, now : Times,
           index : Nat, fetched : SUBSET Entry, listed : SUBSET Cves, clean : BOOLEAN]

NvdWorkers == {w \in Workers : \E plan \in Plans[w] : \E k \in DOMAIN plan : plan[k] = "nvd"}

Busy(j) == j.phase \in {"fetch", "store", "fetch_kev", "store_kev", "close"}

\* What worker w's job row j agrees on with the run it is about.
Fit(w, j) ==
  /\ j.phase # "none" => j.todo # << >>
  /\ \A k \in DOMAIN j.todo : j.todo[k] = "nvd" => w \in NvdWorkers
  /\ Busy(j) => /\ j.run \in DOMAIN runs
                /\ runs[j.run].source = j.todo[1] /\ runs[j.run].now = j.now
                /\ j.now <= clock
  /\ j.phase \in {"fetch", "store"} => j.todo[1] = "nvd"
  /\ j.phase \in {"fetch_kev", "store_kev"} => j.todo[1] = "cisa_kev"
  /\ \A e \in j.fetched : e.time # 0

FeedsInv ==
  /\ TypeOK
  /\ job \in [Workers -> JobRow]
  /\ \A w \in Workers : Fit(w, job[w])
  /\ \A i \in DOMAIN runs : runs[i].now <= clock

LEMMA NoJobIs == NoJob \in JobRow /\ \A w : Fit(w, NoJob)
<1>1. << >> \in Seq(Sources) /\ DOMAIN << >> = {} /\ 0 \in Times
  BY DEF Times
<1>2. NoJob \in JobRow
  BY <1>1 DEF NoJob, JobRow, JobPhases
<1>3. NoJob.phase = "none" /\ NoJob.todo = << >> /\ NoJob.fetched = {}
  BY DEF NoJob
<1> QED
  BY <1>1, <1>2, <1>3 DEF Fit, Busy

\* The last successful run is one, when there is any.
LEMMA CursorIs ==
  ASSUME runs \in Seq(RunRow), NEW source
  PROVE  \/ LatestCursor(source) = 0 /\ Successes(source) = {}
         \/ /\ LatestCursor(source) \in Successes(source)
            /\ LatestCursor(source) \in 1 .. Len(runs) /\ LatestCursor(source) # 0
<1>1. Successes(source) \in SUBSET (0 .. Len(runs)) /\ Len(runs) \in Nat
      /\ Successes(source) \in SUBSET (1 .. Len(runs))
  BY DEF Successes
<1>2. CASE Successes(source) = {}
  BY <1>2 DEF LatestCursor
<1>3. CASE Successes(source) # {}
  <2>1. \E i \in Successes(source) : \A k \in Successes(source) : k <= i
    BY <1>1, <1>3, Greatest
  <2>2. LatestCursor(source) \in Successes(source)
    BY <1>3, <2>1 DEF LatestCursor
  <2> QED
    BY <1>1, <2>2
<1> QED
  BY <1>2, <1>3

---------------------------------------------------------------------------
(* What a step makes of the runs *)

CloseStep == \E w \in Workers : CloseSuccess(w) \/ CloseFailed(w)

LEMMA ChangesRuns == Next => (\E w \in Workers : Open(w)) \/ CloseStep \/ runs' = runs
  BY DEF Next, Ingest, CloseStep, Tick, Revise, List, Start, FetchPage, StoreWindow, FetchKev,
     StoreKev, Crash, Database, World

\* The run Open adds.
LEMMA OpenAdds ==
  ASSUME FeedsInv, NEW w \in Workers, Open(w)
  PROVE  \E row \in RunRow :
           /\ runs' = Append(runs, row) /\ row.source = job[w].todo[1]
           /\ row.status = "running" /\ row.now = clock
           /\ LET last == LatestCursor(row.source) IN
               IF last = 0 THEN row.clean = TRUE /\ row.from = job'[w].slice
               ELSE row.clean = runs[last].clean /\ row.from = runs[last].from
<1>1. TypeOK /\ job[w] \in JobRow /\ w \in DOMAIN job /\ job[w].todo # << >>
  BY DEF FeedsInv, Fit, Open
<1>2. PICK source \in Sources : source = Head(job[w].todo) /\ source = job[w].todo[1]
  BY <1>1 DEF JobRow
<1>3. PICK last : last = LatestCursor(source)
  OBVIOUS
<1>4. last = 0 \/ (last \in DOMAIN runs /\ runs[last] \in RunRow /\ last # 0)
  <2>1. runs \in Seq(RunRow)
    BY <1>1 DEF TypeOK
  <2> QED
    BY <1>3, <2>1, CursorIs
<1>5. PICK start : start = CASE last # 0 -> runs[last].now
                             [] last = 0 /\ clock > Lookback -> clock - Lookback
                             [] OTHER -> 0
  OBVIOUS
<1>6. start \in Times
  BY <1>1, <1>4, <1>5 DEF TypeOK, RunRow, Times
<1>7. PICK from, clean : /\ from = IF last # 0 THEN runs[last].from ELSE start
                         /\ clean = (last # 0 => runs[last].clean)
  OBVIOUS
<1>8. from \in Times /\ clean \in BOOLEAN
      /\ IF last = 0 THEN clean = TRUE /\ from = start
         ELSE clean = runs[last].clean /\ from = runs[last].from
  BY <1>4, <1>6, <1>7 DEF RunRow
<1>9. runs' = Append(runs, [source |-> source, status |-> "running", now |-> clock,
                            from |-> from, clean |-> clean])
  BY <1>2, <1>3, <1>5, <1>7 DEF Open
<1>10. job'[w].slice = start
  BY <1>1, <1>2, <1>3, <1>5 DEF Open, JobRow
<1>11. [source |-> source, status |-> "running", now |-> clock, from |-> from, clean |-> clean]
         \in RunRow
  BY <1>1, <1>8 DEF RunRow, TypeOK, Times
<1> QED
  BY <1>2, <1>3, <1>8, <1>9, <1>10, <1>11

\* A close changes the status of one run, and its cleanness.
LEMMA CloseKeeps ==
  ASSUME FeedsInv, NEW w \in Workers, CloseSuccess(w) \/ CloseFailed(w), NEW i \in DOMAIN runs
  PROVE  /\ DOMAIN runs' = DOMAIN runs /\ runs' \in Seq(RunRow)
         /\ runs'[i].source = runs[i].source /\ runs'[i].now = runs[i].now
         /\ runs'[i].from = runs[i].from
         /\ \/ runs'[i].status = runs[i].status /\ runs'[i].clean = runs[i].clean
            \/ runs'[i].status = "failed"
            \/ CloseSuccess(w) /\ i = job[w].run /\ runs'[i].clean = job[w].clean
<1>1. runs \in Seq(RunRow) /\ job[w] \in JobRow
  BY DEF FeedsInv, TypeOK
<1>2. job[w].run \in DOMAIN runs
  BY DEF FeedsInv, Fit, Busy, CloseSuccess, CloseFailed
<1>3. \A k \in DOMAIN runs : runs[k] \in RunRow
  BY <1>1
<1>4. CASE CloseSuccess(w)
  <2>1. PICK k \in DOMAIN runs, clean \in BOOLEAN : k = job[w].run /\ clean = job[w].clean
    BY <1>1, <1>2 DEF JobRow
  <2>2. runs' = [runs EXCEPT ![k].status = "success", ![k].clean = clean]
    BY <1>4, <2>1 DEF CloseSuccess
  <2>3. PICK mid : mid = [runs EXCEPT ![k].status = "success"]
    OBVIOUS
  <2>4. runs' = [mid EXCEPT ![k].clean = clean]
    BY <2>2, <2>3
  <2>5. runs \in [1 .. Len(runs) -> RunRow] /\ Len(runs) \in Nat /\ DOMAIN runs = 1 .. Len(runs)
    BY <1>1
  <2>6. /\ mid \in [1 .. Len(runs) -> RunRow]
        /\ \A q \in DOMAIN runs : /\ mid[q].source = runs[q].source /\ mid[q].now = runs[q].now
                                 /\ mid[q].from = runs[q].from /\ (q # k => mid[q] = runs[q])
    <3>1. PICK row \in RunRow : row = runs[k]
      BY <2>1, <2>5
    <3>2. PICK new : new = [row EXCEPT !.status = "success"]
      OBVIOUS
    <3>3. new \in RunRow /\ new.source = row.source /\ new.now = row.now /\ new.from = row.from
      BY <3>2 DEF RunRow
    <3>4. mid = [runs EXCEPT ![k] = new]
      BY <2>3, <3>1, <3>2
    <3> QED
      BY <2>1, <2>5, <3>1, <3>3, <3>4
  <2>7. /\ runs' \in [1 .. Len(runs) -> RunRow]
        /\ \A q \in DOMAIN runs : /\ runs'[q].source = mid[q].source /\ runs'[q].now = mid[q].now
                                 /\ runs'[q].from = mid[q].from /\ (q # k => runs'[q] = mid[q])
        /\ runs'[k].clean = clean
    <3>1. PICK row \in RunRow : row = mid[k]
      BY <2>1, <2>5, <2>6
    <3>2. PICK new : new = [row EXCEPT !.clean = clean]
      OBVIOUS
    <3>3. /\ new \in RunRow /\ new.clean = clean /\ new.source = row.source
          /\ new.now = row.now /\ new.from = row.from
      BY <2>1, <3>2 DEF RunRow
    <3>4. runs' = [mid EXCEPT ![k] = new]
      BY <2>4, <3>1, <3>2
    <3> QED
      BY <2>1, <2>5, <2>6, <3>1, <3>3, <3>4
  <2>8. runs' \in Seq(RunRow) /\ DOMAIN runs' = DOMAIN runs
    BY <2>5, <2>7
  <2>9. /\ runs'[i].source = runs[i].source /\ runs'[i].now = runs[i].now
        /\ runs'[i].from = runs[i].from
    BY <2>6, <2>7
  <2>10. CASE i = k
    BY <1>4, <2>1, <2>7, <2>8, <2>9, <2>10
  <2>11. CASE i # k
    <3>1. runs'[i] = runs[i]
      BY <2>6, <2>7, <2>11
    <3> QED
      BY <2>8, <2>9, <3>1
  <2> QED
    BY <2>10, <2>11
<1>5. CASE CloseFailed(w)
  <2>1. runs' = [runs EXCEPT ![job[w].run] = [runs[job[w].run] EXCEPT !.status = "failed"]]
    BY <1>5 DEF CloseFailed
  <2>2. [runs[job[w].run] EXCEPT !.status = "failed"] \in RunRow
    BY <1>2, <1>3 DEF RunRow
  <2>3. runs' \in Seq(RunRow) /\ DOMAIN runs' = DOMAIN runs
    BY <1>1, <1>2, <2>1, <2>2
  <2> QED
    BY <1>2, <1>3, <1>5, <2>1, <2>3 DEF RunRow
<1> QED
  BY <1>4, <1>5

\* A run keeps its source, its watermark and the start of its chain.
LEMMA RunsKept ==
  ASSUME FeedsInv, Next
  PROVE  /\ runs' \in Seq(RunRow)
         /\ \A i \in DOMAIN runs : /\ i \in DOMAIN runs' /\ runs'[i].source = runs[i].source
                                   /\ runs'[i].now = runs[i].now /\ runs'[i].from = runs[i].from
         /\ \A i \in DOMAIN runs' : i \in DOMAIN runs \/
              (runs'[i].now = clock /\ runs'[i].status = "running")
<1>1. runs \in Seq(RunRow)
  BY DEF FeedsInv, TypeOK
<1>2. CASE runs' = runs
  BY <1>1, <1>2
<1>3. ASSUME NEW w \in Workers, Open(w)
      PROVE  /\ runs' \in Seq(RunRow)
             /\ \A i \in DOMAIN runs : i \in DOMAIN runs' /\ runs'[i] = runs[i]
             /\ \A i \in DOMAIN runs' : i \in DOMAIN runs \/
                  (runs'[i].now = clock /\ runs'[i].status = "running")
  <2>1. PICK row \in RunRow : runs' = Append(runs, row) /\ row.status = "running" /\ row.now = clock
    BY <1>3, OpenAdds
  <2> QED
    BY <1>1, <2>1
<1>4. ASSUME NEW w \in Workers, CloseSuccess(w) \/ CloseFailed(w)
      PROVE  runs' \in Seq(RunRow) /\ DOMAIN runs' = DOMAIN runs
  <2>1. job[w].run \in DOMAIN runs
    BY <1>4 DEF FeedsInv, Fit, Busy, CloseSuccess, CloseFailed
  <2> QED
    BY <1>4, <2>1, CloseKeeps
<1>5. ASSUME NEW w \in Workers, CloseSuccess(w) \/ CloseFailed(w), NEW i \in DOMAIN runs
      PROVE  /\ runs'[i].source = runs[i].source
             /\ runs'[i].now = runs[i].now /\ runs'[i].from = runs[i].from
  BY <1>5, CloseKeeps
<1> QED
  BY <1>1, <1>2, <1>3, <1>4, <1>5, ChangesRuns DEF CloseStep

---------------------------------------------------------------------------
(* What the steps make of a job *)

Planned(plan) == [NoJob EXCEPT !.phase = "open", !.todo = plan]
Opened(j, run, now, slice, clean, phase) ==
  [j EXCEPT !.run = run, !.now = now, !.slice = slice, !.clean = clean, !.phase = phase]
Paged(j, fetched, index, listed, clean, phase) ==
  [j EXCEPT !.fetched = fetched, !.index = index, !.listed = listed, !.clean = clean,
            !.phase = phase]
Stored(j, slice, phase) == [j EXCEPT !.slice = slice, !.fetched = {}, !.phase = phase]
Listing(j, phase, listed) == [j EXCEPT !.phase = phase, !.listed = listed]

LEMMA PlannedIs ==
  ASSUME NEW plan \in Seq(Sources)
  PROVE  /\ Planned(plan) \in JobRow /\ Planned(plan).phase = "open"
         /\ Planned(plan).todo = plan /\ Planned(plan).fetched = {} /\ Planned(plan).index = 0
<1>1. 0 \in Times
  BY DEF Times
<1> QED
  BY <1>1 DEF Planned, NoJob, JobRow, JobPhases

LEMMA OpenedIs ==
  ASSUME NEW j \in JobRow, NEW run \in Nat, NEW now \in Times, NEW slice \in Nat,
         NEW clean \in BOOLEAN, NEW phase \in JobPhases
  PROVE  LET row == Opened(j, run, now, slice, clean, phase) IN
         /\ row \in JobRow /\ row.phase = phase /\ row.todo = j.todo /\ row.run = run
         /\ row.slice = slice /\ row.now = now /\ row.index = j.index
         /\ row.fetched = j.fetched /\ row.listed = j.listed /\ row.clean = clean
  BY DEF Opened, JobRow

LEMMA PagedIs ==
  ASSUME NEW j \in JobRow, NEW fetched \in SUBSET Entry, NEW index \in Nat,
         NEW listed \in SUBSET Cves, NEW clean \in BOOLEAN, NEW phase \in JobPhases
  PROVE  LET row == Paged(j, fetched, index, listed, clean, phase) IN
         /\ row \in JobRow /\ row.phase = phase /\ row.todo = j.todo /\ row.run = j.run
         /\ row.slice = j.slice /\ row.now = j.now /\ row.index = index
         /\ row.fetched = fetched /\ row.listed = listed /\ row.clean = clean
  BY DEF Paged, JobRow

LEMMA StoredIs ==
  ASSUME NEW j \in JobRow, NEW slice \in Nat, NEW phase \in JobPhases
  PROVE  LET row == Stored(j, slice, phase) IN
         /\ row \in JobRow /\ row.phase = phase /\ row.todo = j.todo /\ row.run = j.run
         /\ row.slice = slice /\ row.now = j.now /\ row.index = j.index
         /\ row.fetched = {} /\ row.listed = j.listed /\ row.clean = j.clean
  BY DEF Stored, JobRow

LEMMA ListingIs ==
  ASSUME NEW j \in JobRow, NEW phase \in JobPhases, NEW listed \in SUBSET Cves
  PROVE  LET row == Listing(j, phase, listed) IN
         /\ row \in JobRow /\ row.phase = phase /\ row.todo = j.todo /\ row.run = j.run
         /\ row.slice = j.slice /\ row.now = j.now /\ row.index = j.index
         /\ row.fetched = j.fetched /\ row.listed = listed /\ row.clean = j.clean
  BY DEF Listing, JobRow

\* Worker w's job j opens a run that starts at slice and goes on with phase.
Begins(w, j, slice, clean, phase) ==
  LET source == j.todo[1]  last == LatestCursor(source) IN
  /\ j = job[w] /\ j.phase = "open"
  /\ job'[w] = Opened(j, Len(runs) + 1, clock, slice, clean, phase)
  /\ phase = "fetch_kev" <=> source = "cisa_kev"
  /\ phase = "close" => clock <= slice
  /\ phase = "fetch" => slice < clock
  /\ IF last = 0 THEN slice <= clock /\ clean = TRUE
     ELSE last \in Successes(source) /\ slice = runs[last].now /\ clean = runs[last].clean

LEMMA OpenIs ==
  ASSUME FeedsInv, NEW w \in Workers, Open(w)
  PROVE  \E j \in JobRow, slice \in Nat, clean \in BOOLEAN, phase \in {"fetch_kev", "fetch", "close"} :
           Begins(w, j, slice, clean, phase)
<1>1. TypeOK /\ job[w] \in JobRow /\ w \in DOMAIN job /\ job[w].todo # << >>
  BY DEF FeedsInv, Fit, Open
<1>2. PICK source \in Sources : source = Head(job[w].todo) /\ source = job[w].todo[1]
  BY <1>1 DEF JobRow
<1>3. PICK last : last = LatestCursor(source)
  OBVIOUS
<1>4. \/ last = 0
      \/ /\ last \in DOMAIN runs /\ runs[last] \in RunRow /\ last # 0
         /\ last \in Successes(source)
  <2>1. runs \in Seq(RunRow)
    BY <1>1 DEF TypeOK
  <2> QED
    BY <1>3, <2>1, CursorIs
<1>5. PICK slice : slice = CASE last # 0 -> runs[last].now
                             [] last = 0 /\ clock > Lookback -> clock - Lookback
                             [] OTHER -> 0
  OBVIOUS
<1>6. slice \in Nat /\ clock \in Nat /\ (last = 0 => slice <= clock)
      /\ (last # 0 => slice = runs[last].now)
  BY <1>1, <1>4, <1>5 DEF TypeOK, RunRow, Times
<1>7. PICK clean : clean = (last # 0 => runs[last].clean)
  OBVIOUS
<1>8. clean \in BOOLEAN /\ IF last = 0 THEN clean = TRUE ELSE clean = runs[last].clean
  BY <1>4, <1>7 DEF RunRow
<1>9. PICK phase \in {"fetch_kev", "fetch", "close"} :
        phase = IF source = "cisa_kev" THEN "fetch_kev"
                ELSE IF slice < clock THEN "fetch" ELSE "close"
  OBVIOUS
<1>10. job'[w] = Opened(job[w], Len(runs) + 1, clock, slice, clean, phase)
  BY <1>1, <1>2, <1>3, <1>5, <1>7, <1>9 DEF Open, Opened, JobRow
<1>11. /\ phase = "fetch_kev" <=> source = "cisa_kev"
       /\ phase = "close" => clock <= slice
       /\ phase = "fetch" => slice < clock
  BY <1>6, <1>9
<1>12. Begins(w, job[w], slice, clean, phase)
  BY <1>2, <1>3, <1>4, <1>6, <1>8, <1>10, <1>11 DEF Open, Begins
<1> QED
  BY <1>1, <1>6, <1>8, <1>12

\* One page: worker w's job j asks for the window that lists L, and gets page.
Answer(w, j, L, page, last, index) ==
  /\ j \in JobRow /\ L \in SUBSET Cves /\ page \in SUBSET Cves /\ last \in BOOLEAN /\ index \in Nat
  /\ j = job[w] /\ j.phase = "fetch" /\ L = Listed(j.slice, SliceEnd(w))
  /\ page = Page(L, j.index)
  /\ last = (page = {} \/ j.index + Cardinality(page) >= Cardinality(L))
  /\ index = IF last THEN 0 ELSE j.index + Cardinality(page)
  /\ job'[w] = Paged(j, j.fetched \cup {Fetched(c) : c \in page}, index,
                     IF last THEN {} ELSE L,
                     j.clean /\ (j.index = 0 \/ L = j.listed),
                     IF last THEN "store" ELSE "fetch")

LEMMA PageStep ==
  ASSUME FeedsInv, NEW w \in Workers, FetchPage(w)
  PROVE  \E j \in JobRow, L \in SUBSET Cves, page \in SUBSET Cves, last \in BOOLEAN, index \in Nat :
           Answer(w, j, L, page, last, index)
<1>1. TypeOK /\ job[w] \in JobRow /\ w \in DOMAIN job
  BY DEF FeedsInv
<1>2. PICK j \in JobRow : j = job[w]
  BY <1>1
<1>3. PICK L \in SUBSET Cves : L = Listed(j.slice, SliceEnd(w))
  BY DEF Listed
<1>4. PICK page \in SUBSET Cves : page = Page(L, j.index)
  BY DEF Page
<1>5. Cardinality(page) \in Nat /\ j.index \in Nat
  BY <1>4, PageIs DEF JobRow
<1>6. PICK last \in BOOLEAN : last = (page = {} \/ j.index + Cardinality(page) >= Cardinality(L))
  OBVIOUS
<1>7. job' = [job EXCEPT ![w] =
        [j EXCEPT !.fetched = j.fetched \cup {Fetched(c) : c \in page},
                  !.index = IF last THEN 0 ELSE j.index + Cardinality(page),
                  !.listed = IF last THEN {} ELSE L,
                  !.clean = j.clean /\ (j.index = 0 \/ L = j.listed),
                  !.phase = IF last THEN "store" ELSE "fetch"]]
  BY <1>2, <1>3, <1>4, <1>6 DEF FetchPage, JobRow
<1>8. PICK index \in Nat : index = IF last THEN 0 ELSE j.index + Cardinality(page)
  BY <1>5
<1>9. job'[w] = Paged(j, j.fetched \cup {Fetched(c) : c \in page}, index,
                      IF last THEN {} ELSE L,
                      j.clean /\ (j.index = 0 \/ L = j.listed),
                      IF last THEN "store" ELSE "fetch")
  BY <1>1, <1>7, <1>8 DEF Paged
<1>10. j.phase = "fetch"
  BY <1>2 DEF FetchPage
<1>11. Answer(w, j, L, page, last, index)
  BY <1>2, <1>3, <1>4, <1>6, <1>8, <1>9, <1>10 DEF Answer
<1> QED
  BY <1>11

LEMMA ListedIs ==
  ASSUME NEW from, NEW to
  PROVE  Listed(from, to) \in SUBSET Cves /\ \A c \in Listed(from, to) : nvd[c].time # 0
  BY DEF Listed

LEMMA SliceEndIs ==
  ASSUME FeedsInv, NEW w \in Workers, NEW j \in JobRow, j = job[w]
  PROVE  /\ SliceEnd(w) \in Nat /\ SliceEnd(w) <= j.now /\ SliceEnd(w) = AfterSlice(w)
         /\ (j.slice < j.now => j.slice < SliceEnd(w))
  BY DEF SliceEnd, AfterSlice, Smaller, JobRow, Times

---------------------------------------------------------------------------
(* FeedsInv is inductive *)

LEMMA Clocks == ASSUME FeedsInv, Next PROVE clock' \in 1 .. MaxTime /\ clock <= clock'
<1>1. clock \in 1 .. MaxTime
  BY DEF FeedsInv, TypeOK
<1>2. clock' = clock \/ Tick
  BY DEF Next, Ingest, Revise, List, Start, Open, FetchPage, StoreWindow, FetchKev,
     StoreKev, CloseSuccess, CloseFailed, Crash, Database, World
<1>3. CASE clock' = clock
  BY <1>1, <1>3
<1>4. CASE Tick
  <2>1. MaxTime \in Nat /\ clock < MaxTime /\ clock' = clock + 1
    BY <1>4 DEF Tick
  <2> QED
    BY <1>1, <2>1
<1> QED
  BY <1>2, <1>3, <1>4

\* A job that fits keeps fitting.
LEMMA FitStays ==
  ASSUME FeedsInv, Next, NEW w \in Workers, NEW j \in JobRow, Fit(w, j)
  PROVE  Fit(w, j)'
<1>1. j.now \in Nat /\ clock \in Nat /\ clock' \in Nat /\ clock <= clock'
  <2>1. j.now \in Nat
    BY DEF JobRow, Times
  <2>2. clock \in 1 .. MaxTime
    BY DEF FeedsInv, TypeOK
  <2>3. clock' \in 1 .. MaxTime /\ clock <= clock'
    BY Clocks
  <2> QED
    BY <2>1, <2>2, <2>3
<1>2. Busy(j) => /\ j.run \in DOMAIN runs' /\ runs'[j.run].source = j.todo[1]
                 /\ runs'[j.run].now = j.now /\ j.now <= clock'
  <2> SUFFICES ASSUME Busy(j) PROVE /\ j.run \in DOMAIN runs' /\ runs'[j.run].source = j.todo[1]
                                    /\ runs'[j.run].now = j.now /\ j.now <= clock'
    OBVIOUS
  <2>1. /\ j.run \in DOMAIN runs /\ runs[j.run].source = j.todo[1]
        /\ runs[j.run].now = j.now /\ j.now <= clock
    BY DEF Fit
  <2>2. /\ j.run \in DOMAIN runs' /\ runs'[j.run].source = runs[j.run].source
        /\ runs'[j.run].now = runs[j.run].now
    BY <2>1, RunsKept
  <2>3. j.now <= clock'
    BY <1>1, <2>1
  <2> QED
    BY <2>1, <2>2, <2>3
<1> QED
  BY <1>2 DEF Fit, Busy

\* One that fits and goes on with the same run fits as well.
LEMMA GoesOn ==
  ASSUME NEW w \in Workers, NEW j \in JobRow, NEW k \in JobRow, Fit(w, j), Busy(j),
         k.todo = j.todo, k.run = j.run, k.now = j.now,
         k.phase # "none" /\ (k.phase \in {"fetch", "store"} => j.phase \in {"fetch", "store"}),
         k.phase \in {"fetch_kev", "store_kev"} => j.phase \in {"fetch_kev", "store_kev"},
         \A e \in k.fetched : e.time # 0
  PROVE  Fit(w, k)
<1>1. /\ j.todo # << >> /\ (k.phase \in {"fetch", "store"} => k.todo[1] = "nvd")
      /\ k.phase \in {"fetch_kev", "store_kev"} => k.todo[1] = "cisa_kev"
  BY DEF Fit, Busy
<1> QED
  BY <1>1 DEF Fit, Busy

LEMMA AfterRunFits ==
  ASSUME NEW w \in Workers, NEW j \in JobRow, Fit(w, j), j.phase # "none"
  PROVE  AfterRun(j) \in JobRow /\ Fit(w, AfterRun(j))
<1>1. j.todo \in Seq(Sources) /\ j.todo # << >>
  BY DEF JobRow, Fit
<1>2. CASE Len(j.todo) > 1
  <2>1. AfterRun(j) = Planned(Tail(j.todo))
    BY <1>2 DEF AfterRun, Planned
  <2>2. Tail(j.todo) \in Seq(Sources) /\ Tail(j.todo) # << >>
    <3>1. Tail(j.todo) \in Seq(Sources) /\ Len(Tail(j.todo)) = Len(j.todo) - 1 /\ Len(j.todo) \in Nat
      BY <1>1, HeadTailProperties
    <3>2. PICK n \in Nat : n = Len(j.todo)
      BY <3>1
    <3>3. PICK m : m = Len(Tail(j.todo))
      OBVIOUS
    <3>4. m # 0
      <4>1. n > 1 /\ m = n - 1
        BY <1>2, <3>1, <3>2, <3>3
      <4> QED
        BY <4>1
    <3>5. Len(<< >>) = 0
      OBVIOUS
    <3> QED
      BY <3>1, <3>3, <3>4, <3>5
  <2>3. \A k \in DOMAIN Tail(j.todo) : k + 1 \in DOMAIN j.todo /\ Tail(j.todo)[k] = j.todo[k + 1]
    BY <1>1, <1>2
  <2>4. \A k \in DOMAIN Tail(j.todo) : Tail(j.todo)[k] = "nvd" => w \in NvdWorkers
    BY <2>3 DEF Fit
  <2>5. PICK rest \in Seq(Sources) : rest = Tail(j.todo)
    BY <2>2
  <2>6. Planned(rest) \in JobRow /\ Fit(w, Planned(rest))
    BY <2>2, <2>4, <2>5, PlannedIs DEF Fit, Busy
  <2> QED
    BY <2>1, <2>5, <2>6
<1>3. CASE ~(Len(j.todo) > 1)
  BY <1>3, NoJobIs DEF AfterRun
<1> QED
  BY <1>2, <1>3

\* What a step of worker w makes of its job.
LEMMA NewJob ==
  ASSUME FeedsInv, Next, NEW w \in Workers, Ingest(w)
  PROVE  \E k \in JobRow : job' = [job EXCEPT ![w] = k] /\ Fit(w, k)'
<1>1. job \in [Workers -> JobRow] /\ job[w] \in JobRow /\ Fit(w, job[w]) /\ w \in DOMAIN job
  BY DEF FeedsInv
<1>2. PICK j \in JobRow : j = job[w]
  BY <1>1
<1>3. Fit(w, j)
  BY <1>1, <1>2
<1>4. ASSUME NEW k \in JobRow, Fit(w, k), job' = [job EXCEPT ![w] = k]
      PROVE  \E m \in JobRow : job' = [job EXCEPT ![w] = m] /\ Fit(w, m)'
  BY <1>4, FitStays
<1>5. ASSUME NEW plan \in Plans[w], Start(w, plan)
      PROVE  \E k \in JobRow : job' = [job EXCEPT ![w] = k] /\ Fit(w, k)'
  <2>1. plan \in Seq(Sources) /\ plan # << >>
    BY <1>5 DEF Start
  <2>2. job' = [job EXCEPT ![w] = Planned(plan)]
    BY <1>5 DEF Start, Planned
  <2>3. \A k \in DOMAIN plan : plan[k] = "nvd" => w \in NvdWorkers
    BY DEF NvdWorkers
  <2>4. Planned(plan) \in JobRow /\ Fit(w, Planned(plan))
    BY <2>1, <2>3, PlannedIs DEF Fit, Busy
  <2> QED
    BY <1>4, <2>2, <2>4
<1>6. CASE Open(w)
  <2>1. PICK slice \in Nat, clean \in BOOLEAN, phase \in {"fetch_kev", "fetch", "close"} :
          /\ job'[w] = Opened(j, Len(runs) + 1, clock, slice, clean, phase)
          /\ phase = "fetch_kev" <=> j.todo[1] = "cisa_kev"
    <3>1. PICK i \in JobRow, slice \in Nat, clean \in BOOLEAN, phase \in {"fetch_kev", "fetch", "close"} :
            Begins(w, i, slice, clean, phase)
      BY <1>6, OpenIs
    <3>2. /\ job'[w] = Opened(j, Len(runs) + 1, clock, slice, clean, phase)
          /\ phase = "fetch_kev" <=> j.todo[1] = "cisa_kev"
      BY <1>2, <3>1 DEF Begins
    <3> QED
      BY <3>2
  <2>2. PICK row \in RunRow : /\ runs' = Append(runs, row) /\ row.source = j.todo[1]
                              /\ row.now = clock
    BY <1>2, <1>6, OpenAdds
  <2>3. runs \in Seq(RunRow) /\ Len(runs) + 1 \in Nat /\ clock \in Times /\ phase \in JobPhases
    BY DEF FeedsInv, TypeOK, Times, JobPhases
  <2>4. Len(runs) + 1 \in DOMAIN runs' /\ runs'[Len(runs) + 1] = row
    BY <2>2, <2>3
  <2>5. PICK k : k = Opened(j, Len(runs) + 1, clock, slice, clean, phase)
    OBVIOUS
  <2>6. /\ k \in JobRow /\ k.phase = phase /\ k.todo = j.todo /\ k.run = Len(runs) + 1
        /\ k.now = clock /\ k.fetched = j.fetched
    BY <2>3, <2>5, OpenedIs
  <2>7. job' = [job EXCEPT ![w] = k]
    <3>1. PICK new : job' = [job EXCEPT ![w] = new]
      BY <1>6 DEF Open
    <3> QED
      BY <1>1, <2>1, <2>5, <3>1
  <2>8. j.todo # << >> /\ j.todo[1] \in Sources /\ clock' = clock /\ clock \in Nat
    <3>1. j.todo # << >> /\ j.todo \in Seq(Sources)
      BY <1>2, <1>3, <1>6 DEF Open, Fit, JobRow
    <3> QED
      BY <1>6, <2>3, <3>1 DEF Open, World, Times
  <2>9. Fit(w, k)'
    <3>1. /\ k.phase \in {"fetch", "store"} => k.todo[1] = "nvd"
          /\ k.phase \in {"fetch_kev", "store_kev"} => k.todo[1] = "cisa_kev"
      BY <2>1, <2>6, <2>8 DEF Sources
    <3>2. /\ k.run \in DOMAIN runs' /\ runs'[k.run].source = k.todo[1]
          /\ runs'[k.run].now = k.now /\ k.now <= clock'
      BY <2>2, <2>4, <2>6, <2>8
    <3>3. \A q \in DOMAIN k.todo : k.todo[q] = "nvd" => w \in NvdWorkers
      BY <1>3, <2>6 DEF Fit
    <3>4. \A e \in k.fetched : e.time # 0
      BY <1>3, <2>6 DEF Fit
    <3> QED
      BY <2>6, <2>8, <3>1, <3>2, <3>3, <3>4 DEF Fit
  <2> QED
    BY <2>6, <2>7, <2>9
<1>7. CASE FetchPage(w)
  <2>1. PICK L \in SUBSET Cves, page \in SUBSET Cves, last \in BOOLEAN, index \in Nat :
          Answer(w, j, L, page, last, index)
    <3>1. PICK i \in JobRow, L \in SUBSET Cves, page \in SUBSET Cves, last \in BOOLEAN, index \in Nat :
            Answer(w, i, L, page, last, index)
      BY <1>7, PageStep
    <3>2. i = j
      BY <1>2, <3>1 DEF Answer
    <3> QED
      BY <3>1, <3>2
  <2>2. PICK fetched : fetched = j.fetched \cup {Fetched(c) : c \in page}
    OBVIOUS
  <2>3. fetched \in SUBSET Entry /\ \A e \in fetched : e.time # 0
    <3>1. page \subseteq L /\ \A c \in L : nvd[c].time # 0
      BY <2>1, ListedIs DEF Answer, Page
    <3>2. ASSUME NEW c \in page PROVE Fetched(c) \in Entry /\ Fetched(c).time # 0
      <4>1. nvd[c] \in [time : Times, cpes : BOOLEAN]
        BY DEF FeedsInv, TypeOK
      <4> QED
        BY <3>1, <4>1 DEF Fetched, Entry
    <3>3. j.fetched \in SUBSET Entry /\ \A e \in j.fetched : e.time # 0
      BY <1>3 DEF JobRow, Fit
    <3> QED
      BY <2>2, <3>2, <3>3
  <2>4. PICK L2 \in SUBSET Cves, clean \in BOOLEAN, phase \in {"fetch", "store"} :
          /\ L2 = IF last THEN {} ELSE L
          /\ clean = (j.clean /\ (j.index = 0 \/ L = j.listed))
          /\ phase = IF last THEN "store" ELSE "fetch"
    <3>1. j.clean \in BOOLEAN
      BY DEF JobRow
    <3> QED
      BY <3>1
  <2>5. PICK k : k = Paged(j, fetched, index, L2, clean, phase)
    OBVIOUS
  <2>6. /\ k \in JobRow /\ k.phase = phase /\ k.todo = j.todo /\ k.run = j.run /\ k.now = j.now
        /\ k.fetched = fetched
    BY <2>3, <2>5, PagedIs DEF JobPhases
  <2>7. job' = [job EXCEPT ![w] = k]
    <3>1. PICK new : job' = [job EXCEPT ![w] = new]
      BY <1>7 DEF FetchPage
    <3>2. job'[w] = k
      BY <2>1, <2>2, <2>4, <2>5 DEF Answer
    <3> QED
      BY <1>1, <3>1, <3>2
  <2>8. Fit(w, k)
    <3>1. Busy(j) /\ j.phase = "fetch"
      BY <2>1 DEF Answer, Busy
    <3> QED
      BY <1>3, <2>3, <2>6, <3>1, GoesOn
  <2> QED
    BY <1>4, <2>6, <2>7, <2>8
<1>8. CASE StoreWindow(w)
  <2>1. PICK phase \in {"fetch", "close"} : phase = IF AfterSlice(w) < j.now THEN "fetch" ELSE "close"
    OBVIOUS
  <2>2. job' = [job EXCEPT ![w] = Stored(j, AfterSlice(w), phase)]
    BY <1>2, <1>8, <2>1 DEF StoreWindow, Stored
  <2>3. PICK slice \in Nat : slice = AfterSlice(w)
    BY <1>2, SliceEndIs
  <2>4. PICK k : k = Stored(j, slice, phase)
    OBVIOUS
  <2>5. /\ k \in JobRow /\ k.phase = phase /\ k.todo = j.todo /\ k.run = j.run /\ k.now = j.now
        /\ k.fetched = {}
    <3>1. phase \in JobPhases
      BY DEF JobPhases
    <3> QED
      BY <2>4, <3>1, StoredIs
  <2>6. j.phase = "store" /\ Busy(j)
    BY <1>2, <1>8 DEF StoreWindow, Busy
  <2>7. Fit(w, k)
    BY <1>3, <2>5, <2>6, GoesOn
  <2> QED
    BY <1>4, <2>2, <2>3, <2>4, <2>5, <2>7
<1>9. CASE FetchKev(w) \/ StoreKev(w)
  <2>1. PICK phase \in {"store_kev", "close"}, listed \in SUBSET Cves :
          job' = [job EXCEPT ![w] = Listing(j, phase, listed)]
    <3>1. kev \in SUBSET Cves /\ {} \in SUBSET Cves
      BY DEF FeedsInv, TypeOK
    <3>2. CASE FetchKev(w)
      BY <1>2, <3>1, <3>2 DEF FetchKev, Listing
    <3>3. CASE StoreKev(w)
      BY <1>2, <3>1, <3>3 DEF StoreKev, Listing
    <3> QED
      BY <1>9, <3>2, <3>3
  <2>2. PICK k : k = Listing(j, phase, listed)
    OBVIOUS
  <2>3. /\ k \in JobRow /\ k.phase = phase /\ k.todo = j.todo /\ k.run = j.run /\ k.now = j.now
        /\ k.fetched = j.fetched
    BY <2>2, ListingIs DEF JobPhases
  <2>4. Busy(j) /\ j.phase \in {"fetch_kev", "store_kev"}
    BY <1>2, <1>9 DEF FetchKev, StoreKev, Busy
  <2>5. \A e \in k.fetched : e.time # 0
    BY <1>3, <2>3 DEF Fit
  <2>6. Fit(w, k)
    BY <1>3, <2>3, <2>4, <2>5, GoesOn
  <2> QED
    BY <1>4, <2>1, <2>2, <2>3, <2>6
<1>10. CASE CloseSuccess(w) \/ CloseFailed(w)
  <2>1. job' = [job EXCEPT ![w] = AfterRun(j)] /\ j.phase # "none"
    BY <1>2, <1>10 DEF CloseSuccess, CloseFailed
  <2> QED
    BY <1>3, <1>4, <2>1, AfterRunFits
<1>11. CASE Crash(w)
  BY <1>4, <1>11, NoJobIs DEF Crash
<1> QED
  BY <1>5, <1>6, <1>7, <1>8, <1>9, <1>10, <1>11 DEF Ingest

\* The jobs still fit after any step.
LEMMA JobsFit ==
  ASSUME FeedsInv, Next
  PROVE  /\ job' \in [Workers -> JobRow]
         /\ \A w \in Workers : \E k \in JobRow : k = job'[w] /\ Fit(w, k)'
<1>1. job \in [Workers -> JobRow]
  BY DEF FeedsInv
<1>2. ASSUME NEW w \in Workers, job'[w] = job[w]
      PROVE  \E k \in JobRow : k = job'[w] /\ Fit(w, k)'
  <2>1. PICK k \in JobRow : k = job[w]
    BY <1>1
  <2>2. Fit(w, k)
    BY <2>1 DEF FeedsInv
  <2> QED
    BY <1>2, <2>1, <2>2, FitStays
<1>3. CASE job' = job
  BY <1>1, <1>2, <1>3
<1>4. ASSUME NEW v \in Workers, Ingest(v)
      PROVE  /\ job' \in [Workers -> JobRow]
             /\ \A w \in Workers : \E k \in JobRow : k = job'[w] /\ Fit(w, k)'
  <2>1. PICK k \in JobRow : job' = [job EXCEPT ![v] = k] /\ Fit(v, k)'
    BY <1>4, NewJob
  <2>2. job' \in [Workers -> JobRow] /\ job'[v] = k
        /\ \A w \in Workers : w # v => job'[w] = job[w]
    BY <1>1, <2>1
  <2> QED
    BY <1>2, <2>1, <2>2
<1> QED
  BY <1>3, <1>4 DEF Next, Tick, Revise, List

\* What RowsMergeTheFeeds says of one row.
Merged(row) ==
  /\ "nvd" \in row.sources <=> row.time # 0
  /\ "cisa_kev" \in row.sources <=> row.kev
  /\ row.vendor = CASE row.cpes -> "nvd"
                     [] row.kev /\ ~row.cpes -> "cisa_kev"
                     [] OTHER -> "none"

LEMMA NvdRowIs ==
  ASSUME NEW row \in CveRow, NEW e \in Entry, e.time # 0, Merged(row)
  PROVE  NvdRow(row, e) \in CveRow /\ Merged(NvdRow(row, e)) /\ NvdRow(row, e).time = e.time
<1>1. PICK old \in BOOLEAN, named \in BOOLEAN, kevs \in BOOLEAN :
        old = row.cpes /\ named = e.cpes /\ kevs = row.kev
  BY DEF CveRow, Entry
<1>2. PICK new : new = NvdRow(row, e)
  OBVIOUS
<1>3. /\ new \in CveRow /\ new.sources = row.sources \cup {"nvd"} /\ new.time = e.time
      /\ new.kev = kevs /\ new.cpes = (old \/ named)
      /\ new.vendor = IF named THEN "nvd" ELSE row.vendor
  BY <1>1, <1>2 DEF NvdRow, CveRow, Entry, Sources
<1>4. ("nvd" \in new.sources <=> new.time # 0) /\ ("cisa_kev" \in new.sources <=> new.kev)
  BY <1>1, <1>3 DEF Merged
<1>5. new.vendor = CASE new.cpes -> "nvd"
                     [] new.kev /\ ~new.cpes -> "cisa_kev"
                     [] OTHER -> "none"
  BY <1>1, <1>3 DEF Merged
<1> QED
  BY <1>2, <1>3, <1>4, <1>5 DEF Merged

LEMMA KevRowIs ==
  ASSUME NEW row \in CveRow, Merged(row)
  PROVE  KevRow(row) \in CveRow /\ Merged(KevRow(row)) /\ KevRow(row).time = row.time
<1>1. PICK old \in BOOLEAN, kevs \in BOOLEAN : old = row.cpes /\ kevs = row.kev
  BY DEF CveRow
<1>2. PICK new : new = KevRow(row)
  OBVIOUS
<1>3. /\ new \in CveRow /\ new.sources = row.sources \cup {"cisa_kev"} /\ new.time = row.time
      /\ new.kev = TRUE /\ new.cpes = old
      /\ new.vendor = IF row.vendor = "none" THEN "cisa_kev" ELSE row.vendor
  BY <1>1, <1>2 DEF KevRow, CveRow, Sources
<1>4. ("nvd" \in new.sources <=> new.time # 0) /\ ("cisa_kev" \in new.sources <=> new.kev)
  BY <1>1, <1>3 DEF Merged
<1>5. new.vendor = CASE new.cpes -> "nvd"
                     [] new.kev /\ ~new.cpes -> "cisa_kev"
                     [] OTHER -> "none"
  BY <1>1, <1>3 DEF Merged
<1> QED
  BY <1>2, <1>3, <1>4, <1>5 DEF Merged

\* What a step makes of the rows: each is kept, or merged with what a feed says.
LEMMA RowsKept ==
  ASSUME FeedsInv, RowsMergeTheFeeds, Next
  PROVE  /\ cve' \in [Cves -> CveRow] /\ \A c \in Cves : Merged(cve'[c])
         /\ \A c \in Cves :
              \/ cve'[c].time = cve[c].time
              \/ \E w \in Workers : /\ StoreWindow(w)
                                    /\ \E e \in job[w].fetched : e.cve = c /\ cve'[c].time = e.time
<1>1. cve \in [Cves -> CveRow] /\ job \in [Workers -> JobRow] /\ \A c \in Cves : Merged(cve[c])
  BY DEF FeedsInv, TypeOK, RowsMergeTheFeeds, Merged
<1>2. CASE cve' = cve
  BY <1>1, <1>2
<1>3. ASSUME NEW w \in Workers, StoreWindow(w), NEW c \in Cves
      PROVE  /\ cve'[c] \in CveRow /\ Merged(cve'[c])
             /\ \/ cve'[c] = cve[c]
                \/ \E e \in job[w].fetched : e.cve = c /\ cve'[c].time = e.time
  <2>1. CASE \E e \in job[w].fetched : e.cve = c
    <3>1. PICK e : e = CHOOSE f \in job[w].fetched : f.cve = c
      OBVIOUS
    <3>2. e \in job[w].fetched /\ e.cve = c
      BY <2>1, <3>1
    <3>3. e \in Entry /\ e.time # 0
      BY <1>1, <3>2 DEF FeedsInv, Fit, JobRow
    <3>4. cve'[c] = NvdRow(cve[c], e)
      BY <1>3, <3>1, <3>2 DEF StoreWindow
    <3> QED
      BY <1>1, <3>2, <3>3, <3>4, NvdRowIs
  <2>2. CASE ~\E e \in job[w].fetched : e.cve = c
    <3>1. cve'[c] = cve[c]
      BY <1>3, <2>2 DEF StoreWindow
    <3> QED
      BY <1>1, <3>1
  <2> QED
    BY <2>1, <2>2
<1>4. ASSUME NEW w \in Workers, StoreKev(w), NEW c \in Cves
      PROVE  cve'[c] \in CveRow /\ Merged(cve'[c]) /\ cve'[c].time = cve[c].time
  <2>1. cve'[c] = cve[c] \/ cve'[c] = KevRow(cve[c])
    BY <1>4 DEF StoreKev
  <2> QED
    BY <1>1, <2>1, KevRowIs
<1>5. cve' = cve \/ \E w \in Workers : StoreWindow(w) \/ StoreKev(w)
  BY DEF Next, Ingest, Tick, Revise, List, Start, Open, FetchPage, FetchKev,
     CloseSuccess, CloseFailed, Crash, Database, World
<1>6. cve' = [c \in Cves |-> cve'[c]]
  BY <1>1, <1>5 DEF StoreWindow, StoreKev
<1> QED
  BY <1>2, <1>3, <1>4, <1>5, <1>6

\* What a window stores: a row that is fetched gets the time of what was fetched of it.
LEMMA StoresFetched ==
  ASSUME NEW w \in Workers, StoreWindow(w), FeedsInv, NEW c \in Cves,
         \E e \in job[w].fetched : e.cve = c
  PROVE  \E e \in job[w].fetched : e.cve = c /\ cve'[c].time = e.time
<1>1. PICK e : e = CHOOSE f \in job[w].fetched : f.cve = c
  OBVIOUS
<1>2. e \in job[w].fetched /\ e.cve = c
  BY <1>1
<1>3. cve'[c] = NvdRow(cve[c], e)
  BY <1>1, <1>2 DEF StoreWindow
<1>4. NvdRow(cve[c], e).time = e.time
  <2>1. PICK row \in CveRow : row = cve[c]
    BY DEF FeedsInv, TypeOK
  <2>2. NvdRow(row, e).time = e.time
    BY DEF NvdRow, CveRow
  <2> QED
    BY <2>1, <2>2
<1> QED
  BY <1>2, <1>3, <1>4

RowsInv == FeedsInv /\ RowsMergeTheFeeds

LEMMA RowsInvInit == Init => RowsInv
<1> SUFFICES ASSUME Init PROVE RowsInv
  OBVIOUS
<1>1. 0 \in Times /\ clock \in 1 .. MaxTime
  BY DEF Init, Times
<1>2. cve = [c \in Cves |-> NoCve] /\ job = [w \in Workers |-> NoJob] /\ runs = << >>
  BY DEF Init
<1>3. NoCve \in CveRow /\ Merged(NoCve)
  BY <1>1 DEF NoCve, CveRow, Merged
<1>4. TypeOK
  <2>1. nvd \in [Cves -> [time : Times, cpes : BOOLEAN]]
    BY <1>1 DEF Init
  <2>2. \A w \in Workers : job[w].fetched \subseteq Entry
    BY <1>2 DEF NoJob
  <2>3. << >> \in Seq(RunRow)
    OBVIOUS
  <2> QED
    BY <1>1, <1>2, <1>3, <2>1, <2>2, <2>3 DEF Init, TypeOK
<1>5. FeedsInv
  <2>1. DOMAIN << >> = {}
    OBVIOUS
  <2> QED
    BY <1>2, <1>4, <2>1, NoJobIs DEF FeedsInv
<1>6. RowsMergeTheFeeds
  BY <1>2, <1>3 DEF RowsMergeTheFeeds, Merged
<1> QED
  BY <1>5, <1>6 DEF RowsInv

LEMMA RowsInvKept == RowsInv /\ [Next]_vars => RowsInv'
<1> SUFFICES ASSUME RowsInv, [Next]_vars PROVE RowsInv'
  OBVIOUS
<1>1. CASE UNCHANGED vars
  BY <1>1 DEF vars, RowsInv, FeedsInv, TypeOK, RowsMergeTheFeeds, Fit
<1>2. CASE Next
  <2>1. FeedsInv /\ RowsMergeTheFeeds
    BY DEF RowsInv
  <2>2. TypeOK
    BY <2>1 DEF FeedsInv
  <2>3. cve' \in [Cves -> CveRow] /\ \A c \in Cves : Merged(cve'[c])
    BY <1>2, <2>1, RowsKept
  <2>4. runs' \in Seq(RunRow) /\ \A i \in DOMAIN runs' : runs'[i].now <= clock'
    <3>1. clock \in Nat /\ clock' \in Nat /\ clock <= clock'
      BY <1>2, <2>1, <2>2, Clocks DEF TypeOK
    <3>2. \A i \in DOMAIN runs' : runs'[i] \in RunRow
      BY <1>2, <2>1, RunsKept
    <3>3. ASSUME NEW i \in DOMAIN runs' PROVE runs'[i].now \in Nat /\ runs'[i].now <= clock
      <4>1. runs'[i].now \in Nat
        BY <3>2 DEF RunRow, Times
      <4>2. (i \in DOMAIN runs /\ runs'[i].now = runs[i].now) \/ runs'[i].now = clock
        BY <1>2, <2>1, RunsKept
      <4>3. \A k \in DOMAIN runs : runs[k].now <= clock
        BY <2>1 DEF FeedsInv
      <4> QED
        BY <3>1, <4>1, <4>2, <4>3
    <3> QED
      BY <1>2, <2>1, <3>1, <3>3, RunsKept
  <2>5. /\ job' \in [Workers -> JobRow]
        /\ \A w \in Workers : \E k \in JobRow : k = job'[w] /\ Fit(w, k)'
    BY <1>2, <2>1, JobsFit
  <2>6. nvd' \in [Cves -> [time : Times, cpes : BOOLEAN]] /\ kev' \subseteq Cves
    <3>1. CASE nvd' = nvd /\ kev' = kev
      BY <2>2, <3>1 DEF TypeOK
    <3>2. ASSUME NEW c \in Cves, Revise(c) \/ List(c)
          PROVE  nvd' \in [Cves -> [time : Times, cpes : BOOLEAN]] /\ kev' \subseteq Cves
      BY <2>2, <3>2 DEF Revise, List, TypeOK, Times
    <3> QED
      BY <1>2, <3>1, <3>2 DEF Next, Ingest, Tick, Start, Open, FetchPage, StoreWindow, FetchKev,
         StoreKev, CloseSuccess, CloseFailed, Crash, Database, World
  <2>7. TypeOK'
    BY <1>2, <2>1, <2>3, <2>4, <2>5, <2>6, Clocks DEF TypeOK, JobRow
  <2>8. ASSUME NEW w \in Workers PROVE Fit(w, job[w])'
    <3>1. PICK k \in JobRow : k = job'[w] /\ Fit(w, k)'
      BY <2>5
    <3> QED
      BY <3>1 DEF Fit, Busy
  <2> QED
    BY <2>3, <2>4, <2>5, <2>7, <2>8 DEF RowsInv, FeedsInv, RowsMergeTheFeeds, Merged
<1> QED
  BY <1>1, <1>2

\* Whatever runs overlap, fail or are cut short, every job fits its run's row and every
\* row of cve_events merges what the feeds wrote (runner.py, nvd.py, cisa_kev.py).
THEOREM RowsInvariant == Spec => []RowsInv
  BY RowsInvInit, RowsInvKept, PTL DEF Spec

\* Every table has its columns' types, whatever runs overlap or are cut short.
THEOREM Typed == Spec => []TypeOK
<1>1. RowsInv => TypeOK
  BY DEF RowsInv, FeedsInv
<1> QED
  BY <1>1, RowsInvariant, PTL

\* A row of cve_events tells which feeds it is from, in whatever order they wrote it,
\* and CISA's vendor never displaces one that NVD's CPEs named.
THEOREM RowsMerge == Spec => []RowsMergeTheFeeds
<1>1. RowsInv => RowsMergeTheFeeds
  BY DEF RowsInv
<1> QED
  BY <1>1, RowsInvariant, PTL

---------------------------------------------------------------------------
(* The watermark, when no two workers run NVD's adapter *)

OneNvdWorker == \A v, w \in NvdWorkers : v = w

Covered(from, to) == \A c \in Listed(from, to) : cve[c].time = nvd[c].time
Has(j, c) == \E e \in j.fetched : e.cve = c
End(j) == Smaller(j.slice + MaxWindow, j.now)
Seen(j) == j.phase \in {"fetch", "store"} \/ (j.phase = "close" /\ j.todo[1] = "nvd")

\* What a clean run has covered before its slice, and of its slice.
InRun(j) ==
  /\ j.slice <= j.now
  /\ j.phase \in {"fetch", "store"} => j.slice < j.now
  /\ j.phase = "close" => j.now <= j.slice
  /\ j.clean => Covered(runs[j.run].from, j.slice)
  /\ \A i \in Successes("nvd") : runs[i].now <= j.now
  /\ \A e \in j.fetched : e.time < j.now /\ (nvd[e.cve].time = e.time \/ j.now <= nvd[e.cve].time)
  /\ j.phase = "fetch" /\ j.clean => \A c \in j.listed : At(j.listed, c) < j.index => Has(j, c)
  /\ j.phase = "store" /\ j.clean => \A c \in Listed(j.slice, End(j)) : Has(j, c)

NvdOK(j) ==
  /\ j.phase \in {"open", "store"} => j.index = 0
  /\ j.phase = "open" => j.fetched = {}
  /\ Seen(j) => InRun(j)

WatermarkInv == RowsInv /\ WatermarkCovers /\ \A w \in Workers : NvdOK(job[w])

\* Only a worker that may run NVD's adapter has it in hand.
LEMMA SeenByNvdWorker ==
  ASSUME NEW w \in Workers, NEW j \in JobRow, Fit(w, j), Seen(j)
  PROVE  w \in NvdWorkers /\ Busy(j) /\ j.todo[1] = "nvd"
<1>1. j.todo \in Seq(Sources) /\ j.todo # << >> /\ j.todo[1] = "nvd" /\ Busy(j)
  BY DEF Fit, Seen, Busy, JobRow
<1>2. 1 \in DOMAIN j.todo
  BY <1>1
<1> QED
  BY <1>1, <1>2 DEF Fit

\* A past window loses entries and gains none, and those it keeps do not change.
LEMMA ListedShrinks ==
  ASSUME FeedsInv, Next, NEW from \in Nat, NEW to \in Nat, to <= clock, NEW c \in Cves,
         c \in Listed(from, to)'
  PROVE  c \in Listed(from, to) /\ nvd'[c].time = nvd[c].time
<1>1. clock \in Nat /\ nvd \in [Cves -> [time : Times, cpes : BOOLEAN]]
  BY DEF FeedsInv, TypeOK
<1>2. nvd'[c].time < to /\ from <= nvd'[c].time /\ nvd'[c].time # 0
  BY DEF Listed
<1>3. nvd'[c] = nvd[c]
  <2>1. CASE nvd' = nvd
    BY <2>1
  <2>2. ASSUME NEW d \in Cves, Revise(d) PROVE nvd'[c] = nvd[c]
    <3>1. PICK cpes \in BOOLEAN : nvd' = [nvd EXCEPT ![d] = [time |-> clock, cpes |-> cpes]]
      BY <2>2 DEF Revise
    <3>2. CASE c = d
      <4>1. nvd'[c].time = clock
        BY <1>1, <3>1, <3>2
      <4> QED
        BY <1>1, <1>2, <4>1
    <3>3. CASE c # d
      BY <1>1, <3>1, <3>3
    <3> QED
      BY <3>2, <3>3
  <2> QED
    BY <2>1, <2>2 DEF Next, Ingest, Tick, List, Start, Open, FetchPage, StoreWindow, FetchKev,
         StoreKev, CloseSuccess, CloseFailed, Crash, Database, World
<1> QED
  BY <1>2, <1>3 DEF Listed

\* What NVD says of an entry stays, or becomes as late as the clock.
LEMMA NvdAges ==
  ASSUME FeedsInv, Next, NEW c \in Cves
  PROVE  nvd'[c].time = nvd[c].time \/ nvd'[c].time = clock
<1>1. nvd \in [Cves -> [time : Times, cpes : BOOLEAN]]
  BY DEF FeedsInv, TypeOK
<1>2. ASSUME NEW d \in Cves, Revise(d) PROVE nvd'[c].time = nvd[c].time \/ nvd'[c].time = clock
  <2>1. PICK cpes \in BOOLEAN : nvd' = [nvd EXCEPT ![d] = [time |-> clock, cpes |-> cpes]]
    BY <1>2 DEF Revise
  <2> QED
    BY <1>1, <2>1
<1> QED
  BY <1>2 DEF Next, Ingest, Tick, List, Start, Open, FetchPage, StoreWindow, FetchKev,
       StoreKev, CloseSuccess, CloseFailed, Crash, Database, World

\* What was covered stays covered: a store writes what NVD says, or said at a time
\* it no longer lists the entry at.
LEMMA CoveredStays ==
  ASSUME WatermarkInv, Next, NEW from \in Nat, NEW to \in Nat, to <= clock, Covered(from, to),
         \A w \in Workers : StoreWindow(w) => to <= job[w].now
  PROVE  Covered(from, to)'
<1>1. FeedsInv /\ RowsMergeTheFeeds /\ \A w \in Workers : NvdOK(job[w])
  BY DEF WatermarkInv, RowsInv
<1> SUFFICES ASSUME NEW c \in Cves, c \in Listed(from, to)' PROVE cve'[c].time = nvd'[c].time
  <2>1. \A c \in Listed(from, to)' : c \in Cves
    BY DEF Listed
  <2> QED
    BY <2>1 DEF Covered
<1>2. c \in Listed(from, to) /\ nvd'[c].time = nvd[c].time
  BY <1>1, ListedShrinks
<1>3. cve[c].time = nvd[c].time /\ nvd[c].time < to /\ nvd[c].time \in Nat
  BY <1>1, <1>2 DEF Covered, Listed, FeedsInv, TypeOK, Times
<1>4. CASE cve'[c].time = cve[c].time
  BY <1>2, <1>3, <1>4
<1>5. ASSUME NEW w \in Workers, StoreWindow(w),
             NEW e \in job[w].fetched, e.cve = c, cve'[c].time = e.time
      PROVE  cve'[c].time = nvd'[c].time
  <2>1. PICK j \in JobRow : j = job[w]
    BY <1>1 DEF FeedsInv
  <2>2. nvd[c].time = e.time \/ j.now <= nvd[c].time
    <3>1. InRun(j)
      BY <1>1, <1>5, <2>1 DEF NvdOK, Seen, StoreWindow
    <3> QED
      BY <1>5, <2>1, <3>1 DEF InRun
  <2>3. j.now \in Nat /\ to <= j.now
    BY <1>5, <2>1 DEF JobRow, Times
  <2> QED
    BY <1>2, <1>3, <1>5, <2>2, <2>3
<1> QED
  BY <1>1, <1>4, <1>5, RowsKept

\* A successful NVD run was one before, or has just been closed by its worker.
LEMMA NewSuccess ==
  ASSUME FeedsInv, Next, NEW i \in Successes("nvd")'
  PROVE  \/ /\ i \in Successes("nvd") /\ runs'[i].now = runs[i].now
            /\ runs'[i].from = runs[i].from /\ runs'[i].clean = runs[i].clean
         \/ \E w \in Workers : /\ CloseSuccess(w) /\ Seen(job[w]) /\ i = job[w].run
                               /\ runs'[i].now = job[w].now /\ runs'[i].from = runs[i].from
                               /\ runs'[i].clean = job[w].clean
<1>1. i \in DOMAIN runs' /\ runs'[i].source = "nvd" /\ runs'[i].status = "success"
  BY DEF Successes
<1>2. /\ i \in DOMAIN runs /\ runs'[i].source = runs[i].source
      /\ runs'[i].now = runs[i].now /\ runs'[i].from = runs[i].from
  <2>1. i \in DOMAIN runs
    BY <1>1, RunsKept
  <2> QED
    BY <2>1, RunsKept
<1>3. CASE runs' = runs
  BY <1>1, <1>2, <1>3 DEF Successes
<1>4. ASSUME NEW w \in Workers, Open(w) PROVE runs'[i] = runs[i]
  <2>1. PICK row \in RunRow : runs' = Append(runs, row)
    BY <1>4, OpenAdds
  <2>2. runs \in Seq(RunRow)
    BY DEF FeedsInv, TypeOK
  <2> QED
    BY <1>2, <2>1, <2>2
<1>5. ASSUME NEW w \in Workers, CloseSuccess(w) \/ CloseFailed(w)
      PROVE  \/ runs'[i].status = runs[i].status /\ runs'[i].clean = runs[i].clean
             \/ /\ CloseSuccess(w) /\ Seen(job[w]) /\ i = job[w].run
                /\ runs'[i].now = job[w].now /\ runs'[i].clean = job[w].clean
  <2>1. CASE runs'[i].status = runs[i].status /\ runs'[i].clean = runs[i].clean
    BY <2>1
  <2>2. CASE CloseSuccess(w) /\ i = job[w].run /\ runs'[i].clean = job[w].clean
    <3>1. job[w].phase = "close" /\ Fit(w, job[w])
      BY <2>2 DEF CloseSuccess, FeedsInv
    <3>2. runs[i].source = job[w].todo[1] /\ runs[i].now = job[w].now
      BY <2>2, <3>1 DEF Fit, Busy
    <3> QED
      BY <1>1, <1>2, <2>2, <3>1, <3>2 DEF Seen
  <2> QED
    BY <1>1, <1>2, <1>5, <2>1, <2>2, CloseKeeps
<1> QED
  BY <1>1, <1>2, <1>3, <1>4, <1>5, ChangesRuns DEF CloseStep, Successes

LEMMA EndIs ==
  ASSUME NEW j \in JobRow
  PROVE  End(j) \in Nat /\ End(j) <= j.now /\ j.slice \in Nat /\ j.now \in Nat
<1>1. j.slice \in Nat /\ j.now \in Nat /\ j.slice + MaxWindow \in Nat
  BY DEF JobRow, Times
<1> QED
  BY <1>1 DEF End, Smaller

\* What holds of a run goes on holding, whatever else happens.
LEMMA RunStays ==
  ASSUME WatermarkInv, Next, OneNvdWorker, NEW w \in Workers, NEW j \in JobRow,
         Fit(w, j), NvdOK(j), Seen(j), Seen(job[w]), j.now = job[w].now
  PROVE  InRun(j)'
<1>1. FeedsInv /\ InRun(j) /\ w \in NvdWorkers /\ \A v \in Workers : NvdOK(job[v])
  BY SeenByNvdWorker DEF WatermarkInv, RowsInv, NvdOK
<1>2. /\ j.slice \in Nat /\ j.now \in Nat /\ j.slice <= j.now /\ clock \in Nat /\ j.now <= clock
      /\ End(j) \in Nat /\ End(j) <= j.now
  BY <1>1, EndIs, SeenByNvdWorker DEF Fit, InRun, FeedsInv, TypeOK
<1>3. ASSUME NEW v \in Workers, Seen(job[v]) PROVE v = w
  <2>1. job[v] \in JobRow /\ Fit(v, job[v])
    BY <1>1 DEF FeedsInv
  <2> QED
    BY <1>1, <1>3, <2>1, SeenByNvdWorker DEF OneNvdWorker
<1>4. j.clean => Covered(runs[j.run].from, j.slice)'
  <2>1. SUFFICES ASSUME j.clean PROVE Covered(runs[j.run].from, j.slice)'
    OBVIOUS
  <2>2. j.run \in DOMAIN runs /\ runs \in Seq(RunRow)
    BY <1>1, SeenByNvdWorker DEF Fit, FeedsInv, TypeOK
  <2>3. PICK from \in Nat : from = runs[j.run].from
    <3>1. PICK row \in RunRow : row = runs[j.run]
      BY <2>2
    <3> QED
      BY <3>1 DEF RunRow, Times
  <2>4. runs'[j.run].from = from
    BY <1>1, <2>2, <2>3, RunsKept
  <2>5. Covered(from, j.slice)
    BY <1>1, <2>1, <2>3 DEF InRun
  <2>6. \A v \in Workers : StoreWindow(v) => j.slice <= job[v].now
    BY <1>2, <1>3 DEF StoreWindow, Seen
  <2>7. Covered(from, j.slice)'
    BY <1>2, <2>5, <2>6, CoveredStays
  <2> QED
    BY <2>4, <2>7
<1>5. \A i \in Successes("nvd")' : runs'[i].now <= j.now
  BY <1>1, <1>2, <1>3, NewSuccess DEF InRun
<1>6. ASSUME NEW e \in j.fetched
      PROVE  e.time < j.now /\ (nvd'[e.cve].time = e.time \/ j.now <= nvd'[e.cve].time)
  <2>1. e.cve \in Cves
    BY DEF JobRow, Entry
  <2>2. nvd'[e.cve].time = nvd[e.cve].time \/ nvd'[e.cve].time = clock
    BY <1>1, <2>1, NvdAges
  <2> QED
    BY <1>1, <1>2, <2>2 DEF InRun
<1>7. ASSUME j.phase = "store", j.clean, NEW c \in Listed(j.slice, End(j))' PROVE Has(j, c)
  <2>1. c \in Cves
    BY DEF Listed
  <2>2. End(j) <= clock
    BY <1>2
  <2>3. c \in Listed(j.slice, End(j))
    BY <1>1, <1>2, <2>1, <2>2, ListedShrinks
  <2> QED
    BY <1>1, <1>7, <2>3 DEF InRun
<1> QED
  BY <1>1, <1>4, <1>5, <1>6, <1>7 DEF InRun, Has

\* A job that is the same after a step.
LEMMA NvdOKStays ==
  ASSUME WatermarkInv, Next, OneNvdWorker, NEW w \in Workers, NEW j \in JobRow,
         Fit(w, j), NvdOK(j), Seen(j) => Seen(job[w]) /\ j.now = job[w].now
  PROVE  NvdOK(j)'
<1>1. CASE Seen(j)
  <2>1. InRun(j)'
    BY <1>1, RunStays
  <2> QED
    BY <2>1 DEF NvdOK
<1>2. CASE ~Seen(j)
  BY <1>2 DEF NvdOK, Seen
<1> QED
  BY <1>1, <1>2

LEMMA IdleOK ==
  ASSUME NEW j, j.phase = "open" => j.index = 0 /\ j.fetched = {}, j.phase \in {"open", "none"}
  PROVE  NvdOK(j) /\ NvdOK(j)'
  BY DEF NvdOK, Seen

\* The window that is stored is covered from then on.
LEMMA StoreCovers ==
  ASSUME WatermarkInv, Next, NEW w \in Workers, StoreWindow(w), NEW j \in JobRow, j = job[w],
         j.clean, NEW from \in Nat, Covered(from, j.slice)
  PROVE  Covered(from, End(j))'
<1>1. FeedsInv /\ InRun(j) /\ nvd' = nvd /\ j.phase = "store"
  BY DEF WatermarkInv, RowsInv, NvdOK, Seen, StoreWindow, World
<1>2. /\ j.slice \in Nat /\ j.now \in Nat /\ j.slice <= j.now /\ clock \in Nat
      /\ End(j) \in Nat /\ End(j) <= j.now /\ j.now <= clock
  <2>1. Fit(w, j) /\ Busy(j)
    BY <1>1 DEF FeedsInv, Busy
  <2> QED
    BY <1>1, <2>1, EndIs DEF InRun, FeedsInv, TypeOK, Fit
<1>3. \A v \in Workers : StoreWindow(v) => v = w
  <2> SUFFICES ASSUME NEW v \in Workers, StoreWindow(v), v # w PROVE FALSE
    OBVIOUS
  <2>1. job' = [job EXCEPT ![v] = job'[v]] /\ job' = [job EXCEPT ![w] = job'[w]]
    BY DEF StoreWindow, FeedsInv
  <2>2. job'[w] = job[w]
    BY <1>1, <2>1 DEF FeedsInv
  <2>3. job'[w].phase \in {"fetch", "close"}
    BY <1>1 DEF StoreWindow, FeedsInv, JobRow
  <2> QED
    BY <1>1, <2>2, <2>3
<1>4. Covered(from, j.slice)'
  <2>1. \A v \in Workers : StoreWindow(v) => j.slice <= job[v].now
    BY <1>2, <1>3
  <2> QED
    BY <1>2, <2>1, CoveredStays
<1>5. ASSUME NEW c \in Listed(from, End(j))' PROVE cve'[c].time = nvd'[c].time
  <2>1. c \in Cves /\ from <= nvd[c].time /\ nvd[c].time < End(j) /\ nvd[c].time # 0
        /\ nvd[c].time \in Nat
    BY <1>1 DEF Listed, FeedsInv, TypeOK, Times
  <2>2. CASE nvd[c].time < j.slice
    <3>1. c \in Listed(from, j.slice)'
      BY <1>1, <2>1, <2>2 DEF Listed
    <3> QED
      BY <1>4, <3>1 DEF Covered
  <2>3. CASE j.slice <= nvd[c].time
    <3>1. c \in Listed(j.slice, End(j))
      BY <2>1, <2>3 DEF Listed
    <3>2. \E e \in job[w].fetched : e.cve = c
      BY <1>1, <3>1 DEF InRun, Has
    <3>3. PICK e \in job[w].fetched : e.cve = c /\ cve'[c].time = e.time
      BY <1>1, <2>1, <3>2, StoresFetched
    <3>4. nvd[c].time = e.time \/ j.now <= nvd[c].time
      BY <1>1, <3>3 DEF InRun
    <3> QED
      BY <1>1, <1>2, <2>1, <3>3, <3>4
  <2> QED
    BY <1>2, <2>1, <2>2, <2>3
<1> QED
  BY <1>5 DEF Covered

\* A page brings the fetched entries up to the position the next one begins at, if
\* the pages before it were of the same list.
LEMMA PageBrings ==
  ASSUME FeedsInv, NEW w \in Workers, NEW j, NEW L, NEW page, NEW last, NEW index,
         Answer(w, j, L, page, last, index), InRun(j), j.clean, j.index = 0 \/ L = j.listed,
         NEW c \in L, last \/ At(L, c) < index
  PROVE  Has(j, c) \/ c \in page
<1>0. L \in SUBSET Cves /\ page \in SUBSET Cves /\ last \in BOOLEAN /\ index \in Nat /\ j \in JobRow
  BY DEF Answer
<1>1. page = Page(L, j.index) /\ j.phase = "fetch" /\ j.index \in Nat /\ At(L, c) \in Nat
  BY <1>0, AtIs DEF Answer, JobRow
<1>2. At(L, c) < j.index + PageSize
  <2>1. CASE last
    <3>1. page = {} \/ j.index + Cardinality(page) >= Cardinality(L)
      BY <2>1 DEF Answer
    <3> QED
      BY <1>0, <1>1, <3>1, LastPage
  <2>2. CASE ~last
    <3>1. index = j.index + Cardinality(page) /\ At(L, c) < index
      BY <1>0, <2>2 DEF Answer
    <3>2. Cardinality(page) \in Nat /\ Cardinality(page) <= PageSize
      BY <1>0, <1>1, PageIs
    <3> QED
      BY <1>0, <1>1, <3>1, <3>2
  <2> QED
    BY <1>0, <2>1, <2>2
<1>3. CASE At(L, c) < j.index
  <2>1. L = j.listed
    BY <1>1, <1>3
  <2> QED
    BY <1>1, <1>3, <2>1 DEF InRun
<1>4. CASE j.index <= At(L, c)
  BY <1>0, <1>1, <1>2, <1>4, PageIs
<1> QED
  BY <1>1, <1>3, <1>4

LEMMA OpenOK ==
  ASSUME WatermarkInv, Next, NEW w \in Workers, Open(w)
  PROVE  \E k \in JobRow : k = job'[w] /\ NvdOK(k)'
<1>1. FeedsInv /\ WatermarkCovers /\ NvdOK(job[w]) /\ clock \in Times /\ runs \in Seq(RunRow)
  BY DEF WatermarkInv, RowsInv, FeedsInv, TypeOK, Times
<1>2. PICK j \in JobRow, slice \in Nat, clean \in BOOLEAN, phase \in {"fetch_kev", "fetch", "close"} :
        Begins(w, j, slice, clean, phase)
  BY <1>1, OpenIs
<1>3. PICK row \in RunRow :
        /\ runs' = Append(runs, row) /\ row.source = j.todo[1]
        /\ LET last == LatestCursor(row.source) IN
            IF last = 0 THEN row.clean = TRUE /\ row.from = job'[w].slice
            ELSE row.clean = runs[last].clean /\ row.from = runs[last].from
  BY <1>1, <1>2, OpenAdds DEF Begins
<1>4. PICK k : k = Opened(j, Len(runs) + 1, clock, slice, clean, phase)
  OBVIOUS
<1>5. /\ k \in JobRow /\ k.phase = phase /\ k.todo = j.todo /\ k.run = Len(runs) + 1
      /\ k.slice = slice /\ k.now = clock /\ k.index = 0 /\ k.fetched = {} /\ k.clean = clean
  <2>1. j.index = 0 /\ j.fetched = {}
    BY <1>1, <1>2 DEF Begins, NvdOK
  <2>2. PICK n \in Nat, now \in Times : n = Len(runs) + 1 /\ now = clock /\ phase \in JobPhases
    BY <1>1 DEF JobPhases
  <2>3. k = Opened(j, n, now, slice, clean, phase)
    BY <1>4, <2>2
  <2> QED
    BY <2>1, <2>2, <2>3, OpenedIs
<1>6. k = job'[w]
  BY <1>2, <1>4 DEF Begins
<1>7. runs'[k.run] = row /\ nvd' = nvd /\ cve' = cve
  <2>1. nvd' = nvd /\ cve' = cve
    BY DEF Open, World
  <2>2. Append(runs, row)[Len(runs) + 1] = row
    BY <1>1
  <2> QED
    BY <1>3, <1>5, <2>1, <2>2
<1>8. ASSUME Seen(k) PROVE InRun(k)'
  <2>1. j.todo[1] = "nvd"
    <3>1. j.todo[1] \in Sources
      BY <1>3 DEF RunRow
    <3> QED
      BY <1>2, <1>5, <1>8, <3>1 DEF Begins, Seen, Sources
  <2>2. PICK last : last = LatestCursor("nvd")
    OBVIOUS
  <2>3. /\ IF last = 0 THEN slice <= clock /\ clean = TRUE
           ELSE last \in Successes("nvd") /\ slice = runs[last].now /\ clean = runs[last].clean
        /\ phase = "close" => clock <= slice
        /\ phase = "fetch" => slice < clock
    BY <1>2, <2>1, <2>2 DEF Begins
  <2>4. slice <= clock
    BY <1>1, <2>3 DEF FeedsInv, Successes
  <2>5. clean => Covered(row.from, slice)
    <3>1. CASE last = 0
      <4>1. row.from = slice /\ slice \in Nat
        BY <1>3, <1>5, <1>6, <2>1, <2>2, <3>1
      <4>2. Listed(slice, slice) = {}
        <5> SUFFICES ASSUME NEW c \in Listed(slice, slice) PROVE FALSE
          OBVIOUS
        <5>1. slice <= nvd[c].time /\ nvd[c].time < slice /\ nvd[c].time \in Nat
          BY <1>1 DEF Listed, FeedsInv, TypeOK, Times
        <5> QED
          BY <5>1
      <4> QED
        BY <4>1, <4>2 DEF Covered
    <3>2. CASE last # 0
      <4>1. /\ last \in Successes("nvd") /\ slice = runs[last].now /\ clean = runs[last].clean
            /\ row.from = runs[last].from
        BY <1>3, <2>1, <2>2, <2>3, <3>2
      <4> QED
        BY <1>1, <4>1 DEF WatermarkCovers, Covered
    <3> QED
      BY <3>1, <3>2
  <2>6. Covered(row.from, slice) => Covered(row.from, slice)'
    BY <1>7 DEF Covered, Listed
  <2>7. \A i \in Successes("nvd")' : runs'[i].now <= clock
    <3>1. \A i \in DOMAIN runs : runs[i].now <= clock
      BY <1>1 DEF FeedsInv
    <3>2. clock <= clock
      BY <1>1 DEF Times
    <3>3. \A i \in DOMAIN runs' : runs'[i].now <= clock
      BY <1>1, <3>1, <3>2, RunsKept
    <3> QED
      BY <3>3 DEF Successes
  <2>8. \A c \in k.listed : ~(At(k.listed, c) < k.index)
    <3>1. k.listed \in SUBSET Cves
      BY <1>5 DEF JobRow
    <3>2. \A c \in k.listed : At(k.listed, c) \in Nat
      BY <3>1, AtIs
    <3> QED
      BY <1>5, <3>2
  <2> QED
    BY <1>5, <1>7, <2>3, <2>4, <2>5, <2>6, <2>7, <2>8 DEF InRun
<1>9. NvdOK(k)'
  BY <1>5, <1>8 DEF NvdOK, Seen
<1> QED
  BY <1>5, <1>6, <1>9

LEMMA PageOK ==
  ASSUME WatermarkInv, Next, OneNvdWorker, NEW w \in Workers, FetchPage(w)
  PROVE  \E k \in JobRow : k = job'[w] /\ NvdOK(k)'
<1>1. FeedsInv /\ NvdOK(job[w]) /\ job[w] \in JobRow /\ Fit(w, job[w])
  BY DEF WatermarkInv, RowsInv, FeedsInv
<1>2. PICK j \in JobRow, L \in SUBSET Cves, page \in SUBSET Cves, last \in BOOLEAN, index \in Nat :
        Answer(w, j, L, page, last, index)
  BY <1>1, PageStep
<1>3. j = job[w] /\ j.phase = "fetch" /\ L = Listed(j.slice, SliceEnd(w)) /\ SliceEnd(w) = End(j)
  BY <1>2 DEF Answer, SliceEnd, End
<1>4. PICK fetched : fetched = j.fetched \cup {Fetched(c) : c \in page}
  OBVIOUS
<1>5. page \subseteq L /\ \A c \in page : Fetched(c) \in Entry
  <2>1. \A c \in Cves : nvd[c] \in [time : Times, cpes : BOOLEAN]
    BY <1>1 DEF FeedsInv, TypeOK
  <2>2. \A c \in Cves : Fetched(c) \in Entry
    BY <2>1 DEF Fetched, Entry
  <2>3. page \subseteq L
    BY <1>2 DEF Answer, Page
  <2> QED
    BY <2>2, <2>3
<1>6. PICK L2 \in SUBSET Cves, clean \in BOOLEAN, phase \in {"fetch", "store"} :
        /\ L2 = IF last THEN {} ELSE L
        /\ clean = (j.clean /\ (j.index = 0 \/ L = j.listed))
        /\ phase = IF last THEN "store" ELSE "fetch"
  OBVIOUS
<1>7. PICK k : k = Paged(j, fetched, index, L2, clean, phase)
  OBVIOUS
<1>8. /\ k \in JobRow /\ k.phase = phase /\ k.todo = j.todo /\ k.run = j.run /\ k.now = j.now
      /\ k.slice = j.slice /\ k.fetched = fetched /\ k.index = index /\ k.listed = L2
      /\ k.clean = clean
  <2>1. fetched \in SUBSET Entry
    BY <1>4, <1>5 DEF JobRow
  <2> QED
    BY <1>7, <2>1, PagedIs DEF JobPhases
<1>9. k = job'[w]
  BY <1>2, <1>4, <1>6, <1>7 DEF Answer
<1>10. InRun(j) /\ Seen(j) /\ Busy(j) /\ End(j) \in Nat /\ End(j) <= j.now /\ j.now \in Nat
  BY <1>1, <1>3, EndIs DEF NvdOK, Seen, Busy
<1>11. ASSUME NEW e \in fetched
       PROVE  e.time # 0 /\ e.time < k.now /\ (nvd[e.cve].time = e.time \/ k.now <= nvd[e.cve].time)
  <2>1. CASE e \in j.fetched
    BY <1>1, <1>3, <1>8, <1>10, <2>1 DEF Fit, InRun
  <2>2. CASE e \in {Fetched(c) : c \in page}
    <3>1. PICK c \in page : e = Fetched(c)
      BY <2>2
    <3>2. c \in Cves /\ nvd[c].time # 0 /\ nvd[c].time < End(j) /\ nvd[c].time \in Nat
      BY <1>1, <1>3, <1>5 DEF Listed, FeedsInv, TypeOK, Times
    <3>3. e.cve = c /\ e.time = nvd[c].time
      BY <3>1 DEF Fetched
    <3> QED
      BY <1>8, <1>10, <3>2, <3>3
  <2> QED
    BY <1>4, <2>1, <2>2
<1>12. ASSUME clean, NEW c \in L, last \/ At(L, c) < index PROVE Has(k, c)
  <2>1. Has(j, c) \/ c \in page
    <3>1. j.clean /\ (j.index = 0 \/ L = j.listed)
      BY <1>6, <1>12
    <3>2. Answer(w, j, L, page, last, index) /\ InRun(j) /\ FeedsInv
      BY <1>1, <1>2, <1>10
    <3> QED
      BY <1>12, <3>1, <3>2, PageBrings
  <2>2. CASE Has(j, c)
    BY <1>4, <1>8, <2>2 DEF Has
  <2>3. CASE c \in page
    <3>1. Fetched(c) \in fetched /\ Fetched(c).cve = c
      BY <1>4, <2>3 DEF Fetched
    <3> QED
      BY <1>8, <3>1 DEF Has
  <2> QED
    BY <2>1, <2>2, <2>3
<1>13. InRun(k)
  <2>1. End(k) = End(j)
    BY <1>8 DEF End
  <2>2. clean => j.clean
    BY <1>6
  <2>3. k.phase = "fetch" /\ k.clean => \A c \in k.listed : At(k.listed, c) < k.index => Has(k, c)
    BY <1>6, <1>8, <1>12
  <2>4. k.phase = "store" /\ k.clean => \A c \in Listed(k.slice, End(k)) : Has(k, c)
    BY <1>3, <1>6, <1>8, <1>12, <2>1
  <2>5. \A e \in k.fetched : e.time < k.now /\ (nvd[e.cve].time = e.time \/ k.now <= nvd[e.cve].time)
    BY <1>8, <1>11
  <2>6. /\ k.slice <= k.now /\ k.slice < k.now
        /\ k.clean => Covered(runs[k.run].from, k.slice)
        /\ \A i \in Successes("nvd") : runs[i].now <= k.now
    BY <1>3, <1>8, <1>10, <2>2 DEF InRun
  <2> QED
    BY <1>8, <2>3, <2>4, <2>5, <2>6 DEF InRun
<1>14. NvdOK(k)
  <2>1. phase = "store" => index = 0
    BY <1>2, <1>6 DEF Answer
  <2> QED
    BY <1>8, <1>13, <2>1 DEF NvdOK
<1>15. Fit(w, k)
  BY <1>1, <1>3, <1>8, <1>10, <1>11, GoesOn
<1>16. NvdOK(k)'
  BY <1>3, <1>8, <1>10, <1>14, <1>15, NvdOKStays
<1> QED
  BY <1>8, <1>9, <1>16

LEMMA StoreOK ==
  ASSUME WatermarkInv, Next, OneNvdWorker, NEW w \in Workers, StoreWindow(w)
  PROVE  \E k \in JobRow : k = job'[w] /\ NvdOK(k)'
<1>1. FeedsInv /\ NvdOK(job[w]) /\ job \in [Workers -> JobRow]
  BY DEF WatermarkInv, RowsInv, FeedsInv
<1>2. PICK j \in JobRow : j = job[w]
  BY <1>1
<1>3. InRun(j) /\ j.phase = "store" /\ j.index = 0 /\ Fit(w, j) /\ Busy(j) /\ Seen(j)
  BY <1>1, <1>2 DEF StoreWindow, NvdOK, Seen, FeedsInv, Busy
<1>4. PICK slice \in Nat : slice = End(j) /\ slice = AfterSlice(w) /\ slice <= j.now /\ j.now \in Nat
  BY <1>2, EndIs DEF AfterSlice, SliceEnd, End
<1>5. PICK phase \in {"fetch", "close"} : phase = IF slice < j.now THEN "fetch" ELSE "close"
  OBVIOUS
<1>6. PICK k : k = Stored(j, slice, phase)
  OBVIOUS
<1>7. /\ k \in JobRow /\ k.phase = phase /\ k.todo = j.todo /\ k.run = j.run /\ k.now = j.now
      /\ k.slice = slice /\ k.fetched = {} /\ k.index = 0 /\ k.listed = j.listed /\ k.clean = j.clean
  <2>1. phase \in JobPhases
    BY DEF JobPhases
  <2> QED
    BY <1>3, <1>6, <2>1, StoredIs
<1>8. k = job'[w]
  BY <1>1, <1>2, <1>4, <1>5, <1>6 DEF StoreWindow, Stored
<1>9. nvd' = nvd /\ runs' = runs
  BY DEF StoreWindow, World
<1>10. k.clean => Covered(runs[k.run].from, k.slice)'
  <2> SUFFICES ASSUME j.clean PROVE Covered(runs[j.run].from, End(j))'
    BY <1>4, <1>7
  <2>1. PICK from \in Nat : from = runs[j.run].from
    <3>1. PICK row \in RunRow : row = runs[j.run]
      BY <1>1, <1>3 DEF Fit, FeedsInv, TypeOK
    <3> QED
      BY <3>1 DEF RunRow, Times
  <2>2. Covered(from, j.slice)
    BY <1>3, <2>1 DEF InRun
  <2>3. Covered(from, End(j))'
    BY <1>2, <2>2, StoreCovers
  <2>4. from = runs'[j.run].from
    BY <1>9, <2>1
  <2> QED
    BY <2>3, <2>4
<1>11. \A i \in Successes("nvd")' : runs'[i].now <= k.now
  BY <1>3, <1>7, <1>9 DEF InRun, Successes
<1>12. \A c \in k.listed : ~(At(k.listed, c) < k.index)
  <2>1. k.listed \in SUBSET Cves
    BY <1>7 DEF JobRow
  <2>2. \A c \in k.listed : At(k.listed, c) \in Nat
    BY <2>1, AtIs
  <2> QED
    BY <1>7, <2>2
<1>13. /\ k.slice <= k.now /\ (k.phase \in {"fetch", "store"} => k.slice < k.now)
       /\ (k.phase = "close" => k.now <= k.slice)
  BY <1>4, <1>5, <1>7
<1>14. InRun(k)'
  BY <1>7, <1>10, <1>11, <1>12, <1>13 DEF InRun
<1>15. NvdOK(k)'
  BY <1>7, <1>14 DEF NvdOK
<1> QED
  BY <1>7, <1>8, <1>15

\* What a step of worker w makes of what holds of its job.
LEMMA NewJobOK ==
  ASSUME WatermarkInv, Next, OneNvdWorker, NEW w \in Workers, Ingest(w)
  PROVE  \E k \in JobRow : k = job'[w] /\ NvdOK(k)'
<1>1. FeedsInv
  BY DEF WatermarkInv, RowsInv
<1>2. PICK k \in JobRow : job' = [job EXCEPT ![w] = k]
  BY <1>1, NewJob
<1>3. w \in DOMAIN job /\ job[w] \in JobRow /\ Fit(w, job[w]) /\ job'[w] = k
  BY <1>1, <1>2 DEF FeedsInv
<1>4. CASE Open(w)
  BY <1>4, OpenOK
<1>5. CASE FetchPage(w)
  BY <1>5, PageOK
<1>6. CASE StoreWindow(w)
  BY <1>6, StoreOK
<1>7. CASE FetchKev(w) \/ StoreKev(w)
  <2>1. k.phase \in {"store_kev", "close"} /\ k.todo = job[w].todo
    <3>1. PICK j \in JobRow : j = job[w]
      BY <1>3
    <3>2. PICK phase \in {"store_kev", "close"}, listed \in SUBSET Cves : k = Listing(j, phase, listed)
      <4>1. kev \in SUBSET Cves /\ {} \in SUBSET Cves
        BY <1>1 DEF FeedsInv, TypeOK
      <4>2. CASE FetchKev(w)
        BY <1>3, <3>1, <4>1, <4>2 DEF FetchKev, Listing
      <4>3. CASE StoreKev(w)
        BY <1>3, <3>1, <4>1, <4>3 DEF StoreKev, Listing
      <4> QED
        BY <1>7, <4>2, <4>3
    <3>3. phase \in JobPhases
      BY DEF JobPhases
    <3> QED
      BY <3>1, <3>2, <3>3, ListingIs
  <2>2. job[w].todo[1] = "cisa_kev"
    BY <1>3, <1>7 DEF FetchKev, StoreKev, Fit
  <2>3. NvdOK(k)'
    BY <2>1, <2>2 DEF NvdOK, Seen
  <2> QED
    BY <1>3, <2>3
<1>8. ASSUME \/ \E plan \in Plans[w] : Start(w, plan)
             \/ CloseSuccess(w) \/ CloseFailed(w) \/ Crash(w)
      PROVE  k = NoJob \/ \E plan \in Seq(Sources) : k = Planned(plan)
  <2>1. ASSUME NEW plan \in Plans[w], Start(w, plan) PROVE k = Planned(plan) /\ plan \in Seq(Sources)
    BY <1>3, <2>1 DEF Start, Planned
  <2>2. CASE CloseSuccess(w) \/ CloseFailed(w)
    <3>1. PICK j \in JobRow : j = job[w]
      BY <1>3
    <3>2. k = AfterRun(j) /\ j.todo \in Seq(Sources) /\ j.todo # << >>
      BY <1>3, <2>2, <3>1 DEF CloseSuccess, CloseFailed, Fit, JobRow
    <3> QED
      BY <3>2, HeadTailProperties DEF AfterRun, Planned
  <2>3. CASE Crash(w)
    BY <1>3, <2>3 DEF Crash
  <2> QED
    BY <1>8, <2>1, <2>2, <2>3
<1>9. ASSUME k = NoJob \/ \E plan \in Seq(Sources) : k = Planned(plan)
      PROVE  NvdOK(k)'
  <2>1. CASE k = NoJob
    <3>1. k.phase = "none"
      BY <2>1 DEF NoJob
    <3> QED
      BY <3>1, IdleOK
  <2>2. ASSUME NEW plan \in Seq(Sources), k = Planned(plan) PROVE NvdOK(k)'
    <3>1. k.phase = "open" /\ k.index = 0 /\ k.fetched = {}
      BY <2>2, PlannedIs
    <3> QED
      BY <3>1, IdleOK
  <2> QED
    BY <1>9, <2>1, <2>2
<1> QED
  BY <1>3, <1>4, <1>5, <1>6, <1>7, <1>8, <1>9 DEF Ingest

\* The watermark's promise after a step.
LEMMA WatermarkStep ==
  ASSUME WatermarkInv, Next, OneNvdWorker, NEW i \in Successes("nvd")', runs'[i].clean
  PROVE  Covered(runs[i].from, runs[i].now)'
<1>1. /\ FeedsInv /\ WatermarkCovers /\ runs \in Seq(RunRow) /\ clock \in Nat
      /\ \A w \in Workers : NvdOK(job[w]) /\ Fit(w, job[w]) /\ job[w] \in JobRow
  BY DEF WatermarkInv, RowsInv, FeedsInv, TypeOK
<1>2. CASE /\ i \in Successes("nvd") /\ runs'[i].now = runs[i].now
           /\ runs'[i].from = runs[i].from /\ runs'[i].clean = runs[i].clean
  <2>1. PICK row \in RunRow : row = runs[i]
    BY <1>1, <1>2 DEF Successes
  <2>2. PICK from \in Nat, to \in Nat : from = runs[i].from /\ to = runs[i].now
    BY <2>1 DEF RunRow, Times
  <2>3. Covered(from, to) /\ to <= clock
    BY <1>1, <1>2, <2>2 DEF WatermarkCovers, Covered, FeedsInv, Successes
  <2>4. ASSUME NEW w \in Workers, StoreWindow(w) PROVE to <= job[w].now
    <3>1. InRun(job[w])
      BY <1>1, <2>4 DEF StoreWindow, NvdOK, Seen
    <3> QED
      BY <1>2, <2>2, <3>1 DEF InRun
  <2>5. Covered(from, to)'
    BY <2>3, <2>4, CoveredStays
  <2>6. from = runs'[i].from /\ to = runs'[i].now
    BY <1>2, <2>2
  <2> QED
    BY <2>5, <2>6
<1>3. ASSUME NEW w \in Workers, CloseSuccess(w), Seen(job[w]), i = job[w].run,
             runs'[i].now = job[w].now, runs'[i].from = runs[i].from, runs'[i].clean = job[w].clean
      PROVE  Covered(runs[i].from, runs[i].now)'
  <2>1. PICK j \in JobRow : j = job[w]
    BY <1>1
  <2>2. InRun(j) /\ j.phase = "close" /\ j.clean
    BY <1>1, <1>3, <2>1 DEF NvdOK, CloseSuccess
  <2>3. Covered(runs[i].from, j.slice) /\ j.now <= j.slice /\ j.now \in Nat /\ j.slice \in Nat
    BY <1>3, <2>1, <2>2 DEF InRun, JobRow, Times
  <2>4. nvd' = nvd /\ cve' = cve
    BY <1>3 DEF CloseSuccess, World
  <2>5. ASSUME NEW c \in Listed(runs[i].from, runs[i].now)' PROVE cve'[c].time = nvd'[c].time
    <3>1. c \in Cves /\ nvd[c].time # 0 /\ runs[i].from <= nvd[c].time /\ nvd[c].time < j.now
      BY <1>3, <2>1, <2>4 DEF Listed
    <3>2. nvd[c].time \in Nat
      BY <1>1, <3>1 DEF FeedsInv, TypeOK, Times
    <3>3. c \in Listed(runs[i].from, j.slice)
      BY <2>3, <3>1, <3>2 DEF Listed
    <3> QED
      BY <2>3, <2>4, <3>3 DEF Covered
  <2> QED
    BY <2>5 DEF Covered
<1> QED
  BY <1>1, <1>2, <1>3, NewSuccess

LEMMA WatermarkInit == Init => WatermarkInv
<1> SUFFICES ASSUME Init PROVE WatermarkInv
  OBVIOUS
<1>1. WatermarkCovers
  <2>1. DOMAIN << >> = {} /\ runs = << >>
    BY DEF Init
  <2> QED
    BY <2>1 DEF WatermarkCovers, Successes
<1>2. ASSUME NEW w \in Workers PROVE NvdOK(job[w])
  <2>1. job[w].phase = "none"
    BY DEF Init, NoJob
  <2> QED
    BY <2>1 DEF NvdOK, Seen
<1> QED
  BY <1>1, <1>2, RowsInvInit DEF WatermarkInv

LEMMA WatermarkKept == OneNvdWorker /\ WatermarkInv /\ [Next]_vars => WatermarkInv'
<1> SUFFICES ASSUME OneNvdWorker, WatermarkInv, [Next]_vars PROVE WatermarkInv'
  OBVIOUS
<1>1. RowsInv'
  BY RowsInvKept DEF WatermarkInv
<1>2. CASE UNCHANGED vars
  <2>1. WatermarkCovers'
    BY <1>2 DEF vars, WatermarkInv, WatermarkCovers, Successes, Listed
  <2>2. ASSUME NEW w \in Workers PROVE NvdOK(job[w])'
    BY <1>2 DEF vars, WatermarkInv, NvdOK, InRun, Seen, Covered, Successes, Listed
  <2> QED
    BY <1>1, <2>1, <2>2 DEF WatermarkInv
<1>3. CASE Next
  <2>1. FeedsInv /\ job \in [Workers -> JobRow]
    BY DEF WatermarkInv, RowsInv, FeedsInv
  <2>2. WatermarkCovers'
    BY <1>3, WatermarkStep DEF WatermarkCovers, Covered
  <2>3. ASSUME NEW w \in Workers, job'[w] = job[w]
        PROVE  \E k \in JobRow : k = job'[w] /\ NvdOK(k)'
    <3>1. PICK k \in JobRow : k = job[w]
      BY <2>1
    <3>2. Fit(w, k) /\ NvdOK(k)
      BY <2>1, <3>1 DEF WatermarkInv, FeedsInv
    <3>3. NvdOK(k)'
      BY <1>3, <3>1, <3>2, NvdOKStays
    <3> QED
      BY <2>3, <3>1, <3>3
  <2>4. ASSUME NEW w \in Workers PROVE \E k \in JobRow : k = job'[w] /\ NvdOK(k)'
    <3>1. CASE Ingest(w)
      BY <1>3, <3>1, NewJobOK
    <3>2. ASSUME NEW v \in Workers, Ingest(v), v # w PROVE job'[w] = job[w]
      <4>1. PICK k \in JobRow : job' = [job EXCEPT ![v] = k]
        BY <1>3, <2>1, <3>2, NewJob
      <4> QED
        BY <2>1, <3>2, <4>1
    <3>3. CASE job' = job
      BY <2>3, <3>3
    <3> QED
      BY <1>3, <2>3, <3>1, <3>2, <3>3 DEF Next, Tick, Revise, List
  <2>5. ASSUME NEW w \in Workers PROVE NvdOK(job[w])'
    <3>1. PICK k \in JobRow : k = job'[w] /\ NvdOK(k)'
      BY <2>4
    <3> QED
      BY <3>1 DEF NvdOK, InRun, Seen, Has, End
  <2> QED
    BY <1>1, <2>2, <2>5 DEF WatermarkInv
<1> QED
  BY <1>2, <1>3

\* As long as no two workers run NVD's adapter, the watermark keeps its promise, for
\* every page size, window and number of failed or interrupted runs.
THEOREM WatermarkIsKept == ASSUME OneNvdWorker PROVE Spec => []WatermarkCovers
<1>1. WatermarkInv /\ [Next]_vars => WatermarkInv'
  BY WatermarkKept
<1>2. WatermarkInv => WatermarkCovers
  BY DEF WatermarkInv
<1> QED
  BY <1>1, <1>2, WatermarkInit, PTL DEF Spec

---------------------------------------------------------------------------
(* What the rows say, and that they do not go back *)

\* Only a run of NVD's adapter holds entries, until it stores them.
Held(j) == j.fetched # {} => j.phase \in {"fetch", "store"}

\* What a job holds is what the feeds said, which they may since have added to.
Honest(j) ==
  /\ Held(j)
  /\ \A e \in j.fetched : e.time <= nvd[e.cve].time /\ (e.cpes => nvd[e.cve].cpes)
  /\ j.phase = "store_kev" => j.listed \subseteq kev

HonestInv ==
  /\ RowsInv /\ NothingInvented
  /\ \A c \in Cves : nvd[c].time <= clock
  /\ \A w \in Workers : Honest(job[w])

\* The feeds only add to what they say.
LEMMA WorldGrows ==
  ASSUME FeedsInv, Next, \A c \in Cves : nvd[c].time <= clock
  PROVE  /\ kev \subseteq kev' /\ clock <= clock'
         /\ \A c \in Cves : /\ nvd[c].time <= nvd'[c].time /\ nvd'[c].time <= clock'
                            /\ nvd[c].cpes => nvd'[c].cpes
<1>1. /\ nvd \in [Cves -> [time : Times, cpes : BOOLEAN]] /\ clock \in Nat /\ clock' \in Nat
      /\ clock <= clock'
  BY Clocks DEF FeedsInv, TypeOK
<1>2. \A c \in Cves : nvd[c].time \in Nat
  BY <1>1 DEF Times
<1>3. CASE nvd' = nvd /\ kev' = kev
  BY <1>1, <1>2, <1>3
<1>4. ASSUME NEW d \in Cves, Revise(d)
      PROVE  /\ kev' = kev
             /\ \A c \in Cves : /\ nvd[c].time <= nvd'[c].time /\ nvd'[c].time <= clock'
                                /\ nvd[c].cpes => nvd'[c].cpes
  <2>1. PICK cpes \in BOOLEAN : /\ nvd[d].cpes => cpes
                                /\ nvd' = [nvd EXCEPT ![d] = [time |-> clock, cpes |-> cpes]]
    BY <1>4 DEF Revise
  <2>2. kev' = kev /\ clock' = clock
    BY <1>4 DEF Revise
  <2>3. nvd'[d] = [time |-> clock, cpes |-> cpes] /\ \A c \in Cves : c # d => nvd'[c] = nvd[c]
    BY <1>1, <2>1
  <2>4. /\ nvd[d].time <= nvd'[d].time /\ nvd'[d].time <= clock'
        /\ nvd[d].cpes => nvd'[d].cpes
    BY <1>1, <2>1, <2>2, <2>3
  <2>5. ASSUME NEW c \in Cves, c # d
        PROVE  /\ nvd[c].time <= nvd'[c].time /\ nvd'[c].time <= clock'
               /\ nvd[c].cpes => nvd'[c].cpes
    BY <1>1, <1>2, <2>2, <2>3, <2>5
  <2> QED
    BY <2>2, <2>4, <2>5
<1>5. ASSUME NEW d \in Cves, List(d) PROVE nvd' = nvd /\ clock' = clock /\ kev \subseteq kev'
  BY <1>5 DEF List
<1>6. \/ nvd' = nvd /\ kev' = kev
      \/ \E d \in Cves : Revise(d) \/ List(d)
  BY DEF Next, Ingest, Tick, Start, Open, FetchPage, StoreWindow, FetchKev,
     StoreKev, CloseSuccess, CloseFailed, Crash, Database, World
<1> QED
  BY <1>1, <1>2, <1>3, <1>4, <1>5, <1>6

\* A row is kept, or merged with an entry a window fetched or with CISA's list.
LEMMA RowIs ==
  ASSUME FeedsInv, Next, NEW c \in Cves
  PROVE  \/ cve'[c] = cve[c]
         \/ \E w \in Workers : /\ StoreWindow(w)
                               /\ \E e \in job[w].fetched : e.cve = c /\ cve'[c] = NvdRow(cve[c], e)
         \/ \E w \in Workers : /\ StoreKev(w) /\ c \in job[w].listed
                               /\ cve'[c] = KevRow(cve[c])
<1>1. ASSUME NEW w \in Workers, StoreWindow(w)
      PROVE  \/ cve'[c] = cve[c]
             \/ \E e \in job[w].fetched : e.cve = c /\ cve'[c] = NvdRow(cve[c], e)
  <2>1. CASE \E e \in job[w].fetched : e.cve = c
    <3>1. PICK e : e = CHOOSE f \in job[w].fetched : f.cve = c
      OBVIOUS
    <3>2. e \in job[w].fetched /\ e.cve = c
      BY <2>1, <3>1
    <3>3. cve'[c] = NvdRow(cve[c], e)
      BY <1>1, <3>1, <3>2 DEF StoreWindow
    <3> QED
      BY <3>2, <3>3
  <2>2. CASE ~\E e \in job[w].fetched : e.cve = c
    BY <1>1, <2>2 DEF StoreWindow
  <2> QED
    BY <2>1, <2>2
<1>2. ASSUME NEW w \in Workers, StoreKev(w)
      PROVE  cve'[c] = cve[c] \/ (c \in job[w].listed /\ cve'[c] = KevRow(cve[c]))
  BY <1>2 DEF StoreKev
<1>3. cve' = cve \/ \E w \in Workers : StoreWindow(w) \/ StoreKev(w)
  BY DEF Next, Ingest, Tick, Revise, List, Start, Open, FetchPage, FetchKev,
     CloseSuccess, CloseFailed, Crash, Database, World
<1> QED
  BY <1>1, <1>2, <1>3

LEMMA NvdRowHas ==
  ASSUME NEW row \in CveRow, NEW e \in Entry
  PROVE  /\ NvdRow(row, e).time = e.time /\ row.sources \subseteq NvdRow(row, e).sources
         /\ NvdRow(row, e).cpes = (row.cpes \/ e.cpes) /\ NvdRow(row, e).kev = row.kev
  BY DEF NvdRow, CveRow, Entry

LEMMA KevRowHas ==
  ASSUME NEW row \in CveRow
  PROVE  /\ KevRow(row).time = row.time /\ row.sources \subseteq KevRow(row).sources
         /\ KevRow(row).cpes = row.cpes /\ KevRow(row).kev = TRUE
  BY DEF KevRow, CveRow

\* What worker w's step makes of what it holds, job row j.
Keeps(w, j, k) ==
  /\ \A e \in k.fetched : e \in j.fetched \/ \E c \in Cves : e = Fetched(c)
  /\ k.phase = "store_kev" => k.listed = kev
  /\ Held(k)
  /\ StoreWindow(w) => k.fetched = {}

LEMMA NewHolds ==
  ASSUME FeedsInv, Next, NEW w \in Workers, Ingest(w), Held(job[w])
  PROVE  \E j \in JobRow, k \in JobRow : j = job[w] /\ k = job'[w] /\ Keeps(w, j, k)
<1>1. PICK j \in JobRow : j = job[w] /\ Fit(w, j) /\ Held(j) /\ w \in DOMAIN job
  BY DEF FeedsInv
<1>2. PICK k \in JobRow : job' = [job EXCEPT ![w] = k]
  BY NewJob
<1>3. k = job'[w]
  BY <1>1, <1>2
<1>4. CASE Open(w)
  <2>1. PICK i \in JobRow, slice \in Nat, clean \in BOOLEAN, phase \in {"fetch_kev", "fetch", "close"} :
          Begins(w, i, slice, clean, phase)
    BY <1>4, OpenIs
  <2>2. i = j /\ k = Opened(j, Len(runs) + 1, clock, slice, clean, phase) /\ j.phase = "open"
    BY <1>1, <1>3, <2>1 DEF Begins
  <2>3. PICK n \in Nat, now \in Times : n = Len(runs) + 1 /\ now = clock /\ phase \in JobPhases
    BY DEF FeedsInv, TypeOK, Times, JobPhases
  <2>4. k.phase = phase /\ k.fetched = j.fetched
    BY <2>2, <2>3, OpenedIs
  <2>5. j.fetched = {} /\ ~StoreWindow(w)
    BY <1>1, <2>2 DEF Held, StoreWindow
  <2> QED
    BY <1>1, <1>3, <2>4, <2>5 DEF Keeps, Held
<1>5. CASE FetchPage(w)
  <2>1. PICK i \in JobRow, L \in SUBSET Cves, page \in SUBSET Cves, last \in BOOLEAN, index \in Nat :
          Answer(w, i, L, page, last, index)
    BY <1>5, PageStep
  <2>2. PICK fetched : fetched = j.fetched \cup {Fetched(c) : c \in page}
    OBVIOUS
  <2>3. PICK phase \in {"fetch", "store"} : phase = IF last THEN "store" ELSE "fetch"
    OBVIOUS
  <2>4. /\ j.phase = "fetch"
        /\ k = [j EXCEPT !.fetched = fetched, !.index = index, !.listed = IF last THEN {} ELSE L,
                         !.clean = j.clean /\ (j.index = 0 \/ L = j.listed), !.phase = phase]
    BY <1>1, <1>3, <2>1, <2>2, <2>3 DEF Answer, Paged
  <2>5. k.fetched = fetched /\ k.phase = phase
    BY <2>4 DEF JobRow
  <2>6. ~StoreWindow(w)
    BY <1>1, <2>4 DEF StoreWindow
  <2> QED
    BY <1>1, <1>3, <2>2, <2>5, <2>6 DEF Keeps, Held
<1>6. CASE StoreWindow(w)
  <2>1. PICK phase \in {"fetch", "close"} : phase = IF AfterSlice(w) < j.now THEN "fetch" ELSE "close"
    OBVIOUS
  <2>2. k = Stored(j, AfterSlice(w), phase)
    BY <1>1, <1>3, <1>6, <2>1 DEF StoreWindow, Stored
  <2>3. k.fetched = {} /\ k.phase = phase
    BY <2>2 DEF Stored, JobRow
  <2> QED
    BY <1>1, <1>3, <2>3 DEF Keeps, Held
<1>7. CASE FetchKev(w) \/ StoreKev(w)
  <2>1. PICK phase \in {"store_kev", "close"}, listed \in SUBSET Cves :
          k = Listing(j, phase, listed) /\ (phase = "store_kev" => listed = kev)
    <3>1. kev \in SUBSET Cves /\ {} \in SUBSET Cves
      BY DEF FeedsInv, TypeOK
    <3>2. CASE FetchKev(w)
      BY <1>1, <1>3, <3>1, <3>2 DEF FetchKev, Listing
    <3>3. CASE StoreKev(w)
      BY <1>1, <1>3, <3>1, <3>3 DEF StoreKev, Listing
    <3> QED
      BY <1>7, <3>2, <3>3
  <2>2. k.phase = phase /\ k.listed = listed /\ k.fetched = j.fetched
    BY <2>1, ListingIs DEF JobPhases
  <2>3. j.fetched = {} /\ ~StoreWindow(w)
    BY <1>1, <1>7 DEF FetchKev, StoreKev, Held, StoreWindow
  <2> QED
    BY <1>1, <1>3, <2>1, <2>2, <2>3 DEF Keeps, Held
<1>8. ASSUME \/ \E plan \in Plans[w] : Start(w, plan)
             \/ CloseSuccess(w) \/ CloseFailed(w) \/ Crash(w)
      PROVE  k.fetched = {} /\ k.phase \in {"none", "open"}
  <2>1. NoJob.fetched = {} /\ NoJob.phase = "none"
    BY DEF NoJob
  <2>2. ASSUME NEW plan PROVE Planned(plan).fetched = {} /\ Planned(plan).phase = "open"
    BY DEF Planned, NoJob
  <2>3. ASSUME NEW plan \in Plans[w], Start(w, plan) PROVE k = Planned(plan)
    BY <1>1, <1>3, <2>3 DEF Start, Planned
  <2>4. CASE CloseSuccess(w) \/ CloseFailed(w)
    <3>1. k = AfterRun(j)
      BY <1>1, <1>3, <2>4 DEF CloseSuccess, CloseFailed
    <3>2. k = NoJob \/ k = Planned(Tail(j.todo))
      BY <3>1 DEF AfterRun, Planned
    <3> QED
      BY <2>1, <2>2, <3>2
  <2>5. CASE Crash(w)
    BY <1>1, <1>3, <2>1, <2>5 DEF Crash
  <2> QED
    BY <1>8, <2>2, <2>3, <2>4, <2>5
<1>9. ASSUME k.fetched = {} /\ k.phase \in {"none", "open"} PROVE Keeps(w, j, k)
  BY <1>9 DEF Keeps, Held
<1> QED
  BY <1>1, <1>3, <1>4, <1>5, <1>6, <1>7, <1>8, <1>9 DEF Ingest

\* A job is kept, or is what its worker's step makes of it.
LEMMA JobHolds ==
  ASSUME FeedsInv, Next, NEW w \in Workers, Held(job[w])
  PROVE  \E j \in JobRow, k \in JobRow :
           /\ j = job[w] /\ k = job'[w]
           /\ \/ k = j /\ ~StoreWindow(w)
              \/ Keeps(w, j, k)
<1>1. job \in [Workers -> JobRow] /\ w \in DOMAIN job
  BY DEF FeedsInv
<1>2. CASE Ingest(w)
  BY <1>2, NewHolds
<1>3. CASE ~Ingest(w)
  <2>1. ~StoreWindow(w)
    BY <1>3 DEF Ingest
  <2>2. job'[w] = job[w]
    <3>1. ASSUME NEW v \in Workers, Ingest(v) PROVE job'[w] = job[w]
      <4>1. PICK k \in JobRow : job' = [job EXCEPT ![v] = k]
        BY <3>1, NewJob
      <4> QED
        BY <1>1, <1>3, <3>1, <4>1
    <3> QED
      BY <3>1 DEF Next, Tick, Revise, List
  <2> QED
    BY <1>1, <2>1, <2>2
<1> QED
  BY <1>2, <1>3

LEMMA HonestStep == ASSUME HonestInv, Next PROVE HonestInv'
<1>1. /\ RowsInv /\ FeedsInv /\ NothingInvented /\ \A w \in Workers : Honest(job[w])
      /\ \A c \in Cves : nvd[c].time <= clock
  BY DEF HonestInv, RowsInv
<1>2. /\ kev \subseteq kev' /\ clock <= clock'
      /\ \A c \in Cves : /\ nvd[c].time <= nvd'[c].time /\ nvd'[c].time <= clock'
                         /\ nvd[c].cpes => nvd'[c].cpes
  BY <1>1, WorldGrows
<1>3. RowsInv'
  BY <1>1, RowsInvKept
<1>4. \A c \in Cves : /\ nvd[c].time \in Nat /\ nvd'[c].time \in Nat
                      /\ cve[c] \in CveRow /\ cve[c].time \in Nat
  BY <1>1, <1>3 DEF RowsInv, FeedsInv, TypeOK, CveRow, Times
<1>5. ASSUME NEW c \in Cves
      PROVE  /\ cve'[c].time <= nvd'[c].time /\ (cve'[c].cpes => nvd'[c].cpes)
             /\ cve'[c].kev => c \in kev'
  <2>1. cve[c].time <= nvd[c].time /\ (cve[c].cpes => nvd[c].cpes) /\ (cve[c].kev => c \in kev)
    BY <1>1 DEF NothingInvented
  <2>2. CASE cve'[c] = cve[c]
    <3>1. nvd[c].time <= nvd'[c].time /\ (nvd[c].cpes => nvd'[c].cpes) /\ kev \subseteq kev'
      BY <1>2
    <3>2. cve[c].time \in Nat /\ nvd[c].time \in Nat /\ nvd'[c].time \in Nat
      BY <1>4
    <3>3. cve'[c].time <= nvd'[c].time
      BY <2>1, <2>2, <3>1, <3>2
    <3> QED
      BY <2>1, <2>2, <3>1, <3>3
  <2>3. ASSUME NEW w \in Workers, NEW e \in job[w].fetched, e.cve = c,
               cve'[c] = NvdRow(cve[c], e)
        PROVE  /\ cve'[c].time <= nvd'[c].time /\ (cve'[c].cpes => nvd'[c].cpes)
               /\ cve'[c].kev => c \in kev'
    <3>1. e \in Entry /\ e.time \in Nat /\ e.time <= nvd[c].time /\ (e.cpes => nvd[c].cpes)
      BY <1>1, <2>3 DEF Honest, FeedsInv, JobRow, Entry, Times
    <3>2. cve'[c].time = e.time /\ cve'[c].cpes = (cve[c].cpes \/ e.cpes) /\ cve'[c].kev = cve[c].kev
      BY <1>4, <2>3, <3>1, NvdRowHas
    <3>3. nvd[c].time <= nvd'[c].time /\ (nvd[c].cpes => nvd'[c].cpes) /\ kev \subseteq kev'
      BY <1>2
    <3>4. cve'[c].time <= nvd'[c].time
      BY <1>4, <3>1, <3>2, <3>3
    <3> QED
      BY <2>1, <3>1, <3>2, <3>3, <3>4
  <2>4. ASSUME NEW w \in Workers, StoreKev(w), c \in job[w].listed, cve'[c] = KevRow(cve[c])
        PROVE  /\ cve'[c].time <= nvd'[c].time /\ (cve'[c].cpes => nvd'[c].cpes)
               /\ cve'[c].kev => c \in kev'
    <3>1. c \in kev
      BY <1>1, <2>4 DEF StoreKev, Honest
    <3>2. cve'[c].time = cve[c].time /\ cve'[c].cpes = cve[c].cpes
      BY <1>4, <2>4, KevRowHas
    <3>3. nvd[c].time <= nvd'[c].time /\ (nvd[c].cpes => nvd'[c].cpes) /\ kev \subseteq kev'
      BY <1>2
    <3>4. cve'[c].time <= nvd'[c].time
      BY <1>4, <2>1, <3>2, <3>3
    <3> QED
      BY <2>1, <3>1, <3>2, <3>3, <3>4
  <2> QED
    BY <1>1, <2>2, <2>3, <2>4, RowIs
<1>6. ASSUME NEW w \in Workers PROVE Honest(job[w])'
  <2>1. PICK j \in JobRow, k \in JobRow :
          /\ j = job[w] /\ k = job'[w]
          /\ (k = j /\ ~StoreWindow(w)) \/ Keeps(w, j, k)
    BY <1>1, JobHolds DEF Honest
  <2>2. Honest(j) /\ Held(k)
    BY <1>1, <2>1 DEF Honest, Keeps
  <2>3. ASSUME NEW e \in k.fetched PROVE e.time <= nvd'[e.cve].time /\ (e.cpes => nvd'[e.cve].cpes)
    <3>1. e.cve \in Cves /\ e.time \in Nat
      BY DEF JobRow, Entry, Times
    <3>2. e.time <= nvd[e.cve].time /\ (e.cpes => nvd[e.cve].cpes)
      <4>1. CASE e \in j.fetched
        BY <2>2, <4>1 DEF Honest
      <4>2. ASSUME NEW c \in Cves, e = Fetched(c) PROVE e.time <= nvd[e.cve].time /\ e.cpes = nvd[e.cve].cpes
        BY <1>4, <4>2 DEF Fetched
      <4> QED
        BY <2>1, <4>1, <4>2 DEF Keeps
    <3>3. /\ nvd[e.cve].time <= nvd'[e.cve].time /\ (nvd[e.cve].cpes => nvd'[e.cve].cpes)
          /\ nvd[e.cve].time \in Nat /\ nvd'[e.cve].time \in Nat
      BY <1>2, <1>4, <3>1
    <3> QED
      BY <3>1, <3>2, <3>3
  <2>4. k.phase = "store_kev" => k.listed \subseteq kev'
    BY <1>2, <2>1, <2>2 DEF Honest, Keeps
  <2> QED
    BY <2>1, <2>2, <2>3, <2>4 DEF Honest, Held
<1> QED
  BY <1>2, <1>3, <1>5, <1>6 DEF HonestInv, NothingInvented

LEMMA HonestInit == Init => HonestInv
<1> SUFFICES ASSUME Init PROVE HonestInv
  OBVIOUS
<1>1. \A c \in Cves : cve[c] = NoCve /\ nvd[c] = [time |-> 0, cpes |-> FALSE]
  BY DEF Init
<1>2. \A w \in Workers : job[w] = NoJob
  BY DEF Init
<1>3. NothingInvented /\ \A c \in Cves : nvd[c].time <= clock
  BY <1>1 DEF NothingInvented, NoCve, Init
<1>4. \A w \in Workers : Honest(job[w])
  BY <1>2 DEF Honest, Held, NoJob
<1> QED
  BY <1>3, <1>4, RowsInvInit DEF HonestInv

LEMMA HonestKept == HonestInv /\ [Next]_vars => HonestInv'
<1> SUFFICES ASSUME HonestInv, [Next]_vars PROVE HonestInv'
  OBVIOUS
<1>1. CASE Next
  BY <1>1, HonestStep
<1>2. CASE UNCHANGED vars
  <2>1. RowsInv'
    BY <1>2, RowsInvKept DEF HonestInv
  <2> QED
    BY <1>2, <2>1 DEF HonestInv, NothingInvented, Honest, Held, vars
<1> QED
  BY <1>1, <1>2

\* Nothing is stored that a feed did not say, for any number of workers of either feed
\* and whatever runs overlap, fail or are cut short.
THEOREM NothingIsInvented == Spec => []NothingInvented
<1>1. HonestInv => NothingInvented
  BY DEF HonestInv
<1> QED
  BY <1>1, HonestInit, HonestKept, PTL DEF Spec

\* What a run of NVD's adapter holds is no older than what is stored.
Later(j) == \A e \in j.fetched : cve[e.cve].time <= e.time

ForwardInv == HonestInv /\ \A w \in Workers : Later(job[w])

\* No row goes back in a step.
LEMMA RowsForward ==
  ASSUME ForwardInv, Next, NEW c \in Cves
  PROVE  /\ cve[c].time <= cve'[c].time /\ cve[c].sources \subseteq cve'[c].sources
         /\ cve[c].cpes => cve'[c].cpes
         /\ cve[c].kev => cve'[c].kev
<1>1. FeedsInv /\ \A w \in Workers : Later(job[w])
  BY DEF ForwardInv, HonestInv, RowsInv
<1>2. PICK row \in CveRow : row = cve[c] /\ row.time \in Nat
  BY <1>1 DEF FeedsInv, TypeOK, CveRow, Times
<1>3. CASE cve'[c] = cve[c]
  BY <1>2, <1>3
<1>4. ASSUME NEW w \in Workers, NEW e \in job[w].fetched, e.cve = c, cve'[c] = NvdRow(cve[c], e)
      PROVE  /\ row.time <= cve'[c].time /\ row.sources \subseteq cve'[c].sources
             /\ row.cpes => cve'[c].cpes
             /\ row.kev => cve'[c].kev
  <2>1. e \in Entry /\ row.time <= e.time
    BY <1>1, <1>2, <1>4 DEF Later, FeedsInv, JobRow
  <2>2. /\ cve'[c].time = e.time /\ row.sources \subseteq cve'[c].sources
        /\ cve'[c].cpes = (row.cpes \/ e.cpes) /\ cve'[c].kev = row.kev
    BY <1>2, <1>4, <2>1, NvdRowHas
  <2> QED
    BY <2>1, <2>2
<1>5. ASSUME cve'[c] = KevRow(cve[c])
      PROVE  /\ row.time <= cve'[c].time /\ row.sources \subseteq cve'[c].sources
             /\ row.cpes => cve'[c].cpes
             /\ row.kev => cve'[c].kev
  <2>1. /\ cve'[c].time = row.time /\ row.sources \subseteq cve'[c].sources
        /\ cve'[c].cpes = row.cpes /\ cve'[c].kev = TRUE
    BY <1>2, <1>5, KevRowHas
  <2> QED
    BY <1>2, <2>1
<1> QED
  BY <1>1, <1>2, <1>3, <1>4, <1>5, RowIs

LEMMA ForwardStep == ASSUME ForwardInv, Next, OneNvdWorker PROVE ForwardInv'
<1>1. /\ HonestInv /\ FeedsInv /\ NothingInvented
      /\ \A w \in Workers : Honest(job[w]) /\ Later(job[w])
  BY DEF ForwardInv, HonestInv, RowsInv
<1>2. HonestInv'
  BY <1>1, HonestStep
<1>3. ASSUME NEW w \in Workers PROVE Later(job[w])'
  <2>1. PICK j \in JobRow, k \in JobRow :
          /\ j = job[w] /\ k = job'[w]
          /\ (k = j /\ ~StoreWindow(w)) \/ Keeps(w, j, k)
    BY <1>1, JobHolds DEF Honest
  <2>2. ASSUME NEW e \in k.fetched PROVE cve'[e.cve].time <= e.time
    <3>1. PICK c \in Cves : c = e.cve /\ e.time \in Nat
      BY DEF JobRow, Entry, Times
    <3>2. ~StoreWindow(w) /\ w \in NvdWorkers
      <4>1. ~StoreWindow(w)
        BY <2>1 DEF Keeps
      <4>2. k.phase \in {"fetch", "store"}
        BY <1>2, <2>1 DEF HonestInv, Honest, Held
      <4>3. \E q \in JobRow : q = job'[w] /\ Fit(w, q)'
        BY <1>1, JobsFit
      <4>4. Fit(w, k)'
        BY <2>1, <4>3
      <4>5. 1 \in DOMAIN k.todo /\ k.todo[1] = "nvd"
        BY <4>2, <4>4 DEF Fit, JobRow
      <4>6. w \in NvdWorkers
        BY <4>4, <4>5 DEF Fit
      <4> QED
        BY <4>1, <4>6
    <3>3. \A v \in Workers : ~StoreWindow(v)
      <4> SUFFICES ASSUME NEW v \in Workers, StoreWindow(v) PROVE v = w
        BY <3>2
      <4>1. PICK i \in JobRow : i = job[v] /\ Fit(v, i) /\ Seen(i)
        BY <1>1 DEF FeedsInv, StoreWindow, Seen
      <4> QED
        BY <3>2, <4>1, SeenByNvdWorker DEF OneNvdWorker
    <3>4. PICK row \in CveRow : row = cve[c] /\ row.time \in Nat
      BY <1>1 DEF FeedsInv, TypeOK, CveRow, Times
    <3>5. cve'[c].time = row.time
      BY <1>1, <3>3, <3>4, RowIs, KevRowHas
    <3>6. row.time <= e.time
      <4>1. CASE e \in j.fetched
        BY <1>1, <2>1, <3>1, <3>4, <4>1 DEF Later
      <4>2. ASSUME NEW d \in Cves, e = Fetched(d) PROVE row.time <= e.time
        <5>1. d = c /\ e.time = nvd[c].time
          BY <3>1, <4>2 DEF Fetched
        <5> QED
          BY <1>1, <3>4, <5>1 DEF NothingInvented
      <4> QED
        BY <2>1, <4>1, <4>2 DEF Keeps
    <3> QED
      BY <3>1, <3>5, <3>6
  <2> QED
    BY <2>1, <2>2 DEF Later
<1> QED
  BY <1>2, <1>3 DEF ForwardInv

LEMMA ForwardKept == OneNvdWorker /\ ForwardInv /\ [Next]_vars => ForwardInv'
<1> SUFFICES ASSUME OneNvdWorker, ForwardInv, [Next]_vars PROVE ForwardInv'
  OBVIOUS
<1>1. CASE Next
  BY <1>1, ForwardStep
<1>2. CASE UNCHANGED vars
  <2>1. HonestInv'
    BY <1>2, HonestKept DEF ForwardInv
  <2> QED
    BY <1>2, <2>1 DEF ForwardInv, Later, vars
<1> QED
  BY <1>1, <1>2

\* While one worker runs NVD's adapter, no run of either feed takes back what another
\* wrote, for every page size, window and number of runs of either.
THEOREM RowsGoForward == ASSUME OneNvdWorker PROVE Spec => RowsNeverGoBack
<1> DEFINE Grows == \A c \in Cves : /\ cve[c].time <= cve'[c].time
                                    /\ cve[c].sources \subseteq cve'[c].sources
                                    /\ cve[c].cpes => cve'[c].cpes
                                    /\ cve[c].kev => cve'[c].kev
<1>1. Init => ForwardInv
  <2>1. Init => \A w \in Workers : Later(job[w])
    BY DEF Init, NoJob, Later
  <2> QED
    BY <2>1, HonestInit DEF ForwardInv
<1>2. ForwardInv /\ [Next]_vars => ForwardInv'
  BY ForwardKept
<1>3. ForwardInv /\ [Next]_vars => [Grows]_vars
  <2> SUFFICES ASSUME ForwardInv, Next PROVE Grows
    OBVIOUS
  <2> QED
    BY RowsForward
<1>4. Spec => [][Grows]_vars
  <2> HIDE DEF Grows
  <2> QED
    BY <1>1, <1>2, <1>3, PTL DEF Spec
<1> QED
  BY <1>4 DEF RowsNeverGoBack
=============================================================================
