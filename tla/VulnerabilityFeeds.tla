-------------------------- MODULE VulnerabilityFeeds --------------------------
(***************************************************************************)
(* The feeds: NVD's incremental ingest with its watermark, and the         *)
(* whole-catalogue ingest of CISA's KEV list.                              *)
(*                                                                         *)
(* NVD and CISA are external: an entry has the time of its last revision,  *)
(* and may be revised while a run is paging through it.  Runs are started  *)
(* by cron or by an operator; each takes many steps, fails at some of them *)
(* and can be cut short by a restart at any.                               *)
(***************************************************************************)
EXTENDS Naturals, Sequences, FiniteSets

CONSTANTS
  Workers,    \* processes and background tasks that run adapters
  Plans,      \* Workers -> the sequences of sources each may run
  Cves,
  Order,      \* Cves -> the position NVD lists the entry at
  PageSize,   \* 2000 in the code
  MaxWindow,  \* the longest window NVD accepts: 119 days in the code
  Lookback,   \* days a first run looks back
  MaxTime,    \* bounds for model checking
  MaxRuns

Sources == {"nvd", "cisa_kev"}

ASSUME PlansAssumption == Plans \in [Workers -> SUBSET Seq(Sources)]
ASSUME OrderAssumption ==
  /\ IsFiniteSet(Cves) /\ Order \in [Cves -> Nat]
  /\ \A c, d \in Cves : Order[c] = Order[d] => c = d
ASSUME NumbersAssumption ==
  /\ PageSize \in Nat \ {0} /\ MaxWindow \in Nat \ {0}
  /\ Lookback \in Nat /\ MaxTime \in Nat \ {0} /\ MaxRuns \in Nat

VARIABLES
  clock,
  nvd,     \* external: Cves -> the entry NVD has, revised at a time; 0: none
  kev,     \* external: the CVEs on CISA's list
  cve,     \* cve_events: Cves -> row
  runs,    \* feed_runs in id order, with the start of the chain of windows a run
           \* continues, and whether no entry left a window while it was paged
  job      \* Workers -> the adapter being run

vars == <<clock, nvd, kev, cve, runs, job>>

NoCve == [sources |-> {}, time |-> 0, cpes |-> FALSE, vendor |-> "none", kev |-> FALSE]
NoJob == [phase |-> "none", todo |-> << >>, run |-> 0, slice |-> 0, now |-> 0,
          index |-> 0, fetched |-> {}, listed |-> {}, clean |-> TRUE]

Init ==
  /\ clock = 1
  /\ nvd = [c \in Cves |-> [time |-> 0, cpes |-> FALSE]]
  /\ kev = {}
  /\ cve = [c \in Cves |-> NoCve]
  /\ runs = << >>
  /\ job = [w \in Workers |-> NoJob]

Database == <<cve, runs>>
World == <<clock, nvd, kev>>

---------------------------------------------------------------------------
(* The world outside *)

Tick ==
  /\ clock < MaxTime
  /\ clock' = clock + 1
  /\ UNCHANGED <<nvd, kev, Database, job>>

\* NVD publishes or revises an entry, which may gain its CPEs.
Revise(c) ==
  /\ \E cpes \in BOOLEAN :
       /\ nvd[c].cpes => cpes
       /\ nvd' = [nvd EXCEPT ![c] = [time |-> clock, cpes |-> cpes]]
  /\ nvd' # nvd
  /\ UNCHANGED <<clock, kev, Database, job>>

\* CISA lists a CVE.  What it takes off its list no run would notice.
List(c) ==
  /\ c \notin kev
  /\ kev' = kev \cup {c}
  /\ UNCHANGED <<clock, nvd, Database, job>>

---------------------------------------------------------------------------
(* A run of one adapter *)

Successes(source) ==
  {i \in DOMAIN runs : runs[i].source = source /\ runs[i].status = "success"}

\* Faulty variant: the watermark of the last run, whatever became of it.
CursorOfAnyRun(source) ==
  LET all == {i \in DOMAIN runs : runs[i].source = source} IN
  IF all = {} THEN 0 ELSE CHOOSE i \in all : \A j \in all : j <= i

\* latest_cursor: the last successful run of the source, 0 if there is none.
LatestCursor(source) ==
  IF Successes(source) = {} THEN 0
  ELSE CHOOSE i \in Successes(source) : \A j \in Successes(source) : j <= i

\* run, run_all, trigger_run: a plan of one source or both.
Start(w, plan) ==
  /\ job[w] = NoJob
  /\ plan \in Plans[w] /\ plan # << >>
  /\ job' = [job EXCEPT ![w] = [NoJob EXCEPT !.phase = "open", !.todo = plan]]
  /\ UNCHANGED <<World, Database>>

\* ingest reads the time and the cursor and inserts the run.
Open(w) ==
  LET source == Head(job[w].todo)
      last == LatestCursor(source)
      start == CASE last # 0 -> runs[last].now
                 [] last = 0 /\ clock > Lookback -> clock - Lookback
                 [] OTHER -> 0
  IN
  /\ job[w].phase = "open"
  /\ Len(runs) < MaxRuns
  /\ runs' = Append(runs,
       [source |-> source, status |-> "running", now |-> clock,
        from |-> IF last # 0 THEN runs[last].from ELSE start,
        clean |-> last # 0 => runs[last].clean])
  /\ job' = [job EXCEPT ![w] =
       [@ EXCEPT !.run = Len(runs) + 1, !.now = clock, !.slice = start,
                 !.clean = last # 0 => runs[last].clean,
                 !.phase = IF source = "cisa_kev" THEN "fetch_kev"
                           ELSE IF start < clock THEN "fetch" ELSE "close"]]
  /\ UNCHANGED <<World, cve>>

Smaller(a, b) == IF a <= b THEN a ELSE b
SliceEnd(w) == Smaller(job[w].slice + MaxWindow, job[w].now)

\* The entries NVD answers a window with: those it last revised in it.
Listed(from, to) == {c \in Cves : nvd[c].time # 0 /\ from <= nvd[c].time /\ nvd[c].time < to}

\* The entries at the offsets from index on.
Page(listed, index) ==
  {c \in listed : LET at == Cardinality({d \in listed : Order[d] < Order[c]}) IN
                  index <= at /\ at < index + PageSize}

\* Faulty variant: the configurations are not parsed.
FetchedUnparsed(c) == [cve |-> c, time |-> nvd[c].time]

Fetched(c) == [cve |-> c, time |-> nvd[c].time, cpes |-> nvd[c].cpes]

\* _fetch_window: one page; after the last the window is ready to be stored.
FetchPage(w) ==
  LET j == job[w]
      listed == Listed(j.slice, SliceEnd(w))
      page == Page(listed, j.index)
      last == page = {} \/ j.index + Cardinality(page) >= Cardinality(listed)
  IN
  /\ j.phase = "fetch"
  /\ job' = [job EXCEPT ![w] =
       [j EXCEPT !.fetched = @ \cup {Fetched(c) : c \in page},
                 !.index = IF last THEN 0 ELSE @ + Cardinality(page),
                 !.listed = IF last THEN {} ELSE listed,
                 !.clean = @ /\ (j.index = 0 \/ listed = j.listed),
                 !.phase = IF last THEN "store" ELSE "fetch"]]
  /\ UNCHANGED <<World, Database>>

\* _upsert_cve: COALESCE prefers what NVD says, where it says something.
NvdRow(row, entry) ==
  [row EXCEPT !.sources = @ \cup {"nvd"}, !.time = entry.time, !.cpes = @ \/ entry.cpes,
              !.vendor = IF entry.cpes THEN "nvd" ELSE @]

\* Faulty variant: CISA's vendor replaces the one there is.
KevRowOverwriting(row) ==
  [row EXCEPT !.sources = @ \cup {"cisa_kev"}, !.kev = TRUE, !.vendor = "cisa_kev"]

\* Faulty variant: the columns CISA knows nothing of are written as NULL.
KevRowWhole(row) ==
  [NoCve EXCEPT !.sources = row.sources \cup {"cisa_kev"}, !.kev = TRUE,
                !.vendor = IF row.vendor = "none" THEN "cisa_kev" ELSE row.vendor]

\* _upsert_kev_item: COALESCE keeps the vendor the row has.
KevRow(row) ==
  [row EXCEPT !.sources = @ \cup {"cisa_kev"}, !.kev = TRUE,
              !.vendor = IF @ = "none" THEN "cisa_kev" ELSE @]

\* Faulty variant: the window is not moved on.
AfterSliceSame(w) == job[w].slice

AfterSlice(w) == SliceEnd(w)

\* The transaction that upserts a window, and the step to the next one.
StoreWindow(w) ==
  LET j == job[w]  stored == {e.cve : e \in j.fetched} IN
  /\ j.phase = "store"
  /\ cve' = [c \in Cves |->
       IF c \in stored
       THEN NvdRow(cve[c], CHOOSE e \in j.fetched : e.cve = c) ELSE cve[c]]
  /\ job' = [job EXCEPT ![w] =
       [j EXCEPT !.slice = AfterSlice(w), !.fetched = {},
                 !.phase = IF AfterSlice(w) < j.now THEN "fetch" ELSE "close"]]
  /\ UNCHANGED <<World, runs>>

\* cisa_kev.ingest: the document ...
FetchKev(w) ==
  /\ job[w].phase = "fetch_kev"
  /\ job' = [job EXCEPT ![w] = [@ EXCEPT !.phase = "store_kev", !.listed = kev]]
  /\ UNCHANGED <<World, Database>>

\* ... and its transaction.
StoreKev(w) ==
  /\ job[w].phase = "store_kev"
  /\ cve' = [c \in Cves |-> IF c \in job[w].listed THEN KevRow(cve[c]) ELSE cve[c]]
  /\ job' = [job EXCEPT ![w] = [@ EXCEPT !.phase = "close", !.listed = {}]]
  /\ UNCHANGED <<World, runs>>

\* A plan goes on with its next source.
AfterRun(j) ==
  IF Len(j.todo) > 1 THEN [NoJob EXCEPT !.phase = "open", !.todo = Tail(j.todo)] ELSE NoJob

\* close_run with the new watermark.
CloseSuccess(w) ==
  LET j == job[w] IN
  /\ j.phase = "close"
  /\ runs' = [runs EXCEPT ![j.run].status = "success", ![j.run].clean = j.clean]
  /\ job' = [job EXCEPT ![w] = AfterRun(j)]
  /\ UNCHANGED <<World, cve>>

\* An exception of a fetch, or of NVD's transaction, which is rolled back.
CloseFailed(w) ==
  LET j == job[w] IN
  /\ j.phase \in {"fetch", "store", "fetch_kev"}
  /\ runs' = [runs EXCEPT ![j.run].status = "failed"]
  /\ job' = [job EXCEPT ![w] = AfterRun(j)]
  /\ UNCHANGED <<World, cve>>

\* The process is stopped, or an exception goes uncaught, such as one of KEV's
\* transaction: the run stays as it is, and a plan does not go on.
Crash(w) ==
  /\ job[w] # NoJob
  /\ job' = [job EXCEPT ![w] = NoJob]
  /\ UNCHANGED <<World, Database>>

---------------------------------------------------------------------------

Ingest(w) ==
  \/ \E plan \in Plans[w] : Start(w, plan)
  \/ Open(w) \/ FetchPage(w) \/ StoreWindow(w) \/ FetchKev(w) \/ StoreKev(w)
  \/ CloseSuccess(w) \/ CloseFailed(w) \/ Crash(w)

Next ==
  \/ Tick
  \/ \E c \in Cves : Revise(c) \/ List(c)
  \/ \E w \in Workers : Ingest(w)

\* What the process does next by itself, as the event loop goes on with it.
Proceed(w) ==
  \/ Open(w) \/ FetchPage(w) \/ StoreWindow(w) \/ FetchKev(w) \/ StoreKev(w)
  \/ CloseSuccess(w)

Spec == Init /\ [][Next]_vars /\ \A w \in Workers : WF_vars(Proceed(w))

---------------------------------------------------------------------------
(* Properties *)

Times == 0 .. MaxTime
Entry == [cve : Cves, time : Times, cpes : BOOLEAN]
CveRow == [sources : SUBSET Sources, time : Times, cpes : BOOLEAN,
           vendor : Sources \cup {"none"}, kev : BOOLEAN]
RunRow == [source : Sources, status : {"running", "success", "failed", "partial"},
           now : Times, from : Times, clean : BOOLEAN]

\* Every table has its columns' types.
TypeOK ==
  /\ clock \in 1 .. MaxTime
  /\ nvd \in [Cves -> [time : Times, cpes : BOOLEAN]]
  /\ kev \subseteq Cves
  /\ cve \in [Cves -> CveRow]
  /\ runs \in Seq(RunRow)
  /\ \A w \in Workers : job[w].fetched \subseteq Entry

\* The watermark's promise: an entry NVD last revised after the first window of a
\* chain of runs began and before the watermark is stored as revised, whatever runs
\* failed or were cut short in between, unless an entry left a window while it was
\* paged (nvd.py, ingest; common.py, latest_cursor).
WatermarkCovers ==
  \A i \in Successes("nvd") : runs[i].clean =>
    \A c \in Listed(runs[i].from, runs[i].now) : cve[c].time = nvd[c].time

\* Whatever order the feeds write a row in, it has a source's data exactly if it
\* names the source, and its vendor is NVD's as soon as NVD has named CPEs and
\* CISA's only until then (nvd.py, _upsert_cve; cisa_kev.py, _upsert_kev_item).
RowsMergeTheFeeds ==
  \A c \in Cves :
    /\ "nvd" \in cve[c].sources <=> cve[c].time # 0
    /\ "cisa_kev" \in cve[c].sources <=> cve[c].kev
    /\ cve[c].vendor = CASE cve[c].cpes -> "nvd"
                         [] cve[c].kev /\ ~cve[c].cpes -> "cisa_kev"
                         [] OTHER -> "none"

\* Nothing is stored that a feed did not say, whatever overlaps or is cut short: no row
\* is later than NVD's entry, names CPEs NVD does not, or is marked as exploited when
\* CISA does not list it (nvd.py, _upsert_cve; cisa_kev.py, _upsert_kev_item).
NothingInvented ==
  \A c \in Cves : /\ cve[c].time <= nvd[c].time
                  /\ cve[c].cpes => nvd[c].cpes
                  /\ cve[c].kev => c \in kev

\* While one worker runs NVD's adapter no run puts an older revision back, and none of
\* either feed takes away what another wrote, although each writes what it read a
\* while ago (nvd.py, _upsert_cve; cisa_kev.py, _upsert_kev_item).
RowsNeverGoBack ==
  [][\A c \in Cves : /\ cve[c].time <= cve'[c].time
                     /\ cve[c].sources \subseteq cve'[c].sources
                     /\ cve[c].cpes => cve'[c].cpes
                     /\ cve[c].kev => cve'[c].kev]_vars

\* A run that was opened comes to its end, however often entries leave the windows it
\* pages through (nvd.py, _fetch_window and ingest).
RunsEnd ==
  \A w \in Workers : job[w].phase \notin {"none", "open"} ~> job[w].phase \in {"none", "open"}
=============================================================================
