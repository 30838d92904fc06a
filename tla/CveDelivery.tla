------------------------------ MODULE CveDelivery ------------------------------
(***************************************************************************)
(* From the stored CVEs to one tenant's feed: the classifier tags them,    *)
(* the inventory puller copies the tenant's catalog, the matcher joins     *)
(* tags, enrolments, preferences and catalog into tenant_cve_matches, and  *)
(* the tenant's AAC lists, acknowledges and suppresses the matches.        *)
(*                                                                         *)
(* Every statement about a tenant is keyed by its id, so one tenant is     *)
(* enough.  A statement reads one snapshot and writes the rows that are    *)
(* there when it gets to them, so the matcher's single statement is two    *)
(* steps, and so is the transaction that replaces a catalog.               *)
(***************************************************************************)
EXTENDS Naturals, FiniteSets

CONSTANTS
  CVEs,
  SeverityOf,   \* CVEs -> rank, 0 (NONE) to 4 (CRITICAL)
  Buckets,
  Vendors,
  Links,        \* bucket_vendor_links: \subseteq Buckets \X Vendors
  AutoVendors,  \* CVEs -> the vendors its name or its CPEs stand for
  None,
  Cursors,      \* cursors a bridge can name, 0 the first
  Items,        \* rows a bridge can report: vendor, product, version, source
  CpeHits,      \* the <<cve, item>> pairs with a common CPE
  ProductHits,  \* the <<cve, item>> pairs with a common product name
  PullRuns,     \* ids of tenant_pull_runs rows
  MatchRuns,    \* ids of match_runs rows
  Polls,        \* request slots listing the tenant's matches
  Puts,         \* request slots writing its preferences
  Thresholds,   \* min_severity ranks an operator chooses from
  PageLimit,    \* rows of one page of the feed
  RowLimit,     \* rows after which a pull stops reading: 250 000 in the code
  MaxEdits      \* bound on the operators' edits, for model checking

ASSUME CveAssumption ==
  /\ SeverityOf \in [CVEs -> 0..4]
  /\ AutoVendors \in [CVEs -> SUBSET Vendors]
  /\ Links \subseteq Buckets \X Vendors
  /\ CpeHits \subseteq CVEs \X Items
  /\ ProductHits \subseteq CVEs \X Items
ASSUME CursorsAssumption == 0 \in Cursors /\ None \notin Cursors
ASSUME ItemsAssumption == IsFiniteSet(Items)
ASSUME ThresholdsAssumption == Thresholds \subseteq 0..4
ASSUME LimitsAssumption == PageLimit \in Nat \ {0} /\ RowLimit \in Nat /\ MaxEdits \in Nat

VARIABLES
  recent,    \* CVEs updated within the classifier's window
  kev,       \* CVEs on the KEV list
  vtag,      \* cve_vendor_tags: CVEs -> Vendors -> method
  btag,      \* cve_bucket_tags: CVEs -> Buckets -> method
  enrolled,  \* tenant_enrollments
  sub,       \* tenant_vendor_subscriptions: Vendors -> allow, deny or none
  prefs,     \* tenant_filter_preferences, its defaults while there is no row
  put,       \* Puts -> the PUT /preferences being served
  catalog,   \* tenant_inventory_catalog: rows with the pull that wrote them
  pull,      \* PullRuns -> the inventory pull
  run,       \* MatchRuns -> the match run
  match,     \* tenant_cve_matches: CVEs -> row
  poll,      \* Polls -> what the request still has to stamp
  shipped,   \* CVEs a response to the tenant has listed
  edits      \* edits made so far

tags == <<vtag, btag>>
tenant == <<enrolled, sub, prefs, put>>
inventory == <<catalog, pull>>
feed == <<poll, shipped>>
vars == <<recent, kev, tags, tenant, inventory, run, match, feed, edits>>

Methods == {"none", "auto", "operator"}
NoPut == [phase |-> "none", row |-> [min |-> 2, kev |-> TRUE, tagOnly |-> FALSE]]
NoPull == [status |-> "none", phase |-> "none", rows |-> {}, read |-> 0,
           cursor |-> 0, seen |-> {}, overlaps |-> {}]
NoRun == [status |-> "none", rows |-> {}]
NoMatch == [method |-> "none", kev |-> FALSE, buckets |-> {}, vendors |-> {},
            delivered |-> FALSE, acknowledged |-> FALSE, suppressed |-> FALSE]

Init ==
  /\ recent = CVEs /\ kev = {}
  /\ vtag = [c \in CVEs |-> [v \in Vendors |-> "none"]]
  /\ btag = [c \in CVEs |-> [b \in Buckets |-> "none"]]
  /\ enrolled = {} /\ sub = [v \in Vendors |-> "none"]
  /\ prefs = NoPut.row /\ put = [p \in Puts |-> NoPut]
  /\ catalog = {} /\ pull = [p \in PullRuns |-> NoPull]
  /\ run = [m \in MatchRuns |-> NoRun]
  /\ match = [c \in CVEs |-> NoMatch]
  /\ poll = [p \in Polls |-> {}] /\ shipped = {}
  /\ edits = 0

Ended(p, status) == [NoPull EXCEPT !.status = status, !.overlaps = pull[p].overlaps]

Edit == edits < MaxEdits /\ edits' = edits + 1

---------------------------------------------------------------------------
(* The feeds and the classifier *)

\* A CISA run lists the CVE: its row is updated.
ListKev(c) ==
  /\ Edit
  /\ c \notin kev
  /\ kev' = kev \cup {c}
  /\ recent' = recent \cup {c}
  /\ UNCHANGED <<tags, tenant, inventory, run, match, feed>>

\* The window moves past every update.
Age ==
  /\ recent # {}
  /\ recent' = {}
  /\ UNCHANGED <<kev, tags, tenant, inventory, run, match, feed, edits>>

\* Faulty variant: ON CONFLICT DO UPDATE.
AutoTagOver(old) == "auto"

\* ON CONFLICT DO NOTHING
AutoTag(old) == IF old = "none" THEN "auto" ELSE old

\* classify_recent: the vendors of the CVEs in the window, or of all, and
\* then the buckets of every vendor they have
Classify(full) ==
  LET targets == IF full THEN CVEs ELSE recent
      vendorsOf(c) == AutoVendors[c] \cup {v \in Vendors : vtag[c][v] # "none"}
  IN /\ vtag' = [c \in CVEs |-> [v \in Vendors |->
          IF c \in targets /\ v \in AutoVendors[c] THEN AutoTag(vtag[c][v]) ELSE vtag[c][v]]]
     /\ btag' = [c \in CVEs |-> [b \in Buckets |->
          IF c \in targets /\ \E v \in vendorsOf(c) : <<b, v>> \in Links
          THEN AutoTag(btag[c][b]) ELSE btag[c][b]]]
     /\ UNCHANGED <<recent, kev, tenant, inventory, run, match, feed, edits>>

\* tag_vendor, untag_vendor
TagVendor(c, v, method) ==
  /\ Edit
  /\ method \in {"none", "operator"}
  /\ vtag' = [vtag EXCEPT ![c][v] = method]
  /\ UNCHANGED <<recent, kev, btag, tenant, inventory, run, match, feed>>

\* tag_bucket, untag_bucket
TagBucket(c, b, method) ==
  /\ Edit
  /\ method \in {"none", "operator"}
  /\ btag' = [btag EXCEPT ![c][b] = method]
  /\ UNCHANGED <<recent, kev, vtag, tenant, inventory, run, match, feed>>

---------------------------------------------------------------------------
(* What the tenant wants *)

\* enroll_bucket
Enroll(b) ==
  /\ Edit
  /\ enrolled' = enrolled \cup {b}
  /\ UNCHANGED <<recent, kev, tags, sub, prefs, put, inventory, run, match, feed>>

\* unenroll_bucket
Unenroll(b) ==
  /\ Edit
  /\ enrolled' = enrolled \ {b}
  /\ UNCHANGED <<recent, kev, tags, sub, prefs, put, inventory, run, match, feed>>

\* set_vendor_sub, remove_vendor_sub
Subscribe(v, choice) ==
  /\ Edit
  /\ sub' = [sub EXCEPT ![v] = choice]
  /\ UNCHANGED <<recent, kev, tags, enrolled, prefs, put, inventory, run, match, feed>>

\* set_preferences: the row is read and merged with the fields given ...
PutRead(p) ==
  /\ Edit
  /\ put[p].phase = "none"
  /\ \E changed \in {[prefs EXCEPT !.min = t] : t \in Thresholds}
             \cup {[prefs EXCEPT !.kev = k] : k \in BOOLEAN}
             \cup {[prefs EXCEPT !.tagOnly = k] : k \in BOOLEAN} :
       put' = [put EXCEPT ![p] = [phase |-> "merged", row |-> changed]]
  /\ UNCHANGED <<recent, kev, tags, enrolled, sub, prefs, inventory, run, match, feed>>

\* Faulty variant: a field the PUT leaves out is written as NULL.
PutWriteGiven(p) ==
  /\ put[p].phase = "merged"
  /\ prefs' = [put[p].row EXCEPT !.min = None]
  /\ put' = [put EXCEPT ![p] = NoPut]
  /\ UNCHANGED <<recent, kev, tags, enrolled, sub, inventory, run, match, feed, edits>>

\* ... and every field of it written.
PutWrite(p) ==
  /\ put[p].phase = "merged"
  /\ prefs' = put[p].row
  /\ put' = [put EXCEPT ![p] = NoPut]
  /\ UNCHANGED <<recent, kev, tags, enrolled, sub, inventory, run, match, feed, edits>>

---------------------------------------------------------------------------
(* The inventory puller *)

\* _open_pull_run; without a token the run is closed at once.
PullOpen(p, token) ==
  /\ pull[p].status = "none"
  /\ pull' = [pull EXCEPT ![p] =
       IF token THEN [NoPull EXCEPT !.status = "running", !.phase = "reading"]
                ELSE [NoPull EXCEPT !.status = "failed"]]
  /\ UNCHANGED <<recent, kev, tags, tenant, catalog, run, match, feed, edits>>

\* Faulty variant: the row limit is forgotten.
LastPageUnlimited(page, next, read) == next = None \/ page = {}

LastPage(page, next, read) == next = None \/ page = {} \/ read > RowLimit

\* A page of the bridge, which may answer anything: reading goes on at the
\* cursor it names, unless the page is empty or the rows are too many.
PullPage(p, page, next) ==
  /\ pull[p].phase = "reading"
  /\ LET most == RowLimit + 1
         total == pull[p].read + Cardinality(page)
         read == IF total < most THEN total ELSE most
     IN pull' = [pull EXCEPT
          ![p].rows = @ \cup page,
          ![p].read = read,
          ![p].cursor = IF next = None THEN @ ELSE next,
          ![p].phase = IF LastPage(page, next, read) THEN "read" ELSE "reading"]
  /\ UNCHANGED <<recent, kev, tags, tenant, catalog, run, match, feed, edits>>

\* Faulty variant: what was read so far is kept.
PullFailStoring(p) ==
  /\ pull[p].phase # "none"
  /\ pull' = [pull EXCEPT ![p] = Ended(p, "failed")]
  /\ catalog' = {[item |-> i, by |-> p] : i \in pull[p].rows}
  /\ UNCHANGED <<recent, kev, tags, tenant, run, match, feed, edits>>

\* A request to the bridge or the transaction fails: the run is closed, the
\* catalog kept.
PullFail(p) ==
  /\ pull[p].phase # "none"
  /\ pull' = [pull EXCEPT ![p] = Ended(p, "failed")]
  /\ UNCHANGED <<recent, kev, tags, tenant, catalog, run, match, feed, edits>>

Replacing == {p \in PullRuns : pull[p].phase = "replacing"}

\* Faulty variant: only the rows about to be written are deleted.
DeletedOwn(p) == {r \in catalog : r.item \in pull[p].rows}

\* The rows the DELETE finds: those committed when it starts
Deleted(p) == catalog

\* _replace_tenant_catalog: DELETE ...
PullDelete(p) ==
  /\ pull[p].phase = "read"
  /\ pull' = [q \in PullRuns |->
       IF q = p THEN [pull[p] EXCEPT !.phase = "replacing", !.seen = Deleted(p),
                                     !.overlaps = Replacing]
       ELSE IF q \in Replacing THEN [pull[q] EXCEPT !.overlaps = @ \cup {p}]
       ELSE pull[q]]
  /\ UNCHANGED <<recent, kev, tags, tenant, catalog, run, match, feed, edits>>

\* ... and upsert in one transaction, then _close_pull_run.
PullCommit(p) ==
  /\ pull[p].phase = "replacing"
  /\ catalog' = {r \in catalog \ pull[p].seen : r.item \notin pull[p].rows}
                \cup {[item |-> i, by |-> p] : i \in pull[p].rows}
  /\ pull' = [pull EXCEPT ![p] = Ended(p, "success")]
  /\ UNCHANGED <<recent, kev, tags, tenant, run, match, feed, edits>>

---------------------------------------------------------------------------
(* The matcher *)

TaggedBuckets(c) == {b \in enrolled : btag[c][b] # "none"}
TaggedVendors(c) ==
  {v \in Vendors :
     /\ vtag[c][v] # "none"
     /\ \/ sub[v] = "allow"
        \/ sub[v] # "deny" /\ \E b \in enrolled : <<b, v>> \in Links}

Filtered ==
  {c \in CVEs :
     /\ TaggedBuckets(c) # {} \/ TaggedVendors(c) # {}
     /\ (c \in kev /\ prefs.kev) \/ SeverityOf[c] >= prefs.min}

Held == {r.item : r \in catalog}
ByCpe(c) == \E i \in Held : <<c, i>> \in CpeHits

\* Faulty variant: the fallback does not look at the CPE hits.
ByProductToo(c) == \E i \in Held : <<c, i>> \in ProductHits

ByProduct(c) == /\ \E i \in Held : <<c, i>> \in ProductHits
                /\ ~ByCpe(c)

\* The methods by which the statement emits a row of the CVE
MethodsOf(c) == {m \in {"cpe", "vendor_product", "tag_only"} :
  \/ m = "cpe" /\ ByCpe(c)
  \/ m = "vendor_product" /\ ByProduct(c)
  \/ m = "tag_only" /\ prefs.tagOnly /\ ~ByCpe(c) /\ ~ByProduct(c)}

\* match_tenant: the run is opened and the statement starts.
MatchRead(m) ==
  /\ run[m].status = "none"
  /\ run' = [run EXCEPT ![m] =
       [status |-> "running",
        rows |-> UNION {{[cve |-> c, method |-> how, kev |-> c \in kev,
                          buckets |-> TaggedBuckets(c), vendors |-> TaggedVendors(c)]
                         : how \in MethodsOf(c)} : c \in Filtered}]]
  /\ UNCHANGED <<recent, kev, tags, tenant, inventory, match, feed, edits>>

\* Faulty variant: a CVE matched again is delivered again.
RematchedAfresh(old, r) ==
  [NoMatch EXCEPT !.method = r.method, !.kev = r.kev, !.buckets = r.buckets,
                  !.vendors = r.vendors]

\* ON CONFLICT DO UPDATE
Rematched(old, r) ==
  [old EXCEPT !.method = r.method, !.kev = r.kev, !.buckets = r.buckets,
              !.vendors = r.vendors]

\* Its rows are upserted and the run closed; a statement that emits two
\* rows of one CVE is refused.
MatchWrite(m) ==
  /\ run[m].status = "running"
  /\ IF \E r, s \in run[m].rows : r # s /\ r.cve = s.cve
     THEN /\ run' = [run EXCEPT ![m] = [status |-> "failed", rows |-> {}]]
          /\ UNCHANGED match
     ELSE /\ run' = [run EXCEPT ![m] = [status |-> "success", rows |-> {}]]
          /\ match' = [c \in CVEs |->
               IF \E r \in run[m].rows : r.cve = c
               THEN Rematched(match[c], CHOOSE r \in run[m].rows : r.cve = c)
               ELSE match[c]]
  /\ UNCHANGED <<recent, kev, tags, tenant, inventory, feed, edits>>

---------------------------------------------------------------------------
(* The tenant's feed *)

Matched(c) == match[c].method # "none"

\* Faulty variant: the row that only tells there is another page is stamped.
ToStampFetched(page, items) == {c \in page : ~match[c].delivered}

ToStamp(page, items) == {c \in items : ~match[c].delivered}

\* list_cves: the rows of a page, one more than it can hold, are read ...
List(p, acknowledged, suppressed) ==
  /\ poll[p] = {}
  /\ \E page \in SUBSET {c \in CVEs : /\ Matched(c)
                                      /\ match[c].acknowledged => acknowledged
                                      /\ match[c].suppressed => suppressed} :
     \E items \in SUBSET page :
       /\ Cardinality(page) <= PageLimit + 1
       /\ items = page \/ (Cardinality(page) > PageLimit /\ Cardinality(items) = PageLimit)
       /\ Cardinality(items) <= PageLimit
       /\ items # {}
       /\ poll' = [poll EXCEPT ![p] = ToStamp(page, items)]
       /\ shipped' = shipped \cup items
  /\ UNCHANGED <<recent, kev, tags, tenant, inventory, run, match, edits>>

\* ... and those not delivered before are stamped.
Stamp(p) ==
  /\ poll[p] # {}
  /\ match' = [c \in CVEs |-> IF c \in poll[p] THEN [match[c] EXCEPT !.delivered = TRUE]
                                               ELSE match[c]]
  /\ poll' = [poll EXCEPT ![p] = {}]
  /\ UNCHANGED <<recent, kev, tags, tenant, inventory, run, shipped, edits>>

\* acknowledge_cve
Acknowledge(c) ==
  /\ Matched(c)
  /\ match' = [match EXCEPT ![c].acknowledged = TRUE]
  /\ UNCHANGED <<recent, kev, tags, tenant, inventory, run, feed, edits>>

\* suppress_cve
Suppress(c) ==
  /\ Matched(c)
  /\ match' = [match EXCEPT ![c].suppressed = TRUE]
  /\ UNCHANGED <<recent, kev, tags, tenant, inventory, run, feed, edits>>

\* A restart forgets the work in progress: an open transaction is rolled
\* back, a run stays 'running', a page goes out or not but is not stamped.
Restart ==
  /\ pull' = [p \in PullRuns |->
       IF pull[p].phase = "none" THEN pull[p] ELSE Ended(p, "running")]
  /\ run' = [m \in MatchRuns |-> [run[m] EXCEPT
       !.status = IF @ = "running" THEN "lost" ELSE @, !.rows = {}]]
  /\ put' = [p \in Puts |-> NoPut]
  /\ poll' = [p \in Polls |-> {}]
  /\ UNCHANGED <<recent, kev, tags, enrolled, sub, prefs, catalog, match, shipped, edits>>

---------------------------------------------------------------------------
ReadPage(p) == \E page \in SUBSET Items, next \in Cursors \cup {None} : PullPage(p, page, next)
Proceed(p) == ReadPage(p) \/ PullFail(p) \/ PullDelete(p) \/ PullCommit(p)

Next ==
  \/ \E c \in CVEs : ListKev(c) \/ Acknowledge(c) \/ Suppress(c)
  \/ Age
  \/ \E full \in BOOLEAN : Classify(full)
  \/ \E c \in CVEs, v \in Vendors, how \in Methods : TagVendor(c, v, how)
  \/ \E c \in CVEs, b \in Buckets, how \in Methods : TagBucket(c, b, how)
  \/ \E b \in Buckets : Enroll(b) \/ Unenroll(b)
  \/ \E v \in Vendors, choice \in {"allow", "deny", "none"} : Subscribe(v, choice)
  \/ \E p \in Puts : PutRead(p) \/ PutWrite(p)
  \/ \E p \in PullRuns, token \in BOOLEAN : PullOpen(p, token)
  \/ \E p \in PullRuns : Proceed(p)
  \/ \E m \in MatchRuns : MatchRead(m) \/ MatchWrite(m)
  \/ \E p \in Polls, a, s \in BOOLEAN : List(p, a, s)
  \/ \E p \in Polls : Stamp(p)
  \/ Restart

\* A background task goes on: the bridge answers every request or the
\* client's timeout fails it.
Spec == Init /\ [][Next]_vars /\ \A p \in PullRuns : WF_vars(Proceed(p))

---------------------------------------------------------------------------
PrefsRow == [min : 0..4, kev : BOOLEAN, tagOnly : BOOLEAN]
CatalogRow == [item : Items, by : PullRuns]
MatchedMethods == {"cpe", "vendor_product", "tag_only"}
Emitted == [cve : CVEs, method : MatchedMethods, kev : BOOLEAN,
            buckets : SUBSET Buckets, vendors : SUBSET Vendors]
PullRow == [status : {"none", "running", "failed", "success"},
            phase : {"none", "reading", "read", "replacing"},
            rows : SUBSET Items, read : 0..RowLimit + 1, cursor : Cursors,
            seen : SUBSET CatalogRow, overlaps : SUBSET PullRuns]
RunRow == [status : {"none", "running", "lost", "failed", "success"}, rows : SUBSET Emitted]
MatchRow == [method : MatchedMethods \cup {"none"}, kev : BOOLEAN,
             buckets : SUBSET Buckets, vendors : SUBSET Vendors,
             delivered : BOOLEAN, acknowledged : BOOLEAN, suppressed : BOOLEAN]

\* The rows have the columns of their tables, with the values the CHECK
\* constraints list, and jobs and requests hold rows that exist.
TypeOK ==
  /\ recent \subseteq CVEs /\ kev \subseteq CVEs
  /\ vtag \in [CVEs -> [Vendors -> Methods]]
  /\ btag \in [CVEs -> [Buckets -> Methods]]
  /\ enrolled \subseteq Buckets
  /\ sub \in [Vendors -> {"allow", "deny", "none"}]
  /\ prefs \in PrefsRow
  /\ put \in [Puts -> [phase : {"none", "merged"}, row : PrefsRow]]
  /\ catalog \subseteq CatalogRow
  /\ pull \in [PullRuns -> PullRow]
  /\ run \in [MatchRuns -> RunRow]
  /\ match \in [CVEs -> MatchRow]
  /\ poll \in [Polls -> SUBSET CVEs] /\ shipped \subseteq CVEs
  /\ edits \in 0..MaxEdits

\* The catalog holds only rows of pulls that read the bridge to its last
\* page: a pull that fails on a later page, or dies in its transaction,
\* leaves the catalog of before (inventory_puller.py 190-240).
CatalogOfWholePulls == \A r \in catalog : pull[r.by].status = "success"

\* Rows of two pulls are in the catalog together only if their two
\* transactions overlapped: a pull otherwise replaces every row of the pulls
\* before it (inventory_puller.py 129-149).
MixedOnlyByOverlap ==
  \A r, s \in catalog : r.by # s.by => s.by \in pull[r.by].overlaps

\* No match run is refused for emitting two rows of one CVE: whatever tags,
\* preferences and catalog a run finds, at most one of the CPE hits, the
\* product hits and tag_only gives the CVE (matcher.py 118-177).
NoRunRefused == \A m \in MatchRuns : run[m].status # "failed"

\* A match is stamped delivered only if a page listed it, although a page
\* reads one row more than it holds and is stamped by a second statement
\* (portal_feed.py 89-165).
DeliveredWasShipped == \A c \in CVEs : match[c].delivered => c \in shipped

\* A match is never forgotten, and no match run that read it before a page,
\* an acknowledgement or a suppression takes their stamp away
\* (matcher.py 12-14, 196-204).
StampsSurvive ==
  [][\A c \in CVEs : /\ Matched(c) => Matched(c)'
                     /\ match[c].delivered => match'[c].delivered
                     /\ match[c].acknowledged => match'[c].acknowledged
                     /\ match[c].suppressed => match'[c].suppressed]_vars

Box == INSTANCE Mailbox WITH
  Messages <- CVEs,
  posted <- {c \in CVEs : Matched(c)},
  delivered <- {c \in CVEs : match[c].delivered},
  acknowledged <- {c \in CVEs : match[c].acknowledged},
  suppressed <- {c \in CVEs : match[c].suppressed}

\* The tenant's feed implements Mailbox: whatever match runs, pages, restarts and
\* operators' edits overlap, no match is withdrawn, only listed ones count as
\* delivered, and no stamp is taken back (matcher.py 12-14, 196-204; portal_feed.py
\* 89-233).
KeepsMailbox == Box!Spec

\* The classifier never takes an operator's tag over: it goes only when an
\* operator removes it (classifier.py 4-6).
OperatorTagsSurvive ==
  [][\A c \in CVEs :
       /\ \A v \in Vendors : vtag[c][v] = "operator" => vtag'[c][v] # "auto"
       /\ \A b \in Buckets : btag[c][b] = "operator" => btag'[c][b] # "auto"]_vars

\* Every pull ends, whatever cursors and pages the bridge answers with
\* (inventory_puller.py 190-206).
PullsEnd == \A p \in PullRuns : pull[p].phase # "none" ~> pull[p].phase = "none"
=============================================================================
