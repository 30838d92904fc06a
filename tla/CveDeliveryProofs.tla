--------------------------- MODULE CveDeliveryProofs ---------------------------
(***************************************************************************)
(* Proofs about CveDelivery, for any tags, catalogs, pulls, match runs and *)
(* requests.                                                               *)
(***************************************************************************)
EXTENDS CveDelivery, FiniteSetTheorems, TLAPS

USE CveAssumption, CursorsAssumption, ItemsAssumption, ThresholdsAssumption,
    LimitsAssumption

---------------------------------------------------------------------------
(* Types *)

LEMMA NoPullTyped ==
  /\ NoPull \in PullRow
  /\ \A p \in PullRuns, status \in {"none", "running", "failed", "success"} :
       pull \in [PullRuns -> PullRow] => Ended(p, status) \in PullRow
<1>1. 0 \in 0..RowLimit + 1
  OBVIOUS
<1>2. NoPull \in PullRow
  BY <1>1 DEF NoPull, PullRow
<1>3. ASSUME NEW p \in PullRuns, NEW status \in {"none", "running", "failed", "success"},
             pull \in [PullRuns -> PullRow]
      PROVE  Ended(p, status) \in PullRow
  <2>1. pull[p] \in PullRow
    BY <1>3
  <2>2. pull[p].overlaps \subseteq PullRuns
    BY <2>1 DEF PullRow
  <2>3. \A o \in SUBSET PullRuns : [NoPull EXCEPT !.status = status, !.overlaps = o] \in PullRow
    BY <1>2 DEF PullRow
  <2> QED
    BY <2>2, <2>3 DEF Ended
<1> QED
  BY <1>2, <1>3

LEMMA InitTyped == Init => TypeOK
<1> SUFFICES ASSUME Init PROVE TypeOK
  OBVIOUS
<1>1. NoPut.row \in PrefsRow
  BY DEF NoPut, PrefsRow
<1>2. put \in [Puts -> [phase : {"none", "merged"}, row : PrefsRow]] /\ prefs \in PrefsRow
  BY <1>1 DEF Init, NoPut
<1>3. pull \in [PullRuns -> PullRow]
  BY NoPullTyped DEF Init
<1>4. run \in [MatchRuns -> RunRow]
  BY DEF Init, NoRun, RunRow
<1>5. match \in [CVEs -> MatchRow]
  BY DEF Init, NoMatch, MatchRow
<1>6. 0 \in 0..MaxEdits
  OBVIOUS
<1> QED
  BY <1>2, <1>3, <1>4, <1>5, <1>6 DEF Init, TypeOK, Methods

\* What the operators edit.
LEMMA EditsTyped ==
  ASSUME TypeOK,
         \/ \E c \in CVEs : ListKev(c)
         \/ Age
         \/ \E full \in BOOLEAN : Classify(full)
         \/ \E c \in CVEs, v \in Vendors, how \in Methods : TagVendor(c, v, how)
         \/ \E c \in CVEs, b \in Buckets, how \in Methods : TagBucket(c, b, how)
         \/ \E b \in Buckets : Enroll(b) \/ Unenroll(b)
         \/ \E v \in Vendors, choice \in {"allow", "deny", "none"} : Subscribe(v, choice)
         \/ \E p \in Puts : PutRead(p) \/ PutWrite(p)
  PROVE  TypeOK'
<1>1. ASSUME Edit PROVE edits' \in 0..MaxEdits
  BY <1>1 DEF Edit, TypeOK
<1>2. ASSUME NEW c \in CVEs, ListKev(c) PROVE TypeOK'
  BY <1>1, <1>2 DEF ListKev, TypeOK, tags, tenant, inventory, feed
<1>3. CASE Age
  BY <1>3 DEF Age, TypeOK, tags, tenant, inventory, feed
<1>4. ASSUME NEW full \in BOOLEAN, Classify(full) PROVE TypeOK'
  <2>1. \A old \in Methods : AutoTag(old) \in Methods
    BY DEF AutoTag, Methods
  <2>2. vtag' \in [CVEs -> [Vendors -> Methods]] /\ btag' \in [CVEs -> [Buckets -> Methods]]
    BY <1>4, <2>1 DEF Classify, TypeOK
  <2> QED
    BY <1>4, <2>2 DEF Classify, TypeOK, tenant, inventory, feed
<1>5. ASSUME NEW c \in CVEs, NEW v \in Vendors, NEW how \in Methods, TagVendor(c, v, how)
      PROVE  TypeOK'
  BY <1>1, <1>5 DEF TagVendor, TypeOK, tenant, inventory, feed
<1>6. ASSUME NEW c \in CVEs, NEW b \in Buckets, NEW how \in Methods, TagBucket(c, b, how)
      PROVE  TypeOK'
  BY <1>1, <1>6 DEF TagBucket, TypeOK, tenant, inventory, feed
<1>7. ASSUME NEW b \in Buckets, Enroll(b) \/ Unenroll(b) PROVE TypeOK'
  BY <1>1, <1>7 DEF Enroll, Unenroll, TypeOK, tags, inventory, feed
<1>8. ASSUME NEW v \in Vendors, NEW choice \in {"allow", "deny", "none"}, Subscribe(v, choice)
      PROVE  TypeOK'
  BY <1>1, <1>8 DEF Subscribe, TypeOK, tags, inventory, feed
<1>9. ASSUME NEW p \in Puts, PutRead(p) PROVE TypeOK'
  <2>1. /\ \A t \in Thresholds : [prefs EXCEPT !.min = t] \in PrefsRow
        /\ \A k \in BOOLEAN : [prefs EXCEPT !.kev = k] \in PrefsRow
        /\ \A k \in BOOLEAN : [prefs EXCEPT !.tagOnly = k] \in PrefsRow
    BY DEF TypeOK, PrefsRow
  <2>2. put' \in [Puts -> [phase : {"none", "merged"}, row : PrefsRow]]
    <3>1. PICK changed \in {[prefs EXCEPT !.min = t] : t \in Thresholds}
                    \cup {[prefs EXCEPT !.kev = k] : k \in BOOLEAN}
                    \cup {[prefs EXCEPT !.tagOnly = k] : k \in BOOLEAN} :
            put' = [put EXCEPT ![p] = [phase |-> "merged", row |-> changed]]
      BY <1>9 DEF PutRead
    <3>2. changed \in PrefsRow
      BY <2>1, <3>1
    <3>3. [phase |-> "merged", row |-> changed] \in [phase : {"none", "merged"}, row : PrefsRow]
      BY <3>2
    <3> QED
      BY <3>1, <3>3 DEF TypeOK
  <2> QED
    BY <1>1, <1>9, <2>2 DEF PutRead, TypeOK, tags, inventory, feed
<1>10. ASSUME NEW p \in Puts, PutWrite(p) PROVE TypeOK'
  <2>1. NoPut \in [phase : {"none", "merged"}, row : PrefsRow]
    BY DEF NoPut, PrefsRow
  <2> QED
    BY <1>10, <2>1 DEF PutWrite, TypeOK, tags, inventory, feed
<1> QED
  BY <1>2, <1>3, <1>4, <1>5, <1>6, <1>7, <1>8, <1>9, <1>10

\* The number of rows read so far stays in its bounds.
LEMMA PageCounted ==
  ASSUME TypeOK, NEW p \in PullRuns, NEW page \in SUBSET Items, NEW next \in Cursors \cup {None},
         PullPage(p, page, next)
  PROVE  pull'[p].read \in 0..RowLimit + 1
<1> DEFINE total == pull[p].read + Cardinality(page)
<1>1. Cardinality(page) \in Nat
  BY FS_Subset, FS_CardinalityType
<1>2. pull[p] \in PullRow /\ p \in DOMAIN pull
  BY DEF TypeOK
<1>3. total \in Nat
  BY <1>1, <1>2 DEF PullRow
<1>4. pull'[p].read = IF total < RowLimit + 1 THEN total ELSE RowLimit + 1
  BY <1>2 DEF PullPage, PullRow
<1> QED
  BY <1>3, <1>4

LEMMA PullsTyped ==
  ASSUME TypeOK, NEW p \in PullRuns, Proceed(p) \/ \E token \in BOOLEAN : PullOpen(p, token)
  PROVE  TypeOK'
<1>1. pull[p] \in PullRow /\ Ended(p, "failed") \in PullRow /\ Ended(p, "success") \in PullRow
  BY NoPullTyped DEF TypeOK
<1>2. ASSUME NEW token \in BOOLEAN, PullOpen(p, token) PROVE TypeOK'
  <2>1. [NoPull EXCEPT !.status = "running", !.phase = "reading"] \in PullRow
        /\ [NoPull EXCEPT !.status = "failed"] \in PullRow
    BY NoPullTyped DEF PullRow
  <2> QED
    BY <1>2, <2>1 DEF PullOpen, TypeOK, tags, tenant, feed
<1>3. ASSUME NEW page \in SUBSET Items, NEW next \in Cursors \cup {None}, PullPage(p, page, next)
      PROVE  TypeOK'
  <2>1. pull'[p] \in PullRow
    <3>1. pull'[p] = [pull[p] EXCEPT !.rows = pull'[p].rows, !.read = pull'[p].read,
                                     !.cursor = pull'[p].cursor, !.phase = pull'[p].phase]
      BY <1>1, <1>3 DEF PullPage, PullRow, TypeOK
    <3>2. pull'[p].rows \subseteq Items /\ pull'[p].cursor \in Cursors
          /\ pull'[p].phase \in {"read", "reading"}
      BY <1>1, <1>3 DEF PullPage, PullRow, TypeOK
    <3> QED
      BY <1>1, <1>3, <3>1, <3>2, PageCounted DEF PullRow
  <2>2. pull' \in [PullRuns -> PullRow]
    BY <1>3, <2>1 DEF PullPage, TypeOK
  <2> QED
    BY <1>3, <2>2 DEF PullPage, TypeOK, tags, tenant, feed
<1>4. CASE PullFail(p)
  BY <1>1, <1>4 DEF PullFail, TypeOK, tags, tenant, feed
<1>5. CASE PullDelete(p)
  <2>1. \A q \in PullRuns : pull'[q] \in PullRow
    <3>1. [pull[p] EXCEPT !.phase = "replacing", !.seen = Deleted(p), !.overlaps = Replacing]
            \in PullRow
      BY <1>1 DEF PullRow, Deleted, Replacing, TypeOK
    <3>2. ASSUME NEW row \in PullRow PROVE [row EXCEPT !.overlaps = @ \cup {p}] \in PullRow
      <4>1. row.overlaps \cup {p} \subseteq PullRuns
        BY DEF PullRow
      <4> QED
        BY <4>1 DEF PullRow
    <3>3. TAKE q \in PullRuns
    <3>4. pull[q] \in PullRow
      BY DEF TypeOK
    <3>5. CASE q = p
      BY <1>5, <3>1, <3>5 DEF PullDelete
    <3>6. CASE q # p
      <4>1. CASE q \in Replacing
        BY <1>5, <3>2, <3>4, <3>6, <4>1 DEF PullDelete
      <4>2. CASE q \notin Replacing
        BY <1>5, <3>4, <3>6, <4>2 DEF PullDelete
      <4> QED
        BY <4>1, <4>2
    <3> QED
      BY <3>5, <3>6
  <2>2. pull' \in [PullRuns -> PullRow]
    BY <1>5, <2>1 DEF PullDelete
  <2> QED
    BY <1>5, <2>2 DEF PullDelete, TypeOK, tags, tenant, feed
<1>6. CASE PullCommit(p)
  <2>1. catalog' \subseteq CatalogRow
    BY <1>1, <1>6 DEF PullCommit, TypeOK, CatalogRow, PullRow
  <2> QED
    BY <1>1, <1>6, <2>1 DEF PullCommit, TypeOK, tags, tenant, feed
<1> QED
  BY <1>2, <1>3, <1>4, <1>5, <1>6 DEF Proceed, ReadPage

\* What a match run emits for one CVE.
LEMMA EmittedTyped ==
  ASSUME TypeOK, NEW m \in MatchRuns, MatchRead(m)
  PROVE  run'[m].rows \subseteq Emitted
<1>1. \A c \in CVEs : TaggedBuckets(c) \subseteq Buckets /\ TaggedVendors(c) \subseteq Vendors
  BY DEF TypeOK, TaggedBuckets, TaggedVendors
<1>2. Filtered \subseteq CVEs /\ \A c : MethodsOf(c) \subseteq MatchedMethods
  BY DEF Filtered, MethodsOf, MatchedMethods
<1>3. ASSUME NEW c \in Filtered, NEW how \in MethodsOf(c)
      PROVE  [cve |-> c, method |-> how, kev |-> c \in kev,
              buckets |-> TaggedBuckets(c), vendors |-> TaggedVendors(c)] \in Emitted
  BY <1>1, <1>2 DEF Emitted
<1>4. run'[m].rows = UNION {{[cve |-> c, method |-> how, kev |-> c \in kev,
                              buckets |-> TaggedBuckets(c), vendors |-> TaggedVendors(c)]
                             : how \in MethodsOf(c)} : c \in Filtered}
  BY DEF MatchRead, TypeOK
<1> QED
  BY <1>3, <1>4

LEMMA RematchedTyped ==
  ASSUME NEW old \in MatchRow, NEW r \in Emitted
  PROVE  /\ Rematched(old, r) \in MatchRow
         /\ Rematched(old, r).method # "none"
         /\ Rematched(old, r).delivered = old.delivered
         /\ Rematched(old, r).acknowledged = old.acknowledged
         /\ Rematched(old, r).suppressed = old.suppressed
  BY DEF Rematched, MatchRow, Emitted, MatchedMethods

\* A match run leaves a row as it was or updates it with one it emitted.
LEMMA MatchesWritten ==
  ASSUME TypeOK, NEW m \in MatchRuns, MatchWrite(m), NEW c \in CVEs
  PROVE  match'[c] = match[c] \/ \E r \in Emitted : match'[c] = Rematched(match[c], r)
<1>1. run[m].rows \subseteq Emitted
  BY DEF TypeOK, RunRow
<1>2. CASE match' = match
  BY <1>2
<1>3. CASE match' # match
  <2>1. CASE \E r \in run[m].rows : r.cve = c
    <3>1. (CHOOSE r \in run[m].rows : r.cve = c) \in run[m].rows
      BY <2>1
    <3> QED
      BY <1>1, <1>3, <2>1, <3>1 DEF MatchWrite
  <2>2. CASE ~ \E r \in run[m].rows : r.cve = c
    BY <1>3, <2>2 DEF MatchWrite
  <2> QED
    BY <2>1, <2>2
<1> QED
  BY <1>2, <1>3

LEMMA MatchesTyped ==
  ASSUME TypeOK, NEW m \in MatchRuns, MatchRead(m) \/ MatchWrite(m)
  PROVE  TypeOK'
<1>1. CASE MatchRead(m)
  <2>1. run'[m].rows \subseteq Emitted /\ run'[m] = [status |-> "running", rows |-> run'[m].rows]
    BY <1>1, EmittedTyped DEF MatchRead, TypeOK
  <2>2. run'[m] \in RunRow
    BY <2>1 DEF RunRow
  <2>3. run' \in [MatchRuns -> RunRow]
    BY <1>1, <2>2 DEF MatchRead, TypeOK
  <2> QED
    BY <1>1, <2>3 DEF MatchRead, TypeOK, tags, tenant, inventory, feed
<1>2. CASE MatchWrite(m)
  <2>1. run' \in [MatchRuns -> RunRow]
    BY <1>2 DEF MatchWrite, TypeOK, RunRow
  <2>2. \A c \in CVEs : match'[c] \in MatchRow
    BY <1>2, MatchesWritten, RematchedTyped DEF TypeOK
  <2>3. match' \in [CVEs -> MatchRow]
    BY <1>2, <2>2 DEF MatchWrite, TypeOK
  <2> QED
    BY <1>2, <2>1, <2>3 DEF MatchWrite, TypeOK, tags, tenant, inventory, feed
<1> QED
  BY <1>1, <1>2

LEMMA FeedTyped ==
  ASSUME TypeOK,
         \/ \E c \in CVEs : Acknowledge(c) \/ Suppress(c)
         \/ \E p \in Polls, a, s \in BOOLEAN : List(p, a, s)
         \/ \E p \in Polls : Stamp(p)
         \/ Restart
  PROVE  TypeOK'
<1>1. ASSUME NEW c \in CVEs, Acknowledge(c) \/ Suppress(c) PROVE TypeOK'
  <2>1. match' \in [CVEs -> MatchRow]
    <3>1. \A row \in MatchRow : /\ [row EXCEPT !.acknowledged = TRUE] \in MatchRow
                                /\ [row EXCEPT !.suppressed = TRUE] \in MatchRow
      BY DEF MatchRow
    <3>2. match[c] \in MatchRow
      BY DEF TypeOK
    <3> QED
      BY <1>1, <3>1, <3>2 DEF Acknowledge, Suppress, TypeOK
  <2> QED
    BY <1>1, <2>1 DEF Acknowledge, Suppress, TypeOK, tags, tenant, inventory, feed
<1>2. ASSUME NEW p \in Polls, NEW a \in BOOLEAN, NEW s \in BOOLEAN, List(p, a, s) PROVE TypeOK'
  BY <1>2 DEF List, ToStamp, TypeOK, tags, tenant, inventory
<1>3. ASSUME NEW p \in Polls, Stamp(p) PROVE TypeOK'
  <2>1. match' \in [CVEs -> MatchRow]
    <3>1. \A row \in MatchRow : [row EXCEPT !.delivered = TRUE] \in MatchRow
      BY DEF MatchRow
    <3>2. \A c \in CVEs : match'[c] \in MatchRow
      BY <1>3, <3>1 DEF Stamp, TypeOK
    <3> QED
      BY <1>3, <3>2 DEF Stamp
  <2> QED
    BY <1>3, <2>1 DEF Stamp, TypeOK, tags, tenant, inventory
<1>4. CASE Restart
  <2>1. pull' \in [PullRuns -> PullRow]
    <3>1. \A p \in PullRuns : pull[p] \in PullRow /\ Ended(p, "running") \in PullRow
      BY NoPullTyped DEF TypeOK
    <3>2. \A p \in PullRuns : pull'[p] \in PullRow
      BY <1>4, <3>1 DEF Restart
    <3> QED
      BY <1>4, <3>2 DEF Restart
  <2>2. run' \in [MatchRuns -> RunRow]
    <3>1. \A row \in RunRow :
            [row EXCEPT !.status = IF @ = "running" THEN "lost" ELSE @, !.rows = {}] \in RunRow
      BY DEF RunRow
    <3> QED
      BY <1>4, <3>1 DEF Restart, TypeOK
  <2>3. put' \in [Puts -> [phase : {"none", "merged"}, row : PrefsRow]]
    <3>1. NoPut \in [phase : {"none", "merged"}, row : PrefsRow]
      BY DEF NoPut, PrefsRow
    <3> QED
      BY <1>4, <3>1 DEF Restart
  <2> QED
    BY <1>4, <2>1, <2>2, <2>3 DEF Restart, TypeOK, tags
<1> QED
  BY <1>1, <1>2, <1>3, <1>4

LEMMA StepTyped == TypeOK /\ [Next]_vars => TypeOK'
<1> SUFFICES ASSUME TypeOK, [Next]_vars PROVE TypeOK'
  OBVIOUS
<1>1. CASE Next
  BY <1>1, EditsTyped, PullsTyped, MatchesTyped, FeedTyped DEF Next
<1>2. CASE UNCHANGED vars
  BY <1>2 DEF vars, TypeOK, tags, tenant, inventory, feed
<1> QED
  BY <1>1, <1>2

\* Every table keeps its columns' types, whatever the operators, the bridge and the
\* tenant do (migrations/001, 003 and 004).
THEOREM Typed == Spec => []TypeOK
  BY InitTyped, StepTyped, PTL DEF Spec

---------------------------------------------------------------------------
(* Which steps change what *)

LEMMA PreferencesLeave ==
  ASSUME \/ \E c \in CVEs : ListKev(c)
         \/ Age
         \/ \E b \in Buckets : Enroll(b) \/ Unenroll(b)
         \/ \E v \in Vendors, choice \in {"allow", "deny", "none"} : Subscribe(v, choice)
         \/ \E p \in Puts : PutRead(p) \/ PutWrite(p)
  PROVE  UNCHANGED <<tags, inventory, run, match, feed>>
<1>1. ASSUME NEW c \in CVEs, ListKev(c) PROVE UNCHANGED <<tags, inventory, run, match, feed>>
  BY <1>1 DEF ListKev
<1>2. CASE Age
  BY <1>2 DEF Age
<1>3. ASSUME NEW b \in Buckets, Enroll(b) \/ Unenroll(b)
      PROVE  UNCHANGED <<tags, inventory, run, match, feed>>
  BY <1>3 DEF Enroll, Unenroll
<1>4. ASSUME NEW v \in Vendors, NEW choice \in {"allow", "deny", "none"}, Subscribe(v, choice)
      PROVE  UNCHANGED <<tags, inventory, run, match, feed>>
  BY <1>4 DEF Subscribe
<1>5. ASSUME NEW p \in Puts, PutRead(p) \/ PutWrite(p)
      PROVE  UNCHANGED <<tags, inventory, run, match, feed>>
  BY <1>5 DEF PutRead, PutWrite
<1> QED
  BY <1>1, <1>2, <1>3, <1>4, <1>5

TagStep ==
  \/ \E full \in BOOLEAN : Classify(full)
  \/ \E c \in CVEs, v \in Vendors, how \in Methods : TagVendor(c, v, how)
  \/ \E c \in CVEs, b \in Buckets, how \in Methods : TagBucket(c, b, how)

LEMMA TagsLeave == TagStep => UNCHANGED <<inventory, run, match, feed>>
  BY DEF TagStep, Classify, TagVendor, TagBucket

PullStep == \E p \in PullRuns : Proceed(p) \/ \E token \in BOOLEAN : PullOpen(p, token)

LEMMA PullsLeave == PullStep => UNCHANGED <<tags, run, match, feed>>
<1> SUFFICES ASSUME NEW p \in PullRuns, Proceed(p) \/ \E token \in BOOLEAN : PullOpen(p, token)
             PROVE  UNCHANGED <<tags, run, match, feed>>
  BY DEF PullStep
<1>1. ASSUME NEW token \in BOOLEAN, PullOpen(p, token) PROVE UNCHANGED <<tags, run, match, feed>>
  BY <1>1 DEF PullOpen
<1>2. CASE ReadPage(p)
  BY <1>2 DEF ReadPage, PullPage
<1>3. CASE PullFail(p)
  BY <1>3 DEF PullFail
<1>4. CASE PullDelete(p)
  BY <1>4 DEF PullDelete
<1>5. CASE PullCommit(p)
  BY <1>5 DEF PullCommit
<1> QED
  BY <1>1, <1>2, <1>3, <1>4, <1>5 DEF Proceed

RunStep == \E m \in MatchRuns : MatchRead(m) \/ MatchWrite(m)

LEMMA RunsLeave == RunStep => UNCHANGED <<tags, inventory, feed>>
  BY DEF RunStep, MatchRead, MatchWrite

FeedStep ==
  \/ \E c \in CVEs : Acknowledge(c) \/ Suppress(c)
  \/ \E p \in Polls, a, s \in BOOLEAN : List(p, a, s)
  \/ \E p \in Polls : Stamp(p)

LEMMA FeedLeaves == FeedStep => UNCHANGED <<tags, inventory, run>>
  BY DEF FeedStep, Acknowledge, Suppress, List, Stamp

LEMMA ChangesInventory == Next /\ inventory' # inventory => PullStep \/ Restart
  BY PreferencesLeave, TagsLeave, RunsLeave, FeedLeaves
     DEF Next, TagStep, PullStep, RunStep, FeedStep

LEMMA ChangesRuns == Next /\ run' # run => RunStep \/ Restart
  BY PreferencesLeave, TagsLeave, PullsLeave, FeedLeaves
     DEF Next, TagStep, PullStep, RunStep, FeedStep

LEMMA ChangesMatches == Next /\ <<match, feed>>' # <<match, feed>> => RunStep \/ FeedStep \/ Restart
  BY PreferencesLeave, TagsLeave, PullsLeave
     DEF Next, TagStep, PullStep, RunStep, FeedStep

LEMMA ChangesTags == Next /\ tags' # tags => TagStep
<1>1. Restart => tags' = tags
  BY DEF Restart
<1> QED
  BY <1>1, PreferencesLeave, PullsLeave, RunsLeave, FeedLeaves
     DEF Next, TagStep, PullStep, RunStep, FeedStep


---------------------------------------------------------------------------
(* The catalog *)

\* What a pull is doing.
PullsRun == \A p \in PullRuns : pull[p].phase # "none" => pull[p].status = "running"

\* Two transactions that both replace the catalog overlap, and so did one that replaces
\* it and one that left a row it did not see.
OverlapsKnown ==
  \A p \in Replacing :
    /\ \A q \in Replacing : p # q => q \in pull[p].overlaps
    /\ \A r \in catalog \ pull[p].seen : r.by \in pull[p].overlaps /\ p \in pull[r.by].overlaps

CatalogInv ==
  TypeOK /\ PullsRun /\ CatalogOfWholePulls /\ OverlapsKnown /\ MixedOnlyByOverlap

LEMMA CatalogInit == Init => CatalogInv
<1> SUFFICES ASSUME Init PROVE CatalogInv
  OBVIOUS
<1>1. catalog = {} /\ \A p \in PullRuns : pull[p].phase = "none"
  BY DEF Init, NoPull
<1> QED
  BY <1>1, InitTyped DEF CatalogInv, PullsRun, CatalogOfWholePulls, OverlapsKnown,
     MixedOnlyByOverlap, Replacing

\* What the pulls' steps assign.
LEMMA EndedIs ==
  ASSUME NEW p, NEW status
  PROVE  /\ Ended(p, status).status = status
         /\ Ended(p, status).phase = "none"
         /\ Ended(p, status).overlaps = pull[p].overlaps
  BY DEF Ended, NoPull

\* A step that keeps every overlap, and ends pulls or leaves them as they are, keeps
\* what is known of the catalog it leaves alone.
LEMMA QuietPulls ==
  ASSUME CatalogInv, TypeOK', catalog' = catalog,
         \A q \in PullRuns :
           \/ /\ pull'[q].phase = "none" /\ pull'[q].status # "success"
              /\ pull[q].status # "success"
           \/ /\ pull'[q].phase \in {"reading", "read"} /\ pull'[q].status = "running"
              /\ pull[q].status # "success"
           \/ /\ pull'[q].phase = pull[q].phase /\ pull'[q].status = pull[q].status
              /\ pull'[q].overlaps = pull[q].overlaps /\ pull'[q].seen = pull[q].seen
  PROVE  CatalogInv'
<1>1. PullsRun'
  BY DEF CatalogInv, PullsRun
<1>2. \A r \in catalog : r.by \in PullRuns /\ pull[r.by].status = "success"
  BY DEF CatalogInv, CatalogOfWholePulls, TypeOK, CatalogRow
<1>3. \A r \in catalog : pull'[r.by].status = "success"
                         /\ pull'[r.by].overlaps = pull[r.by].overlaps
  BY <1>2
<1>4. \A q \in PullRuns : q \in Replacing' =>
        q \in Replacing /\ pull'[q].overlaps = pull[q].overlaps /\ pull'[q].seen = pull[q].seen
  BY DEF Replacing
<1>5. CatalogOfWholePulls' /\ MixedOnlyByOverlap'
  BY <1>3 DEF CatalogInv, CatalogOfWholePulls, MixedOnlyByOverlap
<1>6. Replacing' \subseteq PullRuns
  BY DEF Replacing
<1>7. OverlapsKnown'
  BY <1>3, <1>4, <1>6 DEF CatalogInv, OverlapsKnown
<1> QED
  BY <1>1, <1>5, <1>7 DEF CatalogInv

LEMMA DeleteKeepsCatalog ==
  ASSUME CatalogInv, TypeOK', NEW p \in PullRuns, PullDelete(p)
  PROVE  CatalogInv'
<1>1. /\ catalog' = catalog
      /\ \A q \in PullRuns : pull'[q].status = pull[q].status
      /\ \A q \in PullRuns : q # p => pull[q].overlaps \subseteq pull'[q].overlaps
      /\ \A q \in PullRuns : q # p => pull'[q].phase = pull[q].phase /\ pull'[q].seen = pull[q].seen
      /\ \A q \in Replacing : q # p => p \in pull'[q].overlaps
      /\ pull'[p].phase = "replacing" /\ pull'[p].seen = catalog /\ pull'[p].overlaps = Replacing
  <2>1. \A q \in PullRuns : pull[q] \in PullRow
    BY DEF CatalogInv, TypeOK
  <2>2. pull'[p] = [pull[p] EXCEPT !.phase = "replacing", !.seen = Deleted(p),
                                   !.overlaps = Replacing]
    BY DEF PullDelete
  <2>3. ASSUME NEW q \in PullRuns, q # p
        PROVE  /\ q \in Replacing => pull'[q] = [pull[q] EXCEPT !.overlaps = @ \cup {p}]
               /\ q \notin Replacing => pull'[q] = pull[q]
    BY <2>3 DEF PullDelete
  <2>4. /\ pull'[p].status = pull[p].status /\ pull'[p].phase = "replacing"
        /\ pull'[p].seen = catalog /\ pull'[p].overlaps = Replacing
    BY <2>1, <2>2 DEF PullRow, Deleted
  <2>5. ASSUME NEW q \in PullRuns, q # p
        PROVE  /\ pull'[q].status = pull[q].status /\ pull'[q].phase = pull[q].phase
               /\ pull'[q].seen = pull[q].seen /\ pull[q].overlaps \subseteq pull'[q].overlaps
               /\ q \in Replacing => p \in pull'[q].overlaps
    <3>1. pull[q] \in PullRow
      BY <2>1
    <3>2. CASE q \in Replacing
      <4>1. \A row \in PullRow, o \in SUBSET PullRuns :
              LET new == [row EXCEPT !.overlaps = o]
              IN  /\ new.status = row.status /\ new.phase = row.phase /\ new.seen = row.seen
                  /\ new.overlaps = o
        BY DEF PullRow
      <4>2. pull[q].overlaps \cup {p} \in SUBSET PullRuns
        BY <3>1 DEF PullRow
      <4>3. pull'[q] = [pull[q] EXCEPT !.overlaps = pull[q].overlaps \cup {p}]
        BY <2>3, <2>5, <3>2
      <4> QED
        BY <3>1, <4>1, <4>2, <4>3
    <3>3. CASE q \notin Replacing
      BY <2>3, <2>5, <3>3
    <3> QED
      BY <3>2, <3>3
  <2>6. catalog' = catalog /\ Replacing \subseteq PullRuns
    BY DEF PullDelete, Replacing
  <2> QED
    BY <2>4, <2>5, <2>6
<1>2. pull[p].phase = "read" /\ pull[p].status = "running"
  BY DEF PullDelete, CatalogInv, PullsRun
<1>3. \A r \in catalog : r.by \in PullRuns /\ pull[r.by].status = "success" /\ r.by # p
  BY <1>2 DEF CatalogInv, CatalogOfWholePulls, TypeOK, CatalogRow
<1>4. PullsRun' /\ CatalogOfWholePulls'
  BY <1>1, <1>2, <1>3 DEF CatalogInv, PullsRun, CatalogOfWholePulls
<1>5. MixedOnlyByOverlap'
  BY <1>1, <1>3 DEF CatalogInv, MixedOnlyByOverlap
<1>6. Replacing' = Replacing \cup {p} /\ p \notin Replacing /\ Replacing \subseteq PullRuns
  BY <1>1, <1>2 DEF Replacing
<1>7. OverlapsKnown'
  <2>1. ASSUME NEW q \in Replacing', NEW q2 \in Replacing', q # q2
        PROVE  q2 \in pull'[q].overlaps
    BY <1>1, <1>6, <2>1 DEF CatalogInv, OverlapsKnown
  <2>2. ASSUME NEW q \in Replacing', NEW r \in catalog' \ pull'[q].seen
        PROVE  r.by \in pull'[q].overlaps /\ q \in pull'[r.by].overlaps
    BY <1>1, <1>3, <1>6, <2>2 DEF CatalogInv, OverlapsKnown
  <2> QED
    BY <2>1, <2>2 DEF OverlapsKnown
<1> QED
  BY <1>4, <1>5, <1>7 DEF CatalogInv

LEMMA CommitKeepsCatalog ==
  ASSUME CatalogInv, TypeOK', NEW p \in PullRuns, PullCommit(p)
  PROVE  CatalogInv'
<1>1. /\ \A q \in PullRuns : q # p => pull'[q] = pull[q]
      /\ pull'[p].status = "success" /\ pull'[p].phase = "none"
      /\ pull'[p].overlaps = pull[p].overlaps
  BY EndedIs DEF PullCommit, CatalogInv, TypeOK
<1>2. p \in Replacing
  BY DEF PullCommit, Replacing
<1>3. \A r \in catalog' : r.by = p \/ (r \in catalog /\ r \notin pull[p].seen)
  BY DEF PullCommit
<1>4. \A r \in catalog' : r.by \in PullRuns
  BY DEF TypeOK, CatalogRow
<1>5. \A q \in PullRuns : pull'[q].overlaps = pull[q].overlaps
  BY <1>1
<1>6. PullsRun'
  BY <1>1 DEF CatalogInv, PullsRun
<1>7. CatalogOfWholePulls'
  BY <1>1, <1>3, <1>4 DEF CatalogInv, CatalogOfWholePulls
<1>8. \A r \in catalog' : r.by # p => r.by \in pull[p].overlaps /\ p \in pull[r.by].overlaps
  BY <1>2, <1>3 DEF CatalogInv, OverlapsKnown
<1>9. MixedOnlyByOverlap'
  BY <1>3, <1>4, <1>5, <1>8 DEF CatalogInv, MixedOnlyByOverlap
<1>10. Replacing' = Replacing \ {p} /\ Replacing \subseteq PullRuns
  BY <1>1, <1>2 DEF Replacing
<1>11. \A q \in Replacing' : pull'[q].seen = pull[q].seen
  BY <1>1, <1>10
<1>12. OverlapsKnown'
  <2>1. ASSUME NEW q \in Replacing', NEW q2 \in Replacing', q # q2
        PROVE  q2 \in pull'[q].overlaps
    BY <1>5, <1>10, <2>1 DEF CatalogInv, OverlapsKnown
  <2>2. ASSUME NEW q \in Replacing', NEW r \in catalog' \ pull'[q].seen
        PROVE  r.by \in pull'[q].overlaps /\ q \in pull'[r.by].overlaps
    <3>1. CASE r.by = p
      BY <1>2, <1>5, <1>10, <3>1 DEF CatalogInv, OverlapsKnown
    <3>2. CASE r.by # p
      BY <1>3, <1>4, <1>5, <1>10, <1>11, <2>2, <3>2 DEF CatalogInv, OverlapsKnown
    <3> QED
      BY <3>1, <3>2
  <2> QED
    BY <2>1, <2>2 DEF OverlapsKnown
<1> QED
  BY <1>6, <1>7, <1>9, <1>12 DEF CatalogInv

LEMMA CatalogStep == CatalogInv /\ [Next]_vars => CatalogInv'
<1> SUFFICES ASSUME CatalogInv, [Next]_vars PROVE CatalogInv'
  OBVIOUS
<1>1. TypeOK'
  BY StepTyped DEF CatalogInv
<1>2. CASE inventory' = inventory
  BY <1>1, <1>2 DEF inventory, CatalogInv, PullsRun, CatalogOfWholePulls, OverlapsKnown,
     MixedOnlyByOverlap, Replacing
<1>3. \A q \in PullRuns : pull[q] \in PullRow
  BY DEF CatalogInv, TypeOK
<1>4. \A q \in PullRuns : pull[q].phase # "none" => pull[q].status = "running"
  BY DEF CatalogInv, PullsRun
<1>5. ASSUME NEW p \in PullRuns, NEW token \in BOOLEAN, PullOpen(p, token) PROVE CatalogInv'
  <2>1. catalog' = catalog /\ \A q \in PullRuns : q # p => pull'[q] = pull[q]
    BY <1>5 DEF PullOpen
  <2>2. /\ pull[p].status # "success"
        /\ \/ pull'[p].phase = "none" /\ pull'[p].status # "success"
           \/ pull'[p].phase = "reading" /\ pull'[p].status = "running"
    BY <1>5 DEF PullOpen, NoPull, CatalogInv, TypeOK
  <2> QED
    BY <1>1, <2>1, <2>2, QuietPulls
<1>6. ASSUME NEW p \in PullRuns, Proceed(p) PROVE CatalogInv'
  <2>1. ASSUME NEW page \in SUBSET Items, NEW next \in Cursors \cup {None}, PullPage(p, page, next)
        PROVE  CatalogInv'
    <3>1. catalog' = catalog /\ \A q \in PullRuns : q # p => pull'[q] = pull[q]
      BY <2>1 DEF PullPage, CatalogInv, TypeOK
    <3>2. pull[p].phase = "reading" /\ pull[p].status = "running" /\ p \in DOMAIN pull
      BY <1>4, <2>1 DEF PullPage, CatalogInv, TypeOK
    <3>3. pull'[p].status = pull[p].status /\ pull'[p].phase \in {"reading", "read"}
      BY <1>3, <2>1, <3>2 DEF PullPage, PullRow
    <3> QED
      BY <1>1, <3>1, <3>2, <3>3, QuietPulls
  <2>2. CASE PullFail(p)
    <3>1. catalog' = catalog /\ \A q \in PullRuns : q # p => pull'[q] = pull[q]
      BY <2>2 DEF PullFail
    <3>2. pull[p].status = "running" /\ pull'[p].status = "failed" /\ pull'[p].phase = "none"
      BY <1>4, <2>2, EndedIs DEF PullFail, CatalogInv, TypeOK
    <3> QED
      BY <1>1, <3>1, <3>2, QuietPulls
  <2> QED
    BY <1>1, <1>6, <2>1, <2>2, DeleteKeepsCatalog, CommitKeepsCatalog DEF Proceed, ReadPage
<1>7. CASE Restart
  <2>1. catalog' = catalog
    BY <1>7 DEF Restart
  <2>2. ASSUME NEW q \in PullRuns
        PROVE  \/ pull'[q] = pull[q]
               \/ /\ pull'[q].phase = "none" /\ pull'[q].status = "running"
                  /\ pull[q].status = "running"
    <3>1. CASE pull[q].phase = "none"
      BY <1>7, <3>1 DEF Restart
    <3>2. CASE pull[q].phase # "none"
      <4>1. pull'[q] = Ended(q, "running")
        BY <1>7, <3>2 DEF Restart
      <4> QED
        BY <1>4, <3>2, <4>1, EndedIs
    <3> QED
      BY <3>1, <3>2
  <2> QED
    BY <1>1, <2>1, <2>2, QuietPulls
<1> QED
  BY <1>2, <1>5, <1>6, <1>7, ChangesInventory DEF vars, inventory, PullStep

LEMMA CatalogAlways == Spec => []CatalogInv
  BY CatalogInit, CatalogStep, PTL DEF Spec

\* The catalog holds only rows of pulls that read the bridge to its last page
\* (inventory_puller.py 190-240).
THEOREM CatalogIsOfWholePulls == Spec => []CatalogOfWholePulls
<1>1. CatalogInv => CatalogOfWholePulls
  BY DEF CatalogInv
<1> QED
  BY <1>1, CatalogAlways, PTL

\* Rows of two pulls are in the catalog together only if their transactions
\* overlapped, for any number of pulls (inventory_puller.py 129-149).
THEOREM PullsMixOnlyByOverlap == Spec => []MixedOnlyByOverlap
<1>1. CatalogInv => MixedOnlyByOverlap
  BY DEF CatalogInv
<1> QED
  BY <1>1, CatalogAlways, PTL
---------------------------------------------------------------------------
(* The match runs *)

OneRowPerCve == \A m \in MatchRuns : \A r, s \in run[m].rows : r.cve = s.cve => r = s

RunsInv == TypeOK /\ OneRowPerCve /\ NoRunRefused

\* The three ways to match a CVE exclude one another.
LEMMA OneMethod == \A c : \A how, other \in MethodsOf(c) : how = other
  BY DEF MethodsOf, ByProduct

LEMMA ReadKeepsOneRow ==
  ASSUME TypeOK, NEW m \in MatchRuns, MatchRead(m), NEW r \in run'[m].rows, NEW s \in run'[m].rows,
         r.cve = s.cve
  PROVE  r = s
<1> DEFINE row(c, how) == [cve |-> c, method |-> how, kev |-> c \in kev,
                           buckets |-> TaggedBuckets(c), vendors |-> TaggedVendors(c)]
<1>1. run'[m].rows = UNION {{row(c, how) : how \in MethodsOf(c)} : c \in Filtered}
  BY DEF MatchRead, TypeOK
<1>2. PICK c \in Filtered : r \in {row(c, how) : how \in MethodsOf(c)}
  BY <1>1
<1>3. PICK d \in Filtered : s \in {row(d, how) : how \in MethodsOf(d)}
  BY <1>1
<1>4. PICK how \in MethodsOf(c) : r = row(c, how)
  BY <1>2
<1>5. PICK other \in MethodsOf(d) : s = row(d, other)
  BY <1>3
<1>6. row(c, how).cve = c /\ row(d, other).cve = d
  OBVIOUS
<1>7. c = d
  BY <1>4, <1>5, <1>6
<1>8. how = other
  BY <1>7, OneMethod
<1> HIDE DEF row
<1> QED
  BY <1>4, <1>5, <1>7, <1>8

LEMMA RunsStep == RunsInv /\ [Next]_vars => RunsInv'
<1> SUFFICES ASSUME RunsInv, [Next]_vars PROVE RunsInv'
  OBVIOUS
<1>1. TypeOK'
  BY StepTyped DEF RunsInv
<1>2. CASE run' = run
  BY <1>1, <1>2 DEF RunsInv, OneRowPerCve, NoRunRefused
<1>3. ASSUME NEW m \in MatchRuns, MatchRead(m) PROVE RunsInv'
  <2>1. \A n \in MatchRuns : n # m => run'[n] = run[n]
    BY <1>3 DEF MatchRead
  <2>2. run'[m].status = "running"
    BY <1>3 DEF MatchRead, RunsInv, TypeOK
  <2>3. \A r, s \in run'[m].rows : r.cve = s.cve => r = s
    BY <1>3, ReadKeepsOneRow DEF RunsInv
  <2> QED
    BY <1>1, <2>1, <2>2, <2>3 DEF RunsInv, OneRowPerCve, NoRunRefused
<1>4. ASSUME NEW m \in MatchRuns, MatchWrite(m) PROVE RunsInv'
  <2>1. ~ \E r, s \in run[m].rows : r # s /\ r.cve = s.cve
    BY DEF RunsInv, OneRowPerCve
  <2>2. run' = [run EXCEPT ![m] = [status |-> "success", rows |-> {}]]
    BY <1>4, <2>1 DEF MatchWrite
  <2>3. \A n \in MatchRuns : run'[n] = run[n] \/ (run'[n].status = "success" /\ run'[n].rows = {})
    BY <2>2 DEF RunsInv, TypeOK
  <2> QED
    BY <1>1, <2>3 DEF RunsInv, OneRowPerCve, NoRunRefused
<1>5. CASE Restart
  <2>1. ASSUME NEW n \in MatchRuns PROVE run'[n].rows = {} /\ run'[n].status # "failed"
    <3>1. run[n] \in RunRow /\ run[n].status # "failed"
      BY DEF RunsInv, TypeOK, NoRunRefused
    <3>2. run'[n] = [run[n] EXCEPT !.status = IF @ = "running" THEN "lost" ELSE @, !.rows = {}]
      BY <1>5 DEF Restart
    <3> QED
      BY <3>1, <3>2 DEF RunRow
  <2> QED
    BY <1>1, <2>1 DEF RunsInv, OneRowPerCve, NoRunRefused
<1> QED
  BY <1>2, <1>3, <1>4, <1>5, ChangesRuns DEF vars, RunStep

\* No match run is refused for emitting two rows of one CVE, whatever the tags, the
\* catalog and the preferences are (matcher.py 118-177).
THEOREM RunsAreNeverRefused == Spec => []NoRunRefused
<1>1. Init => RunsInv
  <2> SUFFICES ASSUME Init PROVE RunsInv
    OBVIOUS
  <2>1. \A m \in MatchRuns : run[m].status = "none" /\ run[m].rows = {}
    BY DEF Init, NoRun
  <2> QED
    BY <2>1, InitTyped DEF RunsInv, OneRowPerCve, NoRunRefused
<1>2. RunsInv => NoRunRefused
  BY DEF RunsInv
<1> QED
  BY <1>1, <1>2, RunsStep, PTL DEF Spec

---------------------------------------------------------------------------
(* The feed *)

PagesShipped == \A p \in Polls : poll[p] \subseteq shipped

ShippedInv == TypeOK /\ PagesShipped /\ DeliveredWasShipped

\* Every field of a match the tenant's requests do not set is kept.
LEMMA StampedIs ==
  ASSUME NEW old \in MatchRow
  PROVE  /\ LET new == [old EXCEPT !.delivered = TRUE]
            IN  /\ new.method = old.method /\ new.delivered
                /\ new.acknowledged = old.acknowledged /\ new.suppressed = old.suppressed
         /\ LET new == [old EXCEPT !.acknowledged = TRUE]
            IN  /\ new.method = old.method /\ new.delivered = old.delivered
                /\ new.acknowledged /\ new.suppressed = old.suppressed
         /\ LET new == [old EXCEPT !.suppressed = TRUE]
            IN  /\ new.method = old.method /\ new.delivered = old.delivered
                /\ new.acknowledged = old.acknowledged /\ new.suppressed
  BY DEF MatchRow

LEMMA MarkedKeeps ==
  ASSUME TypeOK, NEW d \in CVEs, Acknowledge(d) \/ Suppress(d), NEW c \in CVEs
  PROVE  /\ match'[c].method = match[c].method
         /\ match'[c].delivered = match[c].delivered
         /\ match[c].acknowledged => match'[c].acknowledged
         /\ match[c].suppressed => match'[c].suppressed
<1>1. match[c] \in MatchRow
  BY DEF TypeOK
<1>2. CASE match'[c] = match[c]
  BY <1>2
<1>3. CASE match'[c] = [match[c] EXCEPT !.acknowledged = TRUE]
  BY <1>1, <1>3, StampedIs
<1>4. CASE match'[c] = [match[c] EXCEPT !.suppressed = TRUE]
  BY <1>1, <1>4, StampedIs
<1> QED
  BY <1>2, <1>3, <1>4 DEF Acknowledge, Suppress, TypeOK

LEMMA WrittenKeeps ==
  ASSUME TypeOK, NEW m \in MatchRuns, MatchWrite(m), NEW c \in CVEs
  PROVE  /\ match[c].method # "none" => match'[c].method # "none"
         /\ match'[c].delivered = match[c].delivered
         /\ match'[c].acknowledged = match[c].acknowledged
         /\ match'[c].suppressed = match[c].suppressed
<1>1. match[c] \in MatchRow
  BY DEF TypeOK
<1>2. CASE match'[c] = match[c]
  BY <1>2
<1>3. ASSUME NEW r \in Emitted, match'[c] = Rematched(match[c], r)
      PROVE  /\ match'[c].method # "none" /\ match'[c].delivered = match[c].delivered
             /\ match'[c].acknowledged = match[c].acknowledged
             /\ match'[c].suppressed = match[c].suppressed
  BY <1>1, <1>3, RematchedTyped
<1> QED
  BY <1>2, <1>3, MatchesWritten

LEMMA ShippedStep == ShippedInv /\ [Next]_vars => ShippedInv'
<1> SUFFICES ASSUME ShippedInv, [Next]_vars PROVE ShippedInv'
  OBVIOUS
<1>1. TypeOK'
  BY StepTyped DEF ShippedInv
<1>2. CASE <<match, feed>>' = <<match, feed>>
  BY <1>1, <1>2 DEF feed, ShippedInv, PagesShipped, DeliveredWasShipped
<1>3. ASSUME NEW m \in MatchRuns, MatchRead(m) \/ MatchWrite(m) PROVE ShippedInv'
  <2>1. poll' = poll /\ shipped' = shipped
    BY <1>3 DEF MatchRead, MatchWrite, feed
  <2>2. ASSUME NEW c \in CVEs PROVE match'[c].delivered = match[c].delivered
    <3>1. CASE MatchRead(m)
      BY <3>1 DEF MatchRead
    <3>2. CASE MatchWrite(m)
      BY <3>2, WrittenKeeps DEF ShippedInv
    <3> QED
      BY <1>3, <3>1, <3>2
  <2> QED
    BY <1>1, <2>1, <2>2 DEF ShippedInv, PagesShipped, DeliveredWasShipped
<1>4. ASSUME NEW d \in CVEs, Acknowledge(d) \/ Suppress(d) PROVE ShippedInv'
  <2>1. poll' = poll /\ shipped' = shipped
    BY <1>4 DEF Acknowledge, Suppress, feed
  <2>2. ASSUME NEW c \in CVEs PROVE match'[c].delivered = match[c].delivered
    BY <1>4, MarkedKeeps DEF ShippedInv
  <2> QED
    BY <1>1, <2>1, <2>2 DEF ShippedInv, PagesShipped, DeliveredWasShipped
<1>5. ASSUME NEW p \in Polls, NEW a \in BOOLEAN, NEW s \in BOOLEAN, List(p, a, s) PROVE ShippedInv'
  <2>1. match' = match /\ shipped \subseteq shipped'
        /\ \A q \in Polls : poll'[q] = poll[q] \/ poll'[q] \subseteq shipped'
    BY <1>5 DEF List, ToStamp, ShippedInv, TypeOK
  <2> QED
    BY <1>1, <2>1 DEF ShippedInv, PagesShipped, DeliveredWasShipped
<1>6. ASSUME NEW p \in Polls, Stamp(p) PROVE ShippedInv'
  <2>1. shipped' = shipped /\ \A q \in Polls : poll'[q] = poll[q] \/ poll'[q] = {}
    BY <1>6 DEF Stamp, ShippedInv, TypeOK
  <2>2. \A c \in CVEs : match'[c] = match[c] \/ c \in poll[p]
    BY <1>6 DEF Stamp
  <2> QED
    BY <1>1, <2>1, <2>2 DEF ShippedInv, PagesShipped, DeliveredWasShipped
<1>7. CASE Restart
  BY <1>1, <1>7 DEF Restart, ShippedInv, PagesShipped, DeliveredWasShipped
<1> QED
  BY <1>2, <1>3, <1>4, <1>5, <1>6, <1>7, ChangesMatches DEF vars, feed, RunStep, FeedStep

LEMMA ShippedAlways == Spec => []ShippedInv
<1>1. Init => ShippedInv
  <2> SUFFICES ASSUME Init PROVE ShippedInv
    OBVIOUS
  <2>1. \A c \in CVEs : ~match[c].delivered
    BY DEF Init, NoMatch
  <2>2. \A p \in Polls : poll[p] = {}
    BY DEF Init
  <2> QED
    BY <2>1, <2>2, InitTyped DEF ShippedInv, PagesShipped, DeliveredWasShipped
<1> QED
  BY <1>1, ShippedStep, PTL DEF Spec

\* A match is stamped delivered only if a page listed it (portal_feed.py 89-165).
THEOREM OnlyShippedIsDelivered == Spec => []DeliveredWasShipped
<1>1. ShippedInv => DeliveredWasShipped
  BY DEF ShippedInv
<1> QED
  BY <1>1, ShippedAlways, PTL

LEMMA KeepsStamps ==
  ASSUME TypeOK, [Next]_vars, NEW c \in CVEs
  PROVE  /\ Matched(c) => Matched(c)'
         /\ match[c].delivered => match'[c].delivered
         /\ match[c].acknowledged => match'[c].acknowledged
         /\ match[c].suppressed => match'[c].suppressed
<1>1. CASE match' = match
  BY <1>1 DEF Matched
<1>2. ASSUME NEW m \in MatchRuns, MatchRead(m) PROVE match' = match
  BY <1>2 DEF MatchRead
<1>3. CASE \E m \in MatchRuns : MatchWrite(m)
  BY <1>3, WrittenKeeps DEF Matched
<1>4. CASE \E d \in CVEs : Acknowledge(d) \/ Suppress(d)
  BY <1>4, MarkedKeeps DEF Matched
<1>5. ASSUME NEW p \in Polls, NEW a \in BOOLEAN, NEW s \in BOOLEAN, List(p, a, s) PROVE match' = match
  BY <1>5 DEF List
<1>6. CASE \E p \in Polls : Stamp(p)
  <2>1. match[c] \in MatchRow
    BY DEF TypeOK
  <2>2. match'[c] = match[c] \/ match'[c] = [match[c] EXCEPT !.delivered = TRUE]
    BY <1>6 DEF Stamp
  <2> QED
    BY <2>1, <2>2, StampedIs DEF Matched
<1>7. Restart => match' = match
  BY DEF Restart
<1> QED
  BY <1>1, <1>2, <1>3, <1>4, <1>5, <1>6, <1>7, ChangesMatches DEF vars, RunStep, FeedStep

\* No step takes a match, or its stamps, away (matcher.py 12-14, 196-204).
THEOREM StampsAreKept == Spec => StampsSurvive
<1>1. TypeOK /\ [Next]_vars =>
        [\A c \in CVEs : /\ Matched(c) => Matched(c)'
                         /\ match[c].delivered => match'[c].delivered
                         /\ match[c].acknowledged => match'[c].acknowledged
                         /\ match[c].suppressed => match'[c].suppressed]_vars
  BY KeepsStamps
<1> QED
  BY <1>1, Typed, PTL DEF Spec, StampsSurvive

---------------------------------------------------------------------------
(* The feed is a mailbox *)

Posted == {c \in CVEs : Matched(c)}
Delivered == {c \in CVEs : match[c].delivered}
Acknowledged == {c \in CVEs : match[c].acknowledged}
Suppressed == {c \in CVEs : match[c].suppressed}
boxVars == <<Posted, shipped, Delivered, Acknowledged, Suppressed>>

\* The mailbox's steps, said of the tenant's feed.
LEMMA BoxIs ==
  /\ Posted = {} /\ shipped = {} /\ Delivered = {} /\ Acknowledged = {} /\ Suppressed = {}
       => Box!Init
  /\ \A some \in SUBSET CVEs :
       \/ Posted' = Posted \cup some /\ UNCHANGED <<shipped, Delivered, Acknowledged, Suppressed>>
       \/ /\ some \subseteq Posted /\ shipped' = shipped \cup some
          /\ UNCHANGED <<Posted, Delivered, Acknowledged, Suppressed>>
       \/ /\ some \subseteq shipped /\ Delivered' = Delivered \cup some
          /\ UNCHANGED <<Posted, shipped, Acknowledged, Suppressed>>
       => Box!Next
  /\ \A c \in Posted :
       \/ /\ Acknowledged' = Acknowledged \cup {c}
          /\ UNCHANGED <<Posted, shipped, Delivered, Suppressed>>
       \/ /\ Suppressed' = Suppressed \cup {c}
          /\ UNCHANGED <<Posted, shipped, Delivered, Acknowledged>>
       => Box!Next
  /\ UNCHANGED boxVars => UNCHANGED Box!mailboxVars
  BY DEF Posted, Delivered, Acknowledged, Suppressed, boxVars, Box!Init, Box!Next, Box!Post,
     Box!Ship, Box!Deliver, Box!Acknowledge, Box!Suppress, Box!mailboxVars

\* A match run posts the CVEs it matches for the first time.
LEMMA WritePosts ==
  ASSUME TypeOK, NEW m \in MatchRuns, MatchWrite(m)
  PROVE  Box!Next
<1>1. \A c \in CVEs : /\ match[c].method # "none" => match'[c].method # "none"
                      /\ match'[c].delivered = match[c].delivered
                      /\ match'[c].acknowledged = match[c].acknowledged
                      /\ match'[c].suppressed = match[c].suppressed
  BY WrittenKeeps
<1>2. Posted' = Posted \cup Posted' /\ Posted' \in SUBSET CVEs
  BY <1>1 DEF Posted, Matched
<1>3. UNCHANGED <<shipped, Delivered, Acknowledged, Suppressed>>
  BY <1>1 DEF MatchWrite, feed, Delivered, Acknowledged, Suppressed
<1> QED
  BY <1>2, <1>3, BoxIs

\* A page ships the CVEs it lists ...
LEMMA ListShips ==
  ASSUME NEW p \in Polls, NEW a \in BOOLEAN, NEW s \in BOOLEAN, List(p, a, s)
  PROVE  Box!Next
<1>1. PICK items \in SUBSET CVEs : items \subseteq Posted /\ shipped' = shipped \cup items
  BY DEF List, Posted
<1>2. UNCHANGED <<Posted, Delivered, Acknowledged, Suppressed>>
  BY DEF List, Posted, Matched, Delivered, Acknowledged, Suppressed
<1> QED
  BY <1>1, <1>2, BoxIs

\* ... and its second statement delivers those it stamps.
LEMMA StampDelivers ==
  ASSUME ShippedInv, NEW p \in Polls, Stamp(p)
  PROVE  Box!Next
<1>1. poll[p] \subseteq shipped /\ poll[p] \in SUBSET CVEs
  BY DEF ShippedInv, PagesShipped, TypeOK
<1>2. ASSUME NEW c \in CVEs
      PROVE  /\ match'[c].method = match[c].method
             /\ match'[c].delivered = (match[c].delivered \/ c \in poll[p])
             /\ match'[c].acknowledged = match[c].acknowledged
             /\ match'[c].suppressed = match[c].suppressed
  <2>1. match[c] \in MatchRow
    BY DEF ShippedInv, TypeOK
  <2>2. match[c].delivered \in BOOLEAN
    BY <2>1 DEF MatchRow
  <2>3. CASE c \in poll[p]
    <3>1. match'[c] = [match[c] EXCEPT !.delivered = TRUE]
      BY <2>3 DEF Stamp
    <3> QED
      BY <2>1, <2>3, <3>1 DEF MatchRow
  <2>4. CASE c \notin poll[p]
    <3>1. match'[c] = match[c]
      BY <2>4 DEF Stamp
    <3> QED
      BY <2>2, <2>4, <3>1
  <2> QED
    BY <2>3, <2>4
<1>3. Delivered' = Delivered \cup poll[p]
  BY <1>1, <1>2 DEF Delivered
<1>4. UNCHANGED <<Posted, shipped, Acknowledged, Suppressed>>
  BY <1>2 DEF Stamp, Posted, Matched, Acknowledged, Suppressed
<1> QED
  BY <1>1, <1>3, <1>4, BoxIs

LEMMA MarkMarks ==
  ASSUME TypeOK, NEW d \in CVEs, Acknowledge(d) \/ Suppress(d)
  PROVE  Box!Next
<1>1. \A c \in CVEs : match[c] \in MatchRow /\ c \in DOMAIN match
  BY DEF TypeOK
<1>2. d \in Posted
  BY DEF Acknowledge, Suppress, Posted
<1>3. CASE Acknowledge(d)
  <2>1. ASSUME NEW c \in CVEs
        PROVE  /\ match'[c].method = match[c].method
               /\ match'[c].delivered = match[c].delivered
               /\ match'[c].acknowledged = (match[c].acknowledged \/ c = d)
               /\ match'[c].suppressed = match[c].suppressed
    BY <1>1, <1>3 DEF Acknowledge, MatchRow
  <2>2. Acknowledged' = Acknowledged \cup {d}
    BY <2>1 DEF Acknowledged
  <2>3. UNCHANGED <<Posted, shipped, Delivered, Suppressed>>
    BY <1>3, <2>1 DEF Acknowledge, feed, Posted, Matched, Delivered, Suppressed
  <2> QED
    BY <1>2, <2>2, <2>3, BoxIs
<1>4. CASE Suppress(d)
  <2>1. ASSUME NEW c \in CVEs
        PROVE  /\ match'[c].method = match[c].method
               /\ match'[c].delivered = match[c].delivered
               /\ match'[c].acknowledged = match[c].acknowledged
               /\ match'[c].suppressed = (match[c].suppressed \/ c = d)
    BY <1>1, <1>4 DEF Suppress, MatchRow
  <2>2. Suppressed' = Suppressed \cup {d}
    BY <2>1 DEF Suppressed
  <2>3. UNCHANGED <<Posted, shipped, Delivered, Acknowledged>>
    BY <1>4, <2>1 DEF Suppress, feed, Posted, Matched, Delivered, Acknowledged
  <2> QED
    BY <1>2, <2>2, <2>3, BoxIs
<1> QED
  BY <1>3, <1>4

\* Every step of the system is one of the mailbox's, or leaves the mailbox alone.
LEMMA FeedIsMailbox == ShippedInv /\ [Next]_vars => [Box!Next]_(Box!mailboxVars)
<1> SUFFICES ASSUME ShippedInv, [Next]_vars PROVE Box!Next \/ UNCHANGED Box!mailboxVars
  OBVIOUS
<1>1. ASSUME match' = match, shipped' = shipped PROVE UNCHANGED Box!mailboxVars
  <2>1. UNCHANGED boxVars
    BY <1>1 DEF boxVars, Posted, Matched, Delivered, Acknowledged, Suppressed
  <2> QED
    BY <2>1, BoxIs
<1>2. CASE <<match, feed>>' = <<match, feed>>
  BY <1>1, <1>2 DEF feed
<1>3. ASSUME NEW m \in MatchRuns, MatchRead(m) PROVE UNCHANGED Box!mailboxVars
  BY <1>1, <1>3 DEF MatchRead, feed
<1>4. CASE \E m \in MatchRuns : MatchWrite(m)
  BY <1>4, WritePosts DEF ShippedInv
<1>5. CASE \E p \in Polls, a, s \in BOOLEAN : List(p, a, s)
  BY <1>5, ListShips
<1>6. CASE \E p \in Polls : Stamp(p)
  BY <1>6, StampDelivers
<1>7. CASE \E d \in CVEs : Acknowledge(d) \/ Suppress(d)
  BY <1>7, MarkMarks DEF ShippedInv
<1>8. CASE Restart
  BY <1>1, <1>8 DEF Restart
<1> QED
  BY <1>2, <1>3, <1>4, <1>5, <1>6, <1>7, <1>8, ChangesMatches DEF vars, RunStep, FeedStep

\* The tenant's feed implements Mailbox for any match runs, pages, restarts and edits:
\* nothing is withdrawn, only what was listed counts as delivered, and no stamp is
\* taken back (matcher.py 12-14, 196-204; portal_feed.py 89-233).
THEOREM FeedKeepsMailbox == Spec => KeepsMailbox
<1>1. Init => Box!Init
  <2> SUFFICES ASSUME Init PROVE Box!Init
    OBVIOUS
  <2>1. \A c \in CVEs : match[c] = NoMatch
    BY DEF Init
  <2>2. Posted = {} /\ Delivered = {} /\ Acknowledged = {} /\ Suppressed = {}
    BY <2>1 DEF NoMatch, Posted, Matched, Delivered, Acknowledged, Suppressed
  <2> QED
    BY <2>2, BoxIs DEF Init
<1> QED
  BY <1>1, ShippedAlways, FeedIsMailbox, PTL DEF Spec, KeepsMailbox, Box!Spec

---------------------------------------------------------------------------
(* The tags *)

LEMMA KeepsOperatorTags ==
  ASSUME TypeOK, [Next]_vars, NEW c \in CVEs
  PROVE  /\ \A v \in Vendors : vtag[c][v] = "operator" => vtag'[c][v] # "auto"
         /\ \A b \in Buckets : btag[c][b] = "operator" => btag'[c][b] # "auto"
<1>1. CASE tags' = tags
  BY <1>1 DEF tags
<1>2. AutoTag("operator") = "operator"
  BY DEF AutoTag
<1>3. ASSUME NEW full \in BOOLEAN, Classify(full)
      PROVE  /\ \A v \in Vendors : vtag'[c][v] \in {vtag[c][v], AutoTag(vtag[c][v])}
             /\ \A b \in Buckets : btag'[c][b] \in {btag[c][b], AutoTag(btag[c][b])}
  BY <1>3 DEF Classify
<1>4. ASSUME NEW d \in CVEs, NEW v \in Vendors, NEW how \in Methods, TagVendor(d, v, how)
      PROVE  btag' = btag /\ \A w \in Vendors : vtag'[c][w] \in {vtag[c][w], "none", "operator"}
  BY <1>4 DEF TagVendor, TypeOK
<1>5. ASSUME NEW d \in CVEs, NEW b \in Buckets, NEW how \in Methods, TagBucket(d, b, how)
      PROVE  vtag' = vtag /\ \A w \in Buckets : btag'[c][w] \in {btag[c][w], "none", "operator"}
  BY <1>5 DEF TagBucket, TypeOK
<1>6. CASE TagStep
  BY <1>2, <1>3, <1>4, <1>5, <1>6 DEF TagStep
<1> QED
  BY <1>1, <1>6, ChangesTags DEF vars

\* The classifier never takes an operator's tag over (classifier.py 4-6).
THEOREM OperatorTagsAreKept == Spec => OperatorTagsSurvive
<1>1. TypeOK /\ [Next]_vars =>
        [\A c \in CVEs :
           /\ \A v \in Vendors : vtag[c][v] = "operator" => vtag'[c][v] # "auto"
           /\ \A b \in Buckets : btag[c][b] = "operator" => btag'[c][b] # "auto"]_vars
  BY KeepsOperatorTags
<1> QED
  BY <1>1, Typed, PTL DEF Spec, OperatorTagsSurvive
=============================================================================
