# TLA+ models of the AAC customer portal

The portal is a FastAPI service over PostgreSQL (`api/`) with a React client
(`frontend/`). Customers upload compliance policies, have them turned into Rego
for OPA, review and publish the result and ship it to their sites in signed
bundles. They also track remediation items, manage their users, and receive the
CVEs that match the software they run.

Almost every handler of the API is a short sequence of SQL statements, often
with an LLM call, an `opa` process or another pool connection in between. What is
hard about it is not any one handler but what happens when two of them overlap:
which values were read before a transaction, which inside it, and under which
lock. That is what the modules here model and what the runs and proofs are about.

Contents

1. Inventory of the system
2. Modules, and how they correspond to the code
3. Runs: what each one checks and shows, its bounds
4. Fairness
5. What is proved
6. What is model-checked only, and what is out of the provers' reach
7. Disagreements between the code and its documentation
8. What is not modelled
9. Plan
10. Running

## 1. Inventory of the system

### Customer policy lifecycle (`routers/policies.py`, `core/rego_generator.py`, `migrations/006`, `012`)

- State: `customer_policies` (status, name, version, structured policy `ir_json`,
  source upload, parent), `customer_policy_targets` (one Rego module per target
  system, its review status, the bundle it shipped in), `policy_uploads` (raw
  documents and Rego texts; rows never change), `policy_audit_log`.
- Operations: upload, fork of a standard policy, IR extraction by an LLM, Rego
  generation, edit / approve / reject of a target, publish, republish (a draft
  successor of a published policy), and reads (detail, list, diff, audit log).
- Interactions: generation and edits call `opa check`; extraction and generation
  call an LLM; a trigger (`enforce_published_immutability`, migration 012) guards
  published rows; bundles read what was published.
- Hard: everything awaited between a check and the transaction that relies on it.
  `publish_policy` is the only handler that locks the policy row. Extraction and
  generation take minutes. Reviews carry over from version to version.
- Correct when: a published row is final and published by one request; nothing
  is approved that no reviewer approved; the audit log explains the state; a
  successor is a copy of its parent.

### Bundle build and delivery (`routers/bundles.py`, `core/bundle_builder.py`, `core/bundle_store.py`, `core/bundle_signer.py`)

- State: `policy_bundles` rows, never changed once written, and
  `published_in_bundle_sha` on targets.
- Operations: build (read, `opa build`, sign, one transaction), the bridge's
  `/current`, `/current/envelope` and by-sha downloads, manifests and history.
  The module's docstring also lists `/{sha256}/envelope`, which has no handler.
- Hard: a build reads rows in one statement and commits seconds later, while
  policies are published and targets are edited, rejected and regenerated;
  several builds overlap.
- Correct when: only reviewed modules of published policies ship; the bundle
  served never goes back; a stamp tells the truth about what shipped.

### Remediation board (`routers/remediation.py`, `migrations/016`)

- State: `remediation_items` (status, assignee, who asked for approval, who
  approved), `remediation_history`.
- Operations: create, assign, submit, approve, reject; list, detail, timeline.
- Hard: transitions of one item overlap; the four-eyes rule looks at a column
  that another transition writes.
- Correct when: item and history tell one story, nobody decides on a submission
  of their own, nothing crosses tenants, no request waits for a lock forever.

### Tenant users, sessions, MFA (`routers/auth.py`, `tenant_users.py`, `me_mfa.py`, `core/sessions.py`, `totp.py`, `migrations/007`)

- State: `tenant_users` (password hash, role, disabled, `mfa_enrolled`,
  `mfa_required`), sessions, MFA factors (secrets and backup codes), password
  reset tokens.
- Operations: login, logout, TOTP and backup-code verification, reset request and
  confirmation, factor setup / confirmation / revocation, user create, update and
  disable.
- Hard: most checks are made outside the transaction that acts on them. A reset
  token's `used_at`, a backup code's `revoked_at` and the number of a tenant's
  other owners are read, then written without looking again; `mfa_enrolled` is
  recomputed from a separate read; a login inserts its session after it read
  the password hash.
- Correct when: a reset token works once, a tenant keeps an owner, `mfa_enrolled`
  says whether a confirmed factor exists, revoking sessions leaves none behind.

### Vulnerability feeds and classification (`feeds/nvd.py`, `cisa_kev.py`, `runner.py`, `classifier.py`, `routers/feeds.py`, `classification.py`)

- State: `cve_events`, vendor and bucket tags, `feed_runs` with the cursor each
  successful run leaves.
- Operations: incremental ingest from NVD in date windows and pages, KEV ingest,
  classification by rules, overrides.
- Hard: failed and overlapping runs and the cursor; pages by offset over a result
  set that changes; upserts of one CVE from two feeds.
- Correct when: no change NVD published before the cursor is missing.

### Matching and CVE delivery (`feeds/matcher.py`, `inventory_puller.py`, `routers/portal_feed.py`, `enrollments.py`)

- State: `tenant_inventory_catalog`, enrolments and their preferences, `tenant_cve_matches`
  with delivered / acknowledged / suppressed marks.
- Operations: inventory pull (delete and insert), matching (upserts), the client's
  paged poll that stamps what it delivered, acknowledge, suppress, preference
  updates.
- Hard: `matched_at` is when the matcher's transaction began, a poll's `since`
  compares with it; `OFFSET` pages over a set that shrinks while it is paged;
  overlapping preference updates and inventory pulls.
- Correct when: every match reaches the client unless it was suppressed, and a
  later match run undoes neither an acknowledgement nor a suppression.

### System audit log, legal holds, AAP jobs (`core/audit.py`, `audit_middleware.py`, `routers/legal_holds.py`, `aap.py`, `migrations/014`, `017`, `018`)

- State: `system_audit_log` (append-only by trigger), hold columns on the
  append-only tables; AAP's jobs, outside this repository.
- Operations: the middleware's record of each request, apply and release of a
  hold, launch / read / cancel of a job.
- Hard: the audit row is written by a task the response does not wait for and
  that swallows errors, and a job's owner is looked up in that row.

### Without concurrent state of their own

- Tenants, tenant tokens, host mappings, baselines: single guarded statements.
- Rate limiting, cookies, CSRF, role checks: per-request checks; the counters are
  a library's.
- Document parsing, LLM and `opa` clients, the standard library, signing: calls
  to other programs. Their outcomes are inputs of the models.
- Compliance reads and PDF/CSV reports: read-only.
- The React client: shows what the API returned last.

## 2. Modules, and how they correspond to the code

| Module | Models | Used by |
|---|---|---|
| `PolicyLifecycle` | the policy pipeline of one tenant | `MCPolicyLifecycle`, `PolicyLifecycleProofs`, `PolicyReviewProofs`, `BundleDelivery` |
| `BundleDelivery` | builds, stamps and delivery, composed with `PolicyLifecycle` | `MCBundleDelivery`, `BundleDeliveryProofs` |
| `ReviewedRelease` | abstract: what reaches a bundle | `BundleDelivery` |
| `FourEyes` | abstract: what the remediation board promises | `Remediation` |
| `Remediation` | the board, statement by statement | `MCRemediation`, `RemediationProofs`, `RemediationTimeline` |
| `RemediationTimeline` | the `at` column and the timeline's order | `MCTimeline`, `RemediationProofs` |
| `TenantAccounts` | users, roles, passwords, sessions, resets, MFA factors | `MCTenantAccounts`, `TenantAccountsProofs` |
| `VulnerabilityFeeds` | NVD's and CISA's ingest, NVD and CISA themselves | `MCVulnerabilityFeeds`, `VulnerabilityFeedsProofs` |
| `Mailbox` | abstract: what a tenant's CVE feed promises | `CveDelivery` |
| `CveDelivery` | tags, enrolments, inventory pulls, match runs and one tenant's feed | `MCCveDelivery`, `CveDeliveryProofs` |
| `SystemAudit` | audit tasks, legal holds, host mappings, AAP jobs | `MCSystemAudit`, `SystemAuditProofs` |
| `MC*` | constants and starting states of the runs | TLC |
| `*Proofs` | theorems | TLAPS |

### PolicyLifecycle

`policy`, `target` and `audit` are the tables. A target's storage key and sha256
are one value, the Rego module itself: `put_rego` only ever inserts. `lock` is the
`FOR UPDATE` lock `publish_policy` takes. `req` holds, per request slot, what a
handler remembers from one statement to the next, which is exactly what may be
stale when it is used.

A handler whose checks and writes are one transaction is one action (`Upload`,
`Fork`). One that reads on the pool, awaits something and then writes is split at
the await:

| Handler | Reads on the pool | Transaction |
|---|---|---|
| `extract_policy_ir` | `ExtractStart` | `ExtractCommit` |
| `generate_policy_rego` | `GenerateStart` | `GenerateDelete`, `GenerateCommit` |
| `edit_policy_target` | `TargetActionStart` | `EditCommit` |
| `approve_`, `reject_policy_target` | `TargetActionStart` | `ReviewCommit` |
| `publish_policy` | | `PublishRead`, `PublishCommit` |
| `republish_policy` | `RepublishStart` | `RepublishCommit` |

Transactions are READ COMMITTED, PostgreSQL's default, which this service does
not change: a statement sees what is committed when it runs. Three consequences
are modelled explicitly. The DELETE of a generation sees the rows there are at
that time (`seen`), and rows that another generation commits in between stay.
The UNIQUE constraint on targets treats NULL subtypes as distinct
(`NoKeyConflict` looks at `SubtypedKeys` only). Inserting an audit or target row
takes a key-share lock on the policy and therefore waits for a publisher
(`Unlocked`); republishing inserts a row of a new policy and does not.

`Abort` is every way a request ends without a commit: LLM, `opa`, a 404 found in
the transaction, the trigger, a constraint, a lost connection. Handlers that are
rejected at their first check change nothing and have no action.

Deleted target rows keep a tombstone (`review = "deleted"`) and ids are not
reused, as with UUIDs. The handler that edits a deleted row commits its audit
row and only then fails; `EditCommit` does the same.

### BundleDelivery

`BuildRead` is the SELECT of `build_tenant_bundle` together with the reads of the
(immutable) Rego texts, `BuildBegin` the BEGIN that fixes `now()`, `BuildCommit`
the INSERT, the stamping UPDATE and the COMMIT, `BuildFail` any error in between.
The sha of a bundle is its content here: the set of its files. Two included rows
with one path overwrite each other (`FilesOf`). `Current` is the
`ORDER BY built_at DESC LIMIT 1` of the bridge's endpoints. The `bundle_built`
audit row is represented by the `policy_bundles` row of the same transaction.

`ReviewedRelease` knows no requests, targets or transactions: policies are opened
under a name, modules approved under a name, policies released, bundles shipped.
`Promise` maps the tables to it: `name` is the policies' names, `approved` the
(policy name, module) pairs of the `target_approved` audit rows (`Approvals`),
`released` the published policies, `shipped` the files of the stored bundles.

### Remediation, FourEyes, RemediationTimeline

Each transition is `Begin`; `Load` (the `SELECT ... FOR UPDATE` and the checks on
the row) or `Refuse` (404, 409, 403, 400); `Commit`. `Create` inserts a row that
only its own transaction sees. `Rollback` is a lost connection or the CHECK
constraint. `FourEyes` knows none of this: its state is each item's trail of
(transition, actor), and its steps append to one trail. `Board == INSTANCE
FourEyes WITH trail <- Trail` maps the history table to it.

`RemediationTimeline` adds the `at` column, whose default `now()` is the time the
*transaction* began, and states what a reader of the timeline expects.

### TenantAccounts

`user`, `session`, `reset` and `factor` are the tables; `req` holds what a request
slot remembers. Outside a transaction every statement on the pool commits by
itself, so a handler is one action per statement that others can come before:

| Handler | Actions |
|---|---|
| `create_tenant_user`, `update_tenant_user`, `enable_tenant_user` | `CreateUser`, `UpdateUser`, `EnableUser` |
| `disable_tenant_user` | `DisableRead`, `DisableCount` (owners only), `DisableCommit` |
| `issue_password_reset` | `IssueRead`, `IssueStamp`, `IssueCommit` |
| `password_reset_confirm` | `RedeemRead`, `Redeem`, `RedeemCommit` |
| `login` | `LoginRead`, `LoginInsert` |
| `set_password` | `Begin`, `SetPassword`, `SetCommit` |
| `logout`, `logout_all` | `Begin`, `Logout` / `LogoutAll` |
| `totp_setup`, `totp_confirm` | `Begin`, `SetupCheck`, `SetupInsert`; `Begin`, `ConfirmRead`, `ConfirmCommit` |
| `revoke_factor` | `Begin`, `RevokeFactor`, `StillEnrolled`, `ClearEnrolled` |
| `totp_verify` | `Begin`, `VerifyTotp`, or `VerifyBackup` and `Burn`, then `VerifyCommit` |

`Begin` is `_resolve_bearer`: session and user are looked at once, when the request
comes in. A change of password is split where it matters: the UPDATE that ends
sessions ends those it *finds* (`ends`), and the hash becomes visible with COMMIT.
A login that inserts its session in between is not found; such a row is marked
`late`, a column of the model and not of the table, as are `under` (the password
the row was inserted under), `asked`, `redeemers` and `issuer`: they record what the
properties speak about and no guard reads them. Wrong passwords, wrong codes and
every other refusal change nothing; `Abort` covers those that come after an
earlier statement committed. Secrets, hashing and expiry are left out: expired rows
behave like those nobody uses.

### VulnerabilityFeeds

`nvd` and `kev` are the services outside: an entry has the time of its last revision
and may be revised at any moment, also while a run pages through it. `cve` is
`cve_events`, `runs` is `feed_runs` in id order, `job` the local variables of the
adapters being run. `Start` is `run_all` or `trigger_run` with a plan of sources;
`Open` inserts the run and computes the first window from `latest_cursor`;
`FetchPage` is one request of `_fetch_window`, by offset into the result set *of that
moment*; `StoreWindow` is the transaction that upserts a window, `_upsert_cve` for
each entry, and goes on to the next; `FetchKev` and `StoreKev` are the KEV ingest;
`CloseSuccess` and `CloseFailed` close the run. `Crash` is a restart, or an exception
nobody catches: the run stays `running` for ever and its windows stay stored.

The cursor is the `now` of the run, which is what the code writes. Of a row the model
keeps which feeds wrote it, NVD's revision, whether CPEs are known and whose vendor
name it has: the columns the two COALESCE rules compete for. `from` and `clean` are
columns of the model: where the chain of windows began, and whether every window
kept its entries while it was paged.

### CveDelivery

One tenant, since every statement is keyed by its id. The tables are `vtag`, `btag`,
`enrolled`, `sub`, `prefs`, `catalog`, `pull`, `run` and `match`; `recent` and `kev` are
what the classifier and the matcher read of `cve_events`. The matcher is one SQL
statement, but a statement reads one snapshot and writes rows later: `MatchRead`
computes the rows (`Filtered`, `MethodsOf`: the joins and the three branches of the
UNION), `MatchWrite` upserts them. `PullOpen`, `PullPage`, `PullDelete`, `PullCommit`
and `PullFail` are `_open_pull_run`, the loop over the bridge's pages, the two
statements of `_replace_tenant_catalog` and the error path. The bridge may answer with
any page and any cursor. `List` reads a page of at most `PageLimit + 1` rows and ships
at most `PageLimit`; `Stamp` is the UPDATE of `delivered_at`. `PutRead` and `PutWrite` are
`set_preferences`. `Restart` loses everything in progress. `Classify` keeps the order of
`classify_recent`: vendors first, then the buckets of every vendor the CVE now has,
for the CVEs in the window or for all.

A denied vendor stops vendor tags and not bucket tags, as in the SQL
(`matcher.py:44`, `:69`), although the comment there speaks of the deny list in
general; a tag an operator removed comes back with the next classification.

`Mailbox` is the feed without SQL: messages are posted, shipped, marked delivered,
acknowledged or suppressed. `Box` maps the rows of `tenant_cve_matches` to the posted
messages, its three stamps to the marks, and `shipped` (what the pages have listed) to
itself.

### SystemAudit

A request that succeeded starts a task (`Spawn`), which writes its row (`Write`) or
fails and is swallowed (`Lose`) at any later time. `ApplyRead`, `ApplyWrite`,
`ReleaseRead`, `ReleaseWrite` are the two statements of a hold's application and
release, `LaunchCheck`, `LaunchJob`, `LaunchAnswer`, `LaunchFail` a launch with AAP in
between, which may start the job and lose the answer. `Owns` is `_tenant_owns_job`:
a row of the log, if it was written.

## 3. Runs

| Run | Module, cfg | Shows |
|---|---|---|
| `policy_lifecycle` | `MCPolicyLifecycle` | the invariants and action properties of the pipeline |
| `frozen_targets` | `FrozenTargets.cfg` | violation: targets change after publication |
| `control_fanout` | `ControlFanout.cfg` | violation: one row for two controls |
| `bundle_delivery` | `MCBundleDelivery` | refinement of `ReviewedRelease`; current never goes back |
| `bundle_stamps` | `BundleStamps.cfg` | violation: a stamp names a bundle without the target |
| `remediation` | `MCRemediation` | board invariants, refinement of `FourEyes`, liveness |
| `remediation_timeline` | `Timeline.cfg` | violation: the timeline is out of order |
| `tenant_accounts` | `MCTenantAccounts` | what logins, resets, factors and owners keep |
| `last_owner` | `Owners.cfg` | violation: two requests leave no active owner |
| `vulnerability_feeds` | `MCVulnerabilityFeeds` | the watermark's promise, the merge of two feeds, no row goes back, liveness |
| `cve_delivery` | `MCCveDelivery` | whole catalogs, refinement of `Mailbox`, kept tags, no refused run, liveness |
| `system_audit` | `MCSystemAudit` | holds and job owners told by the log |

**policy_lifecycle** (228,637 states). Two request slots, two policies, three
target rows, two IRs (one with two controls on one key), two Rego modules, a key
with and one without subtype, at most `MaxLog = 6` audit rows. Two slots are
enough for every overlap of two requests; two policies make a parent and its
successor; six rows are upload, extraction, generation, review, publication and
one more, so every pair of late commits can follow a publication. `OneLineage`
starts the second policy only as the first one's successor, which loses nothing:
policies that are not related share no state. Ids, modules and workers are
symmetric; the run has no liveness property.

- `AuditExplainsReview`: the last audit row about a target names the content and
  the verdict it has now. It would break if an edit kept the verdict, or if the
  UPDATE of a review and its audit row were about different contents.
- `ApprovedWasReviewed`: follows approved content through regeneration and
  copies into successors back to a reviewer.
- `PublishedOnce`, `PublishedIsFinal`: the row lock and the trigger do their job.
- `RequestsRemainValid`: what the handlers read before their transactions, and
  rely on, is still true at commit. It is also half of the inductive invariant.
- `LineageIsRecorded`: one audit row created each policy, and a successor's row follows
  the publication of its parent, which has its name and another version. Parent and
  version are read on the pool long before the successor is inserted; that two
  successors can still get one version is in section 7.
- `SuccessorInheritsParent`: a copy made from a stale read equals the parent now.

**bundle_delivery** (856,312 states). Two builds, two requests, two policies, two
target rows. The run starts from `GeneratedInit`: a policy that was uploaded,
extracted and generated, its target pending; the earlier steps have no bundle to
affect. `MaxBuilds = 2` lets two builds begin in either order and commit in
either order; `MaxLog = 6` leaves three further audit rows: enough to approve,
publish and then edit, reject, regenerate or republish.

- `KeepsReviewedRelease`: every step is one of `ReviewedRelease` or changes nothing it
  sees. A bundle is stored seconds after its rows were read, and still holds only what
  was approved under the policy's name, of policies that were published.
- `StampedWasPublished`, `CurrentNeverGoesBack`: what a stamp does say, and what
  overlapping builds may not do to the bundle served.

**remediation** (`MaxRows = 6`). Two transactions, one item, two users of a tenant
and one of another. Items do not interact: a transaction touches one. Six rows
hold create, assign, submit, reject, submit, approve, so a second submission by
somebody else is reached. `MaxRows` is a guard of `Begin`, so transactions
already begun may exceed it by one.

**tenant_accounts**. Two client slots and one operator slot over one tenant: two
users, two sessions, two resets, two factors, one backup code per enrolment and
at most two passwords per user, one after the other. Three constraints keep it small. `OneCustomer`: the
second user exists only as another owner before anybody has signed in, since
sessions, resets and factors of two users share no row. `TwoRequests`: two overlap at
a time. `FewRows`: four session, reset and factor rows in all, so two of one kind meet
two of another. Ids and slots are symmetric; no property is a liveness property.

- `LiveSessionsFollowPassword`: a live session was opened under the password of now,
  or set it, or was inserted inside the window between a change's UPDATE and its
  COMMIT. It says exactly what the code leaves open, and no more.
- `VerifiedByFactor`: what verified a session asked for MFA was a confirmed factor of
  its user, or a code spent by it. Two sessions may spend one code together.
- `ResetsAreSpent`: used for good, and never twice by one slot: only requests that
  overlap can both succeed (`migrations/007:59` says "exactly once").
- `OnePendingPerIssuer`: resets pile up only if operators overlap.
- `EnrolledUnlessRevoked`: only a revocation's separate statements can let the flag and
  the factors drift apart.
- `OwnersOutliveDisable`: with one operator slot, only a change of role takes the last
  owner. With two it is false: that is `last_owner`.

**vulnerability_feeds**. One worker runs NVD then KEV, another KEV: cron and an
operator. Two entries on pages of one, windows of one day, three days, three runs: a
first run looks back over two windows, a second continues from its cursor or repeats
what a failed one left, and entries move between pages and out of windows while they
are paged. `PlainSecondEntry` keeps the second entry for paging alone and `FewRuns`
allows one KEV run and one run that fails or is interrupted, so that a failure falls
between any two successes. KEV runs never move the watermark.

- `WatermarkCovers`: everything NVD revised between the start of a chain of runs and
  the cursor is stored as revised, unless an entry left a window while it was paged.
  It relates the world, the table and the run log over several runs.
- `RowsMergeTheFeeds`: order of the feeds does not matter for the vendor column.
- `RowsNeverGoBack`: each feed writes rows it read pages ago, and no step puts an older
  revision back or takes away what the other feed wrote.
- `RunsEnd`: an opened run ends although result sets change under its offsets.

**cve_delivery**. Two CVEs, one bucket, one vendor, two catalog items, two pulls, two
match runs, one poll, one PUT and three edits by operators. One CVE is found by
vendor, CPE and product, the other only by product, so each branch of the matcher is
taken and CPE hits hide product hits. `RowLimit = 1` makes a second page exceed it.
`Separate` lets the second pull meet only the first and keeps match runs and PUTs apart
from pulls under way: they share only `catalog`, which a match run reads in one step.
`OneAnswered` and `OneKindOfTag` spare the mirror images of acknowledging the other CVE
and of tagging it in the other way.

- `CatalogOfWholePulls`, `MixedOnlyByOverlap`: what a failed, endless or overlapping
  pull may do to the catalog.
- `NoRunRefused`: an upsert that meets one row twice is an error in PostgreSQL
  ("cannot affect row a second time"); the three branches must exclude each other.
- `KeepsMailbox`: the matches implement `Mailbox`. The extra row of a page is not
  stamped, no match run, however stale its snapshot, withdraws a match or undoes a
  stamp, and nothing is acknowledged that was never posted.
- `OperatorTagsSurvive`: the classifier runs again and again over edited rows.
- `PullsEnd`: pulls end even if the bridge's cursors go in circles.

**system_audit**. Two slots, two tenants, two jobs, one row with two possible reasons
and three audit entries: apply, release, apply; or launches of both tenants beside a
hold. All ids are symmetric.

- `LogTellsHolds`: as long as no task is late or lost, the log has one application more
  than releases exactly while the row is held.
- `NoForeignStatus`: job ids are AAP's, rows are written late, and still a tenant is
  answered only about jobs it launched.

The two liveness properties of these runs are checked under the state constraints
named above, which cut behaviours short: they are shown for the behaviours that stay
inside them.

**The violations** each check one property that quotes the repository; section 7
says what they show. Their cfgs are the instances above (`Timeline.cfg` with
`MaxRows = 5`).

Each property of a passing run is also run against a *faulty variant* of an
operator, kept next to it in the module (`PublishReadUnlocked` beside
`PublishRead`, say): the change a plausible bug would make, under which TLC finds
the property violated. They are used nowhere else.

Deadlock is not checked: clients need not call, and the logs are bounded.

## 4. Fairness

`PolicyLifecycle` and `BundleDelivery` assume none: an LLM or `opa` may take
forever (the timeouts of `core/rego_validator.py` and `bundle_builder.py` cover
the start of the process, not its output) and their properties are safety.

`Remediation` assumes, per request, weak fairness of `Commit` and strong fairness
of `Load \/ Refuse`. Once a transaction holds its row lock the handler runs two
more statements and COMMIT, with nothing else to wait for; a lost connection
ends it as well (`Rollback`). PostgreSQL queues those who wait for a row, so one
that waits while others come and go is served: strong fairness, since the lock is
free again and again but not continuously. Nothing is assumed about `Start`: users
may stop. `RequestsEnd` follows only because every path releases the lock, which
is what its faulty variant breaks.

`VulnerabilityFeeds` assumes weak fairness of `Proceed`, the next step of a run that was
opened: the event loop goes on with a task, and every request to NVD or CISA is
answered or fails by the client's timeout. Failing (`CloseFailed`, `Crash`) is possible
and never required; nothing is assumed about `Start`. `CveDelivery` assumes the same of
an inventory pull, where a failing page is one of the ways to proceed.
`TenantAccounts` and `SystemAudit` state safety only.

## 5. What is proved

The theorems hold for any sets of workers, builds, policies, targets, users, items
and contents and any value of the bounds, from the assumptions the modules name
(`None` is no id, the plan of each IR is a finite set of controls and keys, the
ids of target rows are finitely many, and so on).

| Module | Theorem | Property |
|---|---|---|
| `PolicyLifecycleProofs` | `BaseInvariant` | `Spec => []Base` |
| | `TypeCorrect` | `TypeOK` |
| | `RequestsStayValid` | `RequestsRemainValid` |
| | `ReferencesAreKept` | `ReferencesHold` |
| | `PublishedRowsAreFinal` | `PublishedIsFinal` |
| | `SuccessorsInherit` | `SuccessorInheritsParent` |
| | `PolicyIsPublishedOnce` | `PublishedOnce` |
| `PolicyReviewProofs` | `AuditExplainsReviews` | `AuditExplainsReview` |
| | `ApprovedContentWasReviewed` | `ApprovedWasReviewed` |
| | `LineageIsKept` | `LineageIsRecorded` |
| | `EveryChangeGetsARow` | `EveryChangeIsLogged` |
| `BundleDeliveryProofs` | `BundlesAreTyped` | `BundleTypeOK` |
| | `BundlesHoldReviewedContent` | `BundleContentReviewed` |
| | `StampedTargetsArePublished` | `StampedWasPublished` |
| | `CurrentOnlyMovesForward` | `CurrentNeverGoesBack` |
| | `BundlesOnlyRead` | `BundleSpec => Spec` of `PolicyLifecycle` |
| | `PipelineKeepsReviewedRelease` | `KeepsReviewedRelease` |
| `RemediationProofs` | `BoardInvariant` | `Spec => []Inv` |
| | `RowsAreTyped` | `TypeOK` |
| | `HistoriesAreChains` | `HistoryIsAChain` |
| | `ColumnsMatchHistories` | `ApprovalColumnsMatchHistory` |
| | `ItemsStayInTheirTenant` | `OneTenantPerItem` |
| | `BoardKeepsFourEyes` | `KeepsFourEyes` |
| | `TimelineWatchesTheBoard` | `TimelineSpec` implies the board's steps and `[]Inv` |
| | `LaterIsShownLater` | `LaterRequestsShownLater` |
| `TenantAccountsProofs` | `Typed` | `TypeOK` |
| | `RedeemedIsSpent` | `ResetsAreSpent` |
| | `OnePendingReset` | `OnePendingPerIssuer` |
| | `VerifiedByOwnFactor` | `VerifiedByFactor` |
| | `EnrolledTells` | `EnrolledUnlessRevoked` |
| | `LiveSessionsFollow` | `LiveSessionsFollowPassword` |
| | `OwnersKeptBySlot` | `OwnersOutliveDisable`, if there is one operator slot |
| | `WhatEndedIsFinal` | `EndedIsFinal` |
| `VulnerabilityFeedsProofs` | `Typed` | `TypeOK` |
| | `RowsInvariant` | `Spec => []RowsInv` |
| | `RowsMerge` | `RowsMergeTheFeeds` |
| | `WatermarkIsKept` | `WatermarkCovers`, if one worker runs NVD |
| | `NothingIsInvented` | `NothingInvented` |
| | `RowsGoForward` | `RowsNeverGoBack`, if one worker runs NVD |
| `CveDeliveryProofs` | `Typed` | `TypeOK` |
| | `CatalogIsOfWholePulls` | `CatalogOfWholePulls` |
| | `PullsMixOnlyByOverlap` | `MixedOnlyByOverlap` |
| | `RunsAreNeverRefused` | `NoRunRefused` |
| | `OnlyShippedIsDelivered` | `DeliveredWasShipped` |
| | `StampsAreKept` | `StampsSurvive` |
| | `OperatorTagsAreKept` | `OperatorTagsSurvive` |
| | `FeedKeepsMailbox` | `KeepsMailbox` |
| `SystemAuditProofs` | `Typed` | `TypeOK` |
| | `StatusOfOwnJobs` | `NoForeignStatus` |
| | `LogTellsEveryHold` | `LogTellsHolds` |
| | `EveryAnswerIsLogged` | `AnswersAreLogged` |

### The policy pipeline

The inductive invariant is `Base == TypeOK /\ RequestsRemainValid /\
ReferencesHold`. None of the three is inductive alone. That `ExtractCommit` writes
to a row that exists needs what the request remembers; that `PublishCommit`
leaves other published rows alone, and that a policy is published once, needs the
lock to be still held and the row still a draft at commit; that a request's facts
survive other requests' steps needs published rows to be final; and that a review
stays about a target of its policy needs target rows never to move.

The proof has one lemma per action (`BaseUpload`, ..., `BaseRepublish`). Each gives
`Base'` and that the step is `Harmless`: existing policies stay, published ones
are unchanged, targets keep their policy and never become absent again. From
`Harmless` follow the requests' facts, `PublishedIsFinal`, and the other theorems.

`PolicyReviewProofs` splits the transactions in two. One that judges no target
(`UnjudgedStep`) appends a row without a target; a target it creates or copies
has no audit row yet, since its id was absent and `ReferencesHold` lets no row
name it, and whatever is approved afterwards was approved before under a policy
of the same name (`CarriedOver`), names being kept. One that judges a target
(`JudgedStep`: edit, approve, reject) appends the row that becomes the last word
on it, and writes the same content and verdict to the target. The difficult case
is an edit of a target deleted meanwhile: the row is appended, but the target is
not present, so there is nothing to explain.

For the lineage, `WhatIsLogged` says of every row appended what happened to the
policies: a creation adds the row's policy and no other, anything else keeps names
and versions. `VersionsDiffer`, that a request to republish goes for another version
than its parent's, is carried from its read to its commit by the finality of
published rows; `PublishedOnce` gives the earlier `published` row of the parent.
`EveryChangeIsLogged` is what an auditor of the frozen-targets divergence can rely on:
each change of a policy or target, before publication or after, has a row of its own
under its policy. A generation deletes what its DELETE found earlier, so the proof
carries that those rows are of its policy (`SeenBelong`).

### Bundles

Every step of `BundleSpec` is a step of `PolicyLifecycle` or leaves its tables
alone (`BundlesOnlyRead`), so its theorems carry over (`TablesAlways`). `BundleInv` adds that the
files of stored bundles *and of running builds* were approved and their policies
published. This has to hold of a build from the moment it read, because what it
read may be rejected or replaced before it commits; it stays true because the log
only grows and names stay (`ShippedStays`), whereas "is approved now" would not.

That the served bundle never goes back needs some bundle to be the newest, so
that the CHOOSE of `Current` means something. `NewestExists` is proved as an
invariant of the steps, each of which adds at most one bundle, and not by
induction over the sequence.

`PipelineKeepsReviewedRelease` maps each step. A creation opens a policy, an
approving `ReviewCommit` approves what its audit row names, `PublishCommit` releases: the
approved target it counted had a row in the log by `ApprovedWasReviewed`, and
`PublishersVouched` carries this from its read to its commit, even if the target itself
is rejected or replaced in between. `BuildCommit` ships, and each of its
files may be shipped by `BundleInv`. Every other step leaves the mapped state alone.

### The remediation board

`Inv == TypeOK /\ LocksHeld /\ Story`. `LocksHeld` says that a transaction that
loaded a row still holds its lock, and that the checks it made are still true:
without it a commit could write over a status that is no longer the one it
checked. `Story` is the three invariants of the run and `RowsSayTransitions`
(each history row has the status of its transition), by which the status of an
item tells what its last row was; the approval columns then follow from the
chain. For the refinement, a `Commit` or `Create` appends one entry to `Trail`,
and `ApprovalColumnsMatchHistory` turns the check of the requester column into
what `FourEyes` asks of the trail; every other step leaves `Trail` as it is.

The timeline of `get_history` is not in order (section 7), and
`LaterRequestsShownLater` says what is left: a transition whose transaction began after
another had committed is shown after it, and the creation first. `TimeInv` adds to
`Inv` that each row's `at` lies before its own place in the history (`Timely`) and that
a running request began when its item had rows that it still has (`Begun`).

### Accounts

`AccountsInv` is the type invariant, what each request's phase implies about the rows
it works on (`Serving`: a session or a factor it names exists and is its user's), that
rows name users that exist, and `Locked`: at most one change of password of a user is
under way. Each property then has its own
strengthening. `StampSees`: between its UPDATE and its INSERT an issuer has seen every
reset it issued that is still pending, which is what makes one pending reset per slot
inductive. `VerifiedNamed`: the factor a session names still counts, since nothing
confirmed or spent is ever undone (`Persist`). `ChangeEnds`: a change under way has every live session in `ends` that is not
its own and not `late`. `OwnerLeft`: a request that is about to disable an owner still leaves
another; a single slot has nothing else come before its UPDATE, two have. `EndedIsFinal`
is an action property: `AccountsInv` is enough, since a verification, a logout or a
redemption that is still on its way writes columns that do not bring anything back, and
a row is inserted only where there was none.

### The watermark

`FeedsInv` says that a job fits its row of `runs` (`Fit`) and that no run's `now` is
ahead of the clock; `RowsInv` adds `RowsMergeTheFeeds`. `WatermarkInv` is the argument
proper. Of a clean run it says that everything listed from the start of its chain to
its current window is stored, and that the pages brought every entry of the window at
an offset below `index` in its present revision (`PageBrings`, `LastPage`). A revision
moves an entry to the time of the clock, out of every window of the runs there are, so
what is listed in a past window only shrinks (`ListedShrinks`); if an entry leaves the
current window between two of its pages, the run is no longer clean. When the last
page is stored the window joins what is covered (`StoreCovers`). Nobody else writes
revisions while one worker runs NVD (`CoveredStays`), and the success of a run is the
promise the next one's `from` builds on (`NewSuccess`). Offsets are cardinalities of
sets of smaller positions: the lemmas about them rest on the library's theorems on
finite sets.

`HonestInv` says of rows and of what a job has fetched that they are not ahead of the
feeds: no newer revision, no CPEs and no KEV mark the feed did not give. `ForwardInv`
adds the other bound: what the one NVD worker has fetched is not older than the row it
is going to write (`Later`). KEV's upsert does not write the revision, and NVD's is the
only one under way, so no other step can move the row past what was fetched.

### Delivery and audit

`CatalogInv`: a pull that is replacing the catalog saw, in its DELETE, every row but
those of pulls it overlaps, overlapping is mutual, and a row names a pull that
succeeded. `RunsInv`: the rows a running match run has computed hold one row per CVE,
because the three branches exclude one another. `ShippedInv`: what a request still has to stamp was shipped.
`StampsAreKept` and `OperatorTagsAreKept` are action properties and follow step by step
from the types. `OwnersInv`: every launch row, pending ones included, and every
request past its check names the tenant of its job, and owners never change.
`HoldsInv`: the entries of a row, whatever their state, balance with its hold; it is a
count, so every `Spawn` has a lemma on what one more entry does to a cardinality.
`LoggedInv` strengthens `OwnersInv` by `LaunchesOnce`, a job has at most one launch entry
and none while its launcher is still to answer, and `OwnersLogged`, whoever passed the
check has a written row, which nothing unwrites.

`FeedKeepsMailbox` needs `ShippedInv` for what is listed and stamped. A match run's
upsert posts some messages and leaves all marks; a restart, a lost statement or an edit
by an operator is a stutter.

## 6. What is model-checked only

- `RequestsEnd`, `RunsEnd` and `PullsEnd`: liveness under fairness is out of TLAPS's
  reach, as is anything about `ENABLED`. The fairness conjuncts are used by TLC only.
- Induction over data (what a recursive definition computes for every input) is
  out of reach too; no module needs one so far, and none declares a RECURSIVE
  operator.
- `OneNvdWorker` in `WatermarkIsKept` and `RowsGoForward` is the deployment of cron, not
  a restriction of the code: with `trigger_run` beside it both fail, as `feeds.py:81`
  in the hazards says.
- The five violations of section 7 are counterexamples TLC finds. That
  `OwnersOutliveDisable` holds for one operator slot is proved, that it fails for two is
  such a counterexample, and so is the timeline that is out of order.

Every other property of a passing run is proved. Proved beyond what the runs check are
`ReferencesHold`, `BundleContentReviewed`, `DeliveredWasShipped`, `StampsSurvive`,
`NothingInvented`, `LaterRequestsShownLater`, `AnswersAreLogged`, `EndedIsFinal` and
`EveryChangeIsLogged`: each of them is part of a property a run checks, or was checked
on the run's instance before it was proved.

## 7. Disagreements between the code and its documentation

- **Frozen targets** (`TargetsFrozenOncePublished`). `routers/policies.py:913`:
  "Once a policy is published, its targets are frozen". The status is read on the
  pool, the target written in a later transaction that does not look at it;
  generation does not read it at all. An edit, review or generation that began on
  a draft, or any later generation, changes the targets of a published policy.
- **One module per control** (`OneTargetPerControl`). `routers/policies.py:407`
  promises one module per (control, target). The loop deletes by (policy, system,
  subtype) before each insert: of several controls for one system the last stays,
  and the response counts all.
- **Stamps** (`StampedIsInBundle`). `routers/bundles.py:131`: the stamp is there so
  that audit can say what was in the bundle. It goes to what is published and
  approved when the build commits, not to what the build read.
- **Timeline** (`TimelineInOrder`). `tests/test_remediation_integration.py:289`
  expects the timeline to list transitions in the order they happened. It is
  sorted by when their transactions began; one that waited for the row lock is
  shown too early.
- **Last owner** (`OwnersOutliveDisable` with two operators).
  `routers/tenant_users.py:203`: "there must always be at least one" active owner. The
  others are counted in a statement of its own (`:217`) and the UPDATE (`:237`) does
  not repeat the condition: two requests for two owners each count the other.

Behaviour the models contain and no document speaks about: two overlapping
republish requests can create the same (name, version) twice; two overlapping
generations can leave two rows with one system and no subtype, of which a bundle
holds one file and counts two; `republish_policy` copies the parent's targets as
they are at that moment, late edits included; a PATCH of a user's role can take the
last owner; two confirmations of one reset can both succeed if they overlap; a
revocation beside a confirmation can leave a confirmed factor with `mfa_enrolled`
false; of two overlapping PUTs of preferences one is lost; a released hold's
`prior_reason` can be that of an earlier hold (`legal_holds.py:200`); a launch whose
audit row is lost has no owner any more.

## 8. What is not modelled

- The components without concurrent state of their own (end of section 1), apart from
  host mappings and baseline rows, which `SystemAudit` needs. A model of tenants, tokens,
  rate limits, parsing, reports or the client would restate single statements or
  functions without state; nothing in them depends on an order of steps.
- Hazards without a property, for want of a promise to state or because the model
  leaves the data out: matches that become visible behind a poll's `since`, and ties
  of `matched_at` (the feed's order is left out of `CveDelivery`); overlapping NVD runs
  (`feeds.py:81`; `VulnerabilityFeeds` runs one at a time, as cron does, and the proof
  assumes it); the one-hour window of the classification after a run
  (`runner.py:39`); lost preference updates (`enrollments.py:203`).
- Removal from CISA's list: no code notices it. Audit rows of failed requests: nothing
  reads them. Expiry of sessions, resets and drafts: an expired row is one nobody uses.
- Formats: Rego texts, IR contents, manifests, envelopes, diffs. Two contents are
  equal or not; that is all the properties look at.
- Roles, sessions and MFA in front of the handlers: a request in the models is one
  that was let in. In `PolicyLifecycle` there is one tenant, since every statement
  carries the caller's tenant; `Remediation` has two because items name users.
- Deletion of tenants, users and policies by an administrator in SQL (`ON DELETE`
  clauses); the API deletes none of them.
- `opa build` rejecting the set of files is `BuildFail`.

## 9. Plan

Order: what carries the product first.

1. `PolicyLifecycle` and its proofs (done).
2. `BundleDelivery` on top of it and its proofs (done).
3. `FourEyes`, `Remediation` and the proof that the one implements the other (done).
4. `TenantAccounts` and its proofs (done).
5. `VulnerabilityFeeds` and its proofs (done).
6. `CveDelivery` and its proofs (done).
7. `SystemAudit` and its proofs (done).

What would add most next: the feed's `matched_at` order and a client that polls with
`since`, so that "every match reaches the client" can be stated; and `CveDelivery` on top of `VulnerabilityFeeds`, with
`updated_at` in place of `recent`.

## 10. Running

```
tlc -workers 2 -config MCPolicyLifecycle.cfg MCPolicyLifecycle.tla
tlc -workers 2 -config BundleStamps.cfg MCBundleDelivery.tla
tlapm PolicyLifecycleProofs.tla
```

`PROJECT.json` lists the runs with the properties each checks, the faulty variant
for each property, the source lines every definition stands for, the hazards of
the code and the theorems.
