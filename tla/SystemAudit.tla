------------------------------ MODULE SystemAudit ------------------------------
(***************************************************************************)
(* The system audit log and what leans on it: a request's row is written   *)
(* by a task that outlives the request and may fail, legal holds are told  *)
(* apart by their rows, and a tenant sees the AAP jobs its rows name.      *)
(*                                                                         *)
(* Requests that fail are logged too; their rows name no resource and      *)
(* nothing reads them, so only the rows of holds and launches are kept.    *)
(* The host mappings are those of one framework, the hosts' rows distinct. *)
(***************************************************************************)
EXTENDS Naturals, FiniteSets

CONSTANTS
  Workers,   \* request slots
  Tenants,
  Hosts,
  Jobs,      \* ids AAP gives to jobs
  Rows,      \* policy_audit_log and baseline_snapshots rows that may be held
  Reasons,   \* legal_hold_reason texts
  Entries,   \* ids of system_audit_log rows
  None

ASSUME NoneAssumption == None \notin Tenants \cup Hosts \cup Jobs \cup Rows \cup Reasons
ASSUME EntriesAssumption == IsFiniteSet(Entries)

VARIABLES
  mapping,  \* tenant_host_mapping: <<tenant, host>> pairs
  hold,     \* legal_hold_reason of the rows inserted so far, None while NULL
  job,      \* AAP's jobs: Jobs -> state, launching tenant and host
  req,      \* Workers -> the request being served
  entry,    \* Entries -> the audit task and, once it is written, its row
  shown     \* <<tenant, job>> pairs for which a status was answered

vars == <<mapping, hold, job, req, entry, shown>>

NoJob == [state |-> "none", tenant |-> None, host |-> None]
NoReq == [op |-> "none", tenant |-> None, host |-> None, job |-> None,
          row |-> None, reason |-> None]
NoEntry == [state |-> "none", op |-> "none", tenant |-> None, resource |-> None,
            reason |-> None]

Init ==
  /\ mapping = {}
  /\ hold = [r \in {} |-> None]
  /\ job = [j \in Jobs |-> NoJob]
  /\ req = [w \in Workers |-> NoReq]
  /\ entry = [e \in Entries |-> NoEntry]
  /\ shown = {}

Inserted == DOMAIN hold

\* The middleware starts a task with what the handler left on the request.
Spawn(op, tenant, resource, reason) ==
  \E e \in Entries :
    /\ entry[e] = NoEntry
    /\ entry' = [entry EXCEPT ![e] = [state |-> "pending", op |-> op, tenant |-> tenant,
                                      resource |-> resource, reason |-> reason]]

Done(w) == req' = [req EXCEPT ![w] = NoReq]

---------------------------------------------------------------------------
(* Audit tasks *)

\* record_audit: the row is inserted ...
Write(e) ==
  /\ entry[e].state = "pending"
  /\ entry' = [entry EXCEPT ![e].state = "written"]
  /\ UNCHANGED <<mapping, hold, job, req, shown>>

\* ... or the failure logged and swallowed.
Lose(e) ==
  /\ entry[e].state = "pending"
  /\ entry' = [entry EXCEPT ![e].state = "lost"]
  /\ UNCHANGED <<mapping, hold, job, req, shown>>

---------------------------------------------------------------------------
(* Legal holds *)

\* ingest_baseline, manual_import_baseline, or any entry of the policy audit
Insert(r) ==
  /\ r \notin Inserted
  /\ hold' = [s \in Inserted \cup {r} |-> IF s = r THEN None ELSE hold[s]]
  /\ UNCHANGED <<mapping, job, req, entry, shown>>

\* apply_legal_hold: the row is read ...
ApplyRead(w, r, reason) ==
  /\ req[w] = NoReq
  /\ r \in Inserted /\ hold[r] = None
  /\ req' = [req EXCEPT ![w] = [NoReq EXCEPT !.op = "apply", !.row = r, !.reason = reason]]
  /\ UNCHANGED <<mapping, hold, job, entry, shown>>

\* Faulty variant: the UPDATE does not ask whether the row is held by now.
ApplyWriteBlind(w) ==
  /\ req[w].op = "apply"
  /\ hold' = [hold EXCEPT ![req[w].row] = req[w].reason]
  /\ Spawn("apply", None, req[w].row, req[w].reason)
  /\ Done(w)
  /\ UNCHANGED <<mapping, job, shown>>

\* ... and held unless it has been meanwhile: 409.
ApplyWrite(w) ==
  /\ req[w].op = "apply"
  /\ IF hold[req[w].row] = None
     THEN /\ hold' = [hold EXCEPT ![req[w].row] = req[w].reason]
          /\ Spawn("apply", None, req[w].row, req[w].reason)
     ELSE UNCHANGED <<hold, entry>>
  /\ Done(w)
  /\ UNCHANGED <<mapping, job, shown>>

\* release_legal_hold: the reason read is the prior_reason of the entry,
ReleaseRead(w, r) ==
  /\ req[w] = NoReq
  /\ r \in Inserted /\ hold[r] # None
  /\ req' = [req EXCEPT ![w] = [NoReq EXCEPT !.op = "release", !.row = r, !.reason = hold[r]]]
  /\ UNCHANGED <<mapping, hold, job, entry, shown>>

\* the hold cleared the one found by the UPDATE.
ReleaseWrite(w) ==
  /\ req[w].op = "release"
  /\ IF hold[req[w].row] # None
     THEN /\ hold' = [hold EXCEPT ![req[w].row] = None]
          /\ Spawn("release", None, req[w].row, req[w].reason)
     ELSE UNCHANGED <<hold, entry>>
  /\ Done(w)
  /\ UNCHANGED <<mapping, job, shown>>

---------------------------------------------------------------------------
(* Host mappings and AAP jobs *)

\* create_mapping
CreateMapping(t, h) ==
  /\ <<t, h>> \notin mapping
  /\ mapping' = mapping \cup {<<t, h>>}
  /\ UNCHANGED <<hold, job, req, entry, shown>>

\* delete_mapping
DeleteMapping(t, h) ==
  /\ <<t, h>> \in mapping
  /\ mapping' = mapping \ {<<t, h>>}
  /\ UNCHANGED <<hold, job, req, entry, shown>>

\* launch: the host is looked up among the tenant's ...
LaunchCheck(w, t, h) ==
  /\ req[w] = NoReq
  /\ <<t, h>> \in mapping
  /\ req' = [req EXCEPT ![w] = [NoReq EXCEPT !.op = "launch", !.tenant = t, !.host = h]]
  /\ UNCHANGED <<mapping, hold, job, entry, shown>>

\* ... and AAP asked, which starts a job or not,
LaunchJob(w, j) ==
  /\ req[w].op = "launch"
  /\ job[j] = NoJob
  /\ job' = [job EXCEPT ![j] = [state |-> "running", tenant |-> req[w].tenant,
                                host |-> req[w].host]]
  /\ req' = [req EXCEPT ![w].op = "launched", ![w].job = j]
  /\ UNCHANGED <<mapping, hold, entry, shown>>

\* and whose answer comes back ...
LaunchAnswer(w) ==
  /\ req[w].op = "launched"
  /\ Spawn("launch", req[w].tenant, req[w].job, None)
  /\ Done(w)
  /\ UNCHANGED <<mapping, hold, job, shown>>

\* Faulty variant: the resource is set before AAP has answered.
LaunchFailNamed(w) ==
  /\ req[w].op \in {"launch", "launched"}
  /\ Spawn("launch", req[w].tenant, req[w].job, None)
  /\ Done(w)
  /\ UNCHANGED <<mapping, hold, job, shown>>

\* ... or does not: 502, with a job or without.
LaunchFail(w) ==
  /\ req[w].op \in {"launch", "launched"}
  /\ Done(w)
  /\ UNCHANGED <<mapping, hold, job, entry, shown>>

\* A job ends, and AAP forgets it.
JobEnds(j) ==
  /\ job[j].state \in {"running", "ended"}
  /\ job' = [job EXCEPT ![j].state = IF @ = "running" THEN "ended" ELSE "pruned"]
  /\ UNCHANGED <<mapping, hold, req, entry, shown>>

\* Faulty variant: any tenant's launch will do.
OwnsAny(t, j) == \E e \in Entries :
  entry[e].state = "written" /\ entry[e].op = "launch" /\ entry[e].resource = j

\* _tenant_owns_job
Owns(t, j) == \E e \in Entries :
  /\ entry[e].state = "written" /\ entry[e].op = "launch"
  /\ entry[e].tenant = t /\ entry[e].resource = j

\* job_status: the tenant's row is looked up ...
StatusCheck(w, t, j) ==
  /\ req[w] = NoReq
  /\ Owns(t, j)
  /\ req' = [req EXCEPT ![w] = [NoReq EXCEPT !.op = "status", !.tenant = t, !.job = j]]
  /\ UNCHANGED <<mapping, hold, job, entry, shown>>

\* ... and AAP asked: a job it has forgotten is a 404.
StatusAnswer(w) ==
  /\ req[w].op = "status"
  /\ shown' = IF job[req[w].job].state = "pruned" THEN shown
              ELSE shown \cup {<<req[w].tenant, req[w].job>>}
  /\ Done(w)
  /\ UNCHANGED <<mapping, hold, job, entry>>

---------------------------------------------------------------------------
Next ==
  \/ \E e \in Entries : Write(e) \/ Lose(e)
  \/ \E r \in Rows : Insert(r)
  \/ \E w \in Workers, r \in Rows : ReleaseRead(w, r) \/ \E why \in Reasons : ApplyRead(w, r, why)
  \/ \E w \in Workers : \/ ApplyWrite(w) \/ ReleaseWrite(w)
                        \/ LaunchAnswer(w) \/ LaunchFail(w) \/ StatusAnswer(w)
  \/ \E t \in Tenants, h \in Hosts : CreateMapping(t, h) \/ DeleteMapping(t, h)
  \/ \E w \in Workers, t \in Tenants, h \in Hosts : LaunchCheck(w, t, h)
  \/ \E w \in Workers, t \in Tenants, j \in Jobs : StatusCheck(w, t, j)
  \/ \E w \in Workers, j \in Jobs : LaunchJob(w, j)
  \/ \E j \in Jobs : JobEnds(j)

Spec == Init /\ [][Next]_vars

---------------------------------------------------------------------------
JobState ==
  {NoJob} \cup [state : {"running", "ended", "pruned"}, tenant : Tenants, host : Hosts]
LaunchEntry ==
  [state : {"pending", "written", "lost"}, op : {"launch"}, tenant : Tenants,
   resource : Jobs, reason : {None}]
HoldEntry ==
  [state : {"pending", "written", "lost"}, op : {"apply", "release"}, tenant : {None},
   resource : Rows, reason : Reasons]
HoldReq ==
  [op : {"apply", "release"}, tenant : {None}, host : {None}, job : {None},
   row : Rows, reason : Reasons]
JobReq ==
  [op : {"launch", "launched", "status"}, tenant : Tenants, host : Hosts \cup {None},
   job : Jobs \cup {None}, row : {None}, reason : {None}]

\* Rows, jobs and entries have the columns of their tables, and a request
\* in progress holds what its handler read.
TypeOK ==
  /\ mapping \subseteq Tenants \X Hosts
  /\ Inserted \subseteq Rows /\ hold \in [Inserted -> Reasons \cup {None}]
  /\ job \in [Jobs -> JobState]
  /\ req \in [Workers -> {NoReq} \cup HoldReq \cup JobReq]
  /\ entry \in [Entries -> {NoEntry} \cup LaunchEntry \cup HoldEntry]
  /\ shown \subseteq Tenants \X Jobs
  /\ \A w \in Workers : /\ req[w] \in HoldReq => req[w].row \in Inserted
                        /\ req[w].op = "launch" => req[w].host \in Hosts
                        /\ req[w].op = "launched" => req[w].job \in Jobs
                        /\ req[w].op = "status" => req[w].job \in Jobs

About(r, op) == {e \in Entries : entry[e].op = op /\ entry[e].resource = r}

\* The log tells which rows are held: of a row none of whose entries is
\* lost or yet to be written, it has one application more than releases
\* while the row is held and as many when it is not, however the requests
\* of two operators interleave (legal_holds.py 108-127, 180-195).
LogTellsHolds ==
  \A r \in Inserted :
    (\A e \in About(r, "apply") \cup About(r, "release") : entry[e].state = "written")
      => Cardinality(About(r, "apply"))
           = Cardinality(About(r, "release")) + (IF hold[r] = None THEN 0 ELSE 1)

\* A tenant is answered only about jobs it launched, although the owner is
\* looked up in a row some other task wrote (aap.py 182-234).
NoForeignStatus == \A p \in shown : job[p[2]].tenant = p[1]

\* Behind each answer about a job stands the one entry there ever is of its launch, which
\* is written and names the tenant that was answered: no task that is lost or late, and no
\* other launch, gives a tenant a job (aap.py 130-234, audit.py).
AnswersAreLogged ==
  \A p \in shown : \E e \in Entries :
    /\ entry[e].state = "written" /\ entry[e].tenant = p[1]
    /\ \A f \in Entries : (entry[f].op = "launch" /\ entry[f].resource = p[2]) <=> f = e
=============================================================================
