--------------------------- MODULE SystemAuditProofs ---------------------------
(***************************************************************************)
(* Proofs about SystemAudit, for any request slots, tenants, jobs, rows    *)
(* and audit entries.                                                      *)
(***************************************************************************)
EXTENDS SystemAudit, FiniteSetTheorems, TLAPS

USE NoneAssumption, EntriesAssumption

---------------------------------------------------------------------------
(* Types *)

ReqRow == {NoReq} \cup HoldReq \cup JobReq
EntryRow == {NoEntry} \cup LaunchEntry \cup HoldEntry

\* What a request in progress has read.
ReqOK(row, rows) ==
  /\ row \in HoldReq => row.row \in rows
  /\ row.op = "launch" => row.host \in Hosts
  /\ row.op = "launched" => row.job \in Jobs
  /\ row.op = "status" => row.job \in Jobs

LEMMA TypedBy ==
  TypeOK <=>
    /\ mapping \subseteq Tenants \X Hosts
    /\ Inserted \subseteq Rows /\ hold \in [Inserted -> Reasons \cup {None}]
    /\ job \in [Jobs -> JobState]
    /\ req \in [Workers -> ReqRow] /\ \A w \in Workers : ReqOK(req[w], Inserted)
    /\ entry \in [Entries -> EntryRow]
    /\ shown \subseteq Tenants \X Jobs
  BY DEF TypeOK, ReqRow, EntryRow, ReqOK

\* The kinds of request and of entry are told apart by their op.
LEMMA ReqKinds ==
  ASSUME NEW row \in ReqRow
  PROVE  /\ row.op \in {"apply", "release"} => row \in HoldReq
         /\ row.op \in {"launch", "launched", "status"} => row \in JobReq
         /\ row \in HoldReq => row.op \in {"apply", "release"}
  BY DEF ReqRow, HoldReq, JobReq, NoReq

LEMMA NoReqOK == NoReq \in ReqRow /\ \A rows : ReqOK(NoReq, rows)
  BY DEF ReqRow, ReqOK, HoldReq, NoReq

LEMMA InitTyped == Init => TypeOK
<1> SUFFICES ASSUME Init PROVE TypeOK
  OBVIOUS
<1>1. Inserted = {} /\ hold \in [Inserted -> Reasons \cup {None}]
  BY DEF Init, Inserted
<1>2. job \in [Jobs -> JobState] /\ entry \in [Entries -> EntryRow]
  BY DEF Init, JobState, EntryRow
<1>3. req \in [Workers -> ReqRow] /\ \A w \in Workers : ReqOK(req[w], Inserted)
  BY NoReqOK DEF Init
<1> QED
  BY <1>1, <1>2, <1>3, TypedBy DEF Init

\* The task a request leaves is a new entry, the other ones are left alone.
LEMMA Spawned ==
  ASSUME TypeOK, NEW op, NEW tenant, NEW resource, NEW reason, Spawn(op, tenant, resource, reason)
  PROVE  \E e \in Entries :
           /\ entry[e] = NoEntry
           /\ entry'[e] = [state |-> "pending", op |-> op, tenant |-> tenant,
                           resource |-> resource, reason |-> reason]
           /\ entry' = [entry EXCEPT ![e] = entry'[e]]
           /\ \A f \in Entries : f # e => entry'[f] = entry[f]
<1>1. PICK e \in Entries :
        /\ entry[e] = NoEntry
        /\ entry' = [entry EXCEPT ![e] = [state |-> "pending", op |-> op, tenant |-> tenant,
                                          resource |-> resource, reason |-> reason]]
  BY DEF Spawn
<1>2. entry \in [Entries -> EntryRow]
  BY TypedBy
<1>3. entry'[e] = [state |-> "pending", op |-> op, tenant |-> tenant,
                   resource |-> resource, reason |-> reason]
  BY <1>1, <1>2
<1>4. \A f \in Entries : f # e => entry'[f] = entry[f]
  BY <1>1, <1>2
<1> QED
  BY <1>1, <1>3, <1>4

LEMMA SpawnLeaves ==
  ASSUME TypeOK, NEW op, NEW tenant, NEW resource, NEW reason, Spawn(op, tenant, resource, reason),
         NEW e \in Entries
  PROVE  \/ entry'[e] = entry[e]
         \/ entry'[e].op = op /\ entry'[e].tenant = tenant /\ entry'[e].resource = resource
<1>1. PICK f \in Entries :
        /\ entry'[f] = [state |-> "pending", op |-> op, tenant |-> tenant,
                        resource |-> resource, reason |-> reason]
        /\ \A g \in Entries : g # f => entry'[g] = entry[g]
  BY Spawned
<1>2. CASE e = f
  BY <1>1, <1>2
<1>3. CASE e # f
  BY <1>1, <1>3
<1> QED
  BY <1>2, <1>3

LEMMA SpawnTyped ==
  ASSUME TypeOK, NEW op, NEW tenant, NEW resource, NEW reason, Spawn(op, tenant, resource, reason),
         \/ op = "launch" /\ tenant \in Tenants /\ resource \in Jobs /\ reason = None
         \/ op \in {"apply", "release"} /\ tenant = None /\ resource \in Rows /\ reason \in Reasons
  PROVE  entry' \in [Entries -> EntryRow]
<1>1. [state |-> "pending", op |-> op, tenant |-> tenant, resource |-> resource, reason |-> reason]
        \in EntryRow
  BY DEF EntryRow, LaunchEntry, HoldEntry
<1> QED
  BY <1>1, Spawned, TypedBy

\* Only the request of one slot changes.
LEMMA OneReqTyped ==
  ASSUME TypeOK, NEW w \in Workers, NEW row \in ReqRow, req' = [req EXCEPT ![w] = row],
         Inserted' = Inserted, ReqOK(row, Inserted)
  PROVE  req' \in [Workers -> ReqRow] /\ \A v \in Workers : ReqOK(req'[v], Inserted')
<1>1. req \in [Workers -> ReqRow] /\ \A v \in Workers : ReqOK(req[v], Inserted)
  BY TypedBy
<1>2. \A v \in Workers : req'[v] = row \/ req'[v] = req[v]
  BY <1>1
<1> QED
  BY <1>1, <1>2

LEMMA TasksTyped ==
  ASSUME TypeOK, NEW e \in Entries, Write(e) \/ Lose(e)
  PROVE  TypeOK'
<1>1. entry[e] \in LaunchEntry \/ entry[e] \in HoldEntry
  BY DEF TypeOK, Write, Lose, NoEntry
<1>2. ASSUME NEW state \in {"written", "lost"} PROVE [entry[e] EXCEPT !.state = state] \in EntryRow
  <2>1. \A row \in LaunchEntry : [row EXCEPT !.state = state] \in LaunchEntry
    BY DEF LaunchEntry
  <2>2. \A row \in HoldEntry : [row EXCEPT !.state = state] \in HoldEntry
    BY DEF HoldEntry
  <2> QED
    BY <1>1, <2>1, <2>2 DEF EntryRow
<1>3. entry' \in [Entries -> EntryRow]
  <2>1. entry \in [Entries -> EntryRow]
    BY TypedBy
  <2> QED
    BY <1>2, <2>1 DEF Write, Lose
<1>4. UNCHANGED <<mapping, hold, job, req, shown>> /\ Inserted' = Inserted
  BY DEF Write, Lose, Inserted
<1> QED
  BY <1>3, <1>4 DEF TypeOK, EntryRow

LEMMA HoldsTyped ==
  ASSUME TypeOK,
         \/ \E r \in Rows : Insert(r)
         \/ \E w \in Workers, r \in Rows :
              ReleaseRead(w, r) \/ \E why \in Reasons : ApplyRead(w, r, why)
         \/ \E w \in Workers : ApplyWrite(w) \/ ReleaseWrite(w)
  PROVE  TypeOK'
<1>1. ASSUME NEW r \in Rows, Insert(r) PROVE TypeOK'
  <2>1. Inserted' = Inserted \cup {r} /\ hold' \in [Inserted' -> Reasons \cup {None}]
    BY <1>1 DEF Insert, Inserted, TypeOK
  <2> QED
    BY <1>1, <2>1 DEF Insert, TypeOK
<1>2. ASSUME NEW w \in Workers, NEW r \in Rows, NEW why \in Reasons,
             NEW op \in {"apply", "release"}, r \in Inserted,
             req' = [req EXCEPT ![w] = [NoReq EXCEPT !.op = op, !.row = r, !.reason = why]],
             UNCHANGED <<mapping, hold, job, entry, shown>>
      PROVE  TypeOK'
  <2>1. LET row == [NoReq EXCEPT !.op = op, !.row = r, !.reason = why]
        IN  row \in ReqRow /\ ReqOK(row, Inserted)
    BY <1>2 DEF NoReq, ReqRow, HoldReq, ReqOK
  <2>2. Inserted' = Inserted
    BY <1>2 DEF Inserted
  <2> QED
    BY <1>2, <2>1, <2>2, OneReqTyped DEF TypeOK, ReqRow, ReqOK
<1>3. ASSUME NEW w \in Workers, NEW r \in Rows, ReleaseRead(w, r) PROVE TypeOK'
  <2>1. hold[r] \in Reasons
    BY <1>3 DEF ReleaseRead, TypeOK
  <2> QED
    BY <1>2, <1>3, <2>1 DEF ReleaseRead
<1>4. ASSUME NEW w \in Workers, NEW r \in Rows, NEW why \in Reasons, ApplyRead(w, r, why)
      PROVE  TypeOK'
  BY <1>2, <1>4 DEF ApplyRead
<1>5. ASSUME NEW w \in Workers, ApplyWrite(w) \/ ReleaseWrite(w) PROVE TypeOK'
  <2>1. req[w] \in HoldReq /\ req[w].row \in Inserted /\ req[w].row \in Rows
        /\ req[w].reason \in Reasons
    BY <1>5, ReqKinds, TypedBy DEF ApplyWrite, ReleaseWrite, HoldReq, ReqOK
  <2>2. Inserted' = Inserted /\ hold' \in [Inserted -> Reasons \cup {None}]
    BY <1>5, <2>1 DEF ApplyWrite, ReleaseWrite, Inserted, TypeOK
  <2>3. entry' \in [Entries -> EntryRow]
    <3>1. CASE entry' = entry
      BY <3>1, TypedBy
    <3>2. CASE \E op \in {"apply", "release"} : Spawn(op, None, req[w].row, req[w].reason)
      BY <2>1, <3>2, SpawnTyped
    <3> QED
      BY <1>5, <3>1, <3>2 DEF ApplyWrite, ReleaseWrite
  <2>4. req' \in [Workers -> ReqRow] /\ \A v \in Workers : ReqOK(req'[v], Inserted')
    BY <1>5, <2>2, NoReqOK, OneReqTyped DEF ApplyWrite, ReleaseWrite, Done
  <2> QED
    BY <1>5, <2>2, <2>3, <2>4 DEF ApplyWrite, ReleaseWrite, TypeOK, ReqRow, EntryRow, ReqOK
<1> QED
  BY <1>1, <1>3, <1>4, <1>5

LEMMA MappingsTyped ==
  ASSUME TypeOK, NEW t \in Tenants, NEW h \in Hosts, CreateMapping(t, h) \/ DeleteMapping(t, h)
  PROVE  TypeOK'
  BY DEF CreateMapping, DeleteMapping, TypeOK, Inserted

LEMMA JobReqTyped ==
  ASSUME TypeOK, NEW w \in Workers, NEW row \in JobReq, req' = [req EXCEPT ![w] = row],
         Inserted' = Inserted, row.op = "launch" => row.host \in Hosts,
         row.op # "launch" => row.job \in Jobs
  PROVE  req' \in [Workers -> ReqRow] /\ \A v \in Workers : ReqOK(req'[v], Inserted')
<1>1. row \in ReqRow /\ ReqOK(row, Inserted)
  BY DEF ReqRow, ReqOK, JobReq, HoldReq
<1> QED
  BY <1>1, OneReqTyped

LEMMA JobsTyped ==
  ASSUME TypeOK,
         \/ \E w \in Workers : LaunchAnswer(w) \/ LaunchFail(w) \/ StatusAnswer(w)
         \/ \E w \in Workers, t \in Tenants, h \in Hosts : LaunchCheck(w, t, h)
         \/ \E w \in Workers, t \in Tenants, j \in Jobs : StatusCheck(w, t, j)
         \/ \E w \in Workers, j \in Jobs : LaunchJob(w, j)
         \/ \E j \in Jobs : JobEnds(j)
  PROVE  TypeOK'
<1>1. ASSUME NEW w \in Workers, LaunchAnswer(w) \/ LaunchFail(w) \/ StatusAnswer(w) PROVE TypeOK'
  <2>1. UNCHANGED <<mapping, hold, job>> /\ req' = [req EXCEPT ![w] = NoReq]
    BY <1>1 DEF LaunchAnswer, LaunchFail, StatusAnswer, Done
  <2>2. req' \in [Workers -> ReqRow] /\ \A v \in Workers : ReqOK(req'[v], Inserted')
    BY <2>1, NoReqOK, OneReqTyped DEF Inserted
  <2>3. req[w] \in JobReq
    BY <1>1, ReqKinds, TypedBy DEF LaunchAnswer, LaunchFail, StatusAnswer
  <2>4. entry' \in [Entries -> EntryRow]
    <3>1. CASE LaunchAnswer(w)
      <4>1. req[w].tenant \in Tenants /\ req[w].job \in Jobs
        BY <2>3, <3>1, TypedBy DEF LaunchAnswer, JobReq, ReqOK
      <4> QED
        BY <3>1, <4>1, SpawnTyped DEF LaunchAnswer
    <3>2. CASE ~LaunchAnswer(w)
      BY <1>1, <3>2, TypedBy DEF LaunchFail, StatusAnswer
    <3> QED
      BY <3>1, <3>2
  <2>5. shown' \subseteq Tenants \X Jobs
    <3>1. CASE StatusAnswer(w)
      <4>1. req[w].tenant \in Tenants /\ req[w].job \in Jobs
        BY <2>3, <3>1, TypedBy DEF StatusAnswer, JobReq, ReqOK
      <4> QED
        BY <3>1, <4>1 DEF StatusAnswer, TypeOK
    <3>2. CASE ~StatusAnswer(w)
      BY <1>1, <3>2 DEF LaunchAnswer, LaunchFail, TypeOK
    <3> QED
      BY <3>1, <3>2
  <2> QED
    BY <2>1, <2>2, <2>4, <2>5 DEF TypeOK, ReqRow, EntryRow, ReqOK, Inserted
<1>2. ASSUME NEW w \in Workers, NEW t \in Tenants, NEW h \in Hosts, LaunchCheck(w, t, h) PROVE TypeOK'
  <2>1. LET row == [NoReq EXCEPT !.op = "launch", !.tenant = t, !.host = h]
        IN  row \in JobReq /\ row.op = "launch" /\ row.host = h
    BY DEF NoReq, JobReq
  <2>2. req' \in [Workers -> ReqRow] /\ \A v \in Workers : ReqOK(req'[v], Inserted')
    BY <1>2, <2>1, JobReqTyped DEF LaunchCheck, Inserted
  <2> QED
    BY <1>2, <2>2 DEF LaunchCheck, TypeOK, ReqRow, ReqOK, Inserted
<1>3. ASSUME NEW w \in Workers, NEW t \in Tenants, NEW j \in Jobs, StatusCheck(w, t, j) PROVE TypeOK'
  <2>1. LET row == [NoReq EXCEPT !.op = "status", !.tenant = t, !.job = j]
        IN  row \in JobReq /\ row.op = "status" /\ row.job = j
    BY DEF NoReq, JobReq
  <2>2. req' \in [Workers -> ReqRow] /\ \A v \in Workers : ReqOK(req'[v], Inserted')
    BY <1>3, <2>1, JobReqTyped DEF StatusCheck, Inserted
  <2> QED
    BY <1>3, <2>2 DEF StatusCheck, TypeOK, ReqRow, ReqOK, Inserted
<1>4. ASSUME NEW w \in Workers, NEW j \in Jobs, LaunchJob(w, j) PROVE TypeOK'
  <2>1. req[w] \in JobReq /\ req[w].host \in Hosts
    BY <1>4, ReqKinds, TypedBy DEF LaunchJob, ReqOK
  <2>2. \A row \in JobReq : LET new == [row EXCEPT !.op = "launched", !.job = j]
                            IN  new \in JobReq /\ new.op = "launched" /\ new.job = j
    BY DEF JobReq
  <2>3. req' = [req EXCEPT ![w] = [req[w] EXCEPT !.op = "launched", !.job = j]]
    BY <1>4, TypedBy DEF LaunchJob
  <2>4. req' \in [Workers -> ReqRow] /\ \A v \in Workers : ReqOK(req'[v], Inserted')
    BY <1>4, <2>1, <2>2, <2>3, JobReqTyped DEF LaunchJob, Inserted
  <2>5. job' \in [Jobs -> JobState]
    BY <1>4, <2>1 DEF LaunchJob, TypeOK, JobState, JobReq
  <2> QED
    BY <1>4, <2>4, <2>5 DEF LaunchJob, TypeOK, ReqRow, ReqOK, Inserted
<1>5. ASSUME NEW j \in Jobs, JobEnds(j) PROVE TypeOK'
  <2>1. job'[j] \in JobState
    <3>1. job[j] \in [state : {"running", "ended", "pruned"}, tenant : Tenants, host : Hosts]
      BY <1>5 DEF JobEnds, TypeOK, JobState, NoJob
    <3>2. job'[j] = [job[j] EXCEPT !.state = IF @ = "running" THEN "ended" ELSE "pruned"]
      BY <1>5 DEF JobEnds, TypeOK
    <3> QED
      BY <3>1, <3>2 DEF JobState
  <2>2. job' \in [Jobs -> JobState]
    BY <1>5, <2>1 DEF JobEnds, TypeOK
  <2> QED
    BY <1>5, <2>2 DEF JobEnds, TypeOK, Inserted
<1> QED
  BY <1>1, <1>2, <1>3, <1>4, <1>5

LEMMA StepTyped == TypeOK /\ [Next]_vars => TypeOK'
<1> SUFFICES ASSUME TypeOK, [Next]_vars PROVE TypeOK'
  OBVIOUS
<1>1. CASE Next
  BY <1>1, TasksTyped, HoldsTyped, MappingsTyped, JobsTyped DEF Next
<1>2. CASE UNCHANGED vars
  BY <1>2 DEF vars, TypeOK, Inserted
<1> QED
  BY <1>1, <1>2

\* Rows, jobs and entries keep their types (migrations/014, 015 and 018).
THEOREM Typed == Spec => []TypeOK
  BY InitTyped, StepTyped, PTL DEF Spec

---------------------------------------------------------------------------
(* The owners of jobs *)

OwnersKnown ==
  /\ \A e \in Entries : entry[e].op = "launch" => job[entry[e].resource].tenant = entry[e].tenant
  /\ \A w \in Workers :
       req[w].op \in {"launched", "status"} => job[req[w].job].tenant = req[w].tenant

OwnersInv == TypeOK /\ OwnersKnown /\ NoForeignStatus

\* AAP's jobs keep their tenant.
LEMMA OwnersStay ==
  ASSUME TypeOK, [Next]_vars, NEW j \in Jobs, job[j].tenant \in Tenants
  PROVE  job'[j].tenant = job[j].tenant
<1>1. job[j] \in [state : {"running", "ended", "pruned"}, tenant : Tenants, host : Hosts]
  BY DEF TypeOK, JobState, NoJob
<1>2. ASSUME NEW w \in Workers, NEW i \in Jobs, LaunchJob(w, i) PROVE job'[j] = job[j]
  BY <1>2 DEF LaunchJob, TypeOK, NoJob
<1>3. ASSUME NEW i \in Jobs, JobEnds(i) PROVE job'[j].tenant = job[j].tenant
  <2>1. CASE i = j
    <3>1. job'[j] = [job[j] EXCEPT !.state = IF @ = "running" THEN "ended" ELSE "pruned"]
      BY <1>3, <2>1 DEF JobEnds, TypeOK
    <3> QED
      BY <1>1, <3>1
  <2>2. CASE i # j
    BY <1>3, <2>2 DEF JobEnds, TypeOK
  <2> QED
    BY <2>1, <2>2
<1>4. (\E w \in Workers, i \in Jobs : LaunchJob(w, i)) \/ (\E i \in Jobs : JobEnds(i)) \/ job' = job
  BY DEF Next, vars, Write, Lose, Insert, ReleaseRead, ApplyRead, ApplyWrite, ReleaseWrite,
         LaunchAnswer, LaunchFail, StatusAnswer, CreateMapping, DeleteMapping, LaunchCheck,
         StatusCheck
<1> QED
  BY <1>2, <1>3, <1>4

\* Where a launch, a status request and the log name a job, they name a tenant.
LEMMA NamedOwners ==
  ASSUME TypeOK
  PROVE  /\ \A e \in Entries : entry[e].op = "launch" =>
              entry[e].resource \in Jobs /\ entry[e].tenant \in Tenants
         /\ \A w \in Workers : req[w].op \in {"launched", "status"} =>
              req[w].job \in Jobs /\ req[w].tenant \in Tenants
<1>1. ASSUME NEW row \in EntryRow, row.op = "launch"
      PROVE  row.resource \in Jobs /\ row.tenant \in Tenants
  BY <1>1 DEF EntryRow, LaunchEntry, HoldEntry, NoEntry
<1>2. ASSUME NEW row \in ReqRow, row.op \in {"launched", "status"}
      PROVE  row.tenant \in Tenants
  BY <1>2, ReqKinds DEF JobReq
<1> QED
  BY <1>1, <1>2, TypedBy DEF ReqOK

\* The entries a step leaves are those of before, or new with what a request held.
LEMMA EntriesLaunched ==
  ASSUME OwnersInv, [Next]_vars, NEW e \in Entries, entry'[e].op = "launch"
  PROVE  \/ entry[e].op = "launch" /\ entry'[e].resource = entry[e].resource
            /\ entry'[e].tenant = entry[e].tenant
         \/ \E w \in Workers : req[w].op = "launched" /\ entry'[e].resource = req[w].job
                               /\ entry'[e].tenant = req[w].tenant
<1>1. entry \in [Entries -> EntryRow] /\ TypeOK
  BY TypedBy DEF OwnersInv
<1>2. CASE entry' = entry
  BY <1>2
<1>3. ASSUME NEW f \in Entries, Write(f) \/ Lose(f)
      PROVE  entry'[e].op = entry[e].op /\ entry'[e].resource = entry[e].resource
             /\ entry'[e].tenant = entry[e].tenant
  <2>1. \A row \in EntryRow, state \in {"written", "lost"} :
          LET new == [row EXCEPT !.state = state]
          IN  new.op = row.op /\ new.resource = row.resource /\ new.tenant = row.tenant
    BY DEF EntryRow, LaunchEntry, HoldEntry, NoEntry
  <2>2. \/ entry'[e] = entry[e]
        \/ entry'[e] = [entry[e] EXCEPT !.state = "written"]
        \/ entry'[e] = [entry[e] EXCEPT !.state = "lost"]
    <3>1. CASE Write(f)
      BY <1>1, <3>1 DEF Write
    <3>2. CASE Lose(f)
      BY <1>1, <3>2 DEF Lose
    <3> QED
      BY <1>3, <3>1, <3>2
  <2> QED
    BY <1>1, <2>1, <2>2
<1>4. ASSUME NEW w \in Workers, LaunchAnswer(w)
      PROVE  entry'[e] = entry[e] \/ (req[w].op = "launched" /\ entry'[e].resource = req[w].job
                                      /\ entry'[e].tenant = req[w].tenant)
  BY <1>1, <1>4, SpawnLeaves DEF LaunchAnswer
<1>5. ASSUME NEW w \in Workers, ApplyWrite(w) \/ ReleaseWrite(w) PROVE entry'[e] = entry[e]
  <2>1. CASE entry' = entry
    BY <2>1
  <2>2. CASE Spawn("apply", None, req[w].row, req[w].reason)
    BY <1>1, <2>2, SpawnLeaves
  <2>3. CASE Spawn("release", None, req[w].row, req[w].reason)
    BY <1>1, <2>3, SpawnLeaves
  <2> QED
    BY <1>5, <2>1, <2>2, <2>3 DEF ApplyWrite, ReleaseWrite
<1>6. \/ entry' = entry
      \/ \E f \in Entries : Write(f) \/ Lose(f)
      \/ \E w \in Workers : LaunchAnswer(w) \/ ApplyWrite(w) \/ ReleaseWrite(w)
  BY DEF Next, vars, Insert, ReleaseRead, ApplyRead, LaunchFail, StatusAnswer, CreateMapping,
         DeleteMapping, LaunchCheck, StatusCheck, LaunchJob, JobEnds
<1> QED
  BY <1>2, <1>3, <1>4, <1>5, <1>6

\* A request that waits for AAP launched its job, or found its tenant's launch.
LEMMA RequestsOwn ==
  ASSUME OwnersInv, Next, NEW w \in Workers, req'[w].op \in {"launched", "status"}
  PROVE  job'[req'[w].job].tenant = req'[w].tenant
<1>1. req \in [Workers -> ReqRow] /\ TypeOK
  BY TypedBy DEF OwnersInv
<1>2. CASE req'[w] = req[w]
  BY <1>1, <1>2, NamedOwners, OwnersStay DEF OwnersInv, OwnersKnown
<1>3. CASE req'[w] # req[w]
  <2>1. ASSUME NEW j \in Jobs, LaunchJob(w, j) PROVE job'[req'[w].job].tenant = req'[w].tenant
    <3>1. req[w] \in JobReq
      BY <1>1, <2>1, ReqKinds DEF LaunchJob
    <3>2. \A row \in JobReq : LET new == [row EXCEPT !.op = "launched", !.job = j]
                              IN  new.job = j /\ new.tenant = row.tenant
      BY DEF JobReq
    <3>3. req'[w] = [req[w] EXCEPT !.op = "launched", !.job = j]
      BY <1>1, <2>1 DEF LaunchJob
    <3>4. job'[j].tenant = req[w].tenant
      BY <1>1, <2>1 DEF LaunchJob, TypeOK
    <3> QED
      BY <3>1, <3>2, <3>3, <3>4
  <2>2. ASSUME NEW t \in Tenants, NEW j \in Jobs, StatusCheck(w, t, j)
        PROVE  job'[req'[w].job].tenant = req'[w].tenant
    <3>1. req'[w].tenant = t /\ req'[w].job = j
      BY <1>1, <2>2 DEF StatusCheck, NoReq
    <3>2. job[j].tenant = t
      BY <2>2 DEF StatusCheck, Owns, OwnersInv, OwnersKnown
    <3> QED
      BY <1>1, <3>1, <3>2, OwnersStay
  <2>3. NoReq.op = "none"
    BY DEF NoReq
  <2>4. ASSUME NEW v \in Workers, v # w, \/ \E j \in Jobs : LaunchJob(v, j)
                                         \/ \E t \in Tenants, j \in Jobs : StatusCheck(v, t, j)
        PROVE  FALSE
    BY <1>1, <1>3, <2>4 DEF LaunchJob, StatusCheck
  <2>5. ASSUME NEW v \in Workers,
               \/ \E r \in Rows : ReleaseRead(v, r) \/ \E why \in Reasons : ApplyRead(v, r, why)
               \/ \E t \in Tenants, h \in Hosts : LaunchCheck(v, t, h)
        PROVE  FALSE
    <3>1. \A x, y, z : [NoReq EXCEPT !.op = x, !.row = y, !.reason = z].op = x
                       /\ [NoReq EXCEPT !.op = x, !.tenant = y, !.host = z].op = x
      BY DEF NoReq
    <3>2. \A row, v2 : req' = [req EXCEPT ![v2] = row] => req'[w] \in {row, req[w]}
      BY <1>1
    <3>3. ASSUME NEW r \in Rows, ReleaseRead(v, r) PROVE req'[w].op = "release"
      BY <1>3, <3>1, <3>2, <3>3 DEF ReleaseRead
    <3>4. ASSUME NEW r \in Rows, NEW why \in Reasons, ApplyRead(v, r, why)
          PROVE  req'[w].op = "apply"
      BY <1>3, <3>1, <3>2, <3>4 DEF ApplyRead
    <3>5. ASSUME NEW t \in Tenants, NEW h \in Hosts, LaunchCheck(v, t, h)
          PROVE  req'[w].op = "launch"
      BY <1>3, <3>1, <3>2, <3>5 DEF LaunchCheck
    <3> QED
      BY <2>5, <3>3, <3>4, <3>5
  <2>6. ASSUME NEW v \in Workers, \/ ApplyWrite(v) \/ ReleaseWrite(v)
                                  \/ LaunchAnswer(v) \/ LaunchFail(v) \/ StatusAnswer(v)
        PROVE  FALSE
    <3>1. req' = [req EXCEPT ![v] = NoReq]
      BY <2>6 DEF ApplyWrite, ReleaseWrite, LaunchAnswer, LaunchFail, StatusAnswer, Done
    <3> QED
      BY <1>1, <1>3, <2>3, <3>1
  <2>7. \/ \E v \in Workers : \/ \E j \in Jobs : LaunchJob(v, j)
                              \/ \E t \in Tenants, j \in Jobs : StatusCheck(v, t, j)
        \/ \E v \in Workers :
             \/ \E r \in Rows : ReleaseRead(v, r) \/ \E why \in Reasons : ApplyRead(v, r, why)
             \/ \E t \in Tenants, h \in Hosts : LaunchCheck(v, t, h)
        \/ \E v \in Workers : \/ ApplyWrite(v) \/ ReleaseWrite(v)
                              \/ LaunchAnswer(v) \/ LaunchFail(v) \/ StatusAnswer(v)
    BY <1>3 DEF Next, Write, Lose, Insert, CreateMapping, DeleteMapping, JobEnds
  <2> QED
    BY <2>1, <2>2, <2>4, <2>5, <2>6, <2>7
<1> QED
  BY <1>2, <1>3

LEMMA ShownOwned ==
  ASSUME OwnersInv, [Next]_vars, NEW p \in shown'
  PROVE  p \in Tenants \X Jobs /\ job[p[2]].tenant = p[1]
<1>1. CASE p \in shown
  BY <1>1 DEF OwnersInv, TypeOK, NoForeignStatus
<1>2. CASE p \notin shown
  <2>1. \E w \in Workers : StatusAnswer(w)
    BY <1>2 DEF Next, vars, Write, Lose, Insert, ReleaseRead, ApplyRead, ApplyWrite,
       ReleaseWrite, LaunchAnswer, LaunchFail, CreateMapping, DeleteMapping, LaunchCheck,
       StatusCheck, LaunchJob, JobEnds
  <2>2. PICK w \in Workers : StatusAnswer(w)
    BY <2>1
  <2>3. p = <<req[w].tenant, req[w].job>> /\ req[w].op = "status"
    BY <1>2, <2>2 DEF StatusAnswer
  <2>4. req[w].tenant \in Tenants /\ req[w].job \in Jobs /\ job[req[w].job].tenant = req[w].tenant
    BY <2>3, NamedOwners DEF OwnersInv, OwnersKnown
  <2> QED
    BY <2>3, <2>4
<1> QED
  BY <1>1, <1>2

LEMMA OwnersStep == OwnersInv /\ [Next]_vars => OwnersInv'
<1> SUFFICES ASSUME OwnersInv, [Next]_vars PROVE OwnersInv'
  OBVIOUS
<1>1. TypeOK /\ TypeOK'
  BY StepTyped DEF OwnersInv
<1>2. ASSUME NEW e \in Entries, entry'[e].op = "launch"
      PROVE  job'[entry'[e].resource].tenant = entry'[e].tenant
  <2>1. entry'[e].resource \in Jobs /\ entry'[e].tenant \in Tenants
        /\ job[entry'[e].resource].tenant = entry'[e].tenant
    BY <1>1, <1>2, EntriesLaunched, NamedOwners DEF OwnersInv, OwnersKnown
  <2> QED
    BY <1>1, <2>1, OwnersStay
<1>3. ASSUME NEW w \in Workers, req'[w].op \in {"launched", "status"}
      PROVE  job'[req'[w].job].tenant = req'[w].tenant
  <2>1. CASE Next
    BY <1>3, <2>1, RequestsOwn
  <2>2. CASE UNCHANGED vars
    BY <1>3, <2>2 DEF vars, OwnersInv, OwnersKnown
  <2> QED
    BY <2>1, <2>2
<1>4. ASSUME NEW p \in shown' PROVE job'[p[2]].tenant = p[1]
  BY <1>1, <1>4, ShownOwned, OwnersStay
<1> QED
  BY <1>1, <1>2, <1>3, <1>4 DEF OwnersInv, OwnersKnown, NoForeignStatus

\* A tenant is answered only about jobs it launched (aap.py 182-234).
THEOREM StatusOfOwnJobs == Spec => []NoForeignStatus
<1>1. Init => OwnersInv
  <2> SUFFICES ASSUME Init PROVE OwnersInv
    OBVIOUS
  <2>1. /\ \A e \in Entries : entry[e].op = "none"
        /\ \A w \in Workers : req[w].op = "none"
        /\ shown = {}
    BY DEF Init, NoReq, NoEntry
  <2> QED
    BY <2>1, InitTyped DEF OwnersInv, OwnersKnown, NoForeignStatus
<1>2. OwnersInv => NoForeignStatus
  BY DEF OwnersInv
<1> QED
  BY <1>1, <1>2, OwnersStep, PTL DEF Spec

---------------------------------------------------------------------------
(* The holds and their entries *)

HoldOps == {"apply", "release"}
Count(r, op) == Cardinality(About(r, op))

HoldsCounted ==
  \A r \in Inserted : Count(r, "apply") = Count(r, "release") + (IF hold[r] = None THEN 0 ELSE 1)

AboutInserted == \A e \in Entries : entry[e].op \in HoldOps => entry[e].resource \in Inserted

HoldsInv == TypeOK /\ HoldsCounted /\ AboutInserted

LEMMA CountType == \A r, op : Count(r, op) \in Nat
  BY FS_Subset, FS_CardinalityType DEF Count, About

\* The task of a hold adds one entry, about its row and of its kind.
LEMMA SpawnCounts ==
  ASSUME TypeOK, NEW op, NEW resource, NEW tenant, NEW reason, Spawn(op, tenant, resource, reason),
         NEW r, NEW kind \in HoldOps
  PROVE  IF kind = op /\ r = resource THEN Count(r, kind)' = Count(r, kind) + 1
                                      ELSE Count(r, kind)' = Count(r, kind)
<1>1. PICK f \in Entries :
        /\ entry[f] = NoEntry
        /\ entry'[f] = [state |-> "pending", op |-> op, tenant |-> tenant,
                        resource |-> resource, reason |-> reason]
        /\ \A g \in Entries : g # f => entry'[g] = entry[g]
  BY Spawned
<1>2. entry'[f].op = op /\ entry'[f].resource = resource
  BY <1>1
<1>3. f \notin About(r, kind)
  BY <1>1 DEF About, NoEntry, HoldOps
<1>4. CASE kind = op /\ r = resource
  <2>1. About(r, kind)' = About(r, kind) \cup {f}
    BY <1>1, <1>2, <1>4 DEF About
  <2>2. IsFiniteSet(About(r, kind))
    BY FS_Subset DEF About
  <2> QED
    BY <1>3, <1>4, <2>1, <2>2, FS_AddElement DEF Count
<1>5. CASE ~(kind = op /\ r = resource)
  <2>1. About(r, kind)' = About(r, kind)
    BY <1>1, <1>2, <1>3, <1>5 DEF About
  <2> QED
    BY <1>5, <2>1 DEF Count
<1> QED
  BY <1>4, <1>5

\* A task of another kind, written or not, changes no count.
LEMMA QuietCounts ==
  ASSUME HoldsInv, TypeOK', hold' = hold,
         \A r : \A kind \in HoldOps : Count(r, kind)' = Count(r, kind),
         \A e \in Entries : entry'[e].op \in HoldOps =>
           entry[e].op \in HoldOps /\ entry'[e].resource = entry[e].resource
  PROVE  HoldsInv'
<1>1. Inserted' = Inserted
  BY DEF Inserted
<1>2. "apply" \in HoldOps /\ "release" \in HoldOps
  BY DEF HoldOps
<1>3. \A r : Count(r, "apply")' = Count(r, "apply") /\ Count(r, "release")' = Count(r, "release")
  BY <1>2
<1> QED
  BY <1>1, <1>3 DEF HoldsInv, HoldsCounted, AboutInserted

LEMMA TasksKeepHolds ==
  ASSUME HoldsInv, TypeOK', NEW e \in Entries, Write(e) \/ Lose(e)
  PROVE  HoldsInv'
<1>1. \A f \in Entries : entry'[f].op = entry[f].op /\ entry'[f].resource = entry[f].resource
  <2>1. \A row \in EntryRow : /\ [row EXCEPT !.state = "written"].op = row.op
                              /\ [row EXCEPT !.state = "written"].resource = row.resource
                              /\ [row EXCEPT !.state = "lost"].op = row.op
                              /\ [row EXCEPT !.state = "lost"].resource = row.resource
    BY DEF EntryRow, LaunchEntry, HoldEntry, NoEntry
  <2>2. entry \in [Entries -> EntryRow]
    BY TypedBy DEF HoldsInv
  <2>3. CASE Write(e)
    BY <2>1, <2>2, <2>3 DEF Write
  <2>4. CASE Lose(e)
    BY <2>1, <2>2, <2>4 DEF Lose
  <2> QED
    BY <2>3, <2>4
<1>2. \A r, kind : About(r, kind)' = About(r, kind)
  BY <1>1 DEF About
<1>3. \A r : \A kind \in HoldOps : Count(r, kind)' = Count(r, kind)
  BY <1>2 DEF Count
<1>4. hold' = hold
  BY DEF Write, Lose
<1> QED
  BY <1>1, <1>3, <1>4, QuietCounts

LEMMA InsertKeepsHolds ==
  ASSUME HoldsInv, TypeOK', NEW r \in Rows, Insert(r)
  PROVE  HoldsInv'
<1>1. /\ Inserted' = Inserted \cup {r} /\ r \notin Inserted /\ hold'[r] = None
      /\ \A s \in Inserted : hold'[s] = hold[s]
  BY DEF Insert, Inserted
<1>2. \A s, kind : About(s, kind)' = About(s, kind)
  BY DEF Insert, About
<1>3. \A s : Count(s, "apply")' = Count(s, "apply") /\ Count(s, "release")' = Count(s, "release")
  BY <1>2 DEF Count
<1>4. About(r, "apply") = {} /\ About(r, "release") = {}
  BY <1>1 DEF HoldsInv, AboutInserted, About, HoldOps
<1>5. Count(r, "apply") = 0 /\ Count(r, "release") = 0
  BY <1>4, FS_EmptySet DEF Count
<1>6. HoldsCounted'
  BY <1>1, <1>3, <1>5 DEF HoldsInv, HoldsCounted
<1>7. AboutInserted'
  BY <1>1 DEF Insert, HoldsInv, AboutInserted
<1> QED
  BY <1>6, <1>7 DEF HoldsInv

\* A hold, or a release, and its entry: hold changes as the counts do.
LEMMA WritesKeepHolds ==
  ASSUME HoldsInv, TypeOK', NEW w \in Workers, ApplyWrite(w) \/ ReleaseWrite(w)
  PROVE  HoldsInv'
<1>1. PICK row \in Rows : row = req[w].row /\ row \in Inserted /\ req[w].reason \in Reasons
  BY ReqKinds, TypedBy DEF HoldsInv, ApplyWrite, ReleaseWrite, HoldReq, ReqOK
<1>2. CASE hold' = hold /\ entry' = entry
  <2>1. \A s, kind : Count(s, kind)' = Count(s, kind)
    BY <1>2 DEF Count, About
  <2> QED
    BY <1>2, <2>1, QuietCounts
<1>3. ASSUME NEW op \in HoldOps, NEW value \in Reasons \cup {None},
             op = "apply" <=> value # None, op = "apply" <=> hold[row] = None,
             hold' = [hold EXCEPT ![row] = value],
             Spawn(op, None, row, req[w].reason)
      PROVE  HoldsInv'
  <2>1. /\ Inserted' = Inserted /\ hold'[row] = value
        /\ \A s \in Inserted : s # row => hold'[s] = hold[s]
    BY <1>1, <1>3 DEF Inserted
  <2>2. \A s : \A kind \in HoldOps :
          IF kind = op /\ s = row THEN Count(s, kind)' = Count(s, kind) + 1
                                  ELSE Count(s, kind)' = Count(s, kind)
    <3>1. TypeOK
      BY DEF HoldsInv
    <3> QED
      BY <1>3, <3>1, SpawnCounts
  <2>3. "apply" \in HoldOps /\ "release" \in HoldOps /\ op \in {"apply", "release"}
    BY DEF HoldOps
  <2>4. Count(row, "apply")' = Count(row, "release")' + (IF hold'[row] = None THEN 0 ELSE 1)
    <3>1. Count(row, "apply") = Count(row, "release") + (IF hold[row] = None THEN 0 ELSE 1)
      BY <1>1 DEF HoldsInv, HoldsCounted
    <3>2. CASE op = "apply"
      <4>1. Count(row, "apply")' = Count(row, "apply") + 1
        BY <2>2, <2>3, <3>2
      <4>2. Count(row, "release")' = Count(row, "release")
        BY <2>2, <2>3, <3>2
      <4> QED
        BY <1>3, <2>1, <3>1, <3>2, <4>1, <4>2, CountType
    <3>3. CASE op = "release"
      <4>1. Count(row, "apply")' = Count(row, "apply")
        BY <2>2, <2>3, <3>3
      <4>2. Count(row, "release")' = Count(row, "release") + 1
        BY <2>2, <2>3, <3>3
      <4> QED
        BY <1>3, <2>1, <3>1, <3>3, <4>1, <4>2, CountType
    <3> QED
      BY <2>3, <3>2, <3>3
  <2>5. HoldsCounted'
    BY <2>1, <2>2, <2>3, <2>4 DEF HoldsInv, HoldsCounted
  <2>6. AboutInserted'
    BY <1>1, <1>3, <2>1, SpawnLeaves DEF HoldsInv, AboutInserted
  <2> QED
    BY <2>5, <2>6 DEF HoldsInv
<1>4. req[w].reason # None
  BY <1>1
<1> QED
  BY <1>1, <1>2, <1>3, <1>4 DEF ApplyWrite, ReleaseWrite, HoldOps

LEMMA LaunchKeepsHolds ==
  ASSUME HoldsInv, TypeOK', NEW w \in Workers, LaunchAnswer(w)
  PROVE  HoldsInv'
<1>1. hold' = hold /\ Spawn("launch", req[w].tenant, req[w].job, None)
  BY DEF LaunchAnswer
<1>2. \A r : \A kind \in HoldOps : Count(r, kind)' = Count(r, kind)
  BY <1>1, SpawnCounts DEF HoldOps, HoldsInv
<1>3. \A e \in Entries : entry'[e].op \in HoldOps => entry'[e] = entry[e]
  BY <1>1, SpawnLeaves DEF HoldOps, HoldsInv
<1> QED
  BY <1>1, <1>2, <1>3, QuietCounts

LEMMA HoldsStep == HoldsInv /\ [Next]_vars => HoldsInv'
<1> SUFFICES ASSUME HoldsInv, [Next]_vars PROVE HoldsInv'
  OBVIOUS
<1>1. TypeOK'
  BY StepTyped DEF HoldsInv
<1>2. CASE UNCHANGED <<hold, entry>>
  <2>1. \A s, kind : Count(s, kind)' = Count(s, kind)
    BY <1>2 DEF Count, About
  <2> QED
    BY <1>1, <1>2, <2>1, QuietCounts
<1>3. \/ UNCHANGED <<hold, entry>>
      \/ \E e \in Entries : Write(e) \/ Lose(e)
      \/ \E r \in Rows : Insert(r)
      \/ \E w \in Workers : ApplyWrite(w) \/ ReleaseWrite(w) \/ LaunchAnswer(w)
  BY DEF Next, vars, ReleaseRead, ApplyRead, LaunchFail, StatusAnswer, CreateMapping,
         DeleteMapping, LaunchCheck, StatusCheck, LaunchJob, JobEnds
<1> QED
  BY <1>1, <1>2, <1>3, TasksKeepHolds, InsertKeepsHolds, WritesKeepHolds, LaunchKeepsHolds

\* The log tells which rows are held, for any number of operators and of entries
\* (legal_holds.py 108-127, 180-195).
THEOREM LogTellsEveryHold == Spec => []LogTellsHolds
<1>1. Init => HoldsInv
  <2> SUFFICES ASSUME Init PROVE HoldsInv
    OBVIOUS
  <2>1. Inserted = {} /\ \A e \in Entries : entry[e].op = "none"
    BY DEF Init, Inserted, NoEntry
  <2> QED
    BY <2>1, InitTyped DEF HoldsInv, HoldsCounted, AboutInserted, HoldOps
<1>2. HoldsInv => LogTellsHolds
  BY DEF HoldsInv, HoldsCounted, Count, LogTellsHolds
<1> QED
  BY <1>1, <1>2, HoldsStep, PTL DEF Spec

---------------------------------------------------------------------------
(* The one launch behind each answer *)

LaunchOf(e, j) == entry[e].op = "launch" /\ entry[e].resource = j

\* A job's launch is logged once at most, and not yet while its request waits for AAP.
LaunchesOnce ==
  /\ \A e, f \in Entries : \A j \in Jobs : LaunchOf(e, j) /\ LaunchOf(f, j) => e = f
  /\ \A w \in Workers : req[w].op = "launched" =>
       /\ \A e \in Entries : ~LaunchOf(e, req[w].job)
       /\ \A v \in Workers : req[v].op = "launched" /\ req[v].job = req[w].job => v = w

\* Who was answered, or is to be, owns the job by the log.
OwnersLogged ==
  /\ \A p \in shown : Owns(p[1], p[2])
  /\ \A w \in Workers : req[w].op = "status" => Owns(req[w].tenant, req[w].job)

\* The inductive invariant.
LoggedInv == OwnersInv /\ LaunchesOnce /\ OwnersLogged

\* An entry once made keeps what it is about, and once written its row.
LEMMA EntryKept ==
  ASSUME TypeOK, Next, NEW e \in Entries, entry[e] # NoEntry
  PROVE  /\ entry'[e].op = entry[e].op /\ entry'[e].resource = entry[e].resource
         /\ entry'[e].tenant = entry[e].tenant
         /\ entry[e].state = "written" => entry'[e].state = "written"
<1>1. entry \in [Entries -> EntryRow]
  BY TypedBy
<1>2. \A row \in EntryRow, state \in {"written", "lost"} :
        LET new == [row EXCEPT !.state = state]
        IN  /\ new.op = row.op /\ new.resource = row.resource /\ new.tenant = row.tenant
            /\ new.state = state
  BY DEF EntryRow, LaunchEntry, HoldEntry, NoEntry
<1>3. CASE entry' = entry
  BY <1>3
<1>4. ASSUME NEW f \in Entries, Write(f)
      PROVE  entry'[e] = entry[e] \/ entry'[e] = [entry[e] EXCEPT !.state = "written"]
  BY <1>1, <1>4 DEF Write
<1>5. ASSUME NEW f \in Entries, Lose(f)
      PROVE  \/ entry'[e] = entry[e]
             \/ entry[e].state = "pending" /\ entry'[e] = [entry[e] EXCEPT !.state = "lost"]
  BY <1>1, <1>5 DEF Lose
<1>6. ASSUME NEW op, NEW tenant, NEW resource, NEW reason, Spawn(op, tenant, resource, reason)
      PROVE  entry'[e] = entry[e]
  BY <1>6, Spawned
<1>7. \/ entry' = entry
      \/ \E f \in Entries : Write(f) \/ Lose(f)
      \/ \E w \in Workers : LaunchAnswer(w) \/ ApplyWrite(w) \/ ReleaseWrite(w)
  BY DEF Next, Insert, ReleaseRead, ApplyRead, LaunchFail, StatusAnswer, CreateMapping,
         DeleteMapping, LaunchCheck, StatusCheck, LaunchJob, JobEnds
<1>8. ASSUME NEW w \in Workers, LaunchAnswer(w) \/ ApplyWrite(w) \/ ReleaseWrite(w)
      PROVE  entry'[e] = entry[e]
  BY <1>6, <1>8 DEF LaunchAnswer, ApplyWrite, ReleaseWrite
<1>9. PICK row \in EntryRow : row = entry[e]
  BY <1>1
<1>10. ASSUME NEW state \in {"written", "lost"}, entry'[e] = [row EXCEPT !.state = state],
              state = "written" \/ row.state = "pending"
       PROVE  /\ entry'[e].op = row.op /\ entry'[e].resource = row.resource
              /\ entry'[e].tenant = row.tenant
              /\ row.state = "written" => entry'[e].state = "written"
  BY <1>2, <1>10
<1> QED
  BY <1>3, <1>4, <1>5, <1>7, <1>8, <1>9, <1>10

\* A request waits for AAP as before, or has just launched a job or found its launch.
LEMMA Waits ==
  ASSUME TypeOK, Next, NEW w \in Workers, req'[w].op \in {"launched", "status"}
  PROVE  \/ req'[w] = req[w] /\ ~LaunchAnswer(w)
         \/ \E j \in Jobs : LaunchJob(w, j) /\ req'[w].op = "launched" /\ req'[w].job = j
         \/ \E t \in Tenants, j \in Jobs :
              StatusCheck(w, t, j) /\ req'[w].op = "status" /\ req'[w].tenant = t /\ req'[w].job = j
<1>1. req \in [Workers -> ReqRow]
  BY TypedBy
<1>2. ASSUME NEW j \in Jobs, LaunchJob(w, j) PROVE req'[w].op = "launched" /\ req'[w].job = j
  <2>1. req[w] \in JobReq
    BY <1>1, <1>2, ReqKinds DEF LaunchJob
  <2>2. \A row \in JobReq : LET new == [row EXCEPT !.op = "launched", !.job = j]
                            IN  new.job = j /\ new.op = "launched"
    BY DEF JobReq
  <2>3. req'[w] = [req[w] EXCEPT !.op = "launched", !.job = j]
    BY <1>1, <1>2 DEF LaunchJob
  <2> QED
    BY <2>1, <2>2, <2>3
<1>3. ASSUME NEW t \in Tenants, NEW j \in Jobs, StatusCheck(w, t, j)
      PROVE  req'[w].op = "status" /\ req'[w].tenant = t /\ req'[w].job = j
  BY <1>1, <1>3 DEF StatusCheck, NoReq
<1>4. ASSUME \/ \E r \in Rows : ReleaseRead(w, r) \/ \E why \in Reasons : ApplyRead(w, r, why)
             \/ \E t \in Tenants, h \in Hosts : LaunchCheck(w, t, h)
      PROVE  FALSE
  <2>1. \A x, y, z : [NoReq EXCEPT !.op = x, !.row = y, !.reason = z].op = x
                     /\ [NoReq EXCEPT !.op = x, !.tenant = y, !.host = z].op = x
    BY DEF NoReq
  <2>2. ASSUME NEW r \in Rows, ReleaseRead(w, r) PROVE req'[w].op = "release"
    BY <1>1, <2>1, <2>2 DEF ReleaseRead
  <2>3. ASSUME NEW r \in Rows, NEW why \in Reasons, ApplyRead(w, r, why) PROVE req'[w].op = "apply"
    BY <1>1, <2>1, <2>3 DEF ApplyRead
  <2>4. ASSUME NEW t \in Tenants, NEW h \in Hosts, LaunchCheck(w, t, h) PROVE req'[w].op = "launch"
    BY <1>1, <2>1, <2>4 DEF LaunchCheck
  <2> QED
    BY <1>4, <2>2, <2>3, <2>4
<1>5. ASSUME \/ ApplyWrite(w) \/ ReleaseWrite(w)
             \/ LaunchAnswer(w) \/ LaunchFail(w) \/ StatusAnswer(w)
      PROVE  FALSE
  <2>1. req'[w] = NoReq
    BY <1>1, <1>5 DEF ApplyWrite, ReleaseWrite, LaunchAnswer, LaunchFail, StatusAnswer, Done
  <2> QED
    BY <2>1 DEF NoReq
<1>6. ASSUME NEW v \in Workers, v # w, NEW row, req' = [req EXCEPT ![v] = row]
      PROVE  req'[w] = req[w]
  BY <1>1, <1>6
<1>7. ASSUME NEW v \in Workers, v # w,
             \/ \E j \in Jobs : LaunchJob(v, j)
             \/ \E t \in Tenants, j \in Jobs : StatusCheck(v, t, j)
             \/ \E r \in Rows : ReleaseRead(v, r) \/ \E why \in Reasons : ApplyRead(v, r, why)
             \/ \E t \in Tenants, h \in Hosts : LaunchCheck(v, t, h)
             \/ ApplyWrite(v) \/ ReleaseWrite(v)
             \/ LaunchAnswer(v) \/ LaunchFail(v) \/ StatusAnswer(v)
      PROVE  req'[w] = req[w]
  <2>1. \E row : req' = [req EXCEPT ![v] = row]
    <3>1. CASE \E j \in Jobs : LaunchJob(v, j)
      BY <3>1 DEF LaunchJob
    <3>2. CASE \E t \in Tenants, j \in Jobs : StatusCheck(v, t, j)
      BY <3>2 DEF StatusCheck
    <3>3. CASE \E r \in Rows : ReleaseRead(v, r) \/ \E why \in Reasons : ApplyRead(v, r, why)
      BY <3>3 DEF ReleaseRead, ApplyRead
    <3>4. CASE \E t \in Tenants, h \in Hosts : LaunchCheck(v, t, h)
      BY <3>4 DEF LaunchCheck
    <3>5. CASE \/ ApplyWrite(v) \/ ReleaseWrite(v)
               \/ LaunchAnswer(v) \/ LaunchFail(v) \/ StatusAnswer(v)
      BY <3>5 DEF ApplyWrite, ReleaseWrite, LaunchAnswer, LaunchFail, StatusAnswer, Done
    <3> QED
      BY <1>7, <3>1, <3>2, <3>3, <3>4, <3>5
  <2> QED
    BY <1>6, <1>7, <2>1
<1>8. req' = req \/ \E v \in Workers :
             \/ \E j \in Jobs : LaunchJob(v, j)
             \/ \E t \in Tenants, j \in Jobs : StatusCheck(v, t, j)
             \/ \E r \in Rows : ReleaseRead(v, r) \/ \E why \in Reasons : ApplyRead(v, r, why)
             \/ \E t \in Tenants, h \in Hosts : LaunchCheck(v, t, h)
             \/ ApplyWrite(v) \/ ReleaseWrite(v)
             \/ LaunchAnswer(v) \/ LaunchFail(v) \/ StatusAnswer(v)
  BY DEF Next, Write, Lose, Insert, CreateMapping, DeleteMapping, JobEnds
<1>9. ~LaunchAnswer(w)
  BY <1>5
<1> QED
  BY <1>2, <1>3, <1>4, <1>5, <1>7, <1>8, <1>9

\* What a step makes of the launches logged: one more of a request that waited, or none.
LEMMA LaunchesLogged ==
  ASSUME TypeOK, Next
  PROVE  \/ \A e \in Entries, j \in Jobs : LaunchOf(e, j)' => LaunchOf(e, j)
         \/ \E w \in Workers, e \in Entries :
              /\ LaunchAnswer(w) /\ req[w].op = "launched" /\ entry'[e].resource = req[w].job
              /\ \A f \in Entries, j \in Jobs : f # e /\ LaunchOf(f, j)' => LaunchOf(f, j)
<1>1. ASSUME NEW w \in Workers, LaunchAnswer(w)
      PROVE  \E e \in Entries :
               /\ req[w].op = "launched" /\ entry'[e].resource = req[w].job
               /\ \A f \in Entries, j \in Jobs : f # e /\ LaunchOf(f, j)' => LaunchOf(f, j)
  <2>1. PICK e \in Entries :
          /\ entry'[e] = [state |-> "pending", op |-> "launch", tenant |-> req[w].tenant,
                          resource |-> req[w].job, reason |-> None]
          /\ \A f \in Entries : f # e => entry'[f] = entry[f]
    BY <1>1, Spawned DEF LaunchAnswer
  <2> QED
    BY <1>1, <2>1 DEF LaunchAnswer, LaunchOf
<1>2. ASSUME NEW w \in Workers, ApplyWrite(w) \/ ReleaseWrite(w), NEW e \in Entries, NEW j \in Jobs,
             LaunchOf(e, j)'
      PROVE  LaunchOf(e, j)
  <2>1. CASE entry' = entry
    BY <1>2, <2>1 DEF LaunchOf
  <2>2. CASE Spawn("apply", None, req[w].row, req[w].reason)
    BY <1>2, <2>2, SpawnLeaves DEF LaunchOf
  <2>3. CASE Spawn("release", None, req[w].row, req[w].reason)
    BY <1>2, <2>3, SpawnLeaves DEF LaunchOf
  <2> QED
    BY <1>2, <2>1, <2>2, <2>3 DEF ApplyWrite, ReleaseWrite
<1>3. ASSUME NEW f \in Entries, Write(f) \/ Lose(f), NEW e \in Entries, NEW j \in Jobs,
             LaunchOf(e, j)'
      PROVE  LaunchOf(e, j)
  <2>1. CASE entry[e] # NoEntry
    BY <1>3, <2>1, EntryKept DEF LaunchOf
  <2>2. CASE entry[e] = NoEntry
    <3>1. f # e
      BY <1>3, <2>2 DEF Write, Lose, NoEntry
    <3>2. entry'[e] = entry[e]
      BY <1>3, <3>1 DEF Write, Lose, TypeOK
    <3> QED
      BY <1>3, <3>2 DEF LaunchOf
  <2> QED
    BY <2>1, <2>2
<1>4. CASE entry' = entry
  BY <1>4 DEF LaunchOf
<1>5. \/ entry' = entry
      \/ \E f \in Entries : Write(f) \/ Lose(f)
      \/ \E w \in Workers : LaunchAnswer(w) \/ ApplyWrite(w) \/ ReleaseWrite(w)
  BY DEF Next, Insert, ReleaseRead, ApplyRead, LaunchFail, StatusAnswer, CreateMapping,
         DeleteMapping, LaunchCheck, StatusCheck, LaunchJob, JobEnds
<1> QED
  BY <1>1, <1>2, <1>3, <1>4, <1>5

\* A tenant that owns a job by the log goes on owning it.
LEMMA OwnsStays ==
  ASSUME TypeOK, Next, NEW t, NEW j, Owns(t, j)
  PROVE  Owns(t, j)'
<1>1. PICK e \in Entries : /\ entry[e].state = "written" /\ entry[e].op = "launch"
                           /\ entry[e].tenant = t /\ entry[e].resource = j
  BY DEF Owns
<1>2. entry[e] # NoEntry
  BY <1>1 DEF NoEntry
<1> QED
  BY <1>1, <1>2, EntryKept DEF Owns

LEMMA OnceStep == ASSUME LoggedInv, Next PROVE LaunchesOnce'
<1>1. TypeOK /\ OwnersKnown /\ LaunchesOnce /\ NoJob.tenant = None
  BY DEF LoggedInv, OwnersInv, NoJob
<1>2. \A w \in Workers : req[w].op = "launched" => req[w].job \in Jobs
  BY <1>1, NamedOwners
<1>3. \A e \in Entries : entry[e].op = "launch" =>
        entry[e].resource \in Jobs /\ job[entry[e].resource] # NoJob
  BY <1>1, NamedOwners DEF OwnersKnown
<1>4. \A w \in Workers : req[w].op = "launched" => job[req[w].job] # NoJob
  BY <1>1, NamedOwners DEF OwnersKnown
<1>5. ASSUME NEW e \in Entries, NEW f \in Entries, NEW j \in Jobs, LaunchOf(e, j)', LaunchOf(f, j)'
      PROVE  e = f
  <2>1. CASE LaunchOf(e, j) /\ LaunchOf(f, j)
    BY <1>1, <2>1 DEF LaunchesOnce
  <2>2. ASSUME NEW w \in Workers, NEW g \in Entries,
               req[w].op = "launched", entry'[g].resource = req[w].job,
               \A h \in Entries, i \in Jobs : h # g /\ LaunchOf(h, i)' => LaunchOf(h, i)
        PROVE  e = f
    <3>1. ASSUME NEW h \in Entries, h # g, LaunchOf(h, j)', LaunchOf(g, j)' PROVE FALSE
      <4>1. LaunchOf(h, j) /\ j = req[w].job
        BY <2>2, <3>1 DEF LaunchOf
      <4> QED
        BY <1>1, <2>2, <4>1 DEF LaunchesOnce
    <3>2. CASE e # g /\ f # g
      BY <1>5, <2>1, <2>2, <3>2
    <3> QED
      BY <1>5, <3>1, <3>2
  <2> QED
    BY <1>1, <1>5, <2>1, <2>2, LaunchesLogged
<1>6. ASSUME NEW w \in Workers, req'[w].op = "launched"
      PROVE  /\ \A e \in Entries : ~LaunchOf(e, req[w].job)'
             /\ \A v \in Workers : req'[v].op = "launched" /\ req'[v].job = req'[w].job => v = w
  <2> DEFINE Launched(v) == \E j \in Jobs : LaunchJob(v, j) /\ req'[v].job = j
  <2>1. ASSUME NEW v \in Workers, req'[v].op = "launched"
        PROVE  (req'[v] = req[v] /\ ~LaunchAnswer(v)) \/ Launched(v)
    BY <1>1, <2>1, Waits
  <2>2. ASSUME NEW v \in Workers, NEW j \in Jobs, LaunchJob(v, j)
        PROVE  /\ entry' = entry /\ job[j] = NoJob
               /\ \A u \in Workers : u # v => req'[u] = req[u]
    BY <1>1, <2>2 DEF LaunchJob, TypeOK
  <2>3. ASSUME Launched(w)
        PROVE  /\ \A e \in Entries : ~LaunchOf(e, req[w].job)'
               /\ \A v \in Workers : req'[v].op = "launched" /\ req'[v].job = req'[w].job => v = w
    <3>1. PICK j \in Jobs : LaunchJob(w, j) /\ req'[w].job = j
      BY <2>3
    <3>2. \A e \in Entries : ~LaunchOf(e, j)'
      BY <1>3, <2>2, <3>1 DEF LaunchOf
    <3>3. ASSUME NEW v \in Workers, req'[v].op = "launched", req'[v].job = j, v # w PROVE FALSE
      BY <1>4, <2>2, <3>1, <3>3
    <3> QED
      BY <3>1, <3>2, <3>3 DEF LaunchOf
  <2>4. ASSUME req'[w] = req[w], ~LaunchAnswer(w), ~Launched(w)
        PROVE  /\ \A e \in Entries : ~LaunchOf(e, req[w].job)'
               /\ \A v \in Workers : req'[v].op = "launched" /\ req'[v].job = req'[w].job => v = w
    <3>1. PICK j \in Jobs : j = req[w].job /\ req'[w].job = j /\ req[w].op = "launched"
      BY <1>2, <1>6, <2>4
    <3>2. ASSUME NEW e \in Entries, LaunchOf(e, j)' PROVE FALSE
      <4>1. ~LaunchOf(e, j)
        BY <1>1, <3>1 DEF LaunchesOnce
      <4>2. PICK v \in Workers, g \in Entries :
              /\ LaunchAnswer(v) /\ req[v].op = "launched" /\ entry'[g].resource = req[v].job
              /\ \A h \in Entries, i \in Jobs : h # g /\ LaunchOf(h, i)' => LaunchOf(h, i)
        BY <1>1, <3>2, <4>1, LaunchesLogged
      <4>3. e = g /\ req[v].job = j
        BY <3>2, <4>1, <4>2 DEF LaunchOf
      <4>4. v = w
        BY <1>1, <3>1, <4>2, <4>3 DEF LaunchesOnce
      <4> QED
        BY <2>4, <4>2, <4>4
    <3>3. ASSUME NEW v \in Workers, req'[v].op = "launched", req'[v].job = j, v # w PROVE FALSE
      <4>1. CASE req'[v] = req[v]
        BY <1>1, <3>1, <3>3, <4>1 DEF LaunchesOnce
      <4>2. CASE Launched(v)
        BY <1>4, <2>2, <3>1, <3>3, <4>2
      <4> QED
        BY <2>1, <3>3, <4>1, <4>2
    <3> QED
      BY <3>1, <3>2, <3>3 DEF LaunchOf
  <2> QED
    BY <1>6, <2>1, <2>3, <2>4
<1> QED
  BY <1>5, <1>6 DEF LaunchesOnce, LaunchOf

LEMMA LoggedStep == ASSUME LoggedInv, Next PROVE OwnersLogged'
<1>1. TypeOK /\ OwnersLogged /\ req \in [Workers -> ReqRow]
  BY TypedBy DEF LoggedInv, OwnersInv
<1>2. ASSUME NEW p \in shown' PROVE Owns(p[1], p[2])'
  <2>1. CASE p \in shown
    BY <1>1, <2>1, OwnsStays DEF OwnersLogged
  <2>2. CASE p \notin shown
    <3>1. PICK w \in Workers : StatusAnswer(w)
      BY <2>2, <1>2 DEF Next, Write, Lose, Insert, ReleaseRead, ApplyRead, ApplyWrite,
         ReleaseWrite, LaunchAnswer, LaunchFail, CreateMapping, DeleteMapping, LaunchCheck,
         StatusCheck, LaunchJob, JobEnds
    <3>2. p = <<req[w].tenant, req[w].job>> /\ req[w].op = "status"
      BY <1>2, <2>2, <3>1 DEF StatusAnswer
    <3>3. Owns(p[1], p[2])
      BY <1>1, <3>2 DEF OwnersLogged
    <3> QED
      BY <1>1, <3>3, OwnsStays
  <2> QED
    BY <2>1, <2>2
<1>3. ASSUME NEW w \in Workers, req'[w].op = "status" PROVE Owns(req[w].tenant, req[w].job)'
  <2>1. CASE req'[w] = req[w]
    <3>1. Owns(req[w].tenant, req[w].job)
      BY <1>1, <1>3, <2>1 DEF OwnersLogged
    <3>2. PICK t, j : t = req[w].tenant /\ j = req[w].job
      OBVIOUS
    <3>3. Owns(t, j)'
      BY <1>1, <3>1, <3>2, OwnsStays
    <3> QED
      BY <2>1, <3>2, <3>3
  <2>2. ASSUME NEW t \in Tenants, NEW j \in Jobs, StatusCheck(w, t, j),
               req'[w].tenant = t, req'[w].job = j
        PROVE  Owns(req[w].tenant, req[w].job)'
    <3>1. Owns(t, j)'
      BY <1>1, <2>2, OwnsStays DEF StatusCheck
    <3> QED
      BY <2>2, <3>1
  <2> QED
    BY <1>1, <1>3, <2>1, <2>2, Waits
<1> QED
  BY <1>2, <1>3 DEF OwnersLogged

LEMMA LoggedKept == LoggedInv /\ [Next]_vars => LoggedInv'
<1> SUFFICES ASSUME LoggedInv, [Next]_vars PROVE LoggedInv'
  OBVIOUS
<1>1. OwnersInv'
  BY OwnersStep DEF LoggedInv
<1>2. CASE Next
  BY <1>1, <1>2, OnceStep, LoggedStep DEF LoggedInv
<1>3. CASE UNCHANGED vars
  BY <1>1, <1>3 DEF LoggedInv, LaunchesOnce, OwnersLogged, LaunchOf, Owns, vars
<1> QED
  BY <1>2, <1>3

\* Behind each answer about a job stands the one entry there ever is of its launch,
\* written and of the tenant that was answered, whatever tasks are lost or late.
THEOREM EveryAnswerIsLogged == Spec => []AnswersAreLogged
<1>1. Init => LoggedInv
  <2> SUFFICES ASSUME Init PROVE LoggedInv
    OBVIOUS
  <2>1. /\ \A e \in Entries : entry[e].op = "none"
        /\ \A w \in Workers : req[w].op = "none"
        /\ shown = {}
    BY DEF Init, NoReq, NoEntry
  <2> QED
    BY <2>1, InitTyped DEF LoggedInv, OwnersInv, OwnersKnown, NoForeignStatus, LaunchesOnce,
       OwnersLogged, LaunchOf
<1>2. LoggedInv => AnswersAreLogged
  <2> SUFFICES ASSUME LoggedInv, NEW p \in shown
               PROVE  \E e \in Entries :
                        /\ entry[e].state = "written" /\ entry[e].tenant = p[1]
                        /\ \A f \in Entries : LaunchOf(f, p[2]) <=> f = e
    BY DEF AnswersAreLogged, LaunchOf
  <2>1. PICK e \in Entries : /\ entry[e].state = "written" /\ LaunchOf(e, p[2])
                             /\ entry[e].tenant = p[1]
    BY DEF LoggedInv, OwnersLogged, Owns, LaunchOf
  <2>2. p[2] \in Jobs
    BY DEF LoggedInv, OwnersInv, TypeOK
  <2> QED
    BY <2>1, <2>2 DEF LoggedInv, LaunchesOnce
<1> QED
  BY <1>1, <1>2, LoggedKept, PTL DEF Spec
=============================================================================
