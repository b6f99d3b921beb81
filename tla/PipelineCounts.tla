--------------------------- MODULE PipelineCounts ---------------------------
(***************************************************************************)
(* Two counts, for every set of jobs, workers and requests. The attempts   *)
(* of a job are bounded by worker_max_attempts plus the crashes and lapsed *)
(* leases: claim_next counts every claim and asks for no maximum, process  *)
(* asks for it only before it schedules a retry. The deliveries of a       *)
(* document are bounded by one plus the faults: who may still send it is   *)
(* counted like what has been sent.                                        *)
(***************************************************************************)
EXTENDS PipelineClaims

Bound == MaxAttempts + faults["crash"] + faults["lapse"]

(* A job that waits can afford one claim more; so can one whose worker is  *)
(* dead or has lost its lease, because a fault has paid for it.            *)
RowBounded(j) ==
  /\ rows[j].attempts <= Bound
  /\ rows[j].status = "received" => rows[j].attempts < MaxAttempts
  /\ rows[j].status = "processing" /\ (rows[j].lease = "expired" \/ ~Held(j)) =>
       rows[j].attempts < Bound

(* A copy about to be saved is not in processing.                          *)
Settled(r) ==
  /\ r.status # "processing"
  /\ r.status = "received" => r.attempts < MaxAttempts

WorkersBounded ==
  \A w \in Workers :
    wcopy[w].attempts <= Bound /\ (wpc[w] = "save" => Settled(wcopy[w]))

RequestsBounded ==
  \A q \in Requests :
    qcopy[q].attempts <= Bound /\ (qpc[q] = "storing" => Settled(qcopy[q]))

AttemptInv == (\A j \in live : RowBounded(j)) /\ WorkersBounded /\ RequestsBounded

----------------------------------------------------------------------------
LEMMA BoundGrows ==
  ASSUME TypeOK, [Next]_vars
  PROVE  Bound \in Nat /\ Bound' \in Nat /\ Bound <= Bound'
<1>1. faults["crash"] <= faults'["crash"] /\ faults["lapse"] <= faults'["lapse"]
  BY FaultsGrow DEF FaultKinds
<1>2. /\ faults["crash"] \in Nat /\ faults["lapse"] \in Nat
      /\ faults'["crash"] \in Nat /\ faults'["lapse"] \in Nat
  BY NextTyped DEF TypeOK, WorldTypeOK, FaultKinds
<1> QED
  BY <1>1, <1>2, DeliveryAssumption DEF Bound

LEMMA SufferRaisesBound ==
  ASSUME TypeOK, NEW kind \in {"crash", "lapse"}, Suffer(kind)
  PROVE  Bound < Bound'
<1>1. MaxAttempts \in Nat /\ faults["crash"] \in Nat /\ faults["lapse"] \in Nat
  BY DeliveryAssumption DEF TypeOK, WorldTypeOK, FaultKinds
<1>2. faults'[kind] = faults[kind] + 1
  BY DEF Suffer, TypeOK, WorldTypeOK, FaultKinds
<1>3. \A k \in FaultKinds : k # kind => faults'[k] = faults[k]
  BY DEF Suffer, TypeOK, WorldTypeOK
<1>4. CASE kind = "crash"
  <2>1. faults'["crash"] = faults["crash"] + 1 /\ faults'["lapse"] = faults["lapse"]
    BY <1>2, <1>3, <1>4 DEF FaultKinds
  <2> QED
    BY <1>1, <2>1 DEF Bound
<1>5. CASE kind = "lapse"
  <2>1. faults'["lapse"] = faults["lapse"] + 1 /\ faults'["crash"] = faults["crash"]
    BY <1>2, <1>3, <1>5 DEF FaultKinds
  <2> QED
    BY <1>1, <2>1 DEF Bound
<1> QED
  BY <1>4, <1>5

LEMMA AttemptsOfMadeRows ==
  ASSUME NEW r \in Row
  PROVE  /\ r.attempts \in Nat
         /\ Unleased(r).attempts = r.attempts
         /\ Settled(Unleased(r)) <=> Settled(r)
         /\ Quarantined(r).attempts = r.attempts /\ Settled(Quarantined(r))
         /\ \A p \in BOOLEAN : AfterError(r, p).attempts = r.attempts /\ Settled(AfterError(r, p))
         /\ \A c \in BOOLEAN : Finalized(r, c).attempts = r.attempts /\ Settled(Finalized(r, c))
         /\ \A j \in Jobs : Extracted(j, r).attempts = r.attempts
         /\ \A q \in Requests, d \in DocTypes, o \in BOOLEAN :
              Reviewed(q, r, d, o).attempts = r.attempts
         /\ \A s \in {"quarantined", "failed"} : Settled([r EXCEPT !.status = s])
         /\ \A s \in Statuses : [r EXCEPT !.status = s].attempts = r.attempts
BY DEF Row, Unleased, Quarantined, AfterError, Finalized, Extracted, Reviewed, Settled

LEMMA FreshRowAttempts == FreshRow.attempts = 0
BY DEF FreshRow

(* Processes that move on, with a bounded copy.                            *)
LEMMA GotoBounded ==
  ASSUME TypeOK, WorkersBounded, [Next]_vars, NEW w \in Workers, NEW pc, NEW j, NEW r,
         Goto(w, pc, j, r), r.attempts <= Bound', pc = "save" => Settled(r)
  PROVE  WorkersBounded'
<1> SUFFICES ASSUME NEW v \in Workers
             PROVE  wcopy'[v].attempts <= Bound' /\ (wpc'[v] = "save" => Settled(wcopy'[v]))
  BY DEF WorkersBounded, Settled
<1>1. CASE v = w
  BY <1>1 DEF Goto, TypeOK, WorkerTypeOK
<1>2. CASE v # w
  <2>1. wpc'[v] = wpc[v] /\ wcopy'[v] = wcopy[v]
    BY <1>2 DEF Goto, TypeOK, WorkerTypeOK
  <2>2. wcopy[v].attempts \in Nat
    BY AttemptsOfMadeRows DEF TypeOK, WorkerTypeOK
  <2>3. wcopy[v].attempts <= Bound /\ (wpc[v] = "save" => Settled(wcopy[v]))
    BY DEF WorkersBounded
  <2> QED
    BY <2>1, <2>2, <2>3, BoundGrows
<1> QED
  BY <1>1, <1>2

LEMMA WorkersStayBounded ==
  ASSUME TypeOK, WorkersBounded, [Next]_vars, UNCHANGED workerVars
  PROVE  WorkersBounded'
<1> SUFFICES ASSUME NEW v \in Workers
             PROVE  wcopy'[v].attempts <= Bound' /\ (wpc'[v] = "save" => Settled(wcopy'[v]))
  BY DEF WorkersBounded, Settled
<1>1. wcopy[v].attempts \in Nat
  BY AttemptsOfMadeRows DEF TypeOK, WorkerTypeOK
<1>2. wcopy[v].attempts <= Bound /\ (wpc[v] = "save" => Settled(wcopy[v]))
  BY DEF WorkersBounded
<1> QED
  BY <1>1, <1>2, BoundGrows DEF workerVars

LEMMA StepBounded ==
  ASSUME TypeOK, RequestsBounded, [Next]_vars, NEW q \in Requests, NEW pc, NEW j, NEW r,
         Step(q, pc, j, r), r.attempts <= Bound', pc = "storing" => Settled(r)
  PROVE  RequestsBounded'
<1> SUFFICES ASSUME NEW p \in Requests
             PROVE  qcopy'[p].attempts <= Bound' /\ (qpc'[p] = "storing" => Settled(qcopy'[p]))
  BY DEF RequestsBounded, Settled
<1>1. CASE p = q
  BY <1>1 DEF Step, TypeOK, RequestTypeOK
<1>2. CASE p # q
  <2>1. qpc'[p] = qpc[p] /\ qcopy'[p] = qcopy[p]
    BY <1>2 DEF Step, TypeOK, RequestTypeOK
  <2>2. qcopy[p].attempts \in Nat
    BY AttemptsOfMadeRows DEF TypeOK, RequestTypeOK
  <2>3. qcopy[p].attempts <= Bound /\ (qpc[p] = "storing" => Settled(qcopy[p]))
    BY DEF RequestsBounded
  <2> QED
    BY <2>1, <2>2, <2>3, BoundGrows
<1> QED
  BY <1>1, <1>2

LEMMA RequestsStayBounded ==
  ASSUME TypeOK, RequestsBounded, [Next]_vars, UNCHANGED requestVars
  PROVE  RequestsBounded'
<1> SUFFICES ASSUME NEW p \in Requests
             PROVE  qcopy'[p].attempts <= Bound' /\ (qpc'[p] = "storing" => Settled(qcopy'[p]))
  BY DEF RequestsBounded, Settled
<1>1. qcopy[p].attempts \in Nat
  BY AttemptsOfMadeRows DEF TypeOK, RequestTypeOK
<1>2. qcopy[p].attempts <= Bound /\ (qpc[p] = "storing" => Settled(qcopy[p]))
  BY DEF RequestsBounded
<1> QED
  BY <1>1, <1>2, BoundGrows DEF requestVars

(* A row that nothing writes, and whose worker goes on, stays bounded.     *)
LEMMA RowStaysBounded ==
  ASSUME TypeOK, [Next]_vars, NEW j \in live, RowBounded(j), rows'[j] = rows[j], j \in live',
         \A w \in Workers : Working(w, j) => Working(w, j)'
  PROVE  RowBounded(j)'
<1>1. Held(j) => Held(j)'
  BY DEF Held, Owns
<1>2. rows[j].attempts \in Nat
  BY AttemptsOfMadeRows DEF TypeOK, StoreTypeOK
<1> QED
  BY <1>1, <1>2, BoundGrows DEF RowBounded

(* A row is overwritten by a settled copy.                                 *)
LEMMA SavedRowBounded ==
  ASSUME TypeOK, NEW j \in live, NEW r, rows'[j] = r, Settled(r), r.attempts <= Bound'
  PROVE  RowBounded(j)'
BY DEF RowBounded, Settled

----------------------------------------------------------------------------
LEMMA WorkerStepBounded ==
  ASSUME TypeOK, AttemptInv, NEW w \in Workers, WorkerStep(w), UNCHANGED requestVars
  PROVE  AttemptInv'
<1> DEFINE r == wcopy[w]
<1>n. Next
  BY DEF Next, ByWorkers
<1>q. RequestsBounded'
  BY <1>n, RequestsStayBounded DEF AttemptInv
<1>b. /\ r \in Row /\ r.attempts \in Nat /\ r.attempts <= Bound'
      /\ \A j \in live : rows[j] \in Row /\ rows[j].attempts \in Nat
  <2>1. r \in Row /\ \A j \in live : rows[j] \in Row
    BY DEF TypeOK, WorkerTypeOK, StoreTypeOK
  <2>2. r.attempts \in Nat /\ \A j \in live : rows[j].attempts \in Nat
    BY <2>1, AttemptsOfMadeRows
  <2>3. r.attempts <= Bound
    BY DEF AttemptInv, WorkersBounded
  <2>4. Bound \in Nat /\ Bound' \in Nat /\ Bound <= Bound'
    BY <1>n, BoundGrows
  <2> QED
    BY <2>1, <2>2, <2>3, <2>4
<1>a. ASSUME UNCHANGED <<live, rows>>, NEW pc \in WorkerPlaces \ {"idle"}, NEW c,
             wpc[w] # "idle", Goto(w, pc, wjob[w], c), c.attempts = r.attempts,
             pc = "save" => Settled(c)
      PROVE  AttemptInv'
  <2>1. WorkersBounded'
    BY <1>a, <1>b, <1>n, GotoBounded DEF AttemptInv
  <2>2. \A j \in live : RowBounded(j)'
    BY <1>a, <1>n, WorkingOn, RowStaysBounded DEF AttemptInv, TypeOK, StoreTypeOK
  <2> QED
    BY <1>a, <1>q, <2>1, <2>2 DEF AttemptInv
<1>1. CASE WorkerClaim(w)
  <2>1. PICK k \in Jobs : ClaimNext(w, k) /\ Goto(w, "extract", k, Claimed(w, rows[k]))
    BY <1>1 DEF WorkerClaim
  <2> DEFINE c == Claimed(w, rows[k])
  <2>2. /\ live' = live /\ k \in live /\ rows'[k] = c
        /\ \A j \in Jobs : j # k => rows'[j] = rows[j]
    BY <2>1 DEF ClaimNext, TypeOK, StoreTypeOK
  <2>3. \A v \in Workers, j \in Jobs : Working(v, j)' <=> Working(v, j) \/ (v = w /\ j = k)
    BY <1>1, <2>1 DEF WorkerClaim, Goto, Working, TypeOK, WorkerTypeOK
  <2>4. /\ c.attempts = rows[k].attempts + 1 /\ c.status = "processing"
        /\ c.worker = w /\ c.lease = "live"
    BY <1>b, <2>2 DEF Claimed, Row
  <2>5. rows[k].attempts < Bound
    <3>1. CASE rows[k].status = "received"
      <4>1. rows[k].attempts < MaxAttempts
        BY <2>2, <3>1 DEF AttemptInv, RowBounded
      <4>2. MaxAttempts <= Bound
        BY DeliveryAssumption DEF Bound, TypeOK, WorldTypeOK, FaultKinds
      <4> QED
        BY <1>b, <1>n, <2>2, <4>1, <4>2, BoundGrows, DeliveryAssumption
    <3>2. CASE rows[k].status = "processing" /\ rows[k].lease = "expired"
      BY <2>2, <3>2 DEF AttemptInv, RowBounded
    <3> QED
      BY <2>1, <3>1, <3>2 DEF ClaimNext, Claimable
  <2>6. c.attempts <= Bound'
    BY <1>b, <1>n, <2>2, <2>4, <2>5, BoundGrows
  <2>7. RowBounded(k)'
    <3>1. Held(k)'
      BY <2>2, <2>3, <2>4 DEF Held, Owns
    <3> QED
      BY <2>2, <2>4, <2>6, <3>1 DEF RowBounded
  <2>8. \A j \in live : j # k => RowBounded(j)'
    BY <1>n, <2>2, <2>3, RowStaysBounded DEF AttemptInv, TypeOK, StoreTypeOK
  <2>9. WorkersBounded'
    BY <1>n, <2>1, <2>6, GotoBounded DEF AttemptInv
  <2> QED
    BY <1>q, <2>2, <2>7, <2>8, <2>9 DEF AttemptInv
<1>2. CASE WorkerExtract(w)
  <2> DEFINE c == Extracted(wjob[w], r)
  <2>1. c.attempts = r.attempts
    BY <1>2, <1>b, AttemptsOfMadeRows DEF WorkerExtract, TypeOK, WorkerTypeOK
  <2>2. PICK pc \in {"deliver", "quarantine"} : Goto(w, pc, wjob[w], c)
    BY <1>2 DEF WorkerExtract
  <2> QED
    BY <1>2, <1>a, <2>1, <2>2 DEF WorkerExtract, WorkerPlaces
<1>3. CASE WorkerFails(w)
  BY <1>3, <1>a, <1>b, AttemptsOfMadeRows DEF WorkerFails, WorkerPlaces
<1>4. CASE WorkerQuarantine(w)
  <2>1. PICK c \in {Quarantined(r), AfterError(Quarantined(r), FALSE)} :
          Goto(w, "save", wjob[w], c)
    BY <1>4 DEF WorkerQuarantine
  <2>2. c.attempts = r.attempts /\ Settled(c)
    <3>1. Quarantined(r) \in Row
      BY <1>b, RowsMadeOfRows
    <3>2. Quarantined(r).attempts = r.attempts /\ Settled(Quarantined(r))
      BY <1>b, AttemptsOfMadeRows
    <3>3. /\ AfterError(Quarantined(r), FALSE).attempts = r.attempts
          /\ Settled(AfterError(Quarantined(r), FALSE))
      BY <3>1, <3>2, AttemptsOfMadeRows
    <3> QED
      BY <3>2, <3>3
  <2>3. UNCHANGED <<live, rows>> /\ wpc[w] # "idle"
    BY <1>4 DEF WorkerQuarantine
  <2> QED
    BY <1>a, <2>1, <2>2, <2>3 DEF WorkerPlaces
<1>5. CASE WorkerDeliver(w)
  <2>1. PICK answer \in Answers :
          IF Succeeded(answer)
          THEN Goto(w, "finalize", wjob[w], r)
          ELSE Goto(w, "save", wjob[w], AfterError(r, answer.error = "permanent"))
    BY <1>5 DEF WorkerDeliver
  <2>2. /\ AfterError(r, answer.error = "permanent").attempts = r.attempts
        /\ Settled(AfterError(r, answer.error = "permanent"))
    BY <1>b, AttemptsOfMadeRows
  <2>3. UNCHANGED <<live, rows>> /\ wpc[w] # "idle"
    BY <1>5 DEF WorkerDeliver
  <2>4. CASE Succeeded(answer)
    BY <1>a, <2>1, <2>3, <2>4 DEF WorkerPlaces
  <2>5. CASE ~Succeeded(answer)
    BY <1>a, <2>1, <2>2, <2>3, <2>5 DEF WorkerPlaces
  <2> QED
    BY <2>4, <2>5
<1>6. CASE WorkerFinalize(w)
  <2>1. PICK cleaned \in BOOLEAN : Goto(w, "save", wjob[w], Finalized(r, cleaned))
    BY <1>6 DEF WorkerFinalize
  <2>2. Finalized(r, cleaned).attempts = r.attempts /\ Settled(Finalized(r, cleaned))
    BY <1>b, AttemptsOfMadeRows
  <2> QED
    BY <1>6, <1>a, <2>1, <2>2 DEF WorkerFinalize, WorkerPlaces, storeVars
<1>7. CASE WorkerSave(w)
  <2>0. PICK k \in Jobs : k = wjob[w]
    BY <1>7 DEF WorkerSave, TypeOK, WorkerTypeOK
  <2>1. /\ live' = live /\ (k \in live => rows'[k] = Unleased(r))
        /\ \A j \in Jobs : j # k => rows'[j] = rows[j]
    BY <1>7, <2>0 DEF WorkerSave, Save, TypeOK, StoreTypeOK
  <2>2. Settled(Unleased(r)) /\ Unleased(r).attempts <= Bound'
    BY <1>7, <1>b, AttemptsOfMadeRows DEF WorkerSave, AttemptInv, WorkersBounded
  <2>3. k \in live => RowBounded(k)'
    BY <2>1, <2>2, SavedRowBounded
  <2>4. \A j \in Jobs : j # k => \A v \in Workers : Working(v, j) => Working(v, j)'
    BY <1>7, <2>0, WorkingElsewhere DEF WorkerSave, Working
  <2>5. \A j \in live : j # k => RowBounded(j)'
    BY <1>n, <2>1, <2>4, RowStaysBounded DEF AttemptInv, TypeOK, StoreTypeOK
  <2>6. FreshRow.attempts <= Bound'
    BY <1>n, FreshRowAttempts, BoundGrows
  <2>7. WorkersBounded'
    BY <1>7, <1>n, <2>6, GotoBounded DEF WorkerSave, Rest, AttemptInv
  <2> QED
    BY <1>q, <2>1, <2>3, <2>5, <2>7 DEF AttemptInv
<1> QED
  BY <1>1, <1>2, <1>3, <1>4, <1>5, <1>6, <1>7 DEF WorkerStep

LEMMA RequestStepBounded ==
  ASSUME TypeOK, DeliveryInv, AttemptInv, NEW q \in Requests, RequestStep(q),
         UNCHANGED workerVars
  PROVE  AttemptInv'
<1> DEFINE r == qcopy[q]
<1>n. Next
  BY DEF Next, ByRequests
<1>w. WorkersBounded'
  BY <1>n, WorkersStayBounded DEF AttemptInv
<1>v. \A v \in Workers, j \in Jobs : Working(v, j) => Working(v, j)'
  BY WorkingStays
<1>b. r \in Row /\ r.attempts \in Nat /\ r.attempts <= Bound'
  <2>1. r \in Row
    BY DEF TypeOK, RequestTypeOK
  <2>2. r.attempts \in Nat
    BY <2>1, AttemptsOfMadeRows
  <2>3. r.attempts <= Bound
    BY DEF AttemptInv, RequestsBounded
  <2>4. Bound \in Nat /\ Bound' \in Nat /\ Bound <= Bound'
    BY <1>n, BoundGrows
  <2> QED
    BY <2>1, <2>2, <2>3, <2>4
<1>0. FreshRow.attempts <= Bound'
  BY <1>n, FreshRowAttempts, BoundGrows
<1>j. qpc[q] \notin {"new", "done"} => qjob[q] \in Jobs
  BY DEF TypeOK, RequestTypeOK
<1>a. ASSUME UNCHANGED <<live, rows>> PROVE \A j \in live' : RowBounded(j)'
  BY <1>a, <1>n, <1>v, RowStaysBounded DEF AttemptInv, TypeOK, StoreTypeOK
<1>s. ASSUME NEW j \in Jobs, NEW c, Save(j, c), Settled(c), c.attempts <= Bound'
      PROVE  \A k \in live' : RowBounded(k)'
  <2>1. /\ live' = live /\ (j \in live => rows'[j] = c)
        /\ \A k \in Jobs : k # j => rows'[k] = rows[k]
    BY <1>s DEF Save, TypeOK, StoreTypeOK
  <2>2. j \in live => RowBounded(j)'
    BY <1>s, <2>1, SavedRowBounded
  <2>3. \A k \in live : k # j => RowBounded(k)'
    BY <1>n, <1>v, <2>1, RowStaysBounded DEF AttemptInv, TypeOK, StoreTypeOK
  <2> QED
    BY <2>1, <2>2, <2>3
<1>f. ASSUME NEW pc \in {"logging", "done"}, NEW j, Step(q, pc, j, FreshRow)
      PROVE  RequestsBounded'
  BY <1>f, <1>n, <1>0, StepBounded DEF AttemptInv
<1>1. CASE ReviewSave(q)
  <2>1. PICK d \in DocTypes, o \in {r.routing, TRUE} : Save(qjob[q], Reviewed(q, r, d, o))
    BY <1>1 DEF ReviewSave
  <2>2. o \in BOOLEAN
    BY <1>b DEF Row
  <2>3. Reviewed(q, r, d, o).attempts = r.attempts
    BY <1>b DEF Reviewed, Row
  <2>4. Reviewed(q, r, d, o).status = "quarantined"
    BY <1>1, <1>b, <2>2, StatusOfMadeRows DEF ReviewSave, DeliveryInv, RequestsGood
  <2>5. Settled(Reviewed(q, r, d, o))
    BY <2>4 DEF Settled
  <2>6. qjob[q] \in Jobs
    BY <1>1, <1>j DEF ReviewSave
  <2>7. Reviewed(q, r, d, o).attempts <= Bound'
    BY <1>b, <2>3
  <2>8. \A k \in live' : RowBounded(k)'
    BY <1>s, <2>1, <2>5, <2>6, <2>7
  <2> QED
    BY <1>1, <1>w, <1>f, <2>8 DEF ReviewSave, AttemptInv
<1>2. CASE ReleaseReject(q)
  <2>1. Settled([r EXCEPT !.status = "quarantined"])
    BY <1>b, AttemptsOfMadeRows
  <2>2. [r EXCEPT !.status = "quarantined"].attempts = r.attempts
    BY <1>b, AttemptsOfMadeRows DEF Statuses
  <2>3. \A k \in live' : RowBounded(k)'
    BY <1>2, <1>b, <1>j, <1>s, <2>1, <2>2 DEF ReleaseReject
  <2> QED
    BY <1>2, <1>w, <1>f, <2>3 DEF ReleaseReject, AttemptInv
<1>3. CASE ReleaseClaim(q)
  <2>0. PICK j \in Jobs : j = qjob[q]
    BY <1>3, <1>j DEF ReleaseClaim
  <2>1. /\ live' = live /\ j \in live /\ rows'[j] = [rows[j] EXCEPT !.status = "delivering"]
        /\ \A k \in Jobs : k # j => rows'[k] = rows[k]
    BY <1>3, <2>0 DEF ReleaseClaim, ClaimDelivery, TypeOK, StoreTypeOK
  <2>2. /\ rows'[j].status = "delivering"
        /\ rows'[j].attempts = rows[j].attempts
        /\ rows[j] \in Row
    BY <2>1 DEF TypeOK, StoreTypeOK, Row
  <2>3. rows'[j].attempts <= Bound'
    <3>1. rows[j].attempts <= Bound
      BY <2>1 DEF AttemptInv, RowBounded
    <3>2. rows[j].attempts \in Nat
      BY <2>2, AttemptsOfMadeRows
    <3> QED
      BY <1>n, <2>2, <3>1, <3>2, BoundGrows
  <2>4. RowBounded(j)'
    BY <2>2, <2>3 DEF RowBounded
  <2>5. \A k \in live : k # j => RowBounded(k)'
    BY <1>n, <1>v, <2>1, RowStaysBounded DEF AttemptInv, TypeOK, StoreTypeOK
  <2>6. [r EXCEPT !.status = "delivering"].attempts = r.attempts
    BY <1>b, AttemptsOfMadeRows DEF Statuses
  <2>7. RequestsBounded'
    BY <1>3, <1>n, <1>b, <2>6, StepBounded DEF ReleaseClaim, AttemptInv
  <2> QED
    BY <1>w, <2>1, <2>4, <2>5, <2>7 DEF AttemptInv
<1>4. CASE ReleaseClaimRefused(q)
  BY <1>4, <1>w, <1>a, <1>f DEF ReleaseClaimRefused, Finish, storeVars, AttemptInv
<1>5. CASE ReleaseDeliver(q)
  <2>1. PICK answer \in Answers :
          IF Succeeded(answer)
          THEN Step(q, "finalizing", qjob[q], r)
          ELSE Step(q, "storing", qjob[q], [r EXCEPT !.status = "failed"])
    BY <1>5 DEF ReleaseDeliver
  <2>2. /\ Settled([r EXCEPT !.status = "failed"])
        /\ [r EXCEPT !.status = "failed"].attempts = r.attempts
    BY <1>b, AttemptsOfMadeRows DEF Statuses
  <2>3. ASSUME Succeeded(answer) PROVE RequestsBounded'
    <3>1. Step(q, "finalizing", qjob[q], r)
      BY <2>1, <2>3
    <3> QED
      BY <1>n, <1>b, <3>1, StepBounded DEF AttemptInv
  <2>4. ASSUME ~Succeeded(answer) PROVE RequestsBounded'
    <3>1. Step(q, "storing", qjob[q], [r EXCEPT !.status = "failed"])
      BY <2>1, <2>4
    <3> QED
      BY <1>n, <1>b, <2>2, <3>1, StepBounded DEF AttemptInv
  <2> QED
    BY <1>5, <1>w, <1>a, <2>3, <2>4 DEF ReleaseDeliver, AttemptInv
<1>6. CASE ReleaseFinalize(q)
  <2>1. PICK cleaned \in BOOLEAN : Step(q, "storing", qjob[q], Finalized(r, cleaned))
    BY <1>6 DEF ReleaseFinalize
  <2>2. Finalized(r, cleaned).attempts = r.attempts /\ Settled(Finalized(r, cleaned))
    BY <1>b, AttemptsOfMadeRows
  <2>3. RequestsBounded'
    BY <1>n, <1>b, <2>1, <2>2, StepBounded DEF AttemptInv
  <2> QED
    BY <1>6, <1>w, <1>a, <2>3 DEF ReleaseFinalize, storeVars, AttemptInv
<1>7. CASE ReleaseStore(q)
  <2>1. Settled(r)
    BY <1>7 DEF ReleaseStore, AttemptInv, RequestsBounded
  <2>2. \A k \in live' : RowBounded(k)'
    BY <1>7, <1>b, <1>j, <1>s, <2>1 DEF ReleaseStore
  <2> QED
    BY <1>7, <1>w, <1>f, <2>2 DEF ReleaseStore, Finish, AttemptInv
<1>8. CASE DeleteUnlink(q)
  BY <1>8, <1>w, <1>a, <1>f DEF DeleteUnlink, Finish, storeVars, AttemptInv
<1>9. CASE RequestLog(q)
  BY <1>9, <1>w, <1>a, <1>f DEF RequestLog, Finish, AttemptInv
<1> QED
  BY <1>1, <1>2, <1>3, <1>4, <1>5, <1>6, <1>7, <1>8, <1>9 DEF RequestStep

LEMMA RequestBeginsBounded ==
  ASSUME TypeOK, AttemptInv, NEW q \in Requests, NEW j \in Jobs, RequestBegins(q, j),
         UNCHANGED workerVars
  PROVE  AttemptInv'
<1>n. Next
  BY DEF Next, ByRequests
<1>w. WorkersBounded'
  BY <1>n, WorkersStayBounded DEF AttemptInv
<1>v. \A v \in Workers, k \in Jobs : Working(v, k) => Working(v, k)'
  BY WorkingStays
<1>b. j \in live => rows[j].attempts <= Bound'
  <2>1. j \in live => rows[j].attempts <= Bound
    BY DEF AttemptInv, RowBounded
  <2>2. rows[j].attempts \in Nat
    BY AttemptsOfMadeRows DEF TypeOK, StoreTypeOK
  <2>3. Bound \in Nat /\ Bound' \in Nat /\ Bound <= Bound'
    BY <1>n, BoundGrows
  <2> QED
    BY <2>1, <2>2, <2>3
<1>o. ASSUME live' \subseteq live, \A k \in live' : k # j => rows'[k] = rows[k]
      PROVE  \A k \in live' : k # j => RowBounded(k)'
  BY <1>o, <1>n, <1>v, RowStaysBounded DEF AttemptInv, TypeOK, StoreTypeOK
<1>r. ASSUME NEW pc \in RequestPlaces \ {"storing"}, Step(q, pc, j, rows[j]), j \in live
      PROVE  RequestsBounded'
  BY <1>r, <1>n, <1>b, StepBounded DEF AttemptInv
<1>a. ASSUME UNCHANGED <<live, rows>> PROVE \A k \in live' : RowBounded(k)'
  BY <1>a, <1>n, <1>v, RowStaysBounded DEF AttemptInv, TypeOK, StoreTypeOK
<1>1. CASE ReviewRead(q, j)
  BY <1>1, <1>w, <1>a, <1>r DEF ReviewRead, Arrives, storeVars, RequestPlaces, AttemptInv
<1>2. CASE ReleaseRead(q, j)
  BY <1>2, <1>w, <1>a, <1>r DEF ReleaseRead, Arrives, storeVars, RequestPlaces, AttemptInv
<1>3. CASE Retry(q, j)
  <2>1. /\ live' = live /\ j \in live
        /\ \A k \in Jobs : k # j => rows'[k] = rows[k]
        /\ rows'[j].status = "received" /\ rows'[j].attempts = 0
    BY <1>3 DEF Retry, RetryFailed, TypeOK, StoreTypeOK, Row
  <2>2. 0 <= Bound' /\ 0 < MaxAttempts
    BY <1>n, BoundGrows, DeliveryAssumption
  <2>3. RowBounded(j)'
    BY <2>1, <2>2 DEF RowBounded
  <2>4. FreshRow.attempts <= Bound'
    BY <2>2, FreshRowAttempts
  <2>5. RequestsBounded'
    BY <1>3, <1>n, <2>4, StepBounded DEF Retry, AttemptInv
  <2> QED
    BY <1>w, <1>o, <2>1, <2>3, <2>5 DEF AttemptInv, TypeOK, StoreTypeOK
<1>4. CASE Delete(q, j)
  <2>1. /\ live' = live \ {j} /\ j \in live
        /\ \A k \in Jobs : k # j => rows'[k] = rows[k]
    BY <1>4 DEF Delete, DeleteStalledJob, TypeOK, StoreTypeOK
  <2> QED
    BY <1>4, <1>w, <1>o, <1>r, <2>1
       DEF Delete, RequestPlaces, AttemptInv, TypeOK, StoreTypeOK
<1> QED
  BY <1>1, <1>2, <1>3, <1>4 DEF RequestBegins

(* A crash or a lapse raises the bound by the claim it makes possible.     *)
LEMMA EnvironmentBounded ==
  ASSUME TypeOK, AttemptInv
  PROVE  /\ \A w \in Workers :
              (WorkerRenews(w) \/ WorkerCrash(w)) /\ UNCHANGED requestVars => AttemptInv'
         /\ \A j \in Jobs :
              (LeaseExpires(j) \/ LeaseLapses(j) \/ BackoffEnds(j)) /\ UNCHANGED requestVars
                => AttemptInv'
         /\ ApiCrash /\ UNCHANGED workerVars => AttemptInv'
<1>t. \A j \in live : /\ j \in Jobs /\ rows[j] \in Row /\ rows[j].attempts \in Nat
                      /\ RowBounded(j)
  BY AttemptsOfMadeRows DEF TypeOK, StoreTypeOK, AttemptInv
<1>b. Next => Bound \in Nat /\ Bound' \in Nat /\ Bound <= Bound'
  BY BoundGrows
<1>q. Next /\ UNCHANGED requestVars => RequestsBounded'
  BY RequestsStayBounded DEF AttemptInv
<1>w. Next /\ UNCHANGED workerVars => WorkersBounded'
  BY WorkersStayBounded DEF AttemptInv
<1>o. ASSUME Next, NEW i, live' = live, \A k \in Jobs : k # i => rows'[k] = rows[k],
             UNCHANGED workerVars
      PROVE  \A k \in live : k # i => RowBounded(k)'
  BY <1>o, <1>t, WorkingStays, RowStaysBounded
<1>1. ASSUME NEW w \in Workers, WorkerRenews(w), UNCHANGED requestVars
      PROVE  AttemptInv'
  <2>n. Next
    BY <1>1 DEF Next, ByWorkers
  <2>0. PICK j \in Jobs : j = wjob[w]
    BY <1>1 DEF WorkerRenews, TypeOK, WorkerTypeOK
  <2>1. /\ j \in live /\ UNCHANGED <<live, workerVars, faults>> /\ Working(w, j) /\ Owns(w, j)
        /\ \A k \in Jobs : k # j => rows'[k] = rows[k]
        /\ rows'[j] = [rows[j] EXCEPT !.lease = "live"]
    BY <1>1, <2>0 DEF WorkerRenews, RenewLease, Working, Owns, worldVars, TypeOK, StoreTypeOK
  <2>2. /\ rows'[j].status = "processing" /\ rows'[j].worker = w /\ rows'[j].lease = "live"
        /\ rows'[j].attempts = rows[j].attempts
    BY <1>t, <2>1 DEF Owns, Row
  <2>3. Held(j)'
    BY <2>1, <2>2, WorkingStays DEF Held, Owns
  <2>4. rows'[j].attempts <= Bound'
    BY <1>b, <1>t, <2>n, <2>1, <2>2 DEF RowBounded
  <2>5. RowBounded(j)'
    BY <2>2, <2>3, <2>4 DEF RowBounded
  <2> QED
    BY <1>1, <1>q, <1>w, <1>o, <2>n, <2>1, <2>5 DEF AttemptInv
<1>2. ASSUME NEW w \in Workers, WorkerCrash(w), UNCHANGED requestVars
      PROVE  AttemptInv'
  <2>n. Next
    BY <1>2 DEF Next, ByWorkers
  <2>1. UNCHANGED <<live, rows>> /\ Rest(w)
    BY <1>2 DEF WorkerCrash, storeVars
  <2>2. Bound < Bound'
    BY <1>2, SufferRaisesBound DEF WorkerCrash
  <2>3. \A j \in live : rows[j].attempts < Bound'
    <3> TAKE j \in live
    <3>1. rows[j].attempts <= Bound /\ rows[j].attempts \in Nat
      BY <1>t DEF RowBounded
    <3> QED
      BY <1>b, <2>n, <2>2, <3>1
  <2>4. \A j \in live : RowBounded(j)'
    <3> SUFFICES ASSUME NEW j \in live PROVE RowBounded(j)'
      OBVIOUS
    <3>1. rows'[j] = rows[j] /\ rows[j].attempts < Bound' /\ rows[j].attempts \in Nat
      BY <1>t, <2>1, <2>3
    <3>2. rows[j].attempts <= Bound'
      BY <1>b, <2>n, <3>1
    <3>3. rows[j].status = "received" => rows[j].attempts < MaxAttempts
      BY <1>t DEF RowBounded
    <3> QED
      BY <3>1, <3>2, <3>3 DEF RowBounded
  <2>5. FreshRow.attempts <= Bound'
    BY <1>b, <2>n, FreshRowAttempts
  <2>6. WorkersBounded'
    BY <2>n, <2>1, <2>5, GotoBounded DEF Rest, AttemptInv
  <2> QED
    BY <1>2, <1>q, <2>n, <2>1, <2>4, <2>6 DEF AttemptInv
<1>3. ASSUME NEW j \in Jobs, LeaseExpires(j), UNCHANGED requestVars
      PROVE  AttemptInv'
  <2>n. Next
    BY <1>3 DEF Next, ByWorkers
  <2>1. /\ j \in live /\ UNCHANGED <<live, workerVars, faults>> /\ ~Held(j)
        /\ \A k \in Jobs : k # j => rows'[k] = rows[k]
        /\ rows[j].status = "processing"
        /\ rows'[j] = [rows[j] EXCEPT !.lease = "expired"]
    BY <1>3 DEF LeaseExpires, LeaseRunsOut, worldVars, TypeOK, StoreTypeOK
  <2>2. rows'[j].status = "processing" /\ rows'[j].attempts = rows[j].attempts
    BY <1>t, <2>1 DEF Row
  <2>3. rows'[j].attempts < Bound' /\ rows'[j].attempts <= Bound'
    <3>1. rows[j].attempts < Bound /\ rows[j].attempts \in Nat
      BY <1>t, <2>1 DEF RowBounded
    <3> QED
      BY <1>b, <2>n, <2>2, <3>1
  <2>4. RowBounded(j)'
    BY <2>2, <2>3 DEF RowBounded
  <2> QED
    BY <1>3, <1>q, <1>w, <1>o, <2>n, <2>1, <2>4 DEF AttemptInv
<1>4. ASSUME NEW j \in Jobs, LeaseLapses(j), UNCHANGED requestVars
      PROVE  AttemptInv'
  <2>n. Next
    BY <1>4 DEF Next, ByWorkers
  <2>1. /\ j \in live /\ UNCHANGED <<live, workerVars>>
        /\ \A k \in Jobs : k # j => rows'[k] = rows[k]
        /\ rows[j].status = "processing"
        /\ rows'[j] = [rows[j] EXCEPT !.lease = "expired"]
    BY <1>4 DEF LeaseLapses, LeaseRunsOut, TypeOK, StoreTypeOK
  <2>2. Bound < Bound'
    BY <1>4, SufferRaisesBound DEF LeaseLapses
  <2>3. rows'[j].status = "processing" /\ rows'[j].attempts = rows[j].attempts
    BY <1>t, <2>1 DEF Row
  <2>4. rows'[j].attempts < Bound' /\ rows'[j].attempts <= Bound'
    <3>1. rows[j].attempts <= Bound /\ rows[j].attempts \in Nat
      BY <1>t, <2>1 DEF RowBounded
    <3> QED
      BY <1>b, <2>n, <2>2, <2>3, <3>1
  <2>5. RowBounded(j)'
    BY <2>3, <2>4 DEF RowBounded
  <2> QED
    BY <1>4, <1>q, <1>w, <1>o, <2>n, <2>1, <2>5 DEF AttemptInv
<1>5. ASSUME NEW j \in Jobs, BackoffEnds(j), UNCHANGED requestVars
      PROVE  AttemptInv'
  <2>n. Next
    BY <1>5 DEF Next, ByWorkers
  <2>1. /\ j \in live /\ UNCHANGED <<live, workerVars>>
        /\ \A k \in Jobs : k # j => rows'[k] = rows[k]
        /\ rows[j].status = "received"
        /\ rows'[j] = [rows[j] EXCEPT !.due = TRUE]
    BY <1>5 DEF BackoffEnds, BackoffElapses, TypeOK, StoreTypeOK
  <2>2. rows'[j].status = "received" /\ rows'[j].attempts = rows[j].attempts
    BY <1>t, <2>1 DEF Row
  <2>3. rows[j].attempts <= Bound /\ rows[j].attempts < MaxAttempts /\ rows[j].attempts \in Nat
    BY <1>t, <2>1 DEF RowBounded
  <2>4. rows'[j].attempts <= Bound'
    BY <1>b, <2>n, <2>2, <2>3
  <2>5. RowBounded(j)'
    BY <2>2, <2>3, <2>4 DEF RowBounded
  <2> QED
    BY <1>5, <1>q, <1>w, <1>o, <2>n, <2>1, <2>5 DEF AttemptInv
<1>6. ASSUME ApiCrash, UNCHANGED workerVars
      PROVE  AttemptInv'
  <2>n. Next
    BY <1>6 DEF Next, ByRequests
  <2>1. UNCHANGED <<live, rows>>
    BY <1>6 DEF ApiCrash, storeVars
  <2>2. \A j \in live : RowBounded(j)'
    BY <1>6, <1>t, <2>n, <2>1, WorkingStays, RowStaysBounded
  <2>3. FreshRow.attempts <= Bound'
    BY <1>b, <2>n, FreshRowAttempts
  <2>4. \A q \in Requests : qcopy'[q] = FreshRow /\ qpc'[q] # "storing"
    BY <1>6 DEF ApiCrash, Open, TypeOK, RequestTypeOK
  <2>5. RequestsBounded'
    BY <2>3, <2>4 DEF RequestsBounded
  <2> QED
    BY <1>6, <1>w, <2>n, <2>1, <2>2, <2>5 DEF AttemptInv
<1> QED
  BY <1>1, <1>2, <1>3, <1>4, <1>5, <1>6

LEMMA InitBounded == Init => AttemptInv
<1> SUFFICES ASSUME Init PROVE AttemptInv
  OBVIOUS
<1>1. Bound \in Nat /\ 0 < MaxAttempts
  BY InitTyped, DeliveryAssumption DEF Bound, TypeOK, WorldTypeOK, FaultKinds
<1>2. FreshRow.status = "received" /\ FreshRow.attempts = 0
  BY FreshRowStatus, FreshRowAttempts
<1>3. /\ \A j \in live : rows[j] = FreshRow
      /\ \A w \in Workers : wcopy[w] = FreshRow /\ wpc[w] # "save"
      /\ \A q \in Requests : qcopy[q] = FreshRow /\ qpc[q] # "storing"
  BY DEF Init, StoreInit, WorkerInit, RequestInit
<1> QED
  BY <1>1, <1>2, <1>3 DEF AttemptInv, RowBounded, WorkersBounded, RequestsBounded

LEMMA NextBounded == TypeOK /\ DeliveryInv /\ AttemptInv /\ [Next]_vars => AttemptInv'
<1> SUFFICES ASSUME TypeOK, DeliveryInv, AttemptInv, [Next]_vars PROVE AttemptInv'
  OBVIOUS
<1>1. CASE ByWorkers
  BY <1>1, WorkerStepBounded, EnvironmentBounded DEF ByWorkers
<1>2. CASE ByRequests
  BY <1>2, RequestStepBounded, RequestBeginsBounded, EnvironmentBounded DEF ByRequests
<1>3. CASE UNCHANGED vars
  <2>1. UNCHANGED <<live, rows, workerVars, requestVars>>
    BY <1>3 DEF vars, storeVars
  <2>2. \A j \in live : RowBounded(j)'
    BY <2>1, WorkingStays, RowStaysBounded DEF AttemptInv, TypeOK, StoreTypeOK
  <2> QED
    BY <2>1, <2>2, WorkersStayBounded, RequestsStayBounded DEF AttemptInv
<1> QED
  BY <1>1, <1>2, <1>3 DEF Next

(* A job is begun more often than worker_max_attempts only after crashes   *)
(* of workers or lapsed leases, and at most once more for each of them.    *)
THEOREM AttemptsStayBounded == Spec => []AttemptsBounded
<1>1. Init => TypeOK /\ DeliveryInv /\ AttemptInv
  BY InitTyped, InitGood, InitBounded
<1>2. (TypeOK /\ DeliveryInv /\ AttemptInv) /\ [Next]_vars
        => (TypeOK /\ DeliveryInv /\ AttemptInv)'
  BY NextTyped, NextGood, NextBounded
<1>3. AttemptInv => AttemptsBounded
  BY DEF AttemptInv, RowBounded, Bound, AttemptsBounded
<1> QED
  BY <1>1, <1>2, <1>3, PTL DEF Spec

----------------------------------------------------------------------------
(* Who may still send a document: a worker that has not got its receipt,   *)
WorkerToken(pc, r) ==
  pc \in {"extract", "quarantine", "deliver"} \/ (pc = "save" /\ r.status # "delivered")

Senders(j) == {w \in Workers : Working(w, j) /\ WorkerToken(wpc[w], wcopy[w])}

(* a request that delivers, or that will put back a row read before it     *)
(* changed,                                                                *)
RequestToken(pc, r, row) ==
  \/ pc = "reviewing" /\ row.status # "quarantined"
  \/ pc = "rejecting" /\ row.status \notin {"quarantined", "delivering"}
  \/ pc = "delivering"
  \/ pc = "storing" /\ r.status # "delivered"

RequestMaySend(j) ==
  \E q \in Requests : qjob[q] = j /\ RequestToken(qpc[q], qcopy[q], rows[j])

Releasing(j) ==
  \E q \in Requests : qjob[q] = j /\ qpc[q] \in {"delivering", "finalizing", "storing"}

(* and whoever comes upon a row that nobody has in hand.                   *)
RowMaySend(j) ==
  /\ j \in live
  /\ \/ rows[j].status \in {"received", "failed", "quarantined"}
     \/ rows[j].status = "processing" /\ (rows[j].lease = "expired" \/ ~Held(j))
     \/ rows[j].status = "delivering" /\ ~Releasing(j)

Count(b) == IF b THEN 1 ELSE 0

(* The sendings so far and those that may follow without another fault.    *)
Sendings(j) ==
  accepted[j] + Count(RowMaySend(j)) + Cardinality(Senders(j)) + Count(RequestMaySend(j))

SendInv == \A j \in Jobs : Sendings(j) <= 1 + FaultCount

----------------------------------------------------------------------------
(* What is counted are natural numbers.                                    *)
LEMMA CountsTyped ==
  ASSUME TypeOK, IsFiniteSet(Workers), NEW j \in Jobs
  PROVE  /\ accepted[j] \in Nat /\ FaultCount \in Nat
         /\ IsFiniteSet(Senders(j)) /\ Cardinality(Senders(j)) \in Nat
<1>1. accepted[j] \in Nat /\ FaultCount \in Nat
  BY DEF TypeOK, WorldTypeOK, FaultCount, FaultKinds
<1>2. Senders(j) \in SUBSET Workers
  BY DEF Senders
<1> QED
  BY <1>1, <1>2, FS_Subset, FS_CardinalityType

(* One sender more, one less, or as many.                                  *)
LEMMA SendersCounted ==
  ASSUME TypeOK, IsFiniteSet(Workers), NEW j \in Jobs, NEW w
  PROVE  /\ Senders(j)' = Senders(j) \cup {w} =>
              /\ Cardinality(Senders(j)') \in Nat
              /\ Cardinality(Senders(j)') <= Cardinality(Senders(j)) + 1
         /\ Senders(j)' = Senders(j) \ {w} =>
              /\ Cardinality(Senders(j)') \in Nat
              /\ Cardinality(Senders(j)') = Cardinality(Senders(j)) - Count(w \in Senders(j))
<1>1. IsFiniteSet(Senders(j)) /\ Cardinality(Senders(j)) \in Nat
  BY CountsTyped
<1>2. ASSUME Senders(j)' = Senders(j) \cup {w}
      PROVE  /\ Cardinality(Senders(j)') \in Nat
             /\ Cardinality(Senders(j)') <= Cardinality(Senders(j)) + 1
  <2>1. /\ IsFiniteSet(Senders(j)')
        /\ Cardinality(Senders(j)') =
             IF w \in Senders(j) THEN Cardinality(Senders(j)) ELSE Cardinality(Senders(j)) + 1
    BY <1>1, <1>2, FS_AddElement
  <2> QED
    BY <1>1, <2>1
<1>3. ASSUME Senders(j)' = Senders(j) \ {w}
      PROVE  /\ Cardinality(Senders(j)') \in Nat
             /\ Cardinality(Senders(j)') = Cardinality(Senders(j)) - Count(w \in Senders(j))
  <2>1. /\ IsFiniteSet(Senders(j)')
        /\ Cardinality(Senders(j)') =
             IF w \in Senders(j) THEN Cardinality(Senders(j)) - 1 ELSE Cardinality(Senders(j))
    BY <1>1, <1>3, FS_RemoveElement
  <2>2. Cardinality(Senders(j)') \in Nat
    BY <2>1, FS_CardinalityType
  <2> QED
    BY <1>1, <2>1, <2>2 DEF Count
<1> QED
  BY <1>2, <1>3

(* A request that is under way is the only one.                            *)
LEMMA OnlyRequest ==
  ASSUME OneOpen, NEW q \in Requests, Pending(q), NEW j
  PROVE  /\ RequestMaySend(j) <=> qjob[q] = j /\ RequestToken(qpc[q], qcopy[q], rows[j])
         /\ Releasing(j) <=> qjob[q] = j /\ qpc[q] \in {"delivering", "finalizing", "storing"}
BY DEF OneOpen, Pending, RequestMaySend, RequestToken, Releasing

LEMMA NoRequest ==
  ASSUME \A q \in Requests : ~Pending(q), NEW j
  PROVE  ~RequestMaySend(j) /\ ~Releasing(j)
BY DEF Pending, RequestMaySend, RequestToken, Releasing

LEMMA RequestGoesOn ==
  ASSUME TypeOK, OneOpen, NEW q \in Requests, Pending(q), NEW pc, NEW i, NEW r, Step(q, pc, i, r)
  PROVE  /\ OneOpen'
         /\ pc = "done" => \A p \in Requests : ~Pending(p)'
         /\ pc \notin {"new", "done"} => Pending(q)'
         /\ qpc'[q] = pc /\ qjob'[q] = i /\ qcopy'[q] = r
BY DEF OneOpen, Pending, Step, TypeOK, RequestTypeOK

(* The row of job k is as it was, and so are the hands it is in.           *)
RowKept(k) == rows'[k] = rows[k] /\ (k \in live' <=> k \in live)

HandsKept(k) == \A w \in Workers : Working(w, k)' <=> Working(w, k)

LEMMA HeldKept ==
  ASSUME NEW k, RowKept(k), HandsKept(k)
  PROVE  Held(k)' <=> Held(k)
BY DEF RowKept, HandsKept, Held, Owns

LEMMA RowMaySendKept ==
  ASSUME NEW k, RowKept(k), HandsKept(k), Releasing(k)' <=> Releasing(k)
  PROVE  RowMaySend(k)' <=> RowMaySend(k)
<1>1. Held(k)' <=> Held(k)
  BY HeldKept
<1> QED
  BY <1>1 DEF RowMaySend, RowKept

LEMMA RequestsKept ==
  ASSUME NEW k, UNCHANGED requestVars
  PROVE  /\ Releasing(k)' <=> Releasing(k)
         /\ rows'[k] = rows[k] => (RequestMaySend(k)' <=> RequestMaySend(k))
BY DEF requestVars, Releasing, RequestMaySend, RequestToken

(* A job's sendings grow by no more than the faults.                       *)
PaidFor(k) == Sendings(k)' + FaultCount <= Sendings(k) + FaultCount'

LEMMA FaultsCounted ==
  ASSUME TypeOK
  PROVE  /\ UNCHANGED faults => FaultCount' = FaultCount
         /\ \A kind \in FaultKinds : Suffer(kind) => FaultCount' = FaultCount + 1
<1>1. UNCHANGED faults => FaultCount' = FaultCount
  BY DEF FaultCount
<1>2. ASSUME NEW kind \in FaultKinds, Suffer(kind) PROVE FaultCount' = FaultCount + 1
  <2>1. faults'[kind] = faults[kind] + 1 /\ \A k \in FaultKinds : k # kind => faults'[k] = faults[k]
    BY <1>2 DEF Suffer, TypeOK, WorldTypeOK
  <2>2. \A k \in FaultKinds : faults[k] \in Nat
    BY DEF TypeOK, WorldTypeOK
  <2> QED
    BY <2>1, <2>2 DEF FaultCount, FaultKinds
<1> QED
  BY <1>1, <1>2

LEMMA NothingSent ==
  ASSUME TypeOK, IsFiniteSet(Workers), NEW k \in Jobs, FaultCount' = FaultCount,
         accepted'[k] = accepted[k], Senders(k)' = Senders(k),
         RowMaySend(k)' <=> RowMaySend(k), RequestMaySend(k)' <=> RequestMaySend(k)
  PROVE  PaidFor(k)
BY CountsTyped DEF PaidFor, Sendings, Count

(* A row is overwritten: whoever will put the older one back now, had the  *)
(* right to send it, or the row had.                                       *)
LEMMA OverwrittenUnderReview ==
  ASSUME TypeOK, OneOpen, NEW k \in live, UNCHANGED requestVars
  PROVE  RequestMaySend(k)' => RequestMaySend(k) \/ RowMaySend(k)
<1> SUFFICES ASSUME RequestMaySend(k)' PROVE RequestMaySend(k) \/ RowMaySend(k)
  OBVIOUS
<1>1. PICK q \in Requests : qjob[q] = k /\ RequestToken(qpc[q], qcopy[q], rows[k])'
  BY DEF RequestMaySend, requestVars
<1>2. Pending(q)
  BY <1>1 DEF RequestToken, Pending, requestVars
<1>3. RequestToken(qpc[q], qcopy[q], rows[k])
        \/ (qpc[q] \in {"reviewing", "rejecting"} /\ rows[k].status \in {"quarantined", "delivering"})
  BY <1>1 DEF RequestToken, requestVars
<1>4. qpc[q] \in {"reviewing", "rejecting"} => ~Releasing(k)
  BY <1>2, OnlyRequest
<1> QED
  BY <1>1, <1>3, <1>4 DEF RequestMaySend, RowMaySend

----------------------------------------------------------------------------
(* A worker goes on with its job, or puts it down.                         *)
LEMMA WorkerGoesOn ==
  ASSUME TypeOK, NEW w \in Workers, NEW pc \in WorkerPlaces \ {"idle"}, NEW r,
         wpc[w] # "idle", Goto(w, pc, wjob[w], r), UNCHANGED <<live, rows, requestVars>>,
         NEW k \in Jobs
  PROVE  /\ RowMaySend(k)' <=> RowMaySend(k)
         /\ RequestMaySend(k)' <=> RequestMaySend(k)
         /\ k # wjob[w] => Senders(k)' = Senders(k)
         /\ k = wjob[w] => Senders(k)' = IF WorkerToken(pc, r) THEN Senders(k) \cup {w}
                                                             ELSE Senders(k) \ {w}
<1>1. HandsKept(k) /\ RowKept(k)
  BY WorkingOn DEF HandsKept, RowKept
<1>2. /\ RowMaySend(k)' <=> RowMaySend(k)
      /\ RequestMaySend(k)' <=> RequestMaySend(k)
  BY <1>1, RowMaySendKept, RequestsKept
<1>3. \A v \in Workers : v # w => wpc'[v] = wpc[v] /\ wcopy'[v] = wcopy[v]
  BY DEF Goto, TypeOK, WorkerTypeOK
<1>4. /\ wpc'[w] = pc /\ wcopy'[w] = r
  BY DEF Goto, TypeOK, WorkerTypeOK
<1>5. \A v \in Workers : Working(v, k)' <=> Working(v, k)
  BY <1>1 DEF HandsKept
<1>6. Working(w, k) <=> k = wjob[w]
  BY DEF Working
<1>7. ASSUME NEW v \in Workers, v # w PROVE v \in Senders(k)' <=> v \in Senders(k)
  BY <1>3, <1>5, <1>7 DEF Senders, WorkerToken
<1>8. w \in Senders(k)' <=> k = wjob[w] /\ WorkerToken(pc, r)
  BY <1>4, <1>5, <1>6 DEF Senders, WorkerToken
<1>9. w \in Senders(k) => k = wjob[w]
  BY <1>6 DEF Senders
<1>10. Senders(k) \subseteq Workers /\ Senders(k)' \subseteq Workers
  BY DEF Senders
<1> HIDE DEF Goto
<1> QED
  BY <1>2, <1>7, <1>8, <1>9, <1>10

(* A worker that rests holds its job no more, and sends nothing.           *)
LEMMA WorkerLeaves ==
  ASSUME TypeOK, NEW w \in Workers, Rest(w), NEW k \in Jobs
  PROVE  /\ k # wjob[w] => HandsKept(k) /\ Senders(k)' = Senders(k)
         /\ Senders(k)' = Senders(k) \ {w}
<1>1. \A v \in Workers : Working(v, k)' <=> Working(v, k) /\ v # w
  BY WorkingElsewhere
<1>2. \A v \in Workers : v # w => wpc'[v] = wpc[v] /\ wcopy'[v] = wcopy[v]
  BY DEF Rest, Goto, TypeOK, WorkerTypeOK
<1>3. Senders(k)' = Senders(k) \ {w}
  BY <1>1, <1>2 DEF Senders, WorkerToken
<1>4. k # wjob[w] => ~Working(w, k)
  BY DEF Working
<1>5. k # wjob[w] => w \notin Senders(k)
  BY <1>4 DEF Senders
<1> QED
  BY <1>1, <1>3, <1>4, <1>5 DEF HandsKept

(* The answer of the target, and the fault that pays for a lost one.       *)
LEMMA AnswerPaid ==
  ASSUME TypeOK, NEW j \in Jobs, NEW r, NEW answer \in Answers, TargetAnswers(j, r, answer)
  PROVE  /\ \A k \in Jobs : k # j => accepted'[k] = accepted[k]
         /\ Succeeded(answer) => accepted'[j] = accepted[j] + 1 /\ FaultCount' = FaultCount
         /\ ~Succeeded(answer) =>
              accepted'[j] + FaultCount <= accepted[j] + FaultCount'
         /\ FaultCount <= FaultCount' /\ FaultCount' \in Nat
<1>1. accepted[j] \in Nat /\ FaultCount \in Nat
  BY DEF TypeOK, WorldTypeOK, FaultCount, FaultKinds
<1>2. /\ \A k \in Jobs : k # j => accepted'[k] = accepted[k]
      /\ accepted'[j] = IF answer.taken THEN accepted[j] + 1 ELSE accepted[j]
  BY DEF TargetAnswers, TypeOK, WorldTypeOK
<1>3. Lost(answer) => FaultCount' = FaultCount + 1
  BY FaultsCounted DEF TargetAnswers, FaultKinds
<1>4. ~Lost(answer) => FaultCount' = FaultCount
  BY FaultsCounted DEF TargetAnswers
<1>5. /\ Succeeded(answer) => answer.taken /\ ~Lost(answer)
      /\ ~Succeeded(answer) /\ answer.taken => Lost(answer)
  BY SuccessIsTaken DEF Succeeded, Lost
<1> QED
  BY <1>1, <1>2, <1>3, <1>4, <1>5

(* What a worker's step adds to the sendings of a job, a fault has paid.   *)
LEMMA WorkerStepPaid ==
  ASSUME TypeOK, OneOpen, IsFiniteSet(Workers), NEW w \in Workers, WorkerStep(w),
         UNCHANGED requestVars, NEW k \in Jobs
  PROVE  PaidFor(k)
<1> DEFINE j == wjob[w]
           r == wcopy[w]
<1>a. /\ r \in Row /\ (wpc[w] # "idle" => j \in Jobs)
      /\ UNCHANGED faults => FaultCount' = FaultCount
  BY FaultsCounted DEF TypeOK, WorkerTypeOK
<1>b. wpc[w] # "idle" => (w \in Senders(k) <=> k = j /\ WorkerToken(wpc[w], r))
  BY DEF Senders, Working
<1>c. ASSUME UNCHANGED <<live, rows, accepted, faults>>, NEW pc \in WorkerPlaces \ {"idle"}, NEW c,
             wpc[w] # "idle", Goto(w, pc, j, c),
             WorkerToken(wpc[w], r) <=> WorkerToken(pc, c)
      PROVE  PaidFor(k)
  <2>1. /\ RowMaySend(k)' <=> RowMaySend(k)
        /\ RequestMaySend(k)' <=> RequestMaySend(k)
        /\ Senders(k)' = Senders(k)
    <3>1. /\ RowMaySend(k)' <=> RowMaySend(k)
          /\ RequestMaySend(k)' <=> RequestMaySend(k)
          /\ k # j => Senders(k)' = Senders(k)
          /\ k = j => Senders(k)' = IF WorkerToken(pc, c) THEN Senders(k) \cup {w}
                                                        ELSE Senders(k) \ {w}
      BY <1>c, WorkerGoesOn
    <3>2. k = j => (w \in Senders(k) <=> WorkerToken(pc, c))
      BY <1>b, <1>c
    <3>3. CASE WorkerToken(pc, c)
      <4>1. k = j => Senders(k)' = Senders(k) \cup {w} /\ w \in Senders(k)
        BY <3>1, <3>2, <3>3
      <4> QED
        BY <3>1, <4>1
    <3>4. CASE ~WorkerToken(pc, c)
      <4>1. k = j => Senders(k)' = Senders(k) \ {w} /\ w \notin Senders(k)
        BY <3>1, <3>2, <3>4
      <4> QED
        BY <3>1, <4>1
    <3> QED
      BY <3>3, <3>4
  <2>2. FaultCount' = FaultCount /\ accepted'[k] = accepted[k]
    BY <1>a, <1>c
  <2> QED
    BY <2>1, <2>2, NothingSent
<1>1. CASE WorkerClaim(w)
  <2>1. PICK i \in Jobs : ClaimNext(w, i) /\ Goto(w, "extract", i, Claimed(w, rows[i]))
    BY <1>1 DEF WorkerClaim
  <2>2. wpc[w] = "idle" /\ UNCHANGED <<accepted, faults>>
    BY <1>1 DEF WorkerClaim, worldVars
  <2>3. \A v \in Workers : Working(v, k)' <=> Working(v, k) \/ (v = w /\ k = i)
    BY <2>1, <2>2 DEF Goto, Working, TypeOK, WorkerTypeOK
  <2>4. /\ \A v \in Workers : v # w => wpc'[v] = wpc[v] /\ wcopy'[v] = wcopy[v]
        /\ wpc'[w] = "extract"
    BY <2>1 DEF Goto, TypeOK, WorkerTypeOK
  <2>5. /\ w \notin Senders(k)
        /\ Senders(k)' = IF k = i THEN Senders(k) \cup {w} ELSE Senders(k)
    BY <2>2, <2>3, <2>4 DEF Senders, Working, WorkerToken
  <2>6. CASE k # i
    <3>1. RowKept(k) /\ HandsKept(k)
      BY <2>1, <2>3, <2>6 DEF ClaimNext, RowKept, HandsKept, TypeOK, StoreTypeOK
    <3>2. /\ RowMaySend(k)' <=> RowMaySend(k)
          /\ RequestMaySend(k)' <=> RequestMaySend(k)
      <4>1. RowMaySend(k)' <=> RowMaySend(k)
        BY <3>1, RowMaySendKept, RequestsKept
      <4>2. RequestMaySend(k)' <=> RequestMaySend(k)
        BY <3>1, RequestsKept DEF RowKept
      <4> QED
        BY <4>1, <4>2
    <3>3. /\ FaultCount' = FaultCount /\ accepted'[k] = accepted[k]
          /\ Senders(k)' = Senders(k)
      BY <1>a, <2>2, <2>5, <2>6
    <3> QED
      BY <3>2, <3>3, NothingSent
  <2>7. CASE k = i
    <3>1. RowMaySend(k)
      BY <2>1, <2>7 DEF ClaimNext, Claimable, RowMaySend
    <3>2. /\ rows[k].status \in {"received", "processing"}
          /\ rows'[k].status = "processing" /\ rows'[k].worker = w /\ rows'[k].lease = "live"
          /\ live' = live /\ k \in live
      BY <2>1, <2>7 DEF ClaimNext, Claimable, Claimed, TypeOK, StoreTypeOK, Row
    <3>3. Held(k)'
      BY <2>3, <2>7, <3>2 DEF Held, Owns
    <3>4. ~RowMaySend(k)'
      BY <3>2, <3>3 DEF RowMaySend
    <3>5. RequestMaySend(k)' <=> RequestMaySend(k)
      BY <3>2 DEF RequestMaySend, RequestToken, requestVars
    <3>6. Cardinality(Senders(k)') \in Nat /\ Cardinality(Senders(k)') <= Cardinality(Senders(k)) + 1
      BY <2>5, <2>7, SendersCounted
    <3> QED
      BY <1>a, <2>2, <3>1, <3>4, <3>5, <3>6, CountsTyped DEF PaidFor, Sendings, Count
  <2> QED
    BY <2>6, <2>7
<1>2. CASE WorkerExtract(w)
  <2>1. PICK pc \in {"deliver", "quarantine"} : Goto(w, pc, j, Extracted(j, r))
    BY <1>2 DEF WorkerExtract
  <2>2. /\ UNCHANGED <<live, rows, accepted, faults>> /\ wpc[w] = "extract"
        /\ pc \in WorkerPlaces \ {"idle"}
    BY <1>2 DEF WorkerExtract, worldVars, WorkerPlaces
  <2> QED
    BY <1>c, <2>1, <2>2 DEF WorkerToken
<1>3. CASE WorkerFails(w)
  <2>1. AfterError(r, FALSE).status # "delivered"
    BY <1>a, StatusOfMadeRows
  <2>2. /\ UNCHANGED <<live, rows, accepted, faults>> /\ wpc[w] \in {"extract", "quarantine"}
        /\ Goto(w, "save", j, AfterError(r, FALSE)) /\ "save" \in WorkerPlaces \ {"idle"}
    BY <1>3 DEF WorkerFails, worldVars, WorkerPlaces
  <2> QED
    BY <1>c, <2>1, <2>2 DEF WorkerToken
<1>4. CASE WorkerQuarantine(w)
  <2>1. PICK c \in {Quarantined(r), AfterError(Quarantined(r), FALSE)} : Goto(w, "save", j, c)
    BY <1>4 DEF WorkerQuarantine
  <2>2. c.status # "delivered"
    BY <1>a, RowsMadeOfRows, StatusOfMadeRows
  <2>3. /\ UNCHANGED <<live, rows, accepted, faults>> /\ wpc[w] = "quarantine"
        /\ "save" \in WorkerPlaces \ {"idle"}
    BY <1>4 DEF WorkerQuarantine, WorkerPlaces
  <2> QED
    BY <1>c, <2>1, <2>2, <2>3 DEF WorkerToken
<1>5. CASE WorkerDeliver(w)
  <2>1. PICK answer \in Answers :
          /\ TargetAnswers(j, r, answer)
          /\ IF Succeeded(answer)
             THEN Goto(w, "finalize", j, r)
             ELSE Goto(w, "save", j, AfterError(r, answer.error = "permanent"))
    BY <1>5 DEF WorkerDeliver
  <2>2. wpc[w] = "deliver" /\ j \in Jobs /\ UNCHANGED <<live, rows>>
    BY <1>5, <1>a DEF WorkerDeliver
  <2> DEFINE pc == IF Succeeded(answer) THEN "finalize" ELSE "save"
             c == IF Succeeded(answer) THEN r ELSE AfterError(r, answer.error = "permanent")
  <2>3. Goto(w, pc, j, c) /\ pc \in WorkerPlaces \ {"idle"}
    BY <2>1 DEF WorkerPlaces
  <2>4. WorkerToken(pc, c) <=> ~Succeeded(answer)
    BY <1>a, StatusOfMadeRows DEF WorkerToken
  <2>5. /\ RowMaySend(k)' <=> RowMaySend(k)
        /\ RequestMaySend(k)' <=> RequestMaySend(k)
        /\ k # j => Senders(k)' = Senders(k)
        /\ k = j => Senders(k)' = IF Succeeded(answer) THEN Senders(k) \ {w} ELSE Senders(k)
    <3>1. k = j => w \in Senders(k)
      BY <1>b, <2>2 DEF WorkerToken
    <3>2. /\ RowMaySend(k)' <=> RowMaySend(k)
          /\ RequestMaySend(k)' <=> RequestMaySend(k)
          /\ k # j => Senders(k)' = Senders(k)
          /\ k = j => Senders(k)' = IF WorkerToken(pc, c) THEN Senders(k) \cup {w}
                                                        ELSE Senders(k) \ {w}
      <4> HIDE DEF pc, c
      <4> QED
        BY <2>2, <2>3, WorkerGoesOn
    <3> QED
      BY <2>4, <3>1, <3>2
  <2>6. /\ k # j => accepted'[k] = accepted[k]
        /\ Succeeded(answer) => accepted'[j] = accepted[j] + 1 /\ FaultCount' = FaultCount
        /\ ~Succeeded(answer) => accepted'[j] + FaultCount <= accepted[j] + FaultCount'
        /\ FaultCount <= FaultCount' /\ FaultCount' \in Nat
    BY <2>1, <2>2, AnswerPaid
  <2>7. accepted'[k] \in Nat
    BY <1>a, <2>1, <2>2, AnswerTyped DEF TypeOK
  <2>8. CASE k = j /\ Succeeded(answer)
    <3>1. w \in Senders(k)
      BY <1>b, <2>2, <2>8 DEF WorkerToken
    <3>2. Cardinality(Senders(k)') \in Nat /\ Cardinality(Senders(k)') = Cardinality(Senders(k)) - 1
      BY <2>5, <2>8, <3>1, SendersCounted DEF Count
    <3> QED
      BY <2>5, <2>6, <2>8, <3>2, CountsTyped DEF PaidFor, Sendings, Count
  <2>9. CASE ~(k = j /\ Succeeded(answer))
    <3>1. Cardinality(Senders(k)') = Cardinality(Senders(k))
      BY <2>5, <2>9
    <3>2. accepted'[k] + FaultCount <= accepted[k] + FaultCount'
      BY <2>6, <2>9, CountsTyped
    <3> QED
      BY <2>5, <2>6, <2>7, <3>1, <3>2, CountsTyped DEF PaidFor, Sendings, Count
  <2> QED
    BY <2>8, <2>9
<1>6. CASE WorkerFinalize(w)
  <2>1. PICK cleaned \in BOOLEAN : Goto(w, "save", j, Finalized(r, cleaned))
    BY <1>6 DEF WorkerFinalize
  <2>2. Finalized(r, cleaned).status = "delivered"
    BY <1>a, StatusOfMadeRows
  <2>3. /\ UNCHANGED <<live, rows, accepted, faults>> /\ wpc[w] = "finalize"
        /\ "save" \in WorkerPlaces \ {"idle"}
    BY <1>6 DEF WorkerFinalize, WorkerPlaces, storeVars
  <2> QED
    BY <1>c, <2>1, <2>2, <2>3 DEF WorkerToken
<1>7. CASE WorkerSave(w)
  <2>1. /\ j \in Jobs /\ Save(j, Unleased(r)) /\ UNCHANGED <<accepted, faults>> /\ Rest(w)
        /\ wpc[w] = "save"
    BY <1>7, <1>a DEF WorkerSave, worldVars
  <2>2. CASE k # j \/ k \notin live
    <3>1. RowKept(k) /\ rows'[k] = rows[k]
      BY <2>1, <2>2 DEF Save, RowKept, TypeOK, StoreTypeOK
    <3>2. RequestMaySend(k)' <=> RequestMaySend(k)
      BY <3>1, RequestsKept
    <3>3. Senders(k)' = Senders(k) \ {w} /\ (k # j => HandsKept(k) /\ Senders(k)' = Senders(k))
      BY <2>1, WorkerLeaves
    <3>4. RowMaySend(k)' <=> RowMaySend(k)
      <4>1. CASE k # j
        BY <3>1, <3>3, <4>1, RowMaySendKept, RequestsKept
      <4>2. CASE k \notin live
        BY <3>1, <4>2 DEF RowMaySend, RowKept
      <4> QED
        BY <2>2, <4>1, <4>2
    <3>5. Cardinality(Senders(k)') \in Nat /\ Cardinality(Senders(k)') <= Cardinality(Senders(k))
      <4>1. /\ Cardinality(Senders(k)') \in Nat
            /\ Cardinality(Senders(k)') = Cardinality(Senders(k)) - Count(w \in Senders(k))
        BY <3>3, SendersCounted
      <4> QED
        BY <4>1, CountsTyped DEF Count
    <3> QED
      BY <1>a, <2>1, <3>2, <3>4, <3>5, CountsTyped DEF PaidFor, Sendings, Count
  <2>3. CASE k = j /\ k \in live
    <3>1. rows'[k].status = r.status
      BY <1>a, <2>1, <2>3, StatusOfMadeRows DEF Save, TypeOK, StoreTypeOK
    <3>2. RequestMaySend(k)' => RequestMaySend(k) \/ RowMaySend(k)
      BY <2>3, OverwrittenUnderReview
    <3>3. w \in Senders(k) <=> r.status # "delivered"
      BY <1>b, <2>1, <2>3 DEF WorkerToken
    <3>4. /\ Cardinality(Senders(k)') \in Nat
          /\ Cardinality(Senders(k)') = Cardinality(Senders(k)) - Count(w \in Senders(k))
      BY <2>1, WorkerLeaves, SendersCounted
    <3>5. RowMaySend(k)' => r.status # "delivered"
      BY <3>1 DEF RowMaySend
    <3> QED
      BY <1>a, <2>1, <3>2, <3>3, <3>4, <3>5, CountsTyped DEF PaidFor, Sendings, Count
  <2> QED
    BY <2>2, <2>3
<1> QED
  BY <1>1, <1>2, <1>3, <1>4, <1>5, <1>6, <1>7 DEF WorkerStep

(* The request that is under way goes on.                                  *)
LEMMA RequestStepPaid ==
  ASSUME TypeOK, OneOpen, IsFiniteSet(Workers), NEW q \in Requests, RequestStep(q),
         UNCHANGED workerVars, NEW k \in Jobs
  PROVE  OneOpen' /\ PaidFor(k)
<1> DEFINE j == qjob[q]
           r == qcopy[q]
<1>a. Pending(q)
  BY DEF Pending, RequestStep, ReviewSave, ReleaseReject, ReleaseClaim, ReleaseClaimRefused,
         ReleaseDeliver, ReleaseFinalize, ReleaseStore, DeleteUnlink, RequestLog
<1>b. /\ r \in Row /\ j \in Jobs
      /\ UNCHANGED faults => FaultCount' = FaultCount
  BY <1>a, FaultsCounted DEF TypeOK, RequestTypeOK, Pending
<1>c. Senders(k)' = Senders(k) /\ HandsKept(k)
  BY WorkingStays DEF Senders, HandsKept, workerVars
<1>d. /\ RequestMaySend(k) <=> j = k /\ RequestToken(qpc[q], r, rows[k])
      /\ Releasing(k) <=> j = k /\ qpc[q] \in {"delivering", "finalizing", "storing"}
  BY <1>a, OnlyRequest
<1>e. ASSUME NEW pc, NEW i, NEW c, Step(q, pc, i, c)
      PROVE  /\ OneOpen'
             /\ pc # "done" => (RequestMaySend(k)' <=> i = k /\ RequestToken(pc, c, rows'[k]))
             /\ pc # "done" => (Releasing(k)' <=>
                                  i = k /\ pc \in {"delivering", "finalizing", "storing"})
             /\ pc = "done" => ~RequestMaySend(k)' /\ ~Releasing(k)'
  <2>1. \A p \in Requests : p # q => qpc'[p] \in {"new", "done"}
    BY <1>a, <1>e DEF OneOpen, Pending, Step, TypeOK, RequestTypeOK
  <2>2. qpc'[q] = pc /\ qjob'[q] = i /\ qcopy'[q] = c
    BY <1>e DEF Step, TypeOK, RequestTypeOK
  <2> QED
    BY <2>1, <2>2 DEF OneOpen, Pending, RequestMaySend, RequestToken, Releasing
<1>1. ASSUME NEW c, Save(j, c), Step(q, "logging", j, FreshRow), UNCHANGED <<accepted, faults>>,
             qpc[q] \in {"reviewing", "rejecting"}
      PROVE  OneOpen' /\ PaidFor(k)
  <2>1. OneOpen' /\ ~RequestMaySend(k)' /\ ~Releasing(k)'
    BY <1>1, <1>e DEF RequestToken
  <2>2. ~Releasing(k)
    BY <1>1, <1>d
  <2>3. CASE k = j /\ k \in live
    <3>1. RowMaySend(k) \/ RequestMaySend(k)
      BY <1>1, <1>d, <2>2, <2>3 DEF RequestToken, RowMaySend
    <3> QED
      BY <1>1, <1>b, <1>c, <2>1, <3>1, CountsTyped DEF PaidFor, Sendings, Count
  <2>4. CASE ~(k = j /\ k \in live)
    <3>1. RowKept(k)
      BY <1>1, <1>b, <2>4 DEF Save, RowKept, TypeOK, StoreTypeOK
    <3>2. RowMaySend(k)' <=> RowMaySend(k)
      BY <1>c, <2>1, <2>2, <3>1, RowMaySendKept
    <3> QED
      BY <1>1, <1>b, <1>c, <2>1, <3>2, CountsTyped DEF PaidFor, Sendings, Count
  <2> QED
    BY <2>1, <2>3, <2>4
<1>2. CASE ReviewSave(q)
  <2>1. PICK d \in DocTypes, o \in {r.routing, TRUE} : Save(j, Reviewed(q, r, d, o))
    BY <1>2 DEF ReviewSave
  <2> QED
    BY <1>1, <1>2, <2>1 DEF ReviewSave, worldVars
<1>3. CASE ReleaseReject(q)
  BY <1>1, <1>3 DEF ReleaseReject, worldVars
<1>4. CASE ReleaseClaim(q)
  <2>1. /\ qpc[q] = "claiming" /\ ClaimDelivery(j) /\ UNCHANGED <<accepted, faults>>
        /\ Step(q, "delivering", j, [r EXCEPT !.status = "delivering"])
    BY <1>4 DEF ReleaseClaim, worldVars
  <2>2. /\ OneOpen' /\ (RequestMaySend(k)' <=> j = k) /\ (Releasing(k)' <=> j = k)
        /\ ~RequestMaySend(k) /\ ~Releasing(k)
    BY <1>d, <1>e, <2>1 DEF RequestToken
  <2>3. CASE k = j
    <3>1. rows'[k].status = "delivering" /\ k \in live /\ rows[k].status = "quarantined"
      BY <1>b, <2>1, <2>3 DEF ClaimDelivery, DeliveryClaimable, TypeOK, StoreTypeOK, Row
    <3>2. RowMaySend(k) /\ ~RowMaySend(k)'
      BY <2>2, <2>3, <3>1 DEF RowMaySend
    <3> QED
      BY <1>b, <1>c, <2>1, <2>2, <2>3, <3>2, CountsTyped DEF PaidFor, Sendings, Count
  <2>4. CASE k # j
    <3>1. RowKept(k)
      BY <2>1, <2>4 DEF ClaimDelivery, RowKept, TypeOK, StoreTypeOK
    <3>2. RowMaySend(k)' <=> RowMaySend(k)
      BY <1>c, <2>2, <2>4, <3>1, RowMaySendKept
    <3> QED
      BY <1>b, <1>c, <2>1, <2>2, <2>4, <3>2, CountsTyped DEF PaidFor, Sendings, Count
  <2> QED
    BY <2>2, <2>3, <2>4
<1>5. ASSUME Finish(q), UNCHANGED <<live, rows, accepted, faults>>,
             qpc[q] \in {"claiming", "unlinking", "logging"}
      PROVE  OneOpen' /\ PaidFor(k)
  <2>1. /\ OneOpen' /\ ~RequestMaySend(k)' /\ ~Releasing(k)'
        /\ ~RequestMaySend(k) /\ ~Releasing(k)
    BY <1>5, <1>d, <1>e DEF Finish, RequestToken
  <2>2. RowMaySend(k)' <=> RowMaySend(k)
    BY <1>5, <1>c, <2>1, RowMaySendKept DEF RowKept
  <2> QED
    BY <1>5, <1>b, <1>c, <2>1, <2>2, CountsTyped DEF PaidFor, Sendings, Count
<1>6. CASE ReleaseClaimRefused(q)
  BY <1>5, <1>6 DEF ReleaseClaimRefused, storeVars, worldVars
<1>7. CASE ReleaseDeliver(q)
  <2>1. PICK answer \in Answers :
          /\ TargetAnswers(j, r, answer)
          /\ IF Succeeded(answer)
             THEN Step(q, "finalizing", j, r)
             ELSE Step(q, "storing", j, [r EXCEPT !.status = "failed"])
    BY <1>7 DEF ReleaseDeliver
  <2>2. qpc[q] = "delivering" /\ UNCHANGED <<live, rows>>
    BY <1>7 DEF ReleaseDeliver
  <2>3. [r EXCEPT !.status = "failed"].status = "failed"
    BY <1>b DEF Row
  <2>4. /\ OneOpen' /\ (Releasing(k)' <=> j = k) /\ (Releasing(k) <=> j = k)
        /\ RequestMaySend(k) <=> j = k
        /\ RequestMaySend(k)' <=> j = k /\ ~Succeeded(answer)
    <3>1. CASE Succeeded(answer)
      BY <1>d, <1>e, <2>1, <2>2, <3>1 DEF RequestToken
    <3>2. CASE ~Succeeded(answer)
      <4> DEFINE c == [r EXCEPT !.status = "failed"]
      <4>1. Step(q, "storing", j, c) /\ c.status = "failed"
        BY <2>1, <2>3, <3>2
      <4> HIDE DEF c
      <4>2. /\ OneOpen' /\ (Releasing(k)' <=> j = k)
            /\ RequestMaySend(k)' <=> j = k /\ RequestToken("storing", c, rows'[k])
        BY <1>e, <4>1
      <4> QED
        BY <1>d, <2>2, <3>2, <4>1, <4>2 DEF RequestToken
    <3> QED
      BY <3>1, <3>2
  <2>5. RowMaySend(k)' <=> RowMaySend(k)
    BY <1>c, <2>2, <2>4, RowMaySendKept DEF RowKept
  <2>6. /\ k # j => accepted'[k] = accepted[k]
        /\ Succeeded(answer) => accepted'[j] = accepted[j] + 1 /\ FaultCount' = FaultCount
        /\ ~Succeeded(answer) => accepted'[j] + FaultCount <= accepted[j] + FaultCount'
        /\ FaultCount <= FaultCount' /\ FaultCount' \in Nat
    BY <1>b, <2>1, AnswerPaid
  <2>7. accepted'[k] \in Nat
    BY <1>b, <2>1, AnswerTyped DEF TypeOK
  <2> QED
    BY <1>c, <2>4, <2>5, <2>6, <2>7, CountsTyped DEF PaidFor, Sendings, Count
<1>8. CASE ReleaseFinalize(q)
  <2>1. PICK cleaned \in BOOLEAN : Step(q, "storing", j, Finalized(r, cleaned))
    BY <1>8 DEF ReleaseFinalize
  <2>2. /\ Finalized(r, cleaned).status = "delivered" /\ qpc[q] = "finalizing"
        /\ UNCHANGED <<live, rows, accepted, faults>>
    BY <1>8, <1>b, StatusOfMadeRows DEF ReleaseFinalize, storeVars
  <2>3. /\ OneOpen' /\ (Releasing(k)' <=> j = k) /\ (Releasing(k) <=> j = k)
        /\ ~RequestMaySend(k)' /\ ~RequestMaySend(k)
    BY <1>d, <1>e, <2>1, <2>2 DEF RequestToken
  <2>4. RowMaySend(k)' <=> RowMaySend(k)
    BY <1>c, <2>2, <2>3, RowMaySendKept DEF RowKept
  <2> QED
    BY <1>b, <1>c, <2>2, <2>3, <2>4, CountsTyped DEF PaidFor, Sendings, Count
<1>9. CASE ReleaseStore(q)
  <2>1. qpc[q] = "storing" /\ Save(j, r) /\ Finish(q) /\ UNCHANGED <<accepted, faults>>
    BY <1>9 DEF ReleaseStore, worldVars
  <2>2. /\ OneOpen' /\ ~RequestMaySend(k)' /\ ~Releasing(k)'
        /\ RequestMaySend(k) <=> j = k /\ r.status # "delivered"
        /\ Releasing(k) <=> j = k
    BY <1>d, <1>e, <2>1 DEF Finish, RequestToken
  <2>3. CASE k = j
    <3>1. RowMaySend(k)' => r.status # "delivered"
      BY <2>1, <2>3 DEF Save, RowMaySend, TypeOK, StoreTypeOK
    <3> QED
      BY <1>b, <1>c, <2>1, <2>2, <2>3, <3>1, CountsTyped DEF PaidFor, Sendings, Count
  <2>4. CASE k # j
    <3>1. RowKept(k)
      BY <2>1, <2>4 DEF Save, RowKept, TypeOK, StoreTypeOK
    <3>2. RowMaySend(k)' <=> RowMaySend(k)
      BY <1>c, <2>2, <2>4, <3>1, RowMaySendKept
    <3> QED
      BY <1>b, <1>c, <2>1, <2>2, <2>4, <3>2, CountsTyped DEF PaidFor, Sendings, Count
  <2> QED
    BY <2>2, <2>3, <2>4
<1>10. CASE DeleteUnlink(q)
  BY <1>5, <1>10 DEF DeleteUnlink, storeVars
<1>11. CASE RequestLog(q)
  BY <1>5, <1>11 DEF RequestLog, worldVars
<1> QED
  BY <1>2, <1>3, <1>4, <1>6, <1>7, <1>8, <1>9, <1>10, <1>11 DEF RequestStep

(* A request begins where none is under way.                               *)
LEMMA RequestBeginsPaid ==
  ASSUME TypeOK, MaxOpen <= 1, IsFiniteSet(Requests), IsFiniteSet(Workers),
         NEW q \in Requests, NEW j \in Jobs, RequestBegins(q, j), UNCHANGED workerVars,
         NEW k \in Jobs
  PROVE  OneOpen' /\ PaidFor(k)
<1>a. /\ \A p \in Requests : ~Pending(p)
      /\ UNCHANGED <<accepted, faults>> /\ FaultCount' = FaultCount
  BY FirstRequest, FaultsCounted
     DEF RequestBegins, ReviewRead, ReleaseRead, Retry, Delete, worldVars
<1>b. ~RequestMaySend(k) /\ ~Releasing(k)
  BY <1>a, NoRequest
<1>c. Senders(k)' = Senders(k) /\ HandsKept(k)
  BY WorkingStays DEF Senders, HandsKept, workerVars
<1>d. ASSUME NEW pc, NEW c, Step(q, pc, j, c), pc \notin {"delivering", "finalizing", "storing"},
             k = j => ~RequestToken(pc, c, rows'[k])
      PROVE  OneOpen' /\ ~RequestMaySend(k)' /\ ~Releasing(k)'
  <2>1. \A p \in Requests : p # q => qpc'[p] \in {"new", "done"}
    BY <1>a, <1>d DEF Pending, Step, TypeOK, RequestTypeOK
  <2>2. qpc'[q] = pc /\ qjob'[q] = j /\ qcopy'[q] = c
    BY <1>d DEF Step, TypeOK, RequestTypeOK
  <2> QED
    BY <1>d, <2>1, <2>2 DEF OneOpen, Pending, RequestMaySend, RequestToken, Releasing
<1>e. ASSUME OneOpen', ~RequestMaySend(k)', ~Releasing(k)', RowKept(k)
      PROVE  OneOpen' /\ PaidFor(k)
  <2>1. RowMaySend(k)' <=> RowMaySend(k)
    BY <1>b, <1>c, <1>e, RowMaySendKept
  <2> QED
    BY <1>a, <1>b, <1>c, <1>e, <2>1, NothingSent
<1>1. CASE ReviewRead(q, j)
  <2>1. /\ Step(q, "reviewing", j, rows[j]) /\ UNCHANGED <<live, rows>>
        /\ rows[j].status = "quarantined"
    BY <1>1 DEF ReviewRead, storeVars
  <2>2. OneOpen' /\ ~RequestMaySend(k)' /\ ~Releasing(k)'
    BY <1>d, <2>1 DEF RequestToken
  <2> QED
    BY <1>e, <2>1, <2>2 DEF RowKept
<1>2. CASE ReleaseRead(q, j)
  <2>1. PICK pc \in {"claiming", "rejecting"} : Step(q, pc, j, rows[j])
    BY <1>2 DEF ReleaseRead
  <2>2. UNCHANGED <<live, rows>> /\ rows[j].status \in {"quarantined", "delivering"}
    BY <1>2 DEF ReleaseRead, storeVars
  <2>3. OneOpen' /\ ~RequestMaySend(k)' /\ ~Releasing(k)'
    BY <1>d, <2>1, <2>2 DEF RequestToken
  <2> QED
    BY <1>e, <2>2, <2>3 DEF RowKept
<1>3. CASE Retry(q, j)
  <2>1. Step(q, "logging", j, FreshRow) /\ RetryFailed(j)
    BY <1>3 DEF Retry
  <2>2. OneOpen' /\ ~RequestMaySend(k)' /\ ~Releasing(k)'
    BY <1>d, <2>1 DEF RequestToken
  <2>3. CASE k = j
    <3>1. RowMaySend(k)
      BY <2>1, <2>3 DEF RetryFailed, Retriable, RowMaySend
    <3> QED
      BY <1>a, <1>b, <1>c, <2>2, <3>1, CountsTyped DEF PaidFor, Sendings, Count
  <2>4. CASE k # j
    BY <1>e, <2>1, <2>2, <2>4 DEF RetryFailed, RowKept, TypeOK, StoreTypeOK
  <2> QED
    BY <2>3, <2>4
<1>4. CASE Delete(q, j)
  <2>1. Step(q, "unlinking", j, rows[j]) /\ DeleteStalledJob(j)
    BY <1>4 DEF Delete
  <2>2. OneOpen' /\ ~RequestMaySend(k)' /\ ~Releasing(k)'
    BY <1>d, <2>1 DEF RequestToken
  <2>3. CASE k = j
    <3>1. ~RowMaySend(k)'
      BY <2>1, <2>3 DEF DeleteStalledJob, RowMaySend
    <3> QED
      BY <1>a, <1>b, <1>c, <2>2, <3>1, CountsTyped DEF PaidFor, Sendings, Count
  <2>4. CASE k # j
    BY <1>e, <2>1, <2>2, <2>4 DEF DeleteStalledJob, RowKept, TypeOK, StoreTypeOK
  <2> QED
    BY <2>3, <2>4
<1> QED
  BY <1>1, <1>2, <1>3, <1>4 DEF RequestBegins

(* Heartbeats, clocks and faults.                                          *)
LEMMA EnvironmentPaid ==
  ASSUME TypeOK, IsFiniteSet(Workers), NEW k \in Jobs
  PROVE  /\ \A w \in Workers :
              (WorkerRenews(w) \/ WorkerCrash(w)) /\ UNCHANGED requestVars => PaidFor(k)
         /\ \A j \in Jobs :
              (LeaseExpires(j) \/ LeaseLapses(j) \/ BackoffEnds(j)) /\ UNCHANGED requestVars
                => PaidFor(k)
         /\ ApiCrash /\ UNCHANGED workerVars => PaidFor(k)
<1>a. UNCHANGED workerVars => Senders(k)' = Senders(k) /\ HandsKept(k)
  BY WorkingStays DEF Senders, HandsKept, workerVars
<1>b. /\ UNCHANGED faults => FaultCount' = FaultCount
      /\ \A kind \in FaultKinds : Suffer(kind) => FaultCount' = FaultCount + 1
  BY FaultsCounted
<1>c. ASSUME UNCHANGED <<accepted, faults, workerVars, requestVars>>, k \in live' <=> k \in live,
             rows'[k].status = rows[k].status, rows'[k].worker = rows[k].worker,
             rows'[k].lease = "expired" => rows[k].lease = "expired" \/ ~Held(k)
      PROVE  PaidFor(k)
  <2>1. /\ Releasing(k)' <=> Releasing(k)
        /\ RequestMaySend(k)' <=> RequestMaySend(k)
    BY <1>c DEF requestVars, Releasing, RequestMaySend, RequestToken
  <2>2. Held(k)' <=> Held(k)
    BY <1>a, <1>c DEF Held, Owns, HandsKept
  <2>3. RowMaySend(k)' => RowMaySend(k)
    BY <1>c, <2>1, <2>2 DEF RowMaySend
  <2> QED
    BY <1>a, <1>b, <1>c, <2>1, <2>3, CountsTyped DEF PaidFor, Sendings, Count
<1>d. ASSUME UNCHANGED accepted, FaultCount' = FaultCount + 1,
             Cardinality(Senders(k)') \in Nat,
             Cardinality(Senders(k)') <= Cardinality(Senders(k)),
             RequestMaySend(k)' => RequestMaySend(k)
      PROVE  PaidFor(k)
  BY <1>d, CountsTyped DEF PaidFor, Sendings, Count
<1>1. ASSUME NEW w \in Workers, WorkerRenews(w), UNCHANGED requestVars PROVE PaidFor(k)
  <2>1. /\ UNCHANGED <<accepted, faults, workerVars, live>> /\ wjob[w] \in Jobs
        /\ rows' = [rows EXCEPT ![wjob[w]].lease = "live"]
    BY <1>1 DEF WorkerRenews, RenewLease, worldVars, TypeOK, WorkerTypeOK
  <2>2. /\ rows'[k].status = rows[k].status /\ rows'[k].worker = rows[k].worker
        /\ rows'[k].lease = "expired" => rows[k].lease = "expired"
    BY <2>1 DEF TypeOK, StoreTypeOK, Row
  <2> QED
    BY <1>1, <1>c, <2>1, <2>2
<1>2. ASSUME NEW w \in Workers, WorkerCrash(w), UNCHANGED requestVars PROVE PaidFor(k)
  <2>1. Rest(w) /\ UNCHANGED <<accepted, rows>> /\ FaultCount' = FaultCount + 1
    BY <1>2, <1>b DEF WorkerCrash, storeVars, FaultKinds
  <2>2. Senders(k)' = Senders(k) \ {w}
    BY <2>1, WorkerLeaves
  <2>3. /\ Cardinality(Senders(k)') \in Nat
        /\ Cardinality(Senders(k)') = Cardinality(Senders(k)) - Count(w \in Senders(k))
    BY <2>2, SendersCounted
  <2>4. Cardinality(Senders(k)') <= Cardinality(Senders(k))
    BY <2>3, CountsTyped DEF Count
  <2>5. RequestMaySend(k)' <=> RequestMaySend(k)
    BY <1>2, <2>1, RequestsKept
  <2> QED
    BY <1>d, <2>1, <2>3, <2>4, <2>5
<1>3. ASSUME NEW j \in Jobs, LeaseRunsOut(j)
      PROVE  /\ k \in live' <=> k \in live
             /\ rows'[k].status = rows[k].status /\ rows'[k].worker = rows[k].worker
             /\ k # j => rows'[k] = rows[k]
  BY <1>3 DEF LeaseRunsOut, TypeOK, StoreTypeOK, Row
<1>4. ASSUME NEW j \in Jobs, LeaseExpires(j), UNCHANGED requestVars PROVE PaidFor(k)
  <2>1. UNCHANGED <<accepted, faults, workerVars>> /\ LeaseRunsOut(j) /\ ~Held(j)
    BY <1>4 DEF LeaseExpires, worldVars
  <2> QED
    BY <1>3, <1>4, <1>c, <2>1
<1>5. ASSUME NEW j \in Jobs, LeaseLapses(j), UNCHANGED requestVars PROVE PaidFor(k)
  <2>1. UNCHANGED <<accepted, workerVars>> /\ LeaseRunsOut(j) /\ FaultCount' = FaultCount + 1
    BY <1>5, <1>b DEF LeaseLapses, FaultKinds
  <2>2. RequestMaySend(k)' <=> RequestMaySend(k)
    BY <1>3, <1>5, <2>1 DEF requestVars, RequestMaySend, RequestToken
  <2> QED
    BY <1>a, <1>d, <2>1, <2>2, CountsTyped
<1>6. ASSUME NEW j \in Jobs, BackoffEnds(j), UNCHANGED requestVars PROVE PaidFor(k)
  <2>1. /\ UNCHANGED <<accepted, faults, workerVars, live>>
        /\ rows' = [rows EXCEPT ![j].due = TRUE]
    BY <1>6 DEF BackoffEnds, BackoffElapses, worldVars
  <2>2. /\ rows'[k].status = rows[k].status /\ rows'[k].worker = rows[k].worker
        /\ rows'[k].lease = rows[k].lease
    BY <2>1 DEF TypeOK, StoreTypeOK, Row
  <2> QED
    BY <1>6, <1>c, <2>1, <2>2
<1>7. ASSUME ApiCrash, UNCHANGED workerVars PROVE PaidFor(k)
  <2>1. UNCHANGED accepted /\ FaultCount' = FaultCount + 1
    BY <1>7, <1>b DEF ApiCrash, FaultKinds
  <2>2. ~RequestMaySend(k)'
    BY <1>7 DEF ApiCrash, Open, RequestMaySend, RequestToken
  <2> QED
    BY <1>a, <1>d, <1>7, <2>1, <2>2, CountsTyped
<1> QED
  BY <1>1, <1>2, <1>4, <1>5, <1>6, <1>7

----------------------------------------------------------------------------
LEMMA InitPaid == ASSUME Init PROVE OneOpen /\ SendInv
<1> SUFFICES ASSUME NEW k \in Jobs PROVE OneOpen /\ Sendings(k) <= 1 + FaultCount
  BY DEF Init, RequestInit, OneOpen, Pending, SendInv
<1>1. OneOpen /\ ~RequestMaySend(k)
  BY DEF Init, RequestInit, OneOpen, Pending, RequestMaySend, RequestToken
<1>2. Senders(k) = {}
  BY DEF Init, WorkerInit, Senders, Working
<1>3. Cardinality(Senders(k)) = 0
  BY <1>2, FS_EmptySet
<1>4. accepted[k] = 0 /\ FaultCount = 0
  BY DEF Init, WorldInit, FaultCount, FaultKinds
<1> QED
  BY <1>1, <1>3, <1>4 DEF Sendings, Count

(* No step adds more sendings than faults.                                 *)
LEMMA NextPaid ==
  ASSUME MaxOpen <= 1, IsFiniteSet(Requests), IsFiniteSet(Workers),
         TypeOK, OneOpen, SendInv, [Next]_vars
  PROVE  OneOpen' /\ SendInv'
<1>a. ASSUME UNCHANGED requestVars PROVE OneOpen'
  BY <1>a DEF OneOpen, Pending, requestVars
<1>b. TypeOK' 
  BY NextTyped
<1>1. ASSUME NEW k \in Jobs PROVE OneOpen' /\ PaidFor(k)
  <2>1. CASE ByWorkers
    BY <2>1, <1>a, WorkerStepPaid, EnvironmentPaid DEF ByWorkers
  <2>2. CASE ByRequests
    <3>1. CASE ApiCrash
      BY <2>2, <3>1, EnvironmentPaid DEF ByRequests, ApiCrash, Open, OneOpen, Pending
    <3> QED
      BY <2>2, <3>1, RequestStepPaid, RequestBeginsPaid DEF ByRequests
  <2>3. CASE UNCHANGED vars
    <3>1. /\ UNCHANGED <<live, rows, accepted, faults, workerVars, requestVars>>
          /\ FaultCount' = FaultCount
      BY <2>3, FaultsCounted DEF vars, storeVars, worldVars
    <3>2. RowKept(k) /\ HandsKept(k) /\ Senders(k)' = Senders(k)
      BY <3>1, WorkingStays DEF RowKept, HandsKept, Senders, workerVars
    <3>3. /\ RowMaySend(k)' <=> RowMaySend(k)
          /\ RequestMaySend(k)' <=> RequestMaySend(k)
      BY <3>1, <3>2, RowMaySendKept, RequestsKept
    <3> QED
      BY <1>a, <3>1, <3>2, <3>3, NothingSent
  <2> QED
    BY <2>1, <2>2, <2>3 DEF Next
<1>2. OneOpen'
  <2>1. CASE Jobs = {}
    <3>1. ASSUME NEW p \in Requests PROVE ~Pending(p)'
      BY <1>b, <2>1, <3>1 DEF TypeOK, RequestTypeOK, Pending
    <3> QED
      BY <3>1 DEF OneOpen
  <2>2. CASE Jobs # {}
    BY <1>1, <2>2
  <2> QED
    BY <2>1, <2>2
<1>3. ASSUME NEW k \in Jobs PROVE Sendings(k)' <= 1 + FaultCount'
  <2>1. PaidFor(k) /\ Sendings(k) <= 1 + FaultCount
    BY <1>1 DEF SendInv
  <2>2. Sendings(k) \in Nat /\ FaultCount \in Nat
    BY CountsTyped DEF Sendings, Count
  <2>3. Sendings(k)' \in Nat /\ FaultCount' \in Nat
    <3>1. Senders(k)' \in SUBSET Workers
      BY DEF Senders
    <3>2. Cardinality(Senders(k)') \in Nat
      BY <3>1, FS_Subset, FS_CardinalityType
    <3>3. accepted'[k] \in Nat /\ FaultCount' \in Nat
      BY <1>b DEF TypeOK, WorldTypeOK, FaultCount, FaultKinds
    <3> QED
      BY <3>2, <3>3 DEF Sendings, Count
  <2> QED
    BY <2>1, <2>2, <2>3 DEF PaidFor
<1> QED
  BY <1>2, <1>3 DEF SendInv

(* The target system takes a document once, and once more for each crash,  *)
(* lapsed lease or lost receipt at most, if operators make one request at  *)
(* a time: a review that overlaps a release may have it sent again without *)
(* any fault.                                                              *)
THEOREM SentOncePerFaultOnly ==
  ASSUME MaxOpen <= 1, IsFiniteSet(Requests), IsFiniteSet(Workers)
  PROVE  Spec => []SentOncePerFault
<1>1. Init => TypeOK /\ OneOpen /\ SendInv
  BY InitTyped, InitPaid
<1>2. (TypeOK /\ OneOpen /\ SendInv) /\ [Next]_vars => (TypeOK /\ OneOpen /\ SendInv)'
  BY NextTyped, NextPaid
<1>3. TypeOK /\ SendInv => SentOncePerFault
  BY CountsTyped DEF SendInv, Sendings, Count, SentOncePerFault
<1> QED
  BY <1>1, <1>2, <1>3, PTL DEF Spec
=============================================================================
