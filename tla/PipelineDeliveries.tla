------------------------- MODULE PipelineDeliveries -------------------------
(***************************************************************************)
(* Type correctness of Pipeline, the first thing every other proof uses,   *)
(* and what deliveries promise, for every set of jobs, workers and         *)
(* requests, every setting and any number of faults: a delivered document  *)
(* has been taken by the target and was valid, its work copy is not given  *)
(* up earlier, and a deleted job stays deleted.                            *)
(***************************************************************************)
EXTENDS Pipeline, TLAPS

(* What the pipeline makes of a row is a row again.                        *)
LEMMA RowsMadeOfRows ==
  /\ FreshRow \in Row
  /\ \A r \in Row :
       /\ \A w \in Workers : Claimed(w, r) \in Row
       /\ \A permanent \in BOOLEAN : AfterError(r, permanent) \in Row
       /\ Quarantined(r) \in Row
       /\ Unleased(r) \in Row
       /\ \A j \in Jobs : Extracted(j, r) \in Row
       /\ \A cleaned \in BOOLEAN : Finalized(r, cleaned) \in Row
       /\ \A q \in Requests, d \in DocTypes, o \in BOOLEAN : Reviewed(q, r, d, o) \in Row
       /\ \A s \in Statuses : [r EXCEPT !.status = s] \in Row
<1>1. FreshRow \in Row
  BY DEF FreshRow, Row, Statuses, Paths, DocTypes, Leases
<1>2. ASSUME NEW r \in Row
      PROVE  /\ \A w \in Workers : Claimed(w, r) \in Row
             /\ \A permanent \in BOOLEAN : AfterError(r, permanent) \in Row
             /\ Quarantined(r) \in Row
             /\ Unleased(r) \in Row
             /\ \A j \in Jobs : Extracted(j, r) \in Row
             /\ \A cleaned \in BOOLEAN : Finalized(r, cleaned) \in Row
             /\ \A q \in Requests, d \in DocTypes, o \in BOOLEAN : Reviewed(q, r, d, o) \in Row
             /\ \A s \in Statuses : [r EXCEPT !.status = s] \in Row
  <2>1. \A w \in Workers : Claimed(w, r) \in Row
    <3>1. r.attempts + 1 \in Nat
      BY DEF Row
    <3>2. ASSUME NEW w \in Workers, NEW m \in Nat
          PROVE  [r EXCEPT !.status = "processing", !.worker = w, !.lease = "live",
                           !.due = TRUE, !.attempts = m] \in Row
      BY DEF Row, Statuses, Leases
    <3> QED
      BY <3>1, <3>2, Zenon DEF Claimed
  <2>2. \A permanent \in BOOLEAN : AfterError(r, permanent) \in Row
    BY DEF AfterError, Row, Statuses
  <2>3. Quarantined(r) \in Row
    BY DEF Quarantined, Row, Statuses, Paths
  <2>4. Unleased(r) \in Row
    BY DEF Unleased, Row, Leases
  <2>5. \A j \in Jobs : Extracted(j, r) \in Row
    BY DeliveryAssumption DEF Extracted, Row
  <2>6. \A cleaned \in BOOLEAN : Finalized(r, cleaned) \in Row
    BY DEF Finalized, Row, Statuses, Paths
  <2>7. \A q \in Requests, d \in DocTypes, o \in BOOLEAN : Reviewed(q, r, d, o) \in Row
    BY DEF Reviewed, Row
  <2>8. \A s \in Statuses : [r EXCEPT !.status = s] \in Row
    BY DEF Row
  <2> QED
    BY <2>1, <2>2, <2>3, <2>4, <2>5, <2>6, <2>7, <2>8
<1> QED
  BY <1>1, <1>2

(* Moving a process to a place of its code keeps the process typed.        *)
LEMMA GotoTyped ==
  ASSUME WorkerTypeOK,
         NEW w \in Workers, NEW pc \in WorkerPlaces, NEW j \in Jobs \cup {NoJob},
         NEW r \in Row, pc # "idle" => j \in Jobs, Goto(w, pc, j, r)
  PROVE  WorkerTypeOK'
BY DEF Goto, WorkerTypeOK

LEMMA StepTyped ==
  ASSUME RequestTypeOK,
         NEW q \in Requests, NEW pc \in RequestPlaces, NEW j \in Jobs \cup {NoJob},
         NEW r \in Row, pc \notin {"new", "done"} => j \in Jobs, Step(q, pc, j, r)
  PROVE  RequestTypeOK'
BY DEF Step, RequestTypeOK

LEMMA SaveTyped ==
  ASSUME StoreTypeOK, NEW j \in Jobs, NEW r \in Row, Save(j, r)
  PROVE  live' \in SUBSET Jobs /\ rows' \in [Jobs -> Row]
BY DEF StoreTypeOK, Save

LEMMA RowsTyped ==
  ASSUME StoreTypeOK, NEW j \in Jobs, NEW r \in Row, rows' = [rows EXCEPT ![j] = r]
  PROVE  rows' \in [Jobs -> Row]
BY DEF StoreTypeOK

LEMMA SufferTyped ==
  ASSUME WorldTypeOK, NEW kind \in FaultKinds, Suffer(kind)
  PROVE  faults' \in [FaultKinds -> Nat]
BY DEF WorldTypeOK, Suffer

LEMMA AnswerTyped ==
  ASSUME WorldTypeOK, NEW j \in Jobs, NEW r \in Row, NEW answer \in Answers,
         TargetAnswers(j, r, answer)
  PROVE  accepted' \in [Jobs -> Nat] /\ faults' \in [FaultKinds -> Nat]
<1>1. accepted' \in [Jobs -> Nat]
  BY DEF WorldTypeOK, TargetAnswers
<1>2. faults' \in [FaultKinds -> Nat]
  <2>1. CASE Lost(answer)
    BY <2>1, SufferTyped DEF TargetAnswers, FaultKinds
  <2>2. CASE ~Lost(answer)
    BY <2>2 DEF TargetAnswers, WorldTypeOK
  <2> QED
    BY <2>1, <2>2
<1> QED
  BY <1>1, <1>2

LEMMA FinalizeTyped ==
  ASSUME WorldTypeOK, NEW j \in Jobs, NEW r \in Row, NEW cleaned \in BOOLEAN,
         Finalize(j, r, cleaned)
  PROVE  place' \in [Jobs -> Paths \cup {"none"}]
BY DEF WorldTypeOK, Finalize, Paths

----------------------------------------------------------------------------
LEMMA WorkerStepTyped ==
  ASSUME TypeOK, NEW w \in Workers, WorkerStep(w), UNCHANGED requestVars
  PROVE  TypeOK'
<1> USE DEF TypeOK
<1> RequestTypeOK'
  BY DEF RequestTypeOK, requestVars
<1>1. CASE WorkerClaim(w)
  <2>1. PICK j \in Jobs : ClaimNext(w, j) /\ Goto(w, "extract", j, Claimed(w, rows[j]))
    BY <1>1 DEF WorkerClaim
  <2>2. Claimed(w, rows[j]) \in Row
    BY RowsMadeOfRows DEF StoreTypeOK
  <2>3. WorkerTypeOK'
    BY <2>1, <2>2, GotoTyped DEF WorkerPlaces
  <2>4. StoreTypeOK'
    BY <1>1, <2>1, <2>2 DEF WorkerClaim, ClaimNext, StoreTypeOK
  <2> QED
    BY <1>1, <2>3, <2>4 DEF WorkerClaim, WorldTypeOK, worldVars
<1>2. CASE WorkerExtract(w)
  <2> DEFINE j == wjob[w]
             r == Extracted(j, wcopy[w])
  <2>1. j \in Jobs /\ r \in Row
    BY <1>2, RowsMadeOfRows DEF WorkerExtract, WorkerTypeOK
  <2>2. WorkerTypeOK'
    <3>1. PICK pc \in {"deliver", "quarantine"} : Goto(w, pc, j, r)
      BY <1>2 DEF WorkerExtract
    <3> QED
      BY <2>1, <3>1, GotoTyped DEF WorkerPlaces
  <2>3. StoreTypeOK'
    BY <1>2, <2>1 DEF WorkerExtract, SaveEvent, StoreTypeOK
  <2> QED
    BY <1>2, <2>2, <2>3 DEF WorkerExtract, WorldTypeOK, worldVars
<1>3. CASE WorkerFails(w)
  <2>1. wjob[w] \in Jobs /\ AfterError(wcopy[w], FALSE) \in Row
    BY <1>3, RowsMadeOfRows DEF WorkerFails, WorkerTypeOK
  <2>2. WorkerTypeOK'
    BY <1>3, <2>1, GotoTyped DEF WorkerFails, WorkerPlaces
  <2>3. StoreTypeOK'
    BY <1>3, <2>1 DEF WorkerFails, SaveEvent, StoreTypeOK
  <2> QED
    BY <1>3, <2>2, <2>3 DEF WorkerFails, WorldTypeOK, worldVars
<1>4. CASE WorkerQuarantine(w)
  <2>1. /\ wjob[w] \in Jobs /\ Quarantined(wcopy[w]) \in Row
        /\ AfterError(Quarantined(wcopy[w]), FALSE) \in Row
    BY <1>4, RowsMadeOfRows DEF WorkerQuarantine, WorkerTypeOK
  <2>2. WorkerTypeOK'
    BY <1>4, <2>1, GotoTyped DEF WorkerQuarantine, WorkerPlaces
  <2>3. StoreTypeOK'
    BY <1>4, <2>1 DEF WorkerQuarantine, SaveEvent, StoreTypeOK
  <2>4. WorldTypeOK'
    BY <1>4, <2>1 DEF WorkerQuarantine, WorldTypeOK, Paths
  <2> QED
    BY <2>2, <2>3, <2>4
<1>5. CASE WorkerDeliver(w)
  <2>1. wjob[w] \in Jobs /\ wcopy[w] \in Row
    BY <1>5 DEF WorkerDeliver, WorkerTypeOK
  <2>2. PICK answer \in Answers :
          /\ TargetAnswers(wjob[w], wcopy[w], answer)
          /\ IF Succeeded(answer)
             THEN Goto(w, "finalize", wjob[w], wcopy[w])
             ELSE Goto(w, "save", wjob[w], AfterError(wcopy[w], answer.error = "permanent"))
    BY <1>5 DEF WorkerDeliver
  <2>3. AfterError(wcopy[w], answer.error = "permanent") \in Row
    BY <2>1, RowsMadeOfRows
  <2>4. WorkerTypeOK'
    BY <2>1, <2>2, <2>3, GotoTyped DEF WorkerPlaces
  <2>5. StoreTypeOK'
    BY <1>5, <2>1 DEF WorkerDeliver, SaveEvent, StoreTypeOK
  <2>6. WorldTypeOK'
    BY <1>5, <2>1, <2>2, AnswerTyped DEF WorkerDeliver, WorldTypeOK
  <2> QED
    BY <2>4, <2>5, <2>6
<1>6. CASE WorkerFinalize(w)
  <2>1. wjob[w] \in Jobs /\ wcopy[w] \in Row
    BY <1>6 DEF WorkerFinalize, WorkerTypeOK
  <2>2. PICK cleaned \in BOOLEAN :
          /\ Finalize(wjob[w], wcopy[w], cleaned)
          /\ Goto(w, "save", wjob[w], Finalized(wcopy[w], cleaned))
    BY <1>6 DEF WorkerFinalize
  <2>3. WorkerTypeOK'
    BY <2>1, <2>2, RowsMadeOfRows, GotoTyped DEF WorkerPlaces
  <2>4. WorldTypeOK'
    BY <1>6, <2>1, <2>2, FinalizeTyped DEF WorkerFinalize, WorldTypeOK
  <2> QED
    BY <1>6, <2>3, <2>4 DEF WorkerFinalize, StoreTypeOK, storeVars
<1>7. CASE WorkerSave(w)
  <2>1. wjob[w] \in Jobs /\ Unleased(wcopy[w]) \in Row
    BY <1>7, RowsMadeOfRows DEF WorkerSave, WorkerTypeOK
  <2>2. StoreTypeOK'
    BY <1>7, <2>1, SaveTyped DEF WorkerSave, StoreTypeOK
  <2>3. WorkerTypeOK'
    BY <1>7, RowsMadeOfRows, GotoTyped DEF WorkerSave, Rest, WorkerPlaces
  <2> QED
    BY <1>7, <2>2, <2>3 DEF WorkerSave, WorldTypeOK, worldVars
<1> QED
  BY <1>1, <1>2, <1>3, <1>4, <1>5, <1>6, <1>7 DEF WorkerStep

LEMMA RequestStepTyped ==
  ASSUME TypeOK, NEW q \in Requests, RequestStep(q), UNCHANGED workerVars
  PROVE  TypeOK'
<1> USE DEF TypeOK
<1> WorkerTypeOK'
  BY DEF WorkerTypeOK, workerVars
<1>a. ASSUME Finish(q) PROVE RequestTypeOK'
  BY <1>a, RowsMadeOfRows, StepTyped DEF Finish, RequestPlaces
<1>1. CASE ReviewSave(q)
  <2>1. PICK d \in DocTypes, o \in {qcopy[q].routing, TRUE} :
          Save(qjob[q], Reviewed(q, qcopy[q], d, o))
    BY <1>1 DEF ReviewSave
  <2>2. qjob[q] \in Jobs /\ qcopy[q] \in Row /\ o \in BOOLEAN
    BY <1>1 DEF ReviewSave, RequestTypeOK, Row
  <2>3. Reviewed(q, qcopy[q], d, o) \in Row
    BY <2>2, RowsMadeOfRows
  <2>4. StoreTypeOK'
    BY <1>1, <2>1, <2>2, <2>3, SaveTyped DEF ReviewSave, StoreTypeOK
  <2>5. RequestTypeOK'
    BY <1>1, <2>2, RowsMadeOfRows, StepTyped DEF ReviewSave, RequestPlaces
  <2> QED
    BY <1>1, <2>4, <2>5 DEF ReviewSave, WorldTypeOK, worldVars
<1>2. CASE ReleaseReject(q)
  <2>1. qjob[q] \in Jobs /\ [qcopy[q] EXCEPT !.status = "quarantined"] \in Row
    BY <1>2, RowsMadeOfRows DEF ReleaseReject, RequestTypeOK, Statuses
  <2>2. StoreTypeOK'
    BY <1>2, <2>1, SaveTyped DEF ReleaseReject, StoreTypeOK
  <2>3. RequestTypeOK'
    BY <1>2, <2>1, RowsMadeOfRows, StepTyped DEF ReleaseReject, RequestPlaces
  <2> QED
    BY <1>2, <2>2, <2>3 DEF ReleaseReject, WorldTypeOK, worldVars
<1>3. CASE ReleaseClaim(q)
  <2>1. qjob[q] \in Jobs /\ [qcopy[q] EXCEPT !.status = "delivering"] \in Row
    BY <1>3, RowsMadeOfRows DEF ReleaseClaim, RequestTypeOK, Statuses
  <2>2. [rows[qjob[q]] EXCEPT !.status = "delivering"] \in Row
    BY <2>1, RowsMadeOfRows DEF StoreTypeOK, Statuses
  <2>3. rows' = [rows EXCEPT ![qjob[q]] = [rows[qjob[q]] EXCEPT !.status = "delivering"]]
    BY <1>3, <2>1 DEF ReleaseClaim, ClaimDelivery, StoreTypeOK
  <2>4. StoreTypeOK'
    BY <1>3, <2>1, <2>2, <2>3, RowsTyped DEF ReleaseClaim, ClaimDelivery, StoreTypeOK
  <2>5. RequestTypeOK'
    BY <1>3, <2>1, StepTyped DEF ReleaseClaim, RequestPlaces
  <2> QED
    BY <1>3, <2>4, <2>5 DEF ReleaseClaim, WorldTypeOK, worldVars
<1>4. CASE ReleaseClaimRefused(q)
  BY <1>4, <1>a DEF ReleaseClaimRefused, StoreTypeOK, storeVars, WorldTypeOK, worldVars
<1>5. CASE ReleaseDeliver(q)
  <2>1. qjob[q] \in Jobs /\ qcopy[q] \in Row /\ [qcopy[q] EXCEPT !.status = "failed"] \in Row
    BY <1>5, RowsMadeOfRows DEF ReleaseDeliver, RequestTypeOK, Statuses
  <2>2. PICK answer \in Answers :
          /\ TargetAnswers(qjob[q], qcopy[q], answer)
          /\ IF Succeeded(answer)
             THEN Step(q, "finalizing", qjob[q], qcopy[q])
             ELSE Step(q, "storing", qjob[q], [qcopy[q] EXCEPT !.status = "failed"])
    BY <1>5 DEF ReleaseDeliver
  <2>3. RequestTypeOK'
    BY <2>1, <2>2, StepTyped DEF RequestPlaces
  <2>4. StoreTypeOK'
    BY <1>5, <2>1 DEF ReleaseDeliver, SaveEvent, StoreTypeOK
  <2>5. WorldTypeOK'
    BY <1>5, <2>1, <2>2, AnswerTyped DEF ReleaseDeliver, WorldTypeOK
  <2> QED
    BY <2>3, <2>4, <2>5
<1>6. CASE ReleaseFinalize(q)
  <2>1. qjob[q] \in Jobs /\ qcopy[q] \in Row
    BY <1>6 DEF ReleaseFinalize, RequestTypeOK
  <2>2. PICK cleaned \in BOOLEAN :
          /\ Finalize(qjob[q], qcopy[q], cleaned)
          /\ Step(q, "storing", qjob[q], Finalized(qcopy[q], cleaned))
    BY <1>6 DEF ReleaseFinalize
  <2>3. RequestTypeOK'
    BY <2>1, <2>2, RowsMadeOfRows, StepTyped DEF RequestPlaces
  <2>4. WorldTypeOK'
    BY <1>6, <2>1, <2>2, FinalizeTyped DEF ReleaseFinalize, WorldTypeOK
  <2> QED
    BY <1>6, <2>3, <2>4 DEF ReleaseFinalize, StoreTypeOK, storeVars
<1>7. CASE ReleaseStore(q)
  <2>1. qjob[q] \in Jobs /\ qcopy[q] \in Row
    BY <1>7 DEF ReleaseStore, RequestTypeOK
  <2>2. StoreTypeOK'
    BY <1>7, <2>1, SaveTyped DEF ReleaseStore, StoreTypeOK
  <2> QED
    BY <1>7, <1>a, <2>2 DEF ReleaseStore, WorldTypeOK, worldVars
<1>8. CASE DeleteUnlink(q)
  <2>1. WorldTypeOK'
    BY <1>8 DEF DeleteUnlink, WorldTypeOK
  <2> QED
    BY <1>8, <1>a, <2>1 DEF DeleteUnlink, StoreTypeOK, storeVars
<1>9. CASE RequestLog(q)
  <2>1. StoreTypeOK'
    BY <1>9 DEF RequestLog, RequestTypeOK, SaveEvent, StoreTypeOK
  <2> QED
    BY <1>9, <1>a, <2>1 DEF RequestLog, WorldTypeOK, worldVars
<1> QED
  BY <1>1, <1>2, <1>3, <1>4, <1>5, <1>6, <1>7, <1>8, <1>9 DEF RequestStep

LEMMA RequestBeginsTyped ==
  ASSUME TypeOK, NEW q \in Requests, NEW j \in Jobs, RequestBegins(q, j),
         UNCHANGED workerVars
  PROVE  TypeOK'
<1> USE DEF TypeOK
<1> WorkerTypeOK'
  BY DEF WorkerTypeOK, workerVars
<1>0. rows[j] \in Row
  BY DEF StoreTypeOK
<1>1. CASE ReviewRead(q, j)
  BY <1>0, <1>1, StepTyped
     DEF ReviewRead, RequestPlaces, StoreTypeOK, storeVars, WorldTypeOK, worldVars
<1>2. CASE ReleaseRead(q, j)
  <2>1. PICK pc \in {"claiming", "rejecting"} : Step(q, pc, j, rows[j])
    BY <1>2 DEF ReleaseRead
  <2>2. RequestTypeOK'
    BY <1>0, <2>1, StepTyped DEF RequestPlaces
  <2> QED
    BY <1>2, <2>2 DEF ReleaseRead, StoreTypeOK, storeVars, WorldTypeOK, worldVars
<1>3. CASE Retry(q, j)
  <2> DEFINE r == [rows[j] EXCEPT !.status = "received", !.attempts = 0, !.due = TRUE,
                                  !.lease = "none", !.worker = Nobody]
  <2>1. r \in Row
    BY <1>0 DEF Row, Statuses, Leases
  <2>2. rows' = [rows EXCEPT ![j] = r]
    BY <1>3 DEF Retry, RetryFailed
  <2>3. StoreTypeOK'
    BY <1>3, <2>1, <2>2, RowsTyped DEF Retry, RetryFailed, StoreTypeOK
  <2>4. RequestTypeOK'
    BY <1>3, RowsMadeOfRows, StepTyped DEF Retry, RequestPlaces
  <2> QED
    BY <1>3, <2>3, <2>4 DEF Retry, WorldTypeOK, worldVars
<1>4. CASE Delete(q, j)
  <2>1. StoreTypeOK'
    BY <1>4, RowsMadeOfRows DEF Delete, DeleteStalledJob, StoreTypeOK
  <2>2. RequestTypeOK'
    BY <1>0, <1>4, StepTyped DEF Delete, RequestPlaces
  <2> QED
    BY <1>4, <2>1, <2>2 DEF Delete, WorldTypeOK, worldVars
<1> QED
  BY <1>1, <1>2, <1>3, <1>4 DEF RequestBegins

(* Renewals, crashes and the clock.                                        *)
LEMMA EnvironmentTyped ==
  ASSUME TypeOK
  PROVE  /\ \A w \in Workers :
              (WorkerRenews(w) \/ WorkerCrash(w)) /\ UNCHANGED requestVars => TypeOK'
         /\ \A j \in Jobs :
              (LeaseExpires(j) \/ LeaseLapses(j) \/ BackoffEnds(j)) /\ UNCHANGED requestVars
                => TypeOK'
         /\ ApiCrash /\ UNCHANGED workerVars => TypeOK'
<1> USE DEF TypeOK
<1>a. ASSUME UNCHANGED requestVars PROVE RequestTypeOK'
  BY <1>a DEF RequestTypeOK, requestVars
<1>b. ASSUME UNCHANGED workerVars PROVE WorkerTypeOK'
  BY <1>b DEF WorkerTypeOK, workerVars
<1>c. \A j \in Jobs : \A l \in Leases : [rows[j] EXCEPT !.lease = l] \in Row
  BY DEF StoreTypeOK, Row
<1>d. \A j \in Jobs : [rows[j] EXCEPT !.due = TRUE] \in Row
  BY DEF StoreTypeOK, Row
<1>1. ASSUME NEW w \in Workers, WorkerRenews(w), UNCHANGED requestVars PROVE TypeOK'
  <2>1. wjob[w] \in Jobs /\ rows' = [rows EXCEPT ![wjob[w]] = [@ EXCEPT !.lease = "live"]]
    BY <1>1 DEF WorkerRenews, WorkerTypeOK, RenewLease
  <2>2. StoreTypeOK'
    BY <1>1, <1>c, <2>1 DEF WorkerRenews, RenewLease, StoreTypeOK, Leases
  <2> QED
    BY <1>1, <1>a, <1>b, <2>2 DEF WorkerRenews, WorldTypeOK, worldVars
<1>2. ASSUME NEW w \in Workers, WorkerCrash(w), UNCHANGED requestVars PROVE TypeOK'
  <2>1. WorkerTypeOK'
    BY <1>2, RowsMadeOfRows, GotoTyped DEF WorkerCrash, Rest, WorkerPlaces
  <2>2. WorldTypeOK'
    BY <1>2, SufferTyped DEF WorkerCrash, WorldTypeOK, FaultKinds
  <2> QED
    BY <1>2, <1>a, <2>1, <2>2 DEF WorkerCrash, StoreTypeOK, storeVars
<1>3. ASSUME NEW j \in Jobs, LeaseRunsOut(j) PROVE StoreTypeOK'
  <2>1. rows' = [rows EXCEPT ![j] = [@ EXCEPT !.lease = "expired"]]
    BY <1>3 DEF LeaseRunsOut
  <2> QED
    BY <1>3, <1>c, <2>1 DEF LeaseRunsOut, StoreTypeOK, Leases
<1>4. ASSUME NEW j \in Jobs, LeaseExpires(j), UNCHANGED requestVars PROVE TypeOK'
  BY <1>4, <1>3, <1>a, <1>b DEF LeaseExpires, WorldTypeOK, worldVars
<1>5. ASSUME NEW j \in Jobs, LeaseLapses(j), UNCHANGED requestVars PROVE TypeOK'
  BY <1>5, <1>3, <1>a, <1>b, SufferTyped DEF LeaseLapses, WorldTypeOK, FaultKinds
<1>6. ASSUME NEW j \in Jobs, BackoffEnds(j), UNCHANGED requestVars PROVE TypeOK'
  <2>1. rows' = [rows EXCEPT ![j] = [@ EXCEPT !.due = TRUE]]
    BY <1>6 DEF BackoffEnds, BackoffElapses
  <2>2. StoreTypeOK'
    BY <1>6, <1>d, <2>1 DEF BackoffEnds, BackoffElapses, StoreTypeOK
  <2> QED
    BY <1>6, <1>a, <1>b, <2>2 DEF BackoffEnds, WorldTypeOK, worldVars
<1>7. ASSUME ApiCrash, UNCHANGED workerVars PROVE TypeOK'
  <2>1. RequestTypeOK'
    BY <1>7, RowsMadeOfRows DEF ApiCrash, RequestTypeOK, RequestPlaces, Open
  <2>2. WorldTypeOK'
    BY <1>7, SufferTyped DEF ApiCrash, WorldTypeOK, FaultKinds
  <2> QED
    BY <1>7, <1>b, <2>1, <2>2 DEF ApiCrash, StoreTypeOK, storeVars
<1> QED
  BY <1>1, <1>2, <1>4, <1>5, <1>6, <1>7

LEMMA InitTyped == Init => TypeOK
BY RowsMadeOfRows
   DEF Init, TypeOK, StoreInit, StoreTypeOK, WorldInit, WorldTypeOK, Paths, WorkerInit,
       WorkerTypeOK, WorkerPlaces, RequestInit, RequestTypeOK, RequestPlaces

LEMMA NextTyped == TypeOK /\ [Next]_vars => TypeOK'
<1> SUFFICES ASSUME TypeOK, [Next]_vars PROVE TypeOK'
  OBVIOUS
<1>1. CASE ByWorkers
  BY <1>1, WorkerStepTyped, EnvironmentTyped DEF ByWorkers
<1>2. CASE ByRequests
  BY <1>2, RequestStepTyped, RequestBeginsTyped, EnvironmentTyped DEF ByRequests
<1>3. CASE UNCHANGED vars
  BY <1>3 DEF vars, storeVars, worldVars, workerVars, requestVars, TypeOK, StoreTypeOK,
              WorldTypeOK, WorkerTypeOK, RequestTypeOK
<1> QED
  BY <1>1, <1>2, <1>3 DEF Next

(* Every variable keeps its type, and a process that is under way has a    *)
(* job to work on.                                                         *)
THEOREM TypeCorrect == Spec => []TypeOK
<1>1. Init => TypeOK
  BY InitTyped
<1>2. TypeOK /\ [Next]_vars => TypeOK'
  BY NextTyped
<1> QED
  BY <1>1, <1>2, PTL DEF Spec

----------------------------------------------------------------------------
(* No fault is ever taken back.                                            *)
LEMMA FaultsGrow ==
  ASSUME TypeOK, [Next]_vars, NEW k \in FaultKinds
  PROVE  faults[k] <= faults'[k]
<1>a. ASSUME NEW l \in FaultKinds, Suffer(l) PROVE faults[k] <= faults'[k]
  BY <1>a DEF Suffer, TypeOK, WorldTypeOK
<1>b. ASSUME UNCHANGED faults PROVE faults[k] <= faults'[k]
  BY <1>b DEF TypeOK, WorldTypeOK
<1>c. ASSUME NEW j, NEW r, NEW a \in Answers, TargetAnswers(j, r, a)
      PROVE  faults[k] <= faults'[k]
  BY <1>a, <1>b, <1>c DEF TargetAnswers, FaultKinds
<1>1. ASSUME NEW w \in Workers, WorkerStep(w) PROVE faults[k] <= faults'[k]
  BY <1>1, <1>b, <1>c DEF WorkerStep, WorkerClaim, WorkerExtract, WorkerFails,
     WorkerQuarantine, WorkerDeliver, WorkerFinalize, WorkerSave, worldVars
<1>2. ASSUME NEW w \in Workers, WorkerRenews(w) \/ WorkerCrash(w)
      PROVE  faults[k] <= faults'[k]
  BY <1>2, <1>a, <1>b DEF WorkerRenews, WorkerCrash, worldVars, FaultKinds
<1>3. ASSUME NEW j \in Jobs, LeaseExpires(j) \/ LeaseLapses(j) \/ BackoffEnds(j)
      PROVE  faults[k] <= faults'[k]
  BY <1>3, <1>a, <1>b DEF LeaseExpires, LeaseLapses, BackoffEnds, worldVars, FaultKinds
<1>4. ASSUME NEW q \in Requests, RequestStep(q) PROVE faults[k] <= faults'[k]
  BY <1>4, <1>b, <1>c DEF RequestStep, ReviewSave, ReleaseReject, ReleaseClaim,
     ReleaseClaimRefused, ReleaseDeliver, ReleaseFinalize, ReleaseStore, DeleteUnlink,
     RequestLog, worldVars
<1>5. ASSUME NEW q \in Requests, NEW j \in Jobs, RequestBegins(q, j)
      PROVE  faults[k] <= faults'[k]
  BY <1>5, <1>b DEF RequestBegins, ReviewRead, ReleaseRead, Retry, Delete, worldVars
<1>6. CASE ApiCrash
  BY <1>6, <1>a DEF ApiCrash, FaultKinds
<1>7. CASE UNCHANGED vars
  BY <1>7, <1>b DEF vars, worldVars
<1> QED
  BY <1>1, <1>2, <1>3, <1>4, <1>5, <1>6, <1>7 DEF Next, ByWorkers, ByRequests

(* A worker that goes on with its job disturbs nothing.                    *)
LEMMA WorkingOn ==
  ASSUME TypeOK, NEW w \in Workers, NEW pc \in WorkerPlaces \ {"idle"}, NEW r,
         wpc[w] # "idle", Goto(w, pc, wjob[w], r)
  PROVE  \A v \in Workers, j \in Jobs : Working(v, j)' <=> Working(v, j)
BY DEF Goto, Working, TypeOK, WorkerTypeOK

LEMMA WorkingElsewhere ==
  ASSUME TypeOK, NEW w \in Workers, Rest(w)
  PROVE  \A v \in Workers, j \in Jobs : Working(v, j)' <=> Working(v, j) /\ v # w
BY DEF Goto, Rest, Working, TypeOK, WorkerTypeOK

LEMMA WorkingStays ==
  ASSUME UNCHANGED workerVars
  PROVE  \A v, j : Working(v, j)' <=> Working(v, j)
BY DEF Working, workerVars

----------------------------------------------------------------------------
(* A row never says delivered too early ...                                *)
RowsGood ==
  \A j \in live : rows[j].status = "delivered" => accepted[j] > 0 /\ Valid(rows[j])

(* ... because the copies that will overwrite it do not either.            *)
WorkersGood ==
  \A w \in Workers :
    /\ wpc[w] \in {"deliver", "finalize"} => Valid(wcopy[w])
    /\ wpc[w] = "finalize" => accepted[wjob[w]] > 0
    /\ wcopy[w].status = "delivered" =>
         wpc[w] = "save" /\ accepted[wjob[w]] > 0 /\ Valid(wcopy[w])

RequestsGood ==
  \A q \in Requests :
    /\ qpc[q] \in {"claiming", "delivering", "finalizing"} => Valid(qcopy[q])
    /\ qpc[q] = "finalizing" => accepted[qjob[q]] > 0
    /\ qpc[q] = "reviewing" => qcopy[q].status = "quarantined"
    /\ qpc[q] = "unlinking" => qjob[q] \notin live
    /\ qcopy[q].status = "delivered" =>
         qpc[q] = "storing" /\ accepted[qjob[q]] > 0 /\ Valid(qcopy[q])

CopiesKept ==
  \A j \in Jobs :
    /\ place[j] = "completed" => accepted[j] > 0
    /\ place[j] = "none" => accepted[j] > 0 \/ j \notin live

DeliveryInv == RowsGood /\ WorkersGood /\ RequestsGood /\ CopiesKept

----------------------------------------------------------------------------
(* Statuses and validity of the rows the pipeline makes.                   *)
LEMMA StatusOfMadeRows ==
  ASSUME NEW r \in Row
  PROVE  /\ Unleased(r).status = r.status /\ (Valid(Unleased(r)) <=> Valid(r))
         /\ Quarantined(r).status = "quarantined"
         /\ \A p \in BOOLEAN : AfterError(r, p).status \in {"received", "failed"}
         /\ \A c \in BOOLEAN : /\ Finalized(r, c).status = "delivered"
                               /\ Valid(Finalized(r, c)) <=> Valid(r)
         /\ \A w \in Workers : Claimed(w, r).status = "processing"
         /\ \A j \in Jobs : Extracted(j, r).status = r.status
         /\ \A q \in Requests, d \in DocTypes, o \in BOOLEAN :
              Reviewed(q, r, d, o).status = r.status
         /\ \A s \in Statuses : /\ [r EXCEPT !.status = s].status = s
                                /\ Valid([r EXCEPT !.status = s]) <=> Valid(r)
BY DEF Row, Unleased, Quarantined, AfterError, Finalized, Claimed, Extracted, Reviewed, Valid

LEMMA FreshRowStatus == FreshRow.status = "received"
BY DEF FreshRow

(* An answer of the target can only help.                                  *)
Grows == \A k \in Jobs : accepted[k] > 0 => accepted'[k] > 0

LEMMA AcceptedGrows ==
  ASSUME TypeOK, NEW j \in Jobs, NEW r, NEW answer \in Answers, TargetAnswers(j, r, answer)
  PROVE  Grows /\ (answer.taken => accepted'[j] > 0)
BY DEF TypeOK, WorldTypeOK, TargetAnswers, Grows

(* A process that moves on, with a copy good enough for where it goes.     *)
LEMMA GotoGood ==
  ASSUME TypeOK, WorkersGood, Grows,
         NEW w \in Workers, NEW pc, NEW j, NEW r, Goto(w, pc, j, r),
         pc \in {"deliver", "finalize"} => Valid(r),
         pc = "finalize" => accepted'[j] > 0,
         r.status = "delivered" => pc = "save" /\ accepted'[j] > 0 /\ Valid(r)
  PROVE  WorkersGood'
<1> SUFFICES ASSUME NEW v \in Workers
    PROVE  /\ wpc'[v] \in {"deliver", "finalize"} => Valid(wcopy'[v])
           /\ wpc'[v] = "finalize" => accepted'[wjob'[v]] > 0
           /\ wcopy'[v].status = "delivered" =>
                wpc'[v] = "save" /\ accepted'[wjob'[v]] > 0 /\ Valid(wcopy'[v])
  BY DEF WorkersGood, Valid
<1>1. CASE v = w
  BY <1>1 DEF Goto, TypeOK, WorkerTypeOK
<1>2. CASE v # w
  <2>1. wpc'[v] = wpc[v] /\ wjob'[v] = wjob[v] /\ wcopy'[v] = wcopy[v]
    BY <1>2 DEF Goto, TypeOK, WorkerTypeOK
  <2> QED
    BY <2>1 DEF WorkersGood, TypeOK, WorkerTypeOK, Grows
<1> QED
  BY <1>1, <1>2

LEMMA WorkersStayGood ==
  ASSUME TypeOK, WorkersGood, Grows, UNCHANGED workerVars
  PROVE  WorkersGood'
BY DEF workerVars, WorkersGood, TypeOK, WorkerTypeOK, Grows, Valid

LEMMA StepGood ==
  ASSUME TypeOK, RequestsGood, Grows, live' \subseteq live,
         NEW q \in Requests, NEW pc, NEW j, NEW r, Step(q, pc, j, r),
         pc \in {"claiming", "delivering", "finalizing"} => Valid(r),
         pc = "finalizing" => accepted'[j] > 0,
         pc = "reviewing" => r.status = "quarantined",
         pc = "unlinking" => j \notin live',
         r.status = "delivered" => pc = "storing" /\ accepted'[j] > 0 /\ Valid(r)
  PROVE  RequestsGood'
<1> SUFFICES ASSUME NEW p \in Requests
    PROVE  /\ qpc'[p] \in {"claiming", "delivering", "finalizing"} => Valid(qcopy'[p])
           /\ qpc'[p] = "finalizing" => accepted'[qjob'[p]] > 0
           /\ qpc'[p] = "reviewing" => qcopy'[p].status = "quarantined"
           /\ qpc'[p] = "unlinking" => qjob'[p] \notin live'
           /\ qcopy'[p].status = "delivered" =>
                qpc'[p] = "storing" /\ accepted'[qjob'[p]] > 0 /\ Valid(qcopy'[p])
  BY DEF RequestsGood, Valid
<1>1. CASE p = q
  BY <1>1 DEF Step, TypeOK, RequestTypeOK
<1>2. CASE p # q
  <2>1. qpc'[p] = qpc[p] /\ qjob'[p] = qjob[p] /\ qcopy'[p] = qcopy[p]
    BY <1>2 DEF Step, TypeOK, RequestTypeOK
  <2> QED
    BY <2>1 DEF RequestsGood, TypeOK, RequestTypeOK, Grows
<1> QED
  BY <1>1, <1>2

LEMMA RequestsStayGood ==
  ASSUME TypeOK, RequestsGood, Grows, live' \subseteq live, UNCHANGED requestVars
  PROVE  RequestsGood'
BY DEF requestVars, RequestsGood, TypeOK, RequestTypeOK, Grows, Valid

(* A row is overwritten by a copy that is good for it.                     *)
LEMMA SaveGood ==
  ASSUME TypeOK, RowsGood, Grows, NEW j \in Jobs, NEW r \in Row, Save(j, r),
         r.status = "delivered" => accepted'[j] > 0 /\ Valid(r)
  PROVE  RowsGood'
BY DEF TypeOK, StoreTypeOK, RowsGood, Save, Grows, Valid

LEMMA RowsStayGood ==
  ASSUME TypeOK, RowsGood, Grows, live' \subseteq live,
         \A j \in live' : rows'[j] = rows[j] \/ rows'[j].status # "delivered"
  PROVE  RowsGood'
BY DEF TypeOK, StoreTypeOK, RowsGood, Grows, Valid

LEMMA CopiesStayKept ==
  ASSUME TypeOK, CopiesKept, Grows, live' \subseteq live, UNCHANGED place
  PROVE  CopiesKept'
BY DEF TypeOK, WorldTypeOK, CopiesKept, Grows

LEMMA FinalizeKeeps ==
  ASSUME TypeOK, CopiesKept, Grows, live' \subseteq live,
         NEW j \in Jobs, NEW r, NEW cleaned \in BOOLEAN,
         Finalize(j, r, cleaned), accepted'[j] > 0
  PROVE  CopiesKept'
BY DEF TypeOK, WorldTypeOK, CopiesKept, Grows, Finalize

LEMMA SuccessIsTaken ==
  ASSUME NEW answer \in Answers, Succeeded(answer)
  PROVE  answer.taken
BY DEF Answers, Succeeded

LEMMA LiveShrinks == [Next]_vars => live' \subseteq live
<1> SUFFICES ASSUME [Next]_vars PROVE live' \subseteq live
  OBVIOUS
<1>1. ASSUME NEW w \in Workers, WorkerStep(w) PROVE live' \subseteq live
  BY <1>1 DEF WorkerStep, WorkerClaim, ClaimNext, WorkerExtract, WorkerFails, WorkerQuarantine,
              WorkerDeliver, WorkerFinalize, WorkerSave, Save, storeVars
<1>2. ASSUME NEW w \in Workers, WorkerRenews(w) \/ WorkerCrash(w) PROVE live' \subseteq live
  BY <1>2 DEF WorkerRenews, RenewLease, WorkerCrash, storeVars
<1>3. ASSUME NEW j \in Jobs, LeaseExpires(j) \/ LeaseLapses(j) \/ BackoffEnds(j)
      PROVE  live' \subseteq live
  BY <1>3 DEF LeaseExpires, LeaseLapses, LeaseRunsOut, BackoffEnds, BackoffElapses
<1>4. ASSUME NEW q \in Requests, RequestStep(q) PROVE live' \subseteq live
  BY <1>4 DEF RequestStep, ReviewSave, ReleaseReject, ReleaseClaim, ClaimDelivery,
              ReleaseClaimRefused, ReleaseDeliver, ReleaseFinalize, ReleaseStore,
              DeleteUnlink, RequestLog, Save, storeVars
<1>5. ASSUME NEW q \in Requests, NEW j \in Jobs, RequestBegins(q, j) PROVE live' \subseteq live
  BY <1>5 DEF RequestBegins, ReviewRead, ReleaseRead, Retry, RetryFailed, Delete,
              DeleteStalledJob, storeVars
<1>6. CASE ApiCrash
  BY <1>6 DEF ApiCrash, storeVars
<1>7. CASE UNCHANGED vars
  BY <1>7 DEF vars, storeVars
<1> QED
  BY <1>1, <1>2, <1>3, <1>4, <1>5, <1>6, <1>7 DEF Next, ByWorkers, ByRequests

(* A deleted job never gets a row again: save writes only where a row is   *)
(* (the promise of OPERATIONS.md about a worker that is still busy with    *)
(* the job, kept for every handler).                                       *)
THEOREM NoResurrection == Spec => DeletedStaysDeleted
<1>1. [Next]_vars => [live' \subseteq live]_live
  BY LiveShrinks
<1> QED
  BY <1>1, PTL DEF Spec, DeletedStaysDeleted

----------------------------------------------------------------------------
LEMMA WorkerStepGood ==
  ASSUME TypeOK, DeliveryInv, NEW w \in Workers, WorkerStep(w), UNCHANGED requestVars
  PROVE  DeliveryInv'
<1> USE DEF DeliveryInv
<1> DEFINE j == wjob[w]
           r == wcopy[w]
<1>a. live' \subseteq live
  BY LiveShrinks DEF Next, ByWorkers
<1>b. ASSUME UNCHANGED accepted PROVE Grows
  BY <1>b DEF Grows
<1>c. wpc[w] # "idle" => j \in Jobs
  BY DEF TypeOK, WorkerTypeOK
<1>d. r \in Row
  BY DEF TypeOK, WorkerTypeOK
<1>1. CASE WorkerClaim(w)
  <2>1. PICK k \in Jobs : ClaimNext(w, k) /\ Goto(w, "extract", k, Claimed(w, rows[k]))
    BY <1>1 DEF WorkerClaim
  <2>2. Grows /\ UNCHANGED place
    BY <1>1, <1>b DEF WorkerClaim, worldVars
  <2>3. Claimed(w, rows[k]).status = "processing"
    BY StatusOfMadeRows DEF TypeOK, StoreTypeOK
  <2>4. \A i \in live' : rows'[i] = rows[i] \/ rows'[i].status # "delivered"
    BY <2>1, <2>3 DEF ClaimNext, TypeOK, StoreTypeOK
  <2> QED
    BY <1>a, <2>1, <2>2, <2>3, <2>4, GotoGood, RequestsStayGood, RowsStayGood, CopiesStayKept
<1>2. CASE WorkerExtract(w)
  <2>1. Grows /\ UNCHANGED <<place, rows>>
    BY <1>2, <1>b DEF WorkerExtract, worldVars
  <2>2. PICK pc : /\ Goto(w, pc, j, Extracted(j, r))
                  /\ \/ pc = "deliver" /\ Valid(Extracted(j, r))
                     \/ pc = "quarantine"
    BY <1>2 DEF WorkerExtract
  <2>3. Extracted(j, r).status # "delivered"
    BY <1>2, <1>c, <1>d, StatusOfMadeRows DEF WorkerExtract, WorkersGood
  <2> QED
    BY <1>a, <2>1, <2>2, <2>3, GotoGood, RequestsStayGood, RowsStayGood, CopiesStayKept
<1>3. CASE WorkerFails(w)
  <2>1. Grows /\ UNCHANGED <<place, rows>>
    BY <1>3, <1>b DEF WorkerFails, worldVars
  <2>2. AfterError(r, FALSE).status # "delivered"
    BY <1>d, StatusOfMadeRows
  <2>3. Goto(w, "save", j, AfterError(r, FALSE))
    BY <1>3 DEF WorkerFails
  <2> QED
    BY <1>a, <2>1, <2>2, <2>3, GotoGood, RequestsStayGood, RowsStayGood, CopiesStayKept
<1>4. CASE WorkerQuarantine(w)
  <2>1. Grows /\ UNCHANGED rows
    BY <1>4, <1>b DEF WorkerQuarantine
  <2>2. /\ Quarantined(r).status # "delivered"
        /\ AfterError(Quarantined(r), FALSE).status # "delivered"
    BY <1>d, RowsMadeOfRows, StatusOfMadeRows
  <2>3. CopiesKept'
    BY <1>4, <1>a, <1>c, <2>1 DEF WorkerQuarantine, CopiesKept, TypeOK, WorldTypeOK, Grows
  <2>4. PICK c \in {Quarantined(r), AfterError(Quarantined(r), FALSE)} : Goto(w, "save", j, c)
    BY <1>4 DEF WorkerQuarantine
  <2> QED
    BY <1>a, <2>1, <2>2, <2>3, <2>4, GotoGood, RequestsStayGood, RowsStayGood
<1>5. CASE WorkerDeliver(w)
  <2>1. PICK answer \in Answers :
          /\ TargetAnswers(j, r, answer)
          /\ IF Succeeded(answer)
             THEN Goto(w, "finalize", j, r)
             ELSE Goto(w, "save", j, AfterError(r, answer.error = "permanent"))
    BY <1>5 DEF WorkerDeliver
  <2>2. j \in Jobs /\ wpc[w] = "deliver" /\ UNCHANGED <<place, rows>>
    BY <1>5, <1>c DEF WorkerDeliver
  <2>3. Grows /\ (answer.taken => accepted'[j] > 0)
    BY <2>1, <2>2, AcceptedGrows
  <2>4. CASE Succeeded(answer)
    <3>1. accepted'[j] > 0
      BY <2>3, <2>4, SuccessIsTaken
    <3>2. Valid(r) /\ r.status # "delivered"
      BY <2>2 DEF WorkersGood
    <3>3. WorkersGood'
      BY <2>1, <2>3, <2>4, <3>1, <3>2, GotoGood
    <3> QED
      BY <1>a, <2>2, <2>3, <3>3, RequestsStayGood, RowsStayGood, CopiesStayKept
  <2>5. CASE ~Succeeded(answer)
    <3>1. AfterError(r, answer.error = "permanent").status # "delivered"
      BY <1>d, StatusOfMadeRows
    <3>2. WorkersGood'
      BY <2>1, <2>3, <2>5, <3>1, GotoGood
    <3> QED
      BY <1>a, <2>2, <2>3, <3>2, RequestsStayGood, RowsStayGood, CopiesStayKept
  <2> QED
    BY <2>4, <2>5
<1>6. CASE WorkerFinalize(w)
  <2>1. PICK cleaned \in BOOLEAN :
          Finalize(j, r, cleaned) /\ Goto(w, "save", j, Finalized(r, cleaned))
    BY <1>6 DEF WorkerFinalize
  <2>2. j \in Jobs /\ Grows /\ UNCHANGED <<accepted, rows>>
    BY <1>6, <1>b, <1>c DEF WorkerFinalize, storeVars
  <2>3. accepted'[j] > 0 /\ Valid(r)
    BY <1>6, <2>2 DEF WorkerFinalize, WorkersGood
  <2>4. Valid(Finalized(r, cleaned))
    BY <1>d, <2>3, StatusOfMadeRows
  <2>5. WorkersGood'
    BY <2>1, <2>2, <2>3, <2>4, GotoGood
  <2> QED
    BY <1>a, <2>1, <2>2, <2>3, <2>5, FinalizeKeeps, RequestsStayGood, RowsStayGood
<1>7. CASE WorkerSave(w)
  <2>1. j \in Jobs /\ Grows /\ UNCHANGED <<accepted, place>>
    BY <1>7, <1>b, <1>c DEF WorkerSave, worldVars
  <2>2. Unleased(r) \in Row /\ Save(j, Unleased(r))
    BY <1>7, <1>d, RowsMadeOfRows DEF WorkerSave
  <2>3. Unleased(r).status = "delivered" => accepted'[j] > 0 /\ Valid(Unleased(r))
    BY <1>d, <2>1, StatusOfMadeRows DEF WorkersGood
  <2>4. RowsGood'
    BY <2>1, <2>2, <2>3, SaveGood
  <2>5. WorkersGood'
    BY <1>7, <2>1, FreshRowStatus, GotoGood DEF WorkerSave, Rest
  <2> QED
    BY <1>a, <2>1, <2>4, <2>5, RequestsStayGood, CopiesStayKept
<1> QED
  BY <1>1, <1>2, <1>3, <1>4, <1>5, <1>6, <1>7 DEF WorkerStep

LEMMA RequestStepGood ==
  ASSUME TypeOK, DeliveryInv, NEW q \in Requests, RequestStep(q), UNCHANGED workerVars
  PROVE  DeliveryInv'
<1> USE DEF DeliveryInv
<1> DEFINE j == qjob[q]
           r == qcopy[q]
<1>a. live' \subseteq live
  BY LiveShrinks DEF Next, ByRequests
<1>b. ASSUME UNCHANGED accepted PROVE Grows
  BY <1>b DEF Grows
<1>c. qpc[q] \notin {"new", "done"} => j \in Jobs
  BY DEF TypeOK, RequestTypeOK
<1>d. r \in Row
  BY DEF TypeOK, RequestTypeOK
<1>e. ASSUME Finish(q), Grows PROVE RequestsGood'
  BY <1>a, <1>e, FreshRowStatus, StepGood DEF Finish
<1>1. CASE ReviewSave(q)
  <2>1. PICK d \in DocTypes, o \in {r.routing, TRUE} : Save(j, Reviewed(q, r, d, o))
    BY <1>1 DEF ReviewSave
  <2>2. j \in Jobs /\ Grows /\ UNCHANGED place /\ o \in BOOLEAN
    BY <1>1, <1>b, <1>c, <1>d DEF ReviewSave, worldVars, Row
  <2>3. Reviewed(q, r, d, o) \in Row /\ Reviewed(q, r, d, o).status = "quarantined"
    <3>1. r.status = "quarantined"
      BY <1>1 DEF ReviewSave, RequestsGood
    <3>2. Reviewed(q, r, d, o) \in Row
      BY <1>d, <2>2, RowsMadeOfRows
    <3>3. Reviewed(q, r, d, o).status = r.status
      BY <1>d, <2>2, StatusOfMadeRows
    <3> QED
      BY <3>1, <3>2, <3>3
  <2>4. RowsGood'
    BY <2>1, <2>2, <2>3, SaveGood
  <2>5. RequestsGood'
    BY <1>1, <1>a, <2>2, FreshRowStatus, StepGood DEF ReviewSave
  <2> QED
    BY <1>a, <2>2, <2>4, <2>5, WorkersStayGood, CopiesStayKept
<1>2. CASE ReleaseReject(q)
  <2>1. j \in Jobs /\ Grows /\ UNCHANGED place
    BY <1>2, <1>b, <1>c DEF ReleaseReject, worldVars
  <2>2. /\ [r EXCEPT !.status = "quarantined"] \in Row
        /\ [r EXCEPT !.status = "quarantined"].status = "quarantined"
    BY <1>d, RowsMadeOfRows, StatusOfMadeRows DEF Statuses
  <2>3. RowsGood'
    BY <1>2, <2>1, <2>2, SaveGood DEF ReleaseReject
  <2>4. RequestsGood'
    BY <1>2, <1>a, <2>1, FreshRowStatus, StepGood DEF ReleaseReject
  <2> QED
    BY <1>a, <2>1, <2>3, <2>4, WorkersStayGood, CopiesStayKept
<1>3. CASE ReleaseClaim(q)
  <2> DEFINE c == [r EXCEPT !.status = "delivering"]
  <2>1. Grows /\ UNCHANGED place /\ Step(q, "delivering", j, c)
    BY <1>3, <1>b DEF ReleaseClaim, worldVars
  <2>2. c.status = "delivering" /\ Valid(c)
    BY <1>3, <1>d, StatusOfMadeRows DEF ReleaseClaim, RequestsGood, Statuses
  <2>3. \A i \in live' : rows'[i] = rows[i] \/ rows'[i].status # "delivered"
    BY <1>3 DEF ReleaseClaim, ClaimDelivery, TypeOK, StoreTypeOK, Row
  <2>4. RequestsGood'
    BY <1>a, <2>1, <2>2, StepGood
  <2> QED
    BY <1>a, <2>1, <2>3, <2>4, WorkersStayGood, RowsStayGood, CopiesStayKept
<1>4. CASE ReleaseClaimRefused(q)
  <2>1. Grows /\ UNCHANGED <<place, rows>> /\ Finish(q)
    BY <1>4, <1>b DEF ReleaseClaimRefused, storeVars, worldVars
  <2> QED
    BY <1>a, <1>e, <2>1, WorkersStayGood, RowsStayGood, CopiesStayKept
<1>5. CASE ReleaseDeliver(q)
  <2>1. PICK answer \in Answers :
          /\ TargetAnswers(j, r, answer)
          /\ IF Succeeded(answer)
             THEN Step(q, "finalizing", j, r)
             ELSE Step(q, "storing", j, [r EXCEPT !.status = "failed"])
    BY <1>5 DEF ReleaseDeliver
  <2>2. j \in Jobs /\ qpc[q] = "delivering" /\ UNCHANGED <<place, rows>>
    BY <1>5, <1>c DEF ReleaseDeliver
  <2>3. Grows /\ (answer.taken => accepted'[j] > 0)
    BY <2>1, <2>2, AcceptedGrows
  <2>4. RequestsGood'
    <3>1. CASE Succeeded(answer)
      <4>1. accepted'[j] > 0 /\ Valid(r) /\ r.status # "delivered"
        BY <2>2, <2>3, <3>1, SuccessIsTaken DEF RequestsGood
      <4> QED
        BY <1>a, <2>1, <2>3, <3>1, <4>1, StepGood
    <3>2. CASE ~Succeeded(answer)
      <4> DEFINE c == [r EXCEPT !.status = "failed"]
      <4>1. c.status = "failed"
        BY <1>d, StatusOfMadeRows DEF Statuses
      <4>2. Step(q, "storing", j, c)
        BY <2>1, <3>2
      <4> HIDE DEF c
      <4> QED
        BY <1>a, <2>3, <4>1, <4>2, StepGood
    <3> QED
      BY <3>1, <3>2
  <2> QED
    BY <1>a, <2>2, <2>3, <2>4, WorkersStayGood, RowsStayGood, CopiesStayKept
<1>6. CASE ReleaseFinalize(q)
  <2>1. PICK cleaned \in BOOLEAN :
          Finalize(j, r, cleaned) /\ Step(q, "storing", j, Finalized(r, cleaned))
    BY <1>6 DEF ReleaseFinalize
  <2>2. j \in Jobs /\ Grows /\ UNCHANGED <<accepted, rows>>
    BY <1>6, <1>b, <1>c DEF ReleaseFinalize, storeVars
  <2>3. accepted'[j] > 0 /\ Valid(r)
    BY <1>6, <2>2 DEF ReleaseFinalize, RequestsGood
  <2>4. Valid(Finalized(r, cleaned))
    BY <1>d, <2>3, StatusOfMadeRows
  <2>5. RequestsGood'
    BY <1>a, <2>1, <2>2, <2>3, <2>4, StepGood
  <2> QED
    BY <1>a, <2>1, <2>2, <2>3, <2>5, FinalizeKeeps, WorkersStayGood, RowsStayGood
<1>7. CASE ReleaseStore(q)
  <2>1. j \in Jobs /\ Grows /\ UNCHANGED <<accepted, place>>
    BY <1>7, <1>b, <1>c DEF ReleaseStore, worldVars
  <2>2. RowsGood'
    BY <1>7, <1>d, <2>1, SaveGood DEF ReleaseStore, RequestsGood
  <2> QED
    BY <1>7, <1>a, <1>e, <2>1, <2>2, WorkersStayGood, CopiesStayKept DEF ReleaseStore
<1>8. CASE DeleteUnlink(q)
  <2>1. j \in Jobs /\ j \notin live /\ Grows /\ UNCHANGED <<accepted, rows, live>> /\ Finish(q)
    BY <1>8, <1>b, <1>c DEF DeleteUnlink, RequestsGood, storeVars
  <2>2. CopiesKept'
    BY <1>8, <2>1 DEF DeleteUnlink, CopiesKept, TypeOK, WorldTypeOK
  <2> QED
    BY <1>a, <1>e, <2>1, <2>2, WorkersStayGood, RowsStayGood
<1>9. CASE RequestLog(q)
  <2>1. Grows /\ UNCHANGED <<place, rows>> /\ Finish(q)
    BY <1>9, <1>b DEF RequestLog, worldVars
  <2> QED
    BY <1>a, <1>e, <2>1, WorkersStayGood, RowsStayGood, CopiesStayKept
<1> QED
  BY <1>1, <1>2, <1>3, <1>4, <1>5, <1>6, <1>7, <1>8, <1>9 DEF RequestStep

LEMMA RequestBeginsGood ==
  ASSUME TypeOK, DeliveryInv, NEW q \in Requests, NEW j \in Jobs, RequestBegins(q, j),
         UNCHANGED workerVars
  PROVE  DeliveryInv'
<1> USE DEF DeliveryInv
<1>a. live' \subseteq live
  BY LiveShrinks DEF Next, ByRequests
<1>b. Grows /\ UNCHANGED place
  BY DEF RequestBegins, ReviewRead, ReleaseRead, Retry, Delete, worldVars, Grows
<1>c. WorkersGood' /\ CopiesKept'
  BY <1>a, <1>b, WorkersStayGood, CopiesStayKept
<1>1. CASE ReviewRead(q, j)
  <2>1. UNCHANGED rows /\ Step(q, "reviewing", j, rows[j]) /\ rows[j].status = "quarantined"
    BY <1>1 DEF ReviewRead, storeVars
  <2> QED
    BY <1>a, <1>b, <1>c, <2>1, StepGood, RowsStayGood
<1>2. CASE ReleaseRead(q, j)
  <2>1. UNCHANGED rows /\ rows[j].status # "delivered"
    BY <1>2 DEF ReleaseRead, storeVars
  <2>2. PICK pc : /\ Step(q, pc, j, rows[j])
                  /\ \/ pc = "claiming" /\ Valid(rows[j])
                     \/ pc = "rejecting"
    BY <1>2 DEF ReleaseRead
  <2> QED
    BY <1>a, <1>b, <1>c, <2>1, <2>2, StepGood, RowsStayGood
<1>3. CASE Retry(q, j)
  <2>1. \A i \in live' : rows'[i] = rows[i] \/ rows'[i].status # "delivered"
    BY <1>3 DEF Retry, RetryFailed, TypeOK, StoreTypeOK, Row
  <2>2. RequestsGood'
    BY <1>3, <1>a, <1>b, FreshRowStatus, StepGood DEF Retry
  <2> QED
    BY <1>a, <1>b, <1>c, <2>1, <2>2, RowsStayGood
<1>4. CASE Delete(q, j)
  <2>1. /\ j \notin live' /\ rows[j].status # "delivered"
        /\ Step(q, "unlinking", j, rows[j])
    BY <1>4 DEF Delete, DeleteStalledJob, Deletable
  <2>2. \A i \in live' : rows'[i] = rows[i] \/ rows'[i].status # "delivered"
    BY <1>4 DEF Delete, DeleteStalledJob, TypeOK, StoreTypeOK
  <2> QED
    BY <1>a, <1>b, <1>c, <2>1, <2>2, StepGood, RowsStayGood
<1> QED
  BY <1>1, <1>2, <1>3, <1>4 DEF RequestBegins

LEMMA EnvironmentGood ==
  ASSUME TypeOK, DeliveryInv
  PROVE  /\ \A w \in Workers :
              (WorkerRenews(w) \/ WorkerCrash(w)) /\ UNCHANGED requestVars => DeliveryInv'
         /\ \A j \in Jobs :
              (LeaseExpires(j) \/ LeaseLapses(j) \/ BackoffEnds(j)) /\ UNCHANGED requestVars
                => DeliveryInv'
         /\ ApiCrash /\ UNCHANGED workerVars => DeliveryInv'
<1> USE DEF DeliveryInv
<1>a. ASSUME UNCHANGED accepted PROVE Grows
  BY <1>a DEF Grows
<1>1. ASSUME NEW w \in Workers, WorkerRenews(w), UNCHANGED requestVars PROVE DeliveryInv'
  <2>1. Grows /\ live' = live /\ UNCHANGED <<place, workerVars>>
    BY <1>1, <1>a DEF WorkerRenews, RenewLease, worldVars
  <2>2. \A i \in live' : rows'[i] = rows[i] \/ rows'[i].status # "delivered"
    BY <1>1 DEF WorkerRenews, RenewLease, Owns, TypeOK, StoreTypeOK, Row
  <2> QED
    BY <1>1, <2>1, <2>2, WorkersStayGood, RequestsStayGood, RowsStayGood, CopiesStayKept
<1>2. ASSUME NEW w \in Workers, WorkerCrash(w), UNCHANGED requestVars PROVE DeliveryInv'
  <2>1. Grows /\ UNCHANGED <<live, rows, place>>
    BY <1>2, <1>a DEF WorkerCrash, storeVars
  <2>2. WorkersGood'
    BY <1>2, <2>1, FreshRowStatus, GotoGood DEF WorkerCrash, Rest
  <2> QED
    BY <1>2, <2>1, <2>2, RequestsStayGood, RowsStayGood, CopiesStayKept
<1>3. ASSUME NEW j \in Jobs, LeaseRunsOut(j) PROVE
        live' = live /\ \A i \in live' : rows'[i] = rows[i] \/ rows'[i].status # "delivered"
  BY <1>3 DEF LeaseRunsOut, TypeOK, StoreTypeOK, Row
<1>4. ASSUME NEW j \in Jobs, LeaseExpires(j) \/ LeaseLapses(j), UNCHANGED requestVars
      PROVE  DeliveryInv'
  <2>1. Grows /\ UNCHANGED <<place, workerVars>> /\ LeaseRunsOut(j)
    BY <1>4, <1>a DEF LeaseExpires, LeaseLapses, worldVars
  <2> QED
    BY <1>3, <1>4, <2>1, WorkersStayGood, RequestsStayGood, RowsStayGood, CopiesStayKept
<1>5. ASSUME NEW j \in Jobs, BackoffEnds(j), UNCHANGED requestVars PROVE DeliveryInv'
  <2>1. Grows /\ live' = live /\ UNCHANGED <<place, workerVars>>
    BY <1>5, <1>a DEF BackoffEnds, BackoffElapses, worldVars
  <2>2. \A i \in live' : rows'[i] = rows[i] \/ rows'[i].status # "delivered"
    BY <1>5 DEF BackoffEnds, BackoffElapses, TypeOK, StoreTypeOK, Row
  <2> QED
    BY <1>5, <2>1, <2>2, WorkersStayGood, RequestsStayGood, RowsStayGood, CopiesStayKept
<1>6. ASSUME ApiCrash, UNCHANGED workerVars PROVE DeliveryInv'
  <2>1. Grows /\ UNCHANGED <<live, rows, place>>
    BY <1>6, <1>a DEF ApiCrash, storeVars
  <2>2. RequestsGood'
    BY <1>6, FreshRowStatus DEF ApiCrash, Open, RequestsGood, TypeOK, RequestTypeOK
  <2> QED
    BY <1>6, <2>1, <2>2, WorkersStayGood, RowsStayGood, CopiesStayKept
<1> QED
  BY <1>1, <1>2, <1>4, <1>5, <1>6

----------------------------------------------------------------------------
LEMMA InitGood == Init => DeliveryInv
BY FreshRowStatus
   DEF Init, StoreInit, WorldInit, WorkerInit, RequestInit, DeliveryInv, RowsGood,
       WorkersGood, RequestsGood, CopiesKept

LEMMA NextGood == TypeOK /\ DeliveryInv /\ [Next]_vars => DeliveryInv'
<1> SUFFICES ASSUME TypeOK, DeliveryInv, [Next]_vars PROVE DeliveryInv'
  OBVIOUS
<1>1. CASE ByWorkers
  BY <1>1, WorkerStepGood, EnvironmentGood DEF ByWorkers
<1>2. CASE ByRequests
  BY <1>2, RequestStepGood, RequestBeginsGood, EnvironmentGood DEF ByRequests
<1>3. CASE UNCHANGED vars
  <2>1. Grows /\ live' = live /\ UNCHANGED <<rows, place, workerVars, requestVars>>
    BY <1>3 DEF vars, storeVars, worldVars, Grows
  <2> QED
    BY <2>1, WorkersStayGood, RequestsStayGood, RowsStayGood, CopiesStayKept DEF DeliveryInv
<1> QED
  BY <1>1, <1>2, <1>3 DEF Next

(* Rows, copies in memory and work copies stay in the agreement above.     *)
THEOREM DeliveriesStayGood == Spec => []DeliveryInv
<1>1. Init => TypeOK /\ DeliveryInv
  BY InitTyped, InitGood
<1>2. (TypeOK /\ DeliveryInv) /\ [Next]_vars => (TypeOK /\ DeliveryInv)'
  BY NextTyped, NextGood
<1> QED
  BY <1>1, <1>2, PTL DEF Spec

(* A job recorded as delivered has been taken by the target system, in     *)
(* spite of every stale copy that save may write over the row.             *)
THEOREM DeliveredOnlyAccepted == Spec => []DeliveredIsAccepted
<1>1. DeliveryInv => DeliveredIsAccepted
  BY DEF DeliveryInv, RowsGood, DeliveredIsAccepted
<1> QED
  BY <1>1, DeliveriesStayGood, PTL

(* ... and passed validation as the row shows it.                          *)
THEOREM DeliveredOnlyValid == Spec => []DeliveredIsValid
<1>1. DeliveryInv => DeliveredIsValid
  BY DEF DeliveryInv, RowsGood, DeliveredIsValid, Valid
<1> QED
  BY <1>1, DeliveriesStayGood, PTL

(* The work copy of a job that has its row is archived or deleted only     *)
(* when the target system has taken the document.                          *)
THEOREM NoCopyDiscardedEarly == Spec => []DiscardOnlyAccepted
<1>1. TypeOK /\ DeliveryInv => DiscardOnlyAccepted
  BY DEF TypeOK, StoreTypeOK, DeliveryInv, CopiesKept, DiscardOnlyAccepted
<1> QED
  BY <1>1, TypeCorrect, DeliveriesStayGood, PTL
=============================================================================
