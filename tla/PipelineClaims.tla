--------------------------- MODULE PipelineClaims ---------------------------
(***************************************************************************)
(* What becomes of the copies of a row, and of the document: which places  *)
(* a copy can name; how leases keep workers apart; and what holds as long  *)
(* as operators make one request at a time, when no copy of a row that is  *)
(* saved is older than the row it overwrites.                              *)
(***************************************************************************)
EXTENDS PipelineDeliveries, FiniteSetTheorems

(* Whoever has a copy of a row knows the document to be in the inbox as    *)
(* long as it is there, and only a delivered job names an archived one.    *)
Named(at, r) == at = "inbox" => r.path = "inbox"

Archived(r) == r.path = "completed" => r.status = "delivered"

RowsNamed == \A j \in Jobs : Named(place[j], rows[j]) /\ Archived(rows[j])

WorkersNamed ==
  \A w \in Workers :
    Archived(wcopy[w]) /\ (wjob[w] \in Jobs => Named(place[wjob[w]], wcopy[w]))

RequestsNamed ==
  \A q \in Requests :
    Archived(qcopy[q]) /\ (qjob[q] \in Jobs => Named(place[qjob[q]], qcopy[q]))

PathInv == RowsNamed /\ WorkersNamed /\ RequestsNamed /\ DeletedLeavesNoCopy

----------------------------------------------------------------------------
(* No document comes back to the inbox.                                    *)
LeavesInbox == \A j \in Jobs : place'[j] = "inbox" => place[j] = "inbox"

(* The paths in the rows the pipeline makes.                               *)
LEMMA PathsOfMadeRows ==
  ASSUME NEW r \in Row
  PROVE  /\ Unleased(r).path = r.path
         /\ Quarantined(r).path = "quarantine"
         /\ \A p \in BOOLEAN : AfterError(r, p).path = r.path
         /\ \A c \in BOOLEAN : /\ Finalized(r, c).status = "delivered"
                               /\ ~c => Finalized(r, c).path = r.path
         /\ \A w \in Workers : Claimed(w, r).path = r.path
         /\ \A j \in Jobs : Extracted(j, r).path = r.path
         /\ \A q \in Requests, d \in DocTypes, o \in BOOLEAN :
              Reviewed(q, r, d, o).path = r.path
         /\ \A s \in Statuses : [r EXCEPT !.status = s].path = r.path
BY DEF Row, Unleased, Quarantined, AfterError, Finalized, Claimed, Extracted, Reviewed

LEMMA FreshRowNamed == Archived(FreshRow) /\ \A at : Named(at, FreshRow)
BY DEF FreshRow, Archived, Named

LEMMA GotoNamed ==
  ASSUME TypeOK, WorkersNamed, LeavesInbox,
         NEW w \in Workers, NEW pc, NEW j, NEW r, Goto(w, pc, j, r), Archived(r),
         j \in Jobs => Named(place'[j], r)
  PROVE  WorkersNamed'
BY DEF Goto, WorkersNamed, Named, Archived, LeavesInbox, TypeOK, WorkerTypeOK

LEMMA StepNamed ==
  ASSUME TypeOK, RequestsNamed, LeavesInbox,
         NEW q \in Requests, NEW pc, NEW j, NEW r, Step(q, pc, j, r), Archived(r),
         j \in Jobs => Named(place'[j], r)
  PROVE  RequestsNamed'
BY DEF Step, RequestsNamed, Named, Archived, LeavesInbox, TypeOK, RequestTypeOK

LEMMA CopiesStayNamed ==
  ASSUME LeavesInbox, TypeOK
  PROVE  /\ WorkersNamed /\ UNCHANGED workerVars => WorkersNamed'
         /\ RequestsNamed /\ UNCHANGED requestVars => RequestsNamed'
BY DEF workerVars, requestVars, WorkersNamed, RequestsNamed, Named, LeavesInbox, Archived

LEMMA RowsStayNamed ==
  ASSUME RowsNamed, LeavesInbox,
         \A j \in Jobs : \/ rows'[j] = rows[j]
                         \/ Named(place'[j], rows'[j]) /\ Archived(rows'[j])
  PROVE  RowsNamed'
BY DEF RowsNamed, Named, Archived, LeavesInbox

LEMMA SaveNamed ==
  ASSUME TypeOK, RowsNamed, LeavesInbox, NEW j \in Jobs, NEW r, Save(j, r),
         Named(place'[j], r), Archived(r)
  PROVE  RowsNamed'
BY DEF RowsNamed, Save, Named, Archived, LeavesInbox, TypeOK, StoreTypeOK

(* A deleted document that is gone stays gone, unless a request about to   *)
(* unlink it ends, or its own place changes.                               *)
LEMMA DeletedStaysGone ==
  ASSUME DeletedLeavesNoCopy, TypeOK, live' = live,
         faults'["apiCrash"] = 0 => faults["apiCrash"] = 0,
         \A j \in Jobs \ live :
           \/ place'[j] = place[j] \/ place'[j] \in {"completed", "none"}
           \/ place[j] \notin {"completed", "none"},
         \A q \in Requests : qpc[q] = "unlinking" =>
           qpc'[q] = "unlinking" /\ qjob'[q] = qjob[q]
  PROVE  DeletedLeavesNoCopy'
BY DEF DeletedLeavesNoCopy

LEMMA StepKeepsUnlinking ==
  ASSUME TypeOK, NEW q \in Requests, qpc[q] # "unlinking", NEW pc, NEW j, NEW r, Step(q, pc, j, r)
  PROVE  \A p \in Requests : qpc[p] = "unlinking" => qpc'[p] = "unlinking" /\ qjob'[p] = qjob[p]
BY DEF Step, TypeOK, RequestTypeOK

LEMMA FinalizeLeaves ==
  ASSUME TypeOK, NEW j \in Jobs, NEW r, NEW cleaned \in BOOLEAN, Finalize(j, r, cleaned)
  PROVE  /\ LeavesInbox
         /\ \A k \in Jobs : place'[k] = place[k] \/ place'[k] \in {"completed", "none"}
         /\ cleaned => place'[j] # "inbox"
BY DEF Finalize, LeavesInbox, TypeOK, WorldTypeOK

----------------------------------------------------------------------------
(* Workers, requests and everything else keep the names.                   *)
LEMMA WorkerStepNamed ==
  ASSUME TypeOK, DeliveryInv, PathInv, NEW w \in Workers, WorkerStep(w), UNCHANGED requestVars
  PROVE  PathInv'
<1> USE DEF PathInv
<1> DEFINE j == wjob[w]
           r == wcopy[w]
<1>a. r \in Row /\ Archived(r) /\ (wpc[w] # "idle" => j \in Jobs /\ Named(place[j], r))
  BY DEF TypeOK, WorkerTypeOK, WorkersNamed
<1>b. wpc[w] # "save" => r.path # "completed"
  BY <1>a DEF Archived, DeliveryInv, WorkersGood
<1>c. ASSUME UNCHANGED place PROVE LeavesInbox
  BY <1>c DEF LeavesInbox
<1>d. /\ live' = live /\ (faults'["apiCrash"] = 0 => faults["apiCrash"] = 0)
      /\ \A q \in Requests : qpc[q] = "unlinking" =>
           qpc'[q] = "unlinking" /\ qjob'[q] = qjob[q]
  <2>1. live' = live
    BY DEF WorkerStep, WorkerClaim, ClaimNext, WorkerExtract, WorkerFails, WorkerQuarantine,
           WorkerDeliver, WorkerFinalize, WorkerSave, Save, storeVars
  <2>2. faults["apiCrash"] <= faults'["apiCrash"] /\ faults["apiCrash"] \in Nat
    BY FaultsGrow DEF Next, ByWorkers, FaultKinds, TypeOK, WorldTypeOK
  <2> QED
    BY <2>1, <2>2 DEF requestVars
<1>e. UNCHANGED place => DeletedLeavesNoCopy'
  BY <1>d, DeletedStaysGone
<1>1. CASE WorkerClaim(w)
  <2>1. PICK k \in Jobs : ClaimNext(w, k) /\ Goto(w, "extract", k, Claimed(w, rows[k]))
    BY <1>1 DEF WorkerClaim
  <2>2. LeavesInbox /\ UNCHANGED place
    BY <1>1, <1>c DEF WorkerClaim, worldVars
  <2>3. Named(place'[k], Claimed(w, rows[k])) /\ Archived(Claimed(w, rows[k]))
    <3>1. rows[k] \in Row /\ rows[k].status # "delivered"
      BY <2>1 DEF ClaimNext, Claimable, TypeOK, StoreTypeOK
    <3>2. Claimed(w, rows[k]).path = rows[k].path
      BY <3>1, PathsOfMadeRows
    <3> QED
      BY <2>2, <3>1, <3>2 DEF RowsNamed, Named, Archived
  <2>4. RowsNamed'
    BY <2>1, <2>2, <2>3, RowsStayNamed DEF ClaimNext, TypeOK, StoreTypeOK
  <2>5. WorkersNamed'
    BY <2>1, <2>2, <2>3, GotoNamed
  <2> QED
    BY <1>e, <2>2, <2>4, <2>5, CopiesStayNamed
<1>2. CASE WorkerExtract(w)
  <2>1. LeavesInbox /\ UNCHANGED <<place, rows>> /\ wpc[w] = "extract"
    BY <1>2, <1>c DEF WorkerExtract, worldVars
  <2>2. PICK pc : Goto(w, pc, j, Extracted(j, r))
    BY <1>2 DEF WorkerExtract
  <2>3. Named(place'[j], Extracted(j, r)) /\ Archived(Extracted(j, r))
    BY <1>a, <1>b, <2>1, PathsOfMadeRows DEF Named, Archived
  <2> QED
    BY <1>e, <2>1, <2>2, <2>3, GotoNamed, RowsStayNamed, CopiesStayNamed
<1>3. CASE WorkerFails(w)
  <2>1. /\ LeavesInbox /\ UNCHANGED <<place, rows>> /\ wpc[w] \in {"extract", "quarantine"}
        /\ Goto(w, "save", j, AfterError(r, FALSE))
    BY <1>3, <1>c DEF WorkerFails, worldVars
  <2>2. Named(place'[j], AfterError(r, FALSE)) /\ Archived(AfterError(r, FALSE))
    BY <1>a, <1>b, <2>1, PathsOfMadeRows DEF Named, Archived
  <2> QED
    BY <1>e, <2>1, <2>2, GotoNamed, RowsStayNamed, CopiesStayNamed
<1>4. CASE WorkerQuarantine(w)
  <2>1. /\ UNCHANGED rows /\ wpc[w] = "quarantine" /\ j \in Jobs
        /\ r.path = "quarantine" \/ place[j] = r.path
        /\ place' = IF r.path = "quarantine" THEN place ELSE [place EXCEPT ![j] = "quarantine"]
    BY <1>4, <1>a DEF WorkerQuarantine
  <2>2. r.path \in {"inbox", "quarantine"}
    BY <1>a, <1>b, <2>1 DEF Row, Paths
  <2>3. LeavesInbox /\ place'[j] # "inbox"
    BY <1>a, <2>1 DEF LeavesInbox, Named, TypeOK, WorldTypeOK
  <2>4. DeletedLeavesNoCopy'
    <3>1. \A k \in Jobs : place'[k] = place[k] \/ place[k] = "inbox"
      BY <2>1, <2>2 DEF TypeOK, WorldTypeOK
    <3> QED
      BY <1>d, <3>1, DeletedStaysGone
  <2>5. PICK c \in {Quarantined(r), AfterError(Quarantined(r), FALSE)} : Goto(w, "save", j, c)
    BY <1>4 DEF WorkerQuarantine
  <2>6. c.path = "quarantine"
    <3>1. Quarantined(r) \in Row /\ Quarantined(r).path = "quarantine"
      BY <1>a, RowsMadeOfRows, PathsOfMadeRows
    <3>2. AfterError(Quarantined(r), FALSE).path = Quarantined(r).path
      BY <3>1, PathsOfMadeRows
    <3> QED
      BY <2>5, <3>1, <3>2
  <2>7. Named(place'[j], c) /\ Archived(c)
    BY <2>3, <2>6 DEF Named, Archived
  <2> QED
    BY <2>1, <2>3, <2>4, <2>5, <2>7, GotoNamed, RowsStayNamed, CopiesStayNamed
<1>5. CASE WorkerDeliver(w)
  <2>1. LeavesInbox /\ UNCHANGED <<place, rows>> /\ wpc[w] = "deliver"
    BY <1>5, <1>c DEF WorkerDeliver
  <2>2. PICK pc, c : Goto(w, pc, j, c) /\ (c = r \/ \E p \in BOOLEAN : c = AfterError(r, p))
    BY <1>5 DEF WorkerDeliver
  <2>3. c.path = r.path
    BY <1>a, <2>2, PathsOfMadeRows
  <2>4. Named(place'[j], c) /\ Archived(c)
    BY <1>a, <1>b, <2>1, <2>3 DEF Named, Archived
  <2> QED
    BY <1>e, <2>1, <2>2, <2>4, GotoNamed, RowsStayNamed, CopiesStayNamed
<1>6. CASE WorkerFinalize(w)
  <2>1. PICK cleaned \in BOOLEAN :
          Finalize(j, r, cleaned) /\ Goto(w, "save", j, Finalized(r, cleaned))
    BY <1>6 DEF WorkerFinalize
  <2>2. j \in Jobs /\ UNCHANGED rows
    BY <1>6, <1>a DEF WorkerFinalize, storeVars
  <2>3. /\ LeavesInbox
        /\ \A k \in Jobs : place'[k] = place[k] \/ place'[k] \in {"completed", "none"}
        /\ cleaned => place'[j] # "inbox"
    BY <2>1, <2>2, FinalizeLeaves
  <2>4. Named(place'[j], Finalized(r, cleaned)) /\ Archived(Finalized(r, cleaned))
    <3>1. ~cleaned => Finalized(r, cleaned).path = r.path
      BY <1>a, PathsOfMadeRows
    <3>2. Finalized(r, cleaned).status = "delivered"
      BY <1>a, PathsOfMadeRows
    <3> QED
      BY <1>6, <1>a, <2>2, <2>3, <3>1, <3>2 DEF Named, Archived, LeavesInbox, WorkerFinalize
  <2>5. DeletedLeavesNoCopy'
    BY <1>d, <2>3, DeletedStaysGone
  <2> QED
    BY <2>1, <2>2, <2>3, <2>4, <2>5, GotoNamed, RowsStayNamed, CopiesStayNamed
<1>7. CASE WorkerSave(w)
  <2>1. j \in Jobs /\ LeavesInbox /\ UNCHANGED place /\ Save(j, Unleased(r))
    BY <1>7, <1>a, <1>c DEF WorkerSave, worldVars
  <2>2. Unleased(r).path = r.path /\ Unleased(r).status = r.status
    BY <1>a, PathsOfMadeRows, StatusOfMadeRows
  <2>3. Named(place'[j], Unleased(r)) /\ Archived(Unleased(r))
    BY <1>7, <1>a, <2>1, <2>2 DEF Named, Archived, WorkerSave
  <2>4. RowsNamed'
    BY <2>1, <2>3, SaveNamed
  <2>5. WorkersNamed'
    BY <1>7, <2>1, FreshRowNamed, GotoNamed DEF WorkerSave, Rest, Named, FreshRow
  <2> QED
    BY <1>e, <2>1, <2>4, <2>5, CopiesStayNamed
<1> QED
  BY <1>1, <1>2, <1>3, <1>4, <1>5, <1>6, <1>7 DEF WorkerStep

LEMMA RequestStepNamed ==
  ASSUME TypeOK, DeliveryInv, PathInv, NEW q \in Requests, RequestStep(q), UNCHANGED workerVars
  PROVE  PathInv'
<1> USE DEF PathInv
<1> DEFINE j == qjob[q]
           r == qcopy[q]
<1>a. /\ r \in Row /\ Archived(r)
      /\ qpc[q] \notin {"new", "done"} => j \in Jobs /\ Named(place[j], r)
  BY DEF TypeOK, RequestTypeOK, RequestsNamed
<1>b. qpc[q] # "storing" => r.path # "completed"
  BY <1>a DEF Archived, DeliveryInv, RequestsGood
<1>c. ASSUME UNCHANGED place PROVE LeavesInbox
  BY <1>c DEF LeavesInbox
<1>d. live' = live /\ (faults'["apiCrash"] = 0 => faults["apiCrash"] = 0)
  <2>1. live' = live
    BY DEF RequestStep, ReviewSave, ReleaseReject, ReleaseClaim, ClaimDelivery,
           ReleaseClaimRefused, ReleaseDeliver, ReleaseFinalize, ReleaseStore, DeleteUnlink,
           RequestLog, Save, storeVars
  <2>2. faults["apiCrash"] <= faults'["apiCrash"] /\ faults["apiCrash"] \in Nat
    BY FaultsGrow DEF Next, ByRequests, FaultKinds, TypeOK, WorldTypeOK
  <2> QED
    BY <2>1, <2>2
<1>e. ASSUME NEW pc, NEW i, NEW c, Step(q, pc, i, c), UNCHANGED place, qpc[q] # "unlinking"
      PROVE  LeavesInbox /\ WorkersNamed' /\ DeletedLeavesNoCopy'
  <2>1. LeavesInbox
    BY <1>c, <1>e
  <2>2. \A p \in Requests : qpc[p] = "unlinking" => qpc'[p] = "unlinking" /\ qjob'[p] = qjob[p]
    BY <1>e, StepKeepsUnlinking
  <2>3. DeletedLeavesNoCopy'
    BY <1>d, <1>e, <2>2, DeletedStaysGone
  <2> QED
    BY <2>1, <2>3, CopiesStayNamed
<1>f. ASSUME NEW pc, NEW i, Step(q, pc, i, FreshRow), LeavesInbox PROVE RequestsNamed'
  <2>1. Archived(FreshRow) /\ Named(place'[i], FreshRow)
    BY DEF FreshRow, Archived, Named
  <2> QED
    BY <1>f, <2>1, StepNamed
<1>1. CASE ReviewSave(q)
  <2>1. PICK d \in DocTypes, o \in {r.routing, TRUE} : Save(j, Reviewed(q, r, d, o))
    BY <1>1 DEF ReviewSave
  <2>2. j \in Jobs /\ o \in BOOLEAN /\ UNCHANGED place /\ Step(q, "logging", j, FreshRow)
        /\ qpc[q] = "reviewing"
    BY <1>1, <1>a DEF ReviewSave, worldVars, Row
  <2>3. Reviewed(q, r, d, o).path = r.path
    BY <1>a, <2>2, PathsOfMadeRows
  <2>4. Named(place'[j], Reviewed(q, r, d, o)) /\ Archived(Reviewed(q, r, d, o))
    BY <1>a, <1>b, <2>2, <2>3 DEF Named, Archived
  <2> QED
    BY <1>e, <1>f, <2>1, <2>2, <2>4, SaveNamed
<1>2. CASE ReleaseReject(q)
  <2> DEFINE c == [r EXCEPT !.status = "quarantined"]
  <2>1. /\ j \in Jobs /\ UNCHANGED place /\ Step(q, "logging", j, FreshRow)
        /\ qpc[q] = "rejecting" /\ Save(j, c)
    BY <1>2, <1>a DEF ReleaseReject, worldVars
  <2>2. c.path = r.path
    BY <1>a, PathsOfMadeRows DEF Statuses
  <2>3. Named(place'[j], c) /\ Archived(c)
    BY <1>a, <1>b, <2>1, <2>2 DEF Named, Archived
  <2> QED
    BY <1>e, <1>f, <2>1, <2>3, SaveNamed
<1>3. CASE ReleaseClaim(q)
  <2> DEFINE c == [r EXCEPT !.status = "delivering"]
  <2>1. /\ j \in Jobs /\ UNCHANGED place /\ Step(q, "delivering", j, c)
        /\ qpc[q] = "claiming" /\ ClaimDelivery(j)
    BY <1>3, <1>a DEF ReleaseClaim, worldVars
  <2>2. c.path = r.path
    BY <1>a, PathsOfMadeRows DEF Statuses
  <2>3. Named(place'[j], c) /\ Archived(c)
    BY <1>a, <1>b, <2>1, <2>2 DEF Named, Archived
  <2>4. \A k \in Jobs : \/ rows'[k] = rows[k]
                        \/ Named(place'[k], rows'[k]) /\ Archived(rows'[k])
    BY <2>1 DEF ClaimDelivery, DeliveryClaimable, TypeOK, StoreTypeOK, Row, RowsNamed, Named,
                Archived
  <2> QED
    BY <1>e, <2>1, <2>3, <2>4, StepNamed, RowsStayNamed
<1>4. CASE ReleaseClaimRefused(q)
  <2>1. /\ UNCHANGED <<place, rows>> /\ Step(q, "done", NoJob, FreshRow)
        /\ qpc[q] = "claiming"
    BY <1>4 DEF ReleaseClaimRefused, storeVars, worldVars, Finish
  <2> QED
    BY <1>e, <1>f, <2>1, RowsStayNamed
<1>5. CASE ReleaseDeliver(q)
  <2>1. UNCHANGED <<place, rows>> /\ qpc[q] = "delivering"
    BY <1>5 DEF ReleaseDeliver
  <2>2. PICK pc, c : Step(q, pc, j, c) /\ c \in {r, [r EXCEPT !.status = "failed"]}
    BY <1>5 DEF ReleaseDeliver
  <2>3. c.path = r.path
    <3>1. [r EXCEPT !.status = "failed"].path = r.path
      BY <1>a, PathsOfMadeRows DEF Statuses
    <3> QED
      BY <2>2, <3>1
  <2>4. Named(place'[j], c) /\ Archived(c)
    BY <1>a, <1>b, <2>1, <2>3 DEF Named, Archived
  <2> QED
    BY <1>e, <2>1, <2>2, <2>4, StepNamed, RowsStayNamed
<1>6. CASE ReleaseFinalize(q)
  <2>1. PICK cleaned \in BOOLEAN :
          Finalize(j, r, cleaned) /\ Step(q, "storing", j, Finalized(r, cleaned))
    BY <1>6 DEF ReleaseFinalize
  <2>2. j \in Jobs /\ UNCHANGED rows /\ qpc[q] = "finalizing"
    BY <1>6, <1>a DEF ReleaseFinalize, storeVars
  <2>3. /\ LeavesInbox
        /\ \A k \in Jobs : place'[k] = place[k] \/ place'[k] \in {"completed", "none"}
        /\ cleaned => place'[j] # "inbox"
    BY <2>1, <2>2, FinalizeLeaves
  <2>4. Named(place'[j], Finalized(r, cleaned)) /\ Archived(Finalized(r, cleaned))
    <3>1. ~cleaned => Finalized(r, cleaned).path = r.path
      BY <1>a, PathsOfMadeRows
    <3>2. Finalized(r, cleaned).status = "delivered"
      BY <1>a, PathsOfMadeRows
    <3> QED
      BY <1>a, <2>2, <2>3, <3>1, <3>2 DEF Named, Archived, LeavesInbox
  <2>5. \A p \in Requests : qpc[p] = "unlinking" => qpc'[p] = "unlinking" /\ qjob'[p] = qjob[p]
    BY <2>1, <2>2, StepKeepsUnlinking
  <2>6. DeletedLeavesNoCopy'
    BY <1>d, <2>3, <2>5, DeletedStaysGone
  <2> QED
    BY <2>1, <2>2, <2>3, <2>4, <2>6, StepNamed, RowsStayNamed, CopiesStayNamed
<1>7. CASE ReleaseStore(q)
  <2>1. /\ j \in Jobs /\ UNCHANGED place /\ Step(q, "done", NoJob, FreshRow)
        /\ qpc[q] = "storing" /\ Save(j, r)
    BY <1>7, <1>a DEF ReleaseStore, worldVars, Finish
  <2>2. Named(place'[j], r)
    BY <1>a, <2>1 DEF Named
  <2> QED
    BY <1>a, <1>e, <1>f, <2>1, <2>2, SaveNamed
<1>8. CASE DeleteUnlink(q)
  <2>1. /\ j \in Jobs /\ Named(place[j], r) /\ UNCHANGED rows /\ Step(q, "done", NoJob, FreshRow)
        /\ place' = [place EXCEPT ![j] = IF @ \in Unlinked(r) THEN "none" ELSE @]
    BY <1>8, <1>a DEF DeleteUnlink, storeVars, Finish
  <2>2. LeavesInbox /\ place'[j] \in {"completed", "none"}
    BY <2>1 DEF Unlinked, Named, LeavesInbox, TypeOK, WorldTypeOK, Paths
  <2>3. \A k \in Jobs \ {j} : place'[k] = place[k]
    BY <2>1 DEF TypeOK, WorldTypeOK
  <2>4. \A p \in Requests \ {q} : qpc'[p] = qpc[p] /\ qjob'[p] = qjob[p]
    BY <2>1 DEF Step, TypeOK, RequestTypeOK
  <2>5. DeletedLeavesNoCopy'
    BY <1>d, <2>2, <2>3, <2>4 DEF DeletedLeavesNoCopy
  <2> QED
    BY <1>f, <2>1, <2>2, <2>5, RowsStayNamed, CopiesStayNamed
<1>9. CASE RequestLog(q)
  <2>1. UNCHANGED <<place, rows>> /\ Step(q, "done", NoJob, FreshRow) /\ qpc[q] = "logging"
    BY <1>9 DEF RequestLog, worldVars, Finish
  <2> QED
    BY <1>e, <1>f, <2>1, RowsStayNamed
<1> QED
  BY <1>1, <1>2, <1>3, <1>4, <1>5, <1>6, <1>7, <1>8, <1>9 DEF RequestStep

LEMMA RequestBeginsNamed ==
  ASSUME TypeOK, PathInv, NEW q \in Requests, NEW j \in Jobs, RequestBegins(q, j),
         UNCHANGED workerVars
  PROVE  PathInv'
<1> USE DEF PathInv
<1>a. /\ LeavesInbox /\ UNCHANGED <<place, faults>> /\ qpc[q] = "new"
      /\ rows[j] \in Row /\ Named(place[j], rows[j]) /\ Archived(rows[j])
  BY DEF RequestBegins, ReviewRead, ReleaseRead, Retry, Delete, Arrives, worldVars, LeavesInbox,
         RowsNamed, TypeOK, StoreTypeOK
<1>b. WorkersNamed'
  BY <1>a, CopiesStayNamed
<1>c. ASSUME NEW pc, NEW i, NEW c, Step(q, pc, i, c), live' = live PROVE DeletedLeavesNoCopy'
  BY <1>a, <1>c, StepKeepsUnlinking, DeletedStaysGone
<1>d. Archived(FreshRow) /\ \A at : Named(at, FreshRow)
  BY FreshRowNamed
<1>1. CASE ReviewRead(q, j) \/ ReleaseRead(q, j)
  <2>1. UNCHANGED <<live, rows>> /\ \E pc : Step(q, pc, j, rows[j])
    BY <1>1 DEF ReviewRead, ReleaseRead, storeVars
  <2> QED
    BY <1>a, <1>b, <1>c, <2>1, StepNamed, RowsStayNamed
<1>2. CASE Retry(q, j)
  <2>1. /\ live' = live /\ Step(q, "logging", j, FreshRow)
        /\ rows[j].status = "failed" /\ rows'[j].path = rows[j].path
        /\ \A k \in Jobs \ {j} : rows'[k] = rows[k]
    BY <1>2 DEF Retry, RetryFailed, Retriable, TypeOK, StoreTypeOK, Row
  <2>2. Named(place'[j], rows'[j]) /\ Archived(rows'[j])
    BY <1>a, <2>1 DEF Named, Archived
  <2>3. RowsNamed'
    BY <1>a, <2>1, <2>2, RowsStayNamed
  <2> QED
    BY <1>a, <1>b, <1>c, <1>d, <2>1, <2>3, StepNamed
<1>3. CASE Delete(q, j)
  <2>1. /\ live' = live \ {j} /\ Step(q, "unlinking", j, rows[j])
        /\ rows' = [rows EXCEPT ![j] = FreshRow]
    BY <1>3 DEF Delete, DeleteStalledJob
  <2>2. RowsNamed'
    BY <1>a, <1>d, <2>1, RowsStayNamed DEF TypeOK, StoreTypeOK
  <2>3. qpc'[q] = "unlinking" /\ qjob'[q] = j
    BY <2>1 DEF Step, TypeOK, RequestTypeOK
  <2>4. DeletedLeavesNoCopy'
    BY <1>a, <2>1, <2>3, StepKeepsUnlinking DEF DeletedLeavesNoCopy
  <2> QED
    BY <1>a, <1>b, <2>1, <2>2, <2>4, StepNamed
<1> QED
  BY <1>1, <1>2, <1>3 DEF RequestBegins

LEMMA EnvironmentNamed ==
  ASSUME TypeOK, PathInv
  PROVE  /\ \A w \in Workers :
              (WorkerRenews(w) \/ WorkerCrash(w)) /\ UNCHANGED requestVars => PathInv'
         /\ \A j \in Jobs :
              (LeaseExpires(j) \/ LeaseLapses(j) \/ BackoffEnds(j)) /\ UNCHANGED requestVars
                => PathInv'
         /\ ApiCrash /\ UNCHANGED workerVars => PathInv'
<1> USE DEF PathInv
<1>a. UNCHANGED place => LeavesInbox
  BY DEF LeavesInbox
<1>b. ASSUME UNCHANGED <<live, place, requestVars>>,
             faults'["apiCrash"] = 0 => faults["apiCrash"] = 0
      PROVE  RequestsNamed' /\ DeletedLeavesNoCopy'
  BY <1>a, <1>b, CopiesStayNamed DEF DeletedLeavesNoCopy, requestVars
<1>c. ASSUME NEW j \in Jobs, NEW l \in Leases, NEW d \in BOOLEAN, UNCHANGED place,
             \/ rows' = [rows EXCEPT ![j].lease = l]
             \/ rows' = [rows EXCEPT ![j].due = d]
      PROVE  RowsNamed'
  <2>1. /\ \A k \in Jobs \ {j} : rows'[k] = rows[k]
        /\ rows'[j].path = rows[j].path /\ rows'[j].status = rows[j].status
    BY <1>c DEF TypeOK, StoreTypeOK, Row
  <2>2. Named(place'[j], rows'[j]) /\ Archived(rows'[j])
    BY <1>c, <2>1 DEF RowsNamed, Named, Archived
  <2> QED
    BY <1>a, <1>c, <2>1, <2>2, RowsStayNamed
<1>d. ASSUME NEW kind \in FaultKinds, Suffer(kind)
      PROVE  faults'["apiCrash"] = 0 => faults["apiCrash"] = 0
  BY <1>d DEF Suffer, TypeOK, WorldTypeOK, FaultKinds
<1>1. ASSUME NEW w \in Workers, WorkerRenews(w), UNCHANGED requestVars PROVE PathInv'
  <2>1. /\ UNCHANGED <<live, place, faults, workerVars>> /\ wjob[w] \in Jobs
        /\ rows' = [rows EXCEPT ![wjob[w]].lease = "live"]
    BY <1>1 DEF WorkerRenews, RenewLease, worldVars, TypeOK, WorkerTypeOK
  <2> QED
    BY <1>1, <1>a, <1>b, <1>c, <2>1, CopiesStayNamed DEF Leases
<1>2. ASSUME NEW w \in Workers, WorkerCrash(w), UNCHANGED requestVars PROVE PathInv'
  <2>1. UNCHANGED <<live, rows, place>> /\ Suffer("crash") /\ Goto(w, "idle", NoJob, FreshRow)
    BY <1>2 DEF WorkerCrash, storeVars, Rest
  <2>2. WorkersNamed'
    BY <1>a, <2>1, FreshRowNamed, GotoNamed
  <2> QED
    BY <1>2, <1>a, <1>b, <1>d, <2>1, <2>2, RowsStayNamed DEF FaultKinds
<1>3. ASSUME NEW j \in Jobs, LeaseExpires(j) \/ LeaseLapses(j) \/ BackoffEnds(j),
             UNCHANGED requestVars
      PROVE  PathInv'
  <2>1. /\ UNCHANGED <<live, place, workerVars>>
        /\ UNCHANGED faults \/ Suffer("lapse")
        /\ \/ rows' = [rows EXCEPT ![j].lease = "expired"]
           \/ rows' = [rows EXCEPT ![j].due = TRUE]
    BY <1>3 DEF LeaseExpires, LeaseLapses, BackoffEnds, LeaseRunsOut, BackoffElapses, worldVars
  <2>2. RowsNamed'
    BY <1>c, <2>1 DEF Leases
  <2> QED
    BY <1>3, <1>a, <1>b, <1>d, <2>1, <2>2, CopiesStayNamed DEF FaultKinds
<1>4. ASSUME ApiCrash, UNCHANGED workerVars PROVE PathInv'
  <2>1. UNCHANGED <<live, rows, place>> /\ faults'["apiCrash"] # 0
    BY <1>4 DEF ApiCrash, Suffer, storeVars, TypeOK, WorldTypeOK, FaultKinds
  <2>2. RequestsNamed'
    BY <1>4, FreshRowNamed DEF ApiCrash, RequestsNamed
  <2> QED
    BY <1>4, <1>a, <2>1, <2>2, RowsStayNamed, CopiesStayNamed DEF DeletedLeavesNoCopy
<1> QED
  BY <1>1, <1>2, <1>3, <1>4

LEMMA InitNamed == Init => PathInv
BY FreshRowNamed
   DEF Init, StoreInit, WorldInit, WorkerInit, RequestInit, PathInv, RowsNamed, WorkersNamed,
       RequestsNamed, DeletedLeavesNoCopy

(* The invariant of the names is kept by every step.                       *)
LEMMA NextNamed == TypeOK /\ DeliveryInv /\ PathInv /\ [Next]_vars => PathInv'
<1> SUFFICES ASSUME TypeOK, DeliveryInv, PathInv, [Next]_vars PROVE PathInv'
  OBVIOUS
<1>1. CASE ByWorkers
  BY <1>1, WorkerStepNamed, EnvironmentNamed DEF ByWorkers
<1>2. CASE ByRequests
  BY <1>2, RequestStepNamed, RequestBeginsNamed, EnvironmentNamed DEF ByRequests
<1>3. CASE UNCHANGED vars
  <2>1. UNCHANGED <<live, rows, place, faults, workerVars, requestVars>> /\ LeavesInbox
    BY <1>3 DEF vars, storeVars, worldVars, LeavesInbox
  <2> QED
    BY <2>1, CopiesStayNamed, RowsStayNamed DEF PathInv, DeletedLeavesNoCopy, requestVars
<1> QED
  BY <1>1, <1>2, <1>3 DEF Next

(* A deleted job leaves no work copy behind, whoever moves it meanwhile:   *)
(* the path a deletion has read, and the quarantine, are the only places   *)
(* where it can be.                                                        *)
THEOREM DeletionsLeaveNothing == Spec => []DeletedLeavesNoCopy
<1>1. Init => TypeOK /\ DeliveryInv /\ PathInv
  BY InitTyped, InitGood, InitNamed
<1>2. (TypeOK /\ DeliveryInv /\ PathInv) /\ [Next]_vars => (TypeOK /\ DeliveryInv /\ PathInv)'
  BY NextTyped, NextGood, NextNamed
<1>3. PathInv => DeletedLeavesNoCopy
  BY DEF PathInv
<1> QED
  BY <1>1, <1>2, <1>3, PTL DEF Spec

----------------------------------------------------------------------------
(* A worker's job has a row that says so, unless it has been deleted.      *)
LeaseHeld ==
  \A w \in Workers, j \in Jobs :
    Working(w, j) /\ j \in live => Owns(w, j) /\ rows[j].lease = "live"

Alone ==
  \A v, w \in Workers : v # w => \A j \in Jobs : ~(Working(v, j) /\ Working(w, j))

(* Rows that no worker may claim are left alone by the workers.            *)
RestKept ==
  \A j \in live : rows[j].status \notin {"received", "processing"} =>
    j \in live' /\ rows'[j] = rows[j]

(* No worker touches a row that it may not claim and does not hold.        *)
LEMMA WorkersLeaveRest ==
  ASSUME TypeOK, LeaseHeld, ByWorkers
  PROVE  live' = live /\ RestKept
<1>1. ASSUME NEW w \in Workers, WorkerStep(w) PROVE live' = live /\ RestKept
  <2>1. CASE WorkerClaim(w)
    BY <2>1 DEF WorkerClaim, ClaimNext, Claimable, RestKept, TypeOK, StoreTypeOK
  <2>2. CASE WorkerSave(w)
    <3>1. wjob[w] \in Jobs /\ Working(w, wjob[w])
      BY <2>2 DEF WorkerSave, Working, TypeOK, WorkerTypeOK
    <3>2. wjob[w] \in live => rows[wjob[w]].status = "processing"
      BY <3>1 DEF LeaseHeld, Owns
    <3> QED
      BY <2>2, <3>2 DEF WorkerSave, Save, RestKept, TypeOK, StoreTypeOK
  <2>3. CASE UNCHANGED <<live, rows>>
    BY <2>3 DEF RestKept
  <2> QED
    BY <1>1, <2>1, <2>2, <2>3 DEF WorkerStep, WorkerExtract, WorkerFails, WorkerQuarantine,
                                  WorkerDeliver, WorkerFinalize, storeVars
<1>2. ASSUME NEW w \in Workers, WorkerRenews(w) \/ WorkerCrash(w) PROVE live' = live /\ RestKept
  BY <1>2 DEF WorkerRenews, RenewLease, Owns, WorkerCrash, storeVars, RestKept, TypeOK, StoreTypeOK
<1>3. ASSUME NEW j \in Jobs, LeaseExpires(j) \/ LeaseLapses(j) \/ BackoffEnds(j)
      PROVE  live' = live /\ RestKept
  BY <1>3 DEF LeaseExpires, LeaseLapses, LeaseRunsOut, BackoffEnds, BackoffElapses, RestKept,
              TypeOK, StoreTypeOK
<1> QED
  BY <1>1, <1>2, <1>3 DEF ByWorkers

LEMMA WorkerStepLeases ==
  ASSUME TypeOK, LeaseHeld, Alone, NEW w \in Workers, WorkerStep(w)
  PROVE  LeaseHeld' /\ Alone'
<1>a. ASSUME UNCHANGED <<live, rows>>, NEW pc \in WorkerPlaces \ {"idle"}, NEW r,
             wpc[w] # "idle", Goto(w, pc, wjob[w], r)
      PROVE  LeaseHeld' /\ Alone'
  BY <1>a, WorkingOn DEF LeaseHeld, Alone, Owns
<1>1. CASE WorkerClaim(w)
  <2>1. PICK k \in Jobs : ClaimNext(w, k) /\ Goto(w, "extract", k, Claimed(w, rows[k]))
    BY <1>1 DEF WorkerClaim
  <2>2. \A v \in Workers, j \in Jobs : Working(v, j)' <=> Working(v, j) \/ (v = w /\ j = k)
    BY <1>1, <2>1 DEF WorkerClaim, Goto, Working, TypeOK, WorkerTypeOK
  <2>3. \A v \in Workers : ~Working(v, k)
    BY <2>1 DEF ClaimNext, Claimable, LeaseHeld, Owns
  <2>4. /\ live' = live /\ \A j \in Jobs : j # k => rows'[j] = rows[j]
        /\ rows'[k] = Claimed(w, rows[k])
    BY <2>1 DEF ClaimNext, TypeOK, StoreTypeOK
  <2>5. /\ rows'[k].status = "processing" /\ rows'[k].worker = w /\ rows'[k].lease = "live"
    BY <2>4 DEF Claimed, TypeOK, StoreTypeOK, Row
  <2>6. LeaseHeld'
    BY <2>2, <2>3, <2>4, <2>5 DEF LeaseHeld, Owns
  <2>7. Alone'
    BY <2>2, <2>3 DEF Alone
  <2> QED
    BY <2>6, <2>7
<1>2. CASE WorkerExtract(w)
  BY <1>2, <1>a DEF WorkerExtract, WorkerPlaces
<1>3. CASE WorkerFails(w)
  BY <1>3, <1>a DEF WorkerFails, WorkerPlaces
<1>4. CASE WorkerQuarantine(w)
  BY <1>4, <1>a DEF WorkerQuarantine, WorkerPlaces
<1>5. CASE WorkerDeliver(w)
  BY <1>5, <1>a DEF WorkerDeliver, WorkerPlaces
<1>6. CASE WorkerFinalize(w)
  BY <1>6, <1>a DEF WorkerFinalize, WorkerPlaces, storeVars
<1>7. CASE WorkerSave(w)
  <2>1. wjob[w] \in Jobs /\ Working(w, wjob[w])
    BY <1>7 DEF WorkerSave, Working, TypeOK, WorkerTypeOK
  <2>2. live' = live /\ \A j \in Jobs : j # wjob[w] => rows'[j] = rows[j]
    BY <1>7 DEF WorkerSave, Save, TypeOK, StoreTypeOK
  <2>3. \A v \in Workers, j \in Jobs : Working(v, j)' <=> Working(v, j) /\ v # w
    BY <1>7, WorkingElsewhere DEF WorkerSave
  <2>4. LeaseHeld'
    BY <2>1, <2>2, <2>3 DEF LeaseHeld, Alone, Owns
  <2> QED
    BY <2>3, <2>4 DEF Alone
<1> QED
  BY <1>1, <1>2, <1>3, <1>4, <1>5, <1>6, <1>7 DEF WorkerStep

LEMMA EnvironmentLeases ==
  ASSUME TypeOK, LeaseHeld, Alone, faults'["lapse"] = 0
  PROVE  /\ \A w \in Workers :
              WorkerRenews(w) \/ WorkerCrash(w) => LeaseHeld' /\ Alone'
         /\ \A j \in Jobs :
              LeaseExpires(j) \/ LeaseLapses(j) \/ BackoffEnds(j) => LeaseHeld' /\ Alone'
         /\ ApiCrash /\ UNCHANGED workerVars => LeaseHeld' /\ Alone'
<1>1. ASSUME NEW w \in Workers, WorkerRenews(w) PROVE LeaseHeld' /\ Alone'
  <2>1. /\ wjob[w] \in Jobs /\ UNCHANGED <<live, workerVars>>
        /\ \A j \in Jobs : j # wjob[w] => rows'[j] = rows[j]
        /\ rows'[wjob[w]] = [rows[wjob[w]] EXCEPT !.lease = "live"]
    BY <1>1 DEF WorkerRenews, RenewLease, TypeOK, StoreTypeOK, WorkerTypeOK
  <2>2. /\ rows'[wjob[w]].status = rows[wjob[w]].status
        /\ rows'[wjob[w]].worker = rows[wjob[w]].worker
        /\ rows'[wjob[w]].lease = "live"
    BY <2>1 DEF TypeOK, StoreTypeOK, Row
  <2>3. ASSUME NEW v \in Workers, NEW j \in Jobs, Working(v, j), j \in live
        PROVE  Owns(v, j)' /\ rows'[j].lease = "live"
    <3>1. Owns(v, j) /\ rows[j].lease = "live"
      BY <2>3 DEF LeaseHeld
    <3>2. CASE j = wjob[w]
      BY <2>1, <2>2, <3>1, <3>2 DEF Owns
    <3>3. CASE j # wjob[w]
      BY <2>1, <3>1, <3>3 DEF Owns
    <3> QED
      BY <3>2, <3>3
  <2>4. LeaseHeld' /\ Alone'
    BY <2>1, <2>3, WorkingStays DEF LeaseHeld, Alone
  <2> QED
    BY <1>1, <2>1, <2>2, <2>4
<1>2. ASSUME NEW w \in Workers, WorkerCrash(w) PROVE LeaseHeld' /\ Alone'
  BY <1>2, WorkingElsewhere
     DEF WorkerCrash, storeVars, LeaseHeld, Owns, Alone
<1>3. ASSUME NEW j \in Jobs, LeaseExpires(j) PROVE LeaseHeld' /\ Alone'
  <2>1. /\ UNCHANGED <<live, workerVars>>
        /\ \A k \in Jobs : k # j => rows'[k] = rows[k]
        /\ rows'[j].status = rows[j].status
    BY <1>3 DEF LeaseExpires, LeaseRunsOut, TypeOK, StoreTypeOK, Row
  <2>2. \A w \in Workers : j \in live => ~Working(w, j)
    BY <1>3 DEF LeaseExpires, Held, LeaseHeld
  <2>3. LeaseHeld' /\ Alone'
    BY <2>1, <2>2, WorkingStays DEF LeaseHeld, Alone, Owns
  <2> QED
    BY <1>3, <2>1, <2>3
<1>4. ASSUME NEW j \in Jobs PROVE ~LeaseLapses(j)
  BY DEF LeaseLapses, Suffer, TypeOK, WorldTypeOK, FaultKinds
<1>5. ASSUME NEW j \in Jobs, BackoffEnds(j) PROVE LeaseHeld' /\ Alone'
  <2>1. /\ UNCHANGED <<live, workerVars>>
        /\ \A k \in Jobs : k # j => rows'[k] = rows[k]
        /\ rows'[j].status = rows[j].status /\ rows[j].status = "received" /\ j \in live
    BY <1>5 DEF BackoffEnds, BackoffElapses, TypeOK, StoreTypeOK, Row
  <2>2. LeaseHeld' /\ Alone'
    BY <2>1, WorkingStays DEF LeaseHeld, Alone, Owns
  <2> QED
    BY <1>5, <2>1, <2>2
<1>6. ASSUME ApiCrash, UNCHANGED workerVars PROVE LeaseHeld' /\ Alone'
  BY <1>6, WorkingStays
     DEF ApiCrash, Open, storeVars, LeaseHeld, Owns, Alone, TypeOK, RequestTypeOK
<1> QED
  BY <1>1, <1>2, <1>3, <1>4, <1>5, <1>6

(* Among the workers, and unless a lease lapses, leases hold.              *)
LEMMA WorkersKeepLeases ==
  ASSUME TypeOK, LeaseHeld, Alone, ByWorkers, faults'["lapse"] = 0
  PROVE  LeaseHeld' /\ Alone'
BY WorkerStepLeases, EnvironmentLeases DEF ByWorkers

(* Nor do requests that leave rows in processing alone.                    *)
LEMMA LeasesUntouched ==
  ASSUME LeaseHeld, Alone, UNCHANGED workerVars,
         \A j \in live' : j \in live /\ (rows[j].status = "processing" => rows'[j] = rows[j])
  PROVE  LeaseHeld' /\ Alone'
BY WorkingStays DEF LeaseHeld, Alone, Owns

----------------------------------------------------------------------------
(* Without releases a row under review stays in quarantine.                *)
ReviewsHold ==
  \A q \in Requests :
    /\ qpc[q] \in {"new", "reviewing", "logging", "unlinking", "done"}
    /\ qpc[q] = "reviewing" /\ qjob[q] \in live => rows[qjob[q]].status = "quarantined"

ClaimInv == faults["lapse"] = 0 => LeaseHeld /\ Alone /\ ReviewsHold

LEMMA RequestClaims ==
  ASSUME TypeOK, DeliveryInv, LeaseHeld, Alone, ReviewsHold, "release" \notin Kinds,
         NEW q \in Requests, UNCHANGED workerVars,
         RequestStep(q) \/ \E j \in Jobs : RequestBegins(q, j)
  PROVE  LeaseHeld' /\ Alone' /\ ReviewsHold'
<1>b. ASSUME UNCHANGED <<live, rows>>, NEW pc \in {"logging", "unlinking", "done"}, NEW j, NEW r,
             Step(q, pc, j, r)
      PROVE  LeaseHeld' /\ Alone' /\ ReviewsHold'
  BY <1>b, LeasesUntouched DEF ReviewsHold, Step, TypeOK, RequestTypeOK
<1>1. CASE ReviewSave(q)
  <2>1. PICK d \in DocTypes, o \in {qcopy[q].routing, TRUE} :
          Save(qjob[q], Reviewed(q, qcopy[q], d, o))
    BY <1>1 DEF ReviewSave
  <2>2. Step(q, "logging", qjob[q], FreshRow) /\ qjob[q] \in Jobs /\ qcopy[q] \in Row
    BY <1>1 DEF ReviewSave, TypeOK, RequestTypeOK
  <2>3. Reviewed(q, qcopy[q], d, o).status = "quarantined"
    BY <1>1, <2>2 DEF ReviewSave, DeliveryInv, RequestsGood, Reviewed, Row
  <2>4. /\ live' = live /\ \A j \in Jobs : j # qjob[q] => rows'[j] = rows[j]
        /\ qjob[q] \in live => rows'[qjob[q]].status = "quarantined"
    BY <2>1, <2>2, <2>3 DEF Save, TypeOK, StoreTypeOK
  <2>5. qjob[q] \in live => rows[qjob[q]].status = "quarantined"
    BY <1>1 DEF ReviewSave, ReviewsHold
  <2>6. LeaseHeld' /\ Alone'
    BY <2>4, <2>5, LeasesUntouched DEF TypeOK, StoreTypeOK
  <2>7. ReviewsHold'
    BY <2>2, <2>4 DEF ReviewsHold, Step, TypeOK, RequestTypeOK
  <2> QED
    BY <2>6, <2>7
<1>2. CASE DeleteUnlink(q)
  BY <1>2, <1>b DEF DeleteUnlink, Finish, storeVars
<1>3. CASE RequestLog(q)
  BY <1>3, <1>b DEF RequestLog, Finish
<1>4. ~(ReleaseReject(q) \/ ReleaseClaim(q) \/ ReleaseClaimRefused(q) \/ ReleaseDeliver(q)
        \/ ReleaseFinalize(q) \/ ReleaseStore(q))
  BY DEF ReleaseReject, ReleaseClaim, ReleaseClaimRefused, ReleaseDeliver, ReleaseFinalize,
         ReleaseStore, ReviewsHold
<1>5. ASSUME NEW j \in Jobs, RequestBegins(q, j) PROVE LeaseHeld' /\ Alone' /\ ReviewsHold'
  <2>1. CASE ReviewRead(q, j)
    <3>1. UNCHANGED <<live, rows>>
      BY <2>1 DEF ReviewRead, storeVars
    <3> QED
      BY <2>1, <3>1, LeasesUntouched DEF ReviewRead, ReviewsHold, Step, TypeOK, RequestTypeOK
  <2>2. ~ReleaseRead(q, j)
    BY DEF ReleaseRead, Arrives
  <2>3. CASE Retry(q, j)
    <3>1. /\ live' = live /\ \A k \in Jobs : k # j => rows'[k] = rows[k]
          /\ j \in live /\ rows[j].status = "failed"
      BY <2>3 DEF Retry, RetryFailed, Retriable, TypeOK, StoreTypeOK
    <3>2. LeaseHeld' /\ Alone'
      BY <3>1, LeasesUntouched DEF TypeOK, StoreTypeOK
    <3>3. ReviewsHold'
      BY <2>3, <3>1 DEF Retry, ReviewsHold, Step, TypeOK, RequestTypeOK
    <3> QED
      BY <3>2, <3>3
  <2>4. CASE Delete(q, j)
    <3>1. live' = live \ {j} /\ \A k \in Jobs : k # j => rows'[k] = rows[k]
      BY <2>4 DEF Delete, DeleteStalledJob, TypeOK, StoreTypeOK
    <3>2. LeaseHeld' /\ Alone'
      BY <3>1, LeasesUntouched DEF TypeOK, StoreTypeOK
    <3>3. ReviewsHold'
      BY <2>4, <3>1 DEF Delete, ReviewsHold, Step, TypeOK, RequestTypeOK
    <3> QED
      BY <3>2, <3>3
  <2> QED
    BY <1>5, <2>1, <2>2, <2>3, <2>4 DEF RequestBegins
<1> QED
  BY <1>1, <1>2, <1>3, <1>4, <1>5 DEF RequestStep

LEMMA NoLapseYet ==
  ASSUME TypeOK, [Next]_vars, faults'["lapse"] = 0
  PROVE  faults["lapse"] = 0
BY FaultsGrow DEF TypeOK, WorldTypeOK, FaultKinds

LEMMA NextClaims ==
  ASSUME "release" \notin Kinds, TypeOK, DeliveryInv, ClaimInv, [Next]_vars
  PROVE  ClaimInv'
<1> SUFFICES ASSUME faults'["lapse"] = 0 PROVE LeaseHeld' /\ Alone' /\ ReviewsHold'
  BY DEF ClaimInv
<1>1. LeaseHeld /\ Alone /\ ReviewsHold
  BY NoLapseYet DEF ClaimInv
<1>2. CASE ByWorkers
  <2>1. LeaseHeld' /\ Alone' /\ live' = live /\ RestKept
    BY <1>1, <1>2, WorkersKeepLeases, WorkersLeaveRest
  <2> QED
    BY <1>1, <1>2, <2>1 DEF ByWorkers, requestVars, ReviewsHold, RestKept
<1>3. CASE ByRequests
  <2>1. CASE ApiCrash
    <3>1. UNCHANGED <<live, rows>>
      BY <2>1 DEF ApiCrash, storeVars
    <3> QED
      BY <1>1, <1>3, <2>1, <3>1, LeasesUntouched
         DEF ByRequests, ApiCrash, Open, ReviewsHold, TypeOK, RequestTypeOK
  <2> QED
    BY <1>1, <1>3, <2>1, RequestClaims DEF ByRequests
<1>4. CASE UNCHANGED vars
  BY <1>1, <1>4, LeasesUntouched DEF vars, storeVars, requestVars, ReviewsHold
<1> QED
  BY <1>2, <1>3, <1>4 DEF Next

(* Leases keep workers apart: as long as none has lapsed under a living    *)
(* worker, and no document is being released by hand, no two workers       *)
(* process one job, however often workers and the API crash.               *)
THEOREM WorkersExcludeEachOther ==
  ASSUME "release" \notin Kinds
  PROVE  Spec => []OneWorkerPerJob
<1>1. Init => TypeOK /\ DeliveryInv /\ ClaimInv
  BY InitTyped, InitGood
     DEF Init, WorkerInit, RequestInit, ClaimInv, LeaseHeld, Alone, ReviewsHold, Working
<1>2. (TypeOK /\ DeliveryInv /\ ClaimInv) /\ [Next]_vars
        => (TypeOK /\ DeliveryInv /\ ClaimInv)'
  BY NextTyped, NextGood, NextClaims
<1>3. ClaimInv => OneWorkerPerJob
  BY DEF ClaimInv, Alone, OneWorkerPerJob
<1> QED
  BY <1>1, <1>2, <1>3, PTL DEF Spec

----------------------------------------------------------------------------
(* At most one request is under way.                                       *)
Pending(q) == qpc[q] \notin {"new", "done"}

OneOpen == \A p, q \in Requests : Pending(p) /\ Pending(q) => p = q

(* A request arrives only while no other is under way.                     *)
LEMMA FirstRequest ==
  ASSUME MaxOpen <= 1, IsFiniteSet(Requests), NEW q, NEW kind, NEW j, Arrives(q, kind, j)
  PROVE  \A p \in Requests : ~Pending(p)
<1>1. Open \in SUBSET Requests
  BY DEF Open
<1>2. IsFiniteSet(Open) /\ Cardinality(Open) \in Nat
  BY <1>1, FS_Subset, FS_CardinalityType
<1>3. Cardinality(Open) = 0
  BY <1>2, RequestAssumption DEF Arrives
<1>4. Open = {}
  BY <1>2, <1>3, FS_EmptySet
<1> QED
  BY <1>4 DEF Open, Pending

(* Then the copy of a row in a request's hands is still up to date, ...    *)
InHand == {"reviewing", "rejecting", "claiming", "delivering", "finalizing", "storing"}

Agrees(pc, row, r) ==
  /\ pc = "reviewing" => row.status = "quarantined"
  /\ pc \in {"rejecting", "claiming"} => row.status \in {"quarantined", "delivering"}
  /\ pc \in {"delivering", "finalizing", "storing"} => row.status = "delivering"
  /\ row.reviews = r.reviews
  /\ pc # "storing" => row.path = r.path

RequestsAgree ==
  \A q \in Requests :
    qpc[q] \in InHand => qjob[q] \in live /\ Agrees(qpc[q], rows[qjob[q]], qcopy[q])

(* ... and so is a worker's, as far as reviews go.                         *)
WorkersAgree ==
  \A w \in Workers, j \in live : Working(w, j) => wcopy[w].reviews = rows[j].reviews

SerialInv ==
  /\ OneOpen
  /\ faults["lapse"] = 0 => LeaseHeld /\ Alone /\ WorkersAgree /\ RequestsAgree

LEMMA ReviewsOfMadeRows ==
  ASSUME NEW r \in Row
  PROVE  /\ Unleased(r).reviews = r.reviews
         /\ Quarantined(r).reviews = r.reviews
         /\ \A p \in BOOLEAN : AfterError(r, p).reviews = r.reviews
         /\ \A c \in BOOLEAN : Finalized(r, c).reviews = r.reviews
         /\ \A w \in Workers : Claimed(w, r).reviews = r.reviews
         /\ \A j \in Jobs : Extracted(j, r).reviews = r.reviews
         /\ \A q \in Requests, d \in DocTypes, o \in BOOLEAN :
              Reviewed(q, r, d, o).reviews = r.reviews \cup {q}
         /\ \A s \in Statuses : [r EXCEPT !.status = s].reviews = r.reviews
BY DEF Row, Unleased, Quarantined, AfterError, Finalized, Claimed, Extracted, Reviewed

LEMMA StepAgrees ==
  ASSUME TypeOK, NEW q \in Requests, \A p \in Requests : p # q => ~Pending(p),
         NEW pc, NEW j, NEW r, Step(q, pc, j, r),
         pc \in InHand => j \in live' /\ Agrees(pc, rows'[j], r)
  PROVE  OneOpen' /\ RequestsAgree'
<1>1. \A p \in Requests : p # q => qpc'[p] \in {"new", "done"}
  BY DEF Pending, Step, TypeOK, RequestTypeOK
<1>2. qpc'[q] = pc /\ qjob'[q] = j /\ qcopy'[q] = r
  BY DEF Step, TypeOK, RequestTypeOK
<1> QED
  BY <1>1, <1>2 DEF OneOpen, Pending, RequestsAgree, InHand, Agrees

(* What a request does to the rows.                                        *)
RowsRespected ==
  /\ \A j \in live' : j \in live /\ (rows[j].status = "processing" => rows'[j] = rows[j])
  /\ \A j \in live : rows[j].status = "delivered" => j \in live' /\ rows'[j] = rows[j]
  /\ \A j \in live \cap live' : rows[j].reviews \subseteq rows'[j].reviews

(* A request that goes on finds its copy up to date, and overwrites the    *)
(* row only with what it has added to it.                                  *)
LEMMA RequestStepAgrees ==
  ASSUME TypeOK, DeliveryInv, OneOpen, RequestsAgree, NEW q \in Requests, RequestStep(q)
  PROVE  OneOpen' /\ RequestsAgree' /\ RowsRespected
<1> DEFINE j == qjob[q]
           r == qcopy[q]
<1>a. Pending(q)
  BY DEF Pending, RequestStep, ReviewSave, ReleaseReject, ReleaseClaim, ReleaseClaimRefused,
         ReleaseDeliver, ReleaseFinalize, ReleaseStore, DeleteUnlink, RequestLog
<1>b. /\ r \in Row /\ j \in Jobs /\ rows[j] \in Row
      /\ \A p \in Requests : p # q => ~Pending(p)
  BY <1>a DEF TypeOK, RequestTypeOK, StoreTypeOK, Pending, OneOpen
<1>c. qpc[q] \in InHand => j \in live /\ Agrees(qpc[q], rows[j], r)
  BY DEF RequestsAgree
<1>d. ASSUME Finish(q) PROVE OneOpen' /\ RequestsAgree'
  BY <1>b, <1>d, StepAgrees DEF Finish, InHand
<1>e. ASSUME UNCHANGED <<live, rows>> PROVE RowsRespected
  BY <1>e DEF RowsRespected, TypeOK, StoreTypeOK
<1>f. ASSUME NEW c, Save(j, c) \/ (rows' = [rows EXCEPT ![j] = c] /\ UNCHANGED live),
             qpc[q] \in InHand, r.reviews \subseteq c.reviews
      PROVE  RowsRespected /\ live' = live /\ rows'[j] = c
  <2>1. /\ rows' = [rows EXCEPT ![j] = c] /\ live' = live
        /\ rows[j].status \in {"quarantined", "delivering"} /\ rows[j].reviews \subseteq c.reviews
    BY <1>c, <1>f DEF Save, Agrees, InHand
  <2> QED
    BY <1>b, <2>1 DEF RowsRespected, TypeOK, StoreTypeOK
<1>1. ASSUME NEW c \in Row, Save(j, c), Step(q, "logging", j, FreshRow), qpc[q] \in InHand,
             r.reviews \subseteq c.reviews
      PROVE  OneOpen' /\ RequestsAgree' /\ RowsRespected
  BY <1>1, <1>b, <1>f, StepAgrees DEF InHand
<1>2. CASE ReviewSave(q)
  <2>1. PICK d \in DocTypes, o \in {r.routing, TRUE} : Save(j, Reviewed(q, r, d, o))
    BY <1>2 DEF ReviewSave
  <2>2. o \in BOOLEAN
    BY <1>b DEF Row
  <2>3. Reviewed(q, r, d, o) \in Row /\ Reviewed(q, r, d, o).reviews = r.reviews \cup {q}
    <3>1. Reviewed(q, r, d, o) \in Row
      BY <1>b, <2>2, RowsMadeOfRows
    <3>2. Reviewed(q, r, d, o).reviews = r.reviews \cup {q}
      BY <1>b, <2>2, ReviewsOfMadeRows
    <3> QED
      BY <3>1, <3>2
  <2> QED
    BY <1>1, <1>2, <2>1, <2>3 DEF ReviewSave, InHand
<1>3. CASE ReleaseReject(q)
  <2> DEFINE c == [r EXCEPT !.status = "quarantined"]
  <2>1. c \in Row /\ c.reviews = r.reviews
    BY <1>b, RowsMadeOfRows, ReviewsOfMadeRows DEF Statuses
  <2>2. Save(j, c) /\ Step(q, "logging", j, FreshRow) /\ qpc[q] \in InHand
    BY <1>3 DEF ReleaseReject, InHand
  <2> HIDE DEF c
  <2> QED
    BY <1>1, <2>1, <2>2
<1>4. CASE ReleaseClaim(q)
  <2> DEFINE c == [r EXCEPT !.status = "delivering"]
             row == [rows[j] EXCEPT !.status = "delivering"]
  <2>1. /\ c.reviews = r.reviews /\ c.path = r.path
        /\ row.reviews = rows[j].reviews /\ row.path = rows[j].path /\ row.status = "delivering"
    BY <1>b, ReviewsOfMadeRows, PathsOfMadeRows, StatusOfMadeRows DEF Statuses
  <2>2. /\ Step(q, "delivering", j, c) /\ qpc[q] = "claiming"
        /\ rows' = [rows EXCEPT ![j] = row] /\ UNCHANGED live
    BY <1>4 DEF ReleaseClaim, ClaimDelivery
  <2> HIDE DEF c, row
  <2>3. Agrees("claiming", rows[j], r) /\ j \in live
    BY <1>c, <2>2 DEF InHand
  <2>4. RowsRespected /\ live' = live /\ rows'[j] = row
    BY <1>f, <2>1, <2>2, <2>3 DEF InHand, Agrees
  <2>5. Agrees("delivering", rows'[j], c)
    BY <2>1, <2>3, <2>4 DEF Agrees
  <2> QED
    BY <1>b, <2>2, <2>3, <2>4, <2>5, StepAgrees
<1>5. CASE ReleaseClaimRefused(q)
  BY <1>5, <1>d, <1>e DEF ReleaseClaimRefused, storeVars
<1>6. CASE ReleaseDeliver(q)
  <2>1. /\ qpc[q] = "delivering" /\ UNCHANGED <<live, rows>>
        /\ Step(q, "finalizing", j, r) \/ Step(q, "storing", j, [r EXCEPT !.status = "failed"])
    BY <1>6 DEF ReleaseDeliver
  <2>2. Agrees("delivering", rows[j], r) /\ j \in live
    BY <1>c, <2>1 DEF InHand
  <2>3. [r EXCEPT !.status = "failed"].reviews = r.reviews
    BY <1>b, ReviewsOfMadeRows DEF Statuses
  <2>4. Agrees("finalizing", rows'[j], r) /\ Agrees("storing", rows'[j], [r EXCEPT !.status = "failed"])
    BY <2>1, <2>2, <2>3 DEF Agrees
  <2> DEFINE c == [r EXCEPT !.status = "failed"]
  <2> HIDE DEF c
  <2> QED
    BY <1>b, <1>e, <2>1, <2>2, <2>4, StepAgrees DEF c
<1>7. CASE ReleaseFinalize(q)
  <2>1. PICK cleaned \in BOOLEAN : Step(q, "storing", j, Finalized(r, cleaned))
    BY <1>7 DEF ReleaseFinalize
  <2>2. qpc[q] = "finalizing" /\ UNCHANGED <<live, rows>>
    BY <1>7 DEF ReleaseFinalize, storeVars
  <2>3. Agrees("finalizing", rows[j], r) /\ j \in live
    BY <1>c, <2>2 DEF InHand
  <2>4. Finalized(r, cleaned).reviews = r.reviews
    BY <1>b, ReviewsOfMadeRows
  <2>5. Agrees("storing", rows'[j], Finalized(r, cleaned))
    BY <2>2, <2>3, <2>4 DEF Agrees
  <2> QED
    BY <1>b, <1>e, <2>1, <2>2, <2>3, <2>5, StepAgrees
<1>8. CASE ReleaseStore(q)
  <2>1. qpc[q] \in InHand /\ Save(j, r) /\ Finish(q)
    BY <1>8 DEF ReleaseStore, InHand
  <2> QED
    BY <1>d, <1>f, <2>1
<1>9. CASE DeleteUnlink(q)
  BY <1>9, <1>d, <1>e DEF DeleteUnlink, storeVars
<1>10. CASE RequestLog(q)
  BY <1>10, <1>d, <1>e DEF RequestLog
<1> QED
  BY <1>2, <1>3, <1>4, <1>5, <1>6, <1>7, <1>8, <1>9, <1>10 DEF RequestStep

(* At most one request is under way, whatever the leases do.               *)
LEMMA RequestStepKeepsOne ==
  ASSUME TypeOK, OneOpen, NEW q \in Requests, RequestStep(q)
  PROVE  OneOpen'
<1>1. Pending(q) /\ \E pc, j, r : Step(q, pc, j, r)
  BY DEF Pending, RequestStep, ReviewSave, ReleaseReject, ReleaseClaim, ReleaseClaimRefused,
         ReleaseDeliver, ReleaseFinalize, ReleaseStore, DeleteUnlink, RequestLog, Finish
<1>2. \A p \in Requests : p # q => ~Pending(p)'
  BY <1>1 DEF OneOpen, Pending, Step, TypeOK, RequestTypeOK
<1> QED
  BY <1>2 DEF OneOpen

(* A request that begins reads the row, or changes it in one transaction.  *)
LEMMA RequestBeginsAgrees ==
  ASSUME TypeOK, MaxOpen <= 1, IsFiniteSet(Requests), NEW q \in Requests, NEW j \in Jobs,
         RequestBegins(q, j)
  PROVE  OneOpen' /\ RequestsAgree' /\ RowsRespected
<1>a. (\A p \in Requests : ~Pending(p)) /\ j \in live
  BY FirstRequest DEF RequestBegins, ReviewRead, ReleaseRead, Retry, Delete, Arrives
<1>b. ASSUME UNCHANGED <<live, rows>> PROVE RowsRespected
  BY <1>b DEF RowsRespected, TypeOK, StoreTypeOK
<1>1. CASE ReviewRead(q, j)
  <2>1. UNCHANGED <<live, rows>> /\ Step(q, "reviewing", j, rows[j])
    BY <1>1 DEF ReviewRead, storeVars
  <2>2. Agrees("reviewing", rows'[j], rows[j])
    BY <1>1, <2>1 DEF ReviewRead, Agrees
  <2> QED
    BY <1>a, <1>b, <2>1, <2>2, StepAgrees
<1>2. CASE ReleaseRead(q, j)
  <2>1. PICK pc \in {"claiming", "rejecting"} : Step(q, pc, j, rows[j])
    BY <1>2 DEF ReleaseRead
  <2>2. UNCHANGED <<live, rows>>
    BY <1>2 DEF ReleaseRead, storeVars
  <2>3. Agrees(pc, rows'[j], rows[j])
    BY <1>2, <2>2 DEF ReleaseRead, Agrees
  <2> QED
    BY <1>a, <1>b, <2>1, <2>2, <2>3, StepAgrees
<1>3. CASE Retry(q, j)
  <2>1. Step(q, "logging", j, FreshRow) /\ RetryFailed(j)
    BY <1>3 DEF Retry
  <2>2. RowsRespected
    BY <2>1 DEF RetryFailed, Retriable, RowsRespected, TypeOK, StoreTypeOK, Row
  <2> QED
    BY <1>a, <2>1, <2>2, StepAgrees DEF InHand
<1>4. CASE Delete(q, j)
  <2>1. Step(q, "unlinking", j, rows[j]) /\ DeleteStalledJob(j)
    BY <1>4 DEF Delete
  <2>2. RowsRespected
    BY <2>1 DEF DeleteStalledJob, Deletable, RowsRespected, TypeOK, StoreTypeOK, Row
  <2> QED
    BY <1>a, <2>1, <2>2, StepAgrees DEF InHand
<1> QED
  BY <1>1, <1>2, <1>3, <1>4 DEF RequestBegins

LEMMA RequestsSerial ==
  ASSUME TypeOK, DeliveryInv, OneOpen, RequestsAgree, MaxOpen <= 1, IsFiniteSet(Requests), ByRequests
  PROVE  OneOpen' /\ RequestsAgree' /\ RowsRespected
<1>1. CASE ApiCrash
  BY <1>1 DEF ApiCrash, Open, OneOpen, Pending, RequestsAgree, InHand, RowsRespected, storeVars,
              TypeOK, StoreTypeOK
<1> QED
  BY <1>1, RequestStepAgrees, RequestBeginsAgrees DEF ByRequests

(* A worker's copy and its row have the same reviews.                      *)
LEMMA WorkersKeepReviews ==
  ASSUME TypeOK, LeaseHeld, Alone, WorkersAgree, ByWorkers
  PROVE  /\ WorkersAgree'
         /\ \A j \in live : rows'[j].reviews = rows[j].reviews
<1>a. \A w \in Workers : wcopy[w] \in Row /\ (wpc[w] # "idle" => wjob[w] \in Jobs)
  BY DEF TypeOK, WorkerTypeOK
<1>b. ASSUME UNCHANGED <<live, rows>>, NEW w \in Workers, NEW pc \in WorkerPlaces \ {"idle"}, NEW c,
             wpc[w] # "idle", Goto(w, pc, wjob[w], c), c.reviews = wcopy[w].reviews
      PROVE  /\ WorkersAgree'
             /\ \A j \in live : rows'[j].reviews = rows[j].reviews
  <2>1. \A v \in Workers, j \in Jobs : Working(v, j)' <=> Working(v, j)
    BY <1>b, WorkingOn
  <2>2. \A v \in Workers : wcopy'[v].reviews = wcopy[v].reviews
    BY <1>b DEF Goto, TypeOK, WorkerTypeOK
  <2> QED
    BY <1>b, <2>1, <2>2 DEF WorkersAgree, TypeOK, StoreTypeOK
<1>c. ASSUME UNCHANGED <<live, workerVars>>, \A j \in Jobs : rows'[j].reviews = rows[j].reviews
      PROVE  /\ WorkersAgree'
             /\ \A j \in live : rows'[j].reviews = rows[j].reviews
  BY <1>c, WorkingStays DEF WorkersAgree, workerVars, TypeOK, StoreTypeOK
<1>1. ASSUME NEW w \in Workers, WorkerStep(w)
      PROVE  /\ WorkersAgree'
             /\ \A j \in live : rows'[j].reviews = rows[j].reviews
  <2>1. CASE WorkerClaim(w)
    <3>1. PICK k \in Jobs : ClaimNext(w, k) /\ Goto(w, "extract", k, Claimed(w, rows[k]))
      BY <2>1 DEF WorkerClaim
    <3>2. \A v \in Workers, j \in Jobs : Working(v, j)' <=> Working(v, j) \/ (v = w /\ j = k)
      BY <2>1, <3>1 DEF WorkerClaim, Goto, Working, TypeOK, WorkerTypeOK
    <3>3. Claimed(w, rows[k]).reviews = rows[k].reviews
      BY ReviewsOfMadeRows DEF TypeOK, StoreTypeOK
    <3>4. live' = live /\ \A j \in Jobs : rows'[j].reviews = rows[j].reviews
      BY <3>1, <3>3 DEF ClaimNext, TypeOK, StoreTypeOK
    <3>5. /\ wcopy'[w].reviews = rows[k].reviews
          /\ \A v \in Workers : v # w => wcopy'[v] = wcopy[v]
      BY <3>1, <3>3 DEF Goto, TypeOK, WorkerTypeOK
    <3>6. \A j \in Jobs : ~Working(w, j)
      BY <2>1 DEF WorkerClaim, Working
    <3> QED
      BY <3>2, <3>4, <3>5, <3>6 DEF WorkersAgree, TypeOK, StoreTypeOK
  <2>2. CASE WorkerExtract(w)
    <3>1. PICK pc \in {"deliver", "quarantine"} : Goto(w, pc, wjob[w], Extracted(wjob[w], wcopy[w]))
      BY <2>2 DEF WorkerExtract
    <3>2. wpc[w] = "extract" /\ UNCHANGED <<live, rows>> /\ pc \in WorkerPlaces \ {"idle"}
      BY <2>2 DEF WorkerExtract, WorkerPlaces
    <3>3. Extracted(wjob[w], wcopy[w]).reviews = wcopy[w].reviews
      BY <1>a, <3>2, ReviewsOfMadeRows
    <3> QED
      BY <1>b, <3>1, <3>2, <3>3
  <2>3. CASE WorkerFails(w)
    <3>1. AfterError(wcopy[w], FALSE).reviews = wcopy[w].reviews
      BY <1>a, ReviewsOfMadeRows
    <3> QED
      BY <1>b, <2>3, <3>1 DEF WorkerFails, WorkerPlaces
  <2>4. CASE WorkerQuarantine(w)
    <3>1. PICK c \in {Quarantined(wcopy[w]), AfterError(Quarantined(wcopy[w]), FALSE)} :
            Goto(w, "save", wjob[w], c)
      BY <2>4 DEF WorkerQuarantine
    <3>2. c.reviews = wcopy[w].reviews
      <4>1. Quarantined(wcopy[w]) \in Row /\ Quarantined(wcopy[w]).reviews = wcopy[w].reviews
        BY <1>a, RowsMadeOfRows, ReviewsOfMadeRows
      <4>2. AfterError(Quarantined(wcopy[w]), FALSE).reviews = Quarantined(wcopy[w]).reviews
        BY <4>1, ReviewsOfMadeRows
      <4> QED
        BY <4>1, <4>2
    <3> QED
      BY <1>b, <2>4, <3>1, <3>2 DEF WorkerQuarantine, WorkerPlaces
  <2>5. CASE WorkerDeliver(w)
    <3>1. PICK pc, c : /\ pc \in {"finalize", "save"} /\ c.reviews = wcopy[w].reviews
                      /\ Goto(w, pc, wjob[w], c)
      <4>1. \A p \in BOOLEAN : AfterError(wcopy[w], p).reviews = wcopy[w].reviews
        BY <1>a, ReviewsOfMadeRows
      <4>2. \E answer \in Answers :
              \/ Goto(w, "finalize", wjob[w], wcopy[w])
              \/ Goto(w, "save", wjob[w], AfterError(wcopy[w], answer.error = "permanent"))
        BY <2>5 DEF WorkerDeliver
      <4> QED
        BY <4>1, <4>2
    <3> QED
      BY <1>b, <2>5, <3>1 DEF WorkerDeliver, WorkerPlaces
  <2>6. CASE WorkerFinalize(w)
    <3>1. PICK cleaned \in BOOLEAN : Goto(w, "save", wjob[w], Finalized(wcopy[w], cleaned))
      BY <2>6 DEF WorkerFinalize
    <3>2. Finalized(wcopy[w], cleaned).reviews = wcopy[w].reviews
      BY <1>a, ReviewsOfMadeRows
    <3> QED
      BY <1>b, <2>6, <3>1, <3>2 DEF WorkerFinalize, WorkerPlaces, storeVars
  <2>7. CASE WorkerSave(w)
    <3>1. /\ wjob[w] \in Jobs /\ Working(w, wjob[w])
          /\ Unleased(wcopy[w]).reviews = wcopy[w].reviews
      BY <1>a, <2>7, ReviewsOfMadeRows DEF WorkerSave, Working
    <3>2. live' = live /\ \A j \in live : rows'[j].reviews = rows[j].reviews
      BY <2>7, <3>1 DEF WorkerSave, Save, WorkersAgree, TypeOK, StoreTypeOK
    <3>3. \A v \in Workers, j \in Jobs : Working(v, j)' <=> Working(v, j) /\ v # w
      BY <2>7, WorkingElsewhere DEF WorkerSave
    <3>4. \A v \in Workers : v # w => wcopy'[v] = wcopy[v]
      BY <2>7 DEF WorkerSave, Rest, Goto, TypeOK, WorkerTypeOK
    <3> QED
      BY <3>2, <3>3, <3>4 DEF WorkersAgree, TypeOK, StoreTypeOK
  <2> QED
    BY <1>1, <2>1, <2>2, <2>3, <2>4, <2>5, <2>6, <2>7 DEF WorkerStep
<1>2. ASSUME NEW w \in Workers, WorkerRenews(w) PROVE
        UNCHANGED <<live, workerVars>> /\ \A j \in Jobs : rows'[j].reviews = rows[j].reviews
  BY <1>2 DEF WorkerRenews, RenewLease, TypeOK, StoreTypeOK, Row
<1>3. ASSUME NEW w \in Workers, WorkerCrash(w)
      PROVE  /\ WorkersAgree'
             /\ \A j \in live : rows'[j].reviews = rows[j].reviews
  <2>1. \A v \in Workers, j \in Jobs : Working(v, j)' <=> Working(v, j) /\ v # w
    BY <1>3, WorkingElsewhere DEF WorkerCrash
  <2>2. \A v \in Workers : v # w => wcopy'[v] = wcopy[v]
    BY <1>3 DEF WorkerCrash, Rest, Goto, TypeOK, WorkerTypeOK
  <2>3. UNCHANGED <<live, rows>>
    BY <1>3 DEF WorkerCrash, storeVars
  <2> QED
    BY <2>1, <2>2, <2>3 DEF WorkersAgree, TypeOK, StoreTypeOK
<1>4. ASSUME NEW j \in Jobs, LeaseExpires(j) \/ LeaseLapses(j) \/ BackoffEnds(j)
      PROVE  UNCHANGED <<live, workerVars>> /\ \A k \in Jobs : rows'[k].reviews = rows[k].reviews
  BY <1>4 DEF LeaseExpires, LeaseLapses, LeaseRunsOut, BackoffEnds, BackoffElapses, TypeOK,
              StoreTypeOK, Row
<1> QED
  BY <1>1, <1>2, <1>3, <1>4, <1>c DEF ByWorkers

(* The invariant of one request at a time is kept by every step.           *)
LEMMA NextSerial ==
  ASSUME MaxOpen <= 1, IsFiniteSet(Requests), TypeOK, DeliveryInv, SerialInv, [Next]_vars
  PROVE  SerialInv'
<1>1. CASE ByWorkers
  <2>1. OneOpen'
    BY <1>1 DEF ByWorkers, requestVars, SerialInv, OneOpen, Pending
  <2>2. ASSUME faults'["lapse"] = 0
        PROVE  LeaseHeld' /\ Alone' /\ WorkersAgree' /\ RequestsAgree'
    <3>1. LeaseHeld /\ Alone /\ WorkersAgree /\ RequestsAgree
      BY <2>2, NoLapseYet DEF SerialInv
    <3>2. LeaseHeld' /\ Alone' /\ live' = live /\ RestKept /\ WorkersAgree'
      BY <1>1, <2>2, <3>1, WorkersKeepLeases, WorkersLeaveRest, WorkersKeepReviews
    <3>3. RequestsAgree'
      BY <1>1, <3>1, <3>2 DEF ByWorkers, requestVars, RequestsAgree, RestKept, InHand, Agrees
    <3> QED
      BY <3>2, <3>3
  <2> QED
    BY <2>1, <2>2 DEF SerialInv
<1>2. CASE ByRequests
  <2>1. OneOpen'
    <3>1. CASE ApiCrash
      BY <3>1 DEF ApiCrash, Open, OneOpen, Pending
    <3>2. ASSUME NEW q \in Requests, RequestStep(q) PROVE OneOpen'
      BY <3>2, RequestStepKeepsOne DEF SerialInv
    <3>3. ASSUME NEW q \in Requests, NEW j \in Jobs, RequestBegins(q, j) PROVE OneOpen'
      BY <3>3, RequestBeginsAgrees
    <3> QED
      BY <1>2, <3>1, <3>2, <3>3 DEF ByRequests
  <2>2. ASSUME faults'["lapse"] = 0
        PROVE  LeaseHeld' /\ Alone' /\ WorkersAgree' /\ RequestsAgree'
    <3>1. LeaseHeld /\ Alone /\ WorkersAgree /\ RequestsAgree /\ OneOpen
      BY <2>2, NoLapseYet DEF SerialInv
    <3>2. RequestsAgree' /\ RowsRespected /\ UNCHANGED workerVars
      BY <1>2, <3>1, RequestsSerial DEF ByRequests
    <3>3. LeaseHeld' /\ Alone'
      BY <3>1, <3>2, LeasesUntouched DEF RowsRespected
    <3>4. WorkersAgree'
      <4>1. ASSUME NEW w \in Workers, NEW j \in live', Working(w, j)
            PROVE  wcopy'[w].reviews = rows'[j].reviews
        <5>1. j \in live /\ j \in Jobs /\ wcopy'[w] = wcopy[w]
          BY <3>2 DEF RowsRespected, TypeOK, StoreTypeOK, workerVars
        <5>2. rows[j].status = "processing" /\ wcopy[w].reviews = rows[j].reviews
          BY <3>1, <4>1, <5>1 DEF LeaseHeld, Owns, WorkersAgree
        <5> QED
          BY <3>2, <5>1, <5>2 DEF RowsRespected
      <4> QED
        BY <3>2, <4>1, WorkingStays DEF WorkersAgree
    <3> QED
      BY <3>2, <3>3, <3>4
  <2> QED
    BY <2>1, <2>2 DEF SerialInv
<1>3. CASE UNCHANGED vars
  <2>1. UNCHANGED <<live, rows, workerVars, requestVars, faults>>
    BY <1>3 DEF vars, storeVars, worldVars
  <2>2. WorkersAgree => WorkersAgree'
    BY <2>1, WorkingStays DEF WorkersAgree, workerVars
  <2>3. LeaseHeld /\ Alone => LeaseHeld' /\ Alone'
    BY <2>1, LeasesUntouched
  <2> QED
    BY <2>1, <2>2, <2>3 DEF SerialInv, OneOpen, Pending, RequestsAgree, requestVars
<1> QED
  BY <1>1, <1>2, <1>3 DEF Next

LEMMA InitSerial == Init => SerialInv
BY DEF Init, WorkerInit, RequestInit, SerialInv, OneOpen, Pending, LeaseHeld, Alone, Working,
       WorkersAgree, RequestsAgree, InHand

(* If operators make one request at a time, no copy a request holds is out *)
(* of date, nor is a worker's as far as reviews go, until a lease lapses   *)
(* under a living worker.                                                  *)
THEOREM OneRequestAtATime ==
  ASSUME MaxOpen <= 1, IsFiniteSet(Requests)
  PROVE  Spec => [](TypeOK /\ DeliveryInv /\ SerialInv)
<1>1. Init => TypeOK /\ DeliveryInv /\ SerialInv
  BY InitTyped, InitGood, InitSerial
<1>2. (TypeOK /\ DeliveryInv /\ SerialInv) /\ [Next]_vars
        => (TypeOK /\ DeliveryInv /\ SerialInv)'
  BY NextTyped, NextGood, NextSerial
<1> QED
  BY <1>1, <1>2, PTL DEF Spec

(* Then leases keep workers apart although documents are released by hand: *)
(* a release that finds its job delivering finds no worker on it.          *)
THEOREM SerialWorkersExcludeEachOther ==
  ASSUME MaxOpen <= 1, IsFiniteSet(Requests)
  PROVE  Spec => []OneWorkerPerJob
<1>1. SerialInv => OneWorkerPerJob
  BY DEF SerialInv, Alone, OneWorkerPerJob
<1> QED
  BY <1>1, OneRequestAtATime, PTL

(* Then a row that says delivered says so for good: neither a claim nor a  *)
(* save of an older copy takes it back (pipeline.process, pipeline.review  *)
(* and pipeline.release save whole rows).                                  *)
THEOREM DeliveredForGood ==
  ASSUME MaxOpen <= 1, IsFiniteSet(Requests)
  PROVE  Spec => DeliveredIsFinal
<1>1. ASSUME TypeOK, DeliveryInv, SerialInv, [Next]_vars, faults["lapse"] = 0,
             NEW j \in live, rows[j].status = "delivered"
      PROVE  j \in live' /\ rows'[j].status = "delivered"
  <2>1. OneOpen /\ LeaseHeld /\ RequestsAgree
    BY <1>1 DEF SerialInv
  <2>2. CASE ByWorkers
    BY <1>1, <2>1, <2>2, WorkersLeaveRest DEF RestKept
  <2>3. CASE ByRequests
    BY <1>1, <2>1, <2>3, RequestsSerial DEF RowsRespected
  <2>4. CASE UNCHANGED vars
    BY <1>1, <2>4 DEF vars, storeVars
  <2> QED
    BY <1>1, <2>2, <2>3, <2>4 DEF Next
<1>2. (TypeOK /\ DeliveryInv /\ SerialInv) /\ [Next]_vars =>
        [\A j \in live :
           rows[j].status = "delivered" /\ faults["lapse"] = 0 =>
             j \in live' /\ rows'[j].status = "delivered"]_storeVars
  BY <1>1
<1> QED
  BY <1>2, OneRequestAtATime, PTL DEF Spec, DeliveredIsFinal

(* Then no save, of a worker or of a request, writes a review history that *)
(* lacks an entry the row has.                                             *)
THEOREM ReviewsKept ==
  ASSUME MaxOpen <= 1, IsFiniteSet(Requests)
  PROVE  Spec => ReviewsAreKept
<1>1. ASSUME TypeOK, DeliveryInv, SerialInv, [Next]_vars, faults["lapse"] = 0,
             NEW j \in live \cap live'
      PROVE  rows[j].reviews \subseteq rows'[j].reviews
  <2>1. OneOpen /\ LeaseHeld /\ Alone /\ WorkersAgree /\ RequestsAgree
    BY <1>1 DEF SerialInv
  <2>2. CASE ByWorkers
    BY <1>1, <2>1, <2>2, WorkersKeepReviews
  <2>3. CASE ByRequests
    BY <1>1, <2>1, <2>3, RequestsSerial DEF RowsRespected
  <2>4. CASE UNCHANGED vars
    BY <1>1, <2>4 DEF vars, storeVars
  <2> QED
    BY <1>1, <2>2, <2>3, <2>4 DEF Next
<1>2. (TypeOK /\ DeliveryInv /\ SerialInv) /\ [Next]_vars =>
        [faults["lapse"] = 0 =>
           \A j \in live \cap live' : rows[j].reviews \subseteq rows'[j].reviews]_storeVars
  BY <1>1
<1> QED
  BY <1>2, OneRequestAtATime, PTL DEF Spec, ReviewsAreKept

----------------------------------------------------------------------------
(* Where the work copy of a job is, while a worker has it, while a request *)
(* is about to store it, and otherwise.                                    *)
Storing(q, j) == qpc[q] = "storing" /\ qjob[q] = j

Followed(j) ==
  /\ \A w \in Workers : Working(w, j) => place[j] \in {wcopy[w].path, "none"}
  /\ \A q \in Requests : Storing(q, j) => place[j] \in {qcopy[q].path, "none"}
  /\ \/ \E w \in Workers : Working(w, j)
     \/ \E q \in Requests : Storing(q, j)
     \/ place[j] \in {rows[j].path, "none"}

Untorn == faults["crash"] + faults["apiCrash"] + faults["lapse"] = 0

FollowInv == Untorn => \A j \in live : Followed(j)

LEMMA FollowedStays ==
  ASSUME NEW j, Followed(j), place'[j] = place[j], rows'[j].path = rows[j].path,
         \A w \in Workers : /\ Working(w, j)' <=> Working(w, j)
                            /\ Working(w, j) => wcopy'[w].path = wcopy[w].path,
         \A q \in Requests : /\ Storing(q, j)' <=> Storing(q, j)
                             /\ Storing(q, j) => qcopy'[q] = qcopy[q]
  PROVE  Followed(j)'
BY DEF Followed

(* Nobody has a job in hand any more, its row says where the copy is.      *)
LEMMA FollowedAtRest ==
  ASSUME NEW j, \A w \in Workers : ~Working(w, j)', \A q \in Requests : ~Storing(q, j)',
         place'[j] \in {rows'[j].path, "none"}
  PROVE  Followed(j)'
BY DEF Followed

LEMMA FollowedByWorker ==
  ASSUME NEW j, NEW w \in Workers, \A v \in Workers : Working(v, j)' <=> v = w,
         \A q \in Requests : ~Storing(q, j)', place'[j] \in {wcopy'[w].path, "none"}
  PROVE  Followed(j)'
BY DEF Followed

LEMMA FollowedByRequest ==
  ASSUME NEW j, NEW q \in Requests, \A w \in Workers : ~Working(w, j)',
         \A p \in Requests : Storing(p, j)' <=> p = q, place'[j] \in {qcopy'[q].path, "none"}
  PROVE  Followed(j)'
BY DEF Followed

(* The steps of pipeline.py that touch the work copy.                      *)
LEMMA FinalizeFollows ==
  ASSUME TypeOK, NEW j \in Jobs, NEW r \in Row, NEW cleaned \in BOOLEAN,
         Finalize(j, r, cleaned), place[j] \in {r.path, "none"}
  PROVE  /\ place'[j] \in {Finalized(r, cleaned).path, "none"}
         /\ \A k \in Jobs : k # j => place'[k] = place[k]
BY DeliveryAssumption DEF Finalize, Finalized, TypeOK, WorldTypeOK, Row

(* A worker's copy of the row moves along with the document.               *)
LEMMA WorkerStepFollows ==
  ASSUME TypeOK, LeaseHeld, Alone, RequestsAgree, NEW w \in Workers, WorkerStep(w),
         UNCHANGED requestVars, NEW j \in live, Followed(j)
  PROVE  Followed(j)'
<1> DEFINE r == wcopy[w]
<1>a. /\ r \in Row /\ j \in Jobs /\ (wpc[w] # "idle" => wjob[w] \in Jobs)
      /\ \A q \in Requests : /\ Storing(q, j)' <=> Storing(q, j)
                             /\ Storing(q, j) => qcopy'[q] = qcopy[q]
  BY DEF TypeOK, StoreTypeOK, WorkerTypeOK, Storing, requestVars
<1>b. ASSUME \E v \in Workers : Working(v, j)
      PROVE  \A q \in Requests : ~Storing(q, j) /\ ~Storing(q, j)'
  BY <1>a, <1>b DEF LeaseHeld, Owns, RequestsAgree, Agrees, InHand, Storing
<1>c. ASSUME UNCHANGED <<live, rows>>, NEW pc \in WorkerPlaces \ {"idle"}, NEW c,
             wpc[w] # "idle", Goto(w, pc, wjob[w], c),
             j # wjob[w] => place'[j] = place[j],
             j = wjob[w] /\ place[j] \in {r.path, "none"} => place'[j] \in {c.path, "none"}
      PROVE  Followed(j)'
  <2>1. \A v \in Workers : Working(v, j)' <=> Working(v, j)
    BY <1>a, <1>c, WorkingOn
  <2>2. /\ \A v \in Workers : v # w => wcopy'[v] = wcopy[v]
        /\ wcopy'[w] = c
    BY <1>c DEF Goto, TypeOK, WorkerTypeOK
  <2>3. CASE j = wjob[w]
    <3>1. Working(w, j)
      BY <1>c, <2>3 DEF Working
    <3>2. \A v \in Workers : Working(v, j)' <=> v = w
      BY <1>a, <2>1, <3>1 DEF Alone
    <3>3. place[j] \in {r.path, "none"}
      BY <3>1 DEF Followed
    <3> QED
      BY <1>b, <1>c, <2>2, <2>3, <3>1, <3>2, <3>3, FollowedByWorker
  <2>4. CASE j # wjob[w]
    <3>1. \A v \in Workers : Working(v, j) => wcopy'[v].path = wcopy[v].path
      BY <2>2, <2>4 DEF Working
    <3> QED
      BY <1>a, <1>c, <2>1, <2>4, <3>1, FollowedStays
  <2> QED
    BY <2>3, <2>4
<1>1. CASE WorkerClaim(w)
  <2>1. PICK k \in Jobs : ClaimNext(w, k) /\ Goto(w, "extract", k, Claimed(w, rows[k]))
    BY <1>1 DEF WorkerClaim
  <2>2. \A v \in Workers : Working(v, j)' <=> Working(v, j) \/ (v = w /\ j = k)
    BY <1>1, <1>a, <2>1 DEF WorkerClaim, Goto, Working, TypeOK, WorkerTypeOK
  <2>3. /\ wcopy'[w] = Claimed(w, rows[k]) /\ ~Working(w, j)
        /\ \A v \in Workers : v # w => wcopy'[v] = wcopy[v]
    BY <1>1, <2>1 DEF WorkerClaim, Goto, Working, TypeOK, WorkerTypeOK
  <2>4. UNCHANGED place
    BY <1>1 DEF WorkerClaim, worldVars
  <2>5. CASE j = k
    <3>1. \A v \in Workers : ~Working(v, j)
      BY <1>a, <2>1, <2>5 DEF ClaimNext, Claimable, LeaseHeld, Owns
    <3>2. \A q \in Requests : ~Storing(q, j)
      BY <2>1, <2>5 DEF ClaimNext, Claimable, RequestsAgree, Agrees, InHand, Storing
    <3>3. place[j] \in {rows[j].path, "none"}
      BY <3>1, <3>2 DEF Followed
    <3>4. Claimed(w, rows[k]).path = rows[k].path
      BY PathsOfMadeRows DEF TypeOK, StoreTypeOK
    <3> QED
      BY <1>a, <2>2, <2>3, <2>4, <2>5, <3>1, <3>2, <3>3, <3>4, FollowedByWorker
  <2>6. CASE j # k
    <3>1. rows'[j] = rows[j]
      BY <1>a, <2>1, <2>6 DEF ClaimNext, TypeOK, StoreTypeOK
    <3>2. \A v \in Workers : /\ Working(v, j)' <=> Working(v, j)
                             /\ Working(v, j) => wcopy'[v].path = wcopy[v].path
      BY <2>2, <2>3, <2>6
    <3> QED
      BY <1>a, <2>4, <3>1, <3>2, FollowedStays
  <2> QED
    BY <2>5, <2>6
<1>2. CASE WorkerExtract(w)
  <2>1. PICK pc \in {"deliver", "quarantine"} : Goto(w, pc, wjob[w], Extracted(wjob[w], r))
    BY <1>2 DEF WorkerExtract
  <2>2. /\ wpc[w] = "extract" /\ UNCHANGED <<live, rows, place>>
        /\ pc \in WorkerPlaces \ {"idle"}
    BY <1>2 DEF WorkerExtract, WorkerPlaces, worldVars
  <2>3. Extracted(wjob[w], r).path = r.path
    BY <1>a, <2>2, PathsOfMadeRows
  <2> QED
    BY <1>c, <2>1, <2>2, <2>3
<1>3. CASE WorkerFails(w)
  <2>1. AfterError(r, FALSE).path = r.path
    BY <1>a, PathsOfMadeRows
  <2>2. /\ wpc[w] \in {"extract", "quarantine"} /\ UNCHANGED <<live, rows, place>>
        /\ Goto(w, "save", wjob[w], AfterError(r, FALSE)) /\ "save" \in WorkerPlaces \ {"idle"}
    BY <1>3 DEF WorkerFails, WorkerPlaces, worldVars
  <2> QED
    BY <1>c, <2>1, <2>2
<1>4. CASE WorkerQuarantine(w)
  <2>1. PICK c \in {Quarantined(r), AfterError(Quarantined(r), FALSE)} :
          Goto(w, "save", wjob[w], c)
    BY <1>4 DEF WorkerQuarantine
  <2>2. c.path = "quarantine"
    <3>1. Quarantined(r) \in Row /\ Quarantined(r).path = "quarantine"
      BY <1>a, RowsMadeOfRows, PathsOfMadeRows
    <3>2. AfterError(Quarantined(r), FALSE).path = "quarantine"
      BY <3>1, PathsOfMadeRows
    <3> QED
      BY <3>1, <3>2
  <2>3. /\ wpc[w] = "quarantine" /\ UNCHANGED <<live, rows>> /\ "save" \in WorkerPlaces \ {"idle"}
        /\ j # wjob[w] => place'[j] = place[j]
        /\ j = wjob[w] => place'[j] = "quarantine" \/ (r.path = "quarantine" /\ place'[j] = place[j])
    BY <1>4, <1>a DEF WorkerQuarantine, WorkerPlaces, TypeOK, WorldTypeOK
  <2> QED
    BY <1>c, <2>1, <2>2, <2>3
<1>5. CASE WorkerDeliver(w)
  <2>1. PICK pc, c : pc \in {"finalize", "save"} /\ Goto(w, pc, wjob[w], c) /\ c.path = r.path
    <3>1. \A p \in BOOLEAN : AfterError(r, p).path = r.path
      BY <1>a, PathsOfMadeRows
    <3>2. \E answer \in Answers :
            \/ Goto(w, "finalize", wjob[w], r)
            \/ Goto(w, "save", wjob[w], AfterError(r, answer.error = "permanent"))
      BY <1>5 DEF WorkerDeliver
    <3> QED
      BY <3>1, <3>2
  <2>2. /\ wpc[w] = "deliver" /\ UNCHANGED <<live, rows, place>>
        /\ pc \in WorkerPlaces \ {"idle"}
    BY <1>5, <2>1 DEF WorkerDeliver, WorkerPlaces
  <2> QED
    BY <1>c, <2>1, <2>2
<1>6. CASE WorkerFinalize(w)
  <2>1. PICK cleaned \in BOOLEAN :
          Finalize(wjob[w], r, cleaned) /\ Goto(w, "save", wjob[w], Finalized(r, cleaned))
    BY <1>6 DEF WorkerFinalize
  <2>2. /\ wpc[w] = "finalize" /\ UNCHANGED <<live, rows>> /\ "save" \in WorkerPlaces \ {"idle"}
    BY <1>6 DEF WorkerFinalize, WorkerPlaces, storeVars
  <2>3. j # wjob[w] => place'[j] = place[j]
    BY <1>a, <2>1 DEF Finalize, TypeOK, WorldTypeOK
  <2>4. j = wjob[w] /\ place[j] \in {r.path, "none"} =>
          place'[j] \in {Finalized(r, cleaned).path, "none"}
    BY <1>a, <2>1, FinalizeFollows
  <2> QED
    BY <1>c, <2>1, <2>2, <2>3, <2>4
<1>7. CASE WorkerSave(w)
  <2>1. /\ wjob[w] \in Jobs /\ Save(wjob[w], Unleased(r)) /\ UNCHANGED place
        /\ Unleased(r).path = r.path
    BY <1>7, <1>a, PathsOfMadeRows DEF WorkerSave, worldVars
  <2>2. \A v \in Workers : Working(v, j)' <=> Working(v, j) /\ v # w
    BY <1>7, <1>a, WorkingElsewhere DEF WorkerSave
  <2>3. \A v \in Workers : v # w => wcopy'[v] = wcopy[v]
    BY <1>7 DEF WorkerSave, Rest, Goto, TypeOK, WorkerTypeOK
  <2>4. CASE j = wjob[w]
    <3>1. Working(w, j)
      BY <1>7, <2>4 DEF WorkerSave, Working
    <3>2. \A v \in Workers : ~Working(v, j)'
      BY <1>a, <2>2, <3>1 DEF Alone
    <3>3. rows'[j].path = r.path /\ place[j] \in {r.path, "none"}
      BY <1>a, <2>1, <2>4, <3>1 DEF Save, Followed, TypeOK, StoreTypeOK
    <3> QED
      BY <1>b, <2>1, <3>1, <3>2, <3>3, FollowedAtRest
  <2>5. CASE j # wjob[w]
    <3>1. rows'[j] = rows[j]
      BY <1>a, <2>1, <2>5 DEF Save, TypeOK, StoreTypeOK
    <3>2. \A v \in Workers : /\ Working(v, j)' <=> Working(v, j)
                             /\ Working(v, j) => wcopy'[v].path = wcopy[v].path
      BY <2>2, <2>3, <2>5 DEF Working
    <3> QED
      BY <1>a, <2>1, <3>1, <3>2, FollowedStays
  <2> QED
    BY <2>4, <2>5
<1> QED
  BY <1>1, <1>2, <1>3, <1>4, <1>5, <1>6, <1>7 DEF WorkerStep

(* So does a request's.                                                    *)
LEMMA RequestStepFollows ==
  ASSUME TypeOK, DeliveryInv, OneOpen, LeaseHeld, RequestsAgree, NEW q \in Requests, RequestStep(q),
         UNCHANGED workerVars, NEW j \in live, Followed(j)
  PROVE  Followed(j)'
<1> DEFINE r == qcopy[q]
<1>a. Pending(q)
  BY DEF Pending, RequestStep, ReviewSave, ReleaseReject, ReleaseClaim, ReleaseClaimRefused,
         ReleaseDeliver, ReleaseFinalize, ReleaseStore, DeleteUnlink, RequestLog
<1>b. /\ r \in Row /\ j \in Jobs /\ qjob[q] \in Jobs /\ rows[qjob[q]] \in Row
      /\ \A p \in Requests : p # q => ~Pending(p)
  BY <1>a DEF TypeOK, StoreTypeOK, RequestTypeOK, Pending, OneOpen
<1>c. \A w \in Workers : (Working(w, j)' <=> Working(w, j)) /\ wcopy'[w] = wcopy[w]
  BY WorkingStays DEF workerVars
<1>d. qpc[q] \in InHand => qjob[q] \in live /\ Agrees(qpc[q], rows[qjob[q]], r)
  BY DEF RequestsAgree
<1>e. qpc[q] \in InHand /\ qjob[q] = j => \A w \in Workers : ~Working(w, j)
  BY <1>b, <1>d DEF Agrees, InHand, LeaseHeld, Owns
<1>f. ASSUME NEW pc, NEW i, NEW c, Step(q, pc, i, c)
      PROVE  /\ \A p \in Requests : Storing(p, j)' <=> p = q /\ pc = "storing" /\ i = j
             /\ qcopy'[q] = c
  <2>1. \A p \in Requests : p # q => qpc'[p] \in {"new", "done"}
    BY <1>b, <1>f DEF Pending, Step, TypeOK, RequestTypeOK
  <2>2. qpc'[q] = pc /\ qjob'[q] = i /\ qcopy'[q] = c
    BY <1>f DEF Step, TypeOK, RequestTypeOK
  <2> QED
    BY <2>1, <2>2 DEF Storing
<1>g. \A p \in Requests : Storing(p, j) => p = q /\ qpc[q] = "storing" /\ qjob[q] = j
  BY <1>b DEF Storing, Pending
(* A step that stores nothing and leaves the job's path.                   *)
<1>h. ASSUME NEW pc, pc # "storing", NEW i, NEW c, Step(q, pc, i, c),
             rows'[j].path = rows[j].path, place'[j] = place[j],
             qjob[q] = j => qpc[q] # "storing"
      PROVE  Followed(j)'
  BY <1>c, <1>f, <1>g, <1>h, FollowedStays
(* A step that is about to store a copy of another path.                   *)
<1>i. ASSUME NEW c, Step(q, "storing", qjob[q], c), UNCHANGED rows,
             qjob[q] # j => place'[j] = place[j],
             qjob[q] = j /\ place[j] \in {r.path, "none"} => place'[j] \in {c.path, "none"},
             qpc[q] \in {"delivering", "finalizing"}
      PROVE  Followed(j)'
  <2>1. CASE qjob[q] = j
    <3>1. \A w \in Workers : ~Working(w, j)'
      BY <1>c, <1>e, <1>i, <2>1 DEF InHand
    <3>2. place[j] \in {r.path, "none"}
      BY <1>d, <1>e, <1>g, <1>i, <2>1 DEF Followed, Agrees, InHand
    <3> QED
      BY <1>f, <1>i, <2>1, <3>1, <3>2, FollowedByRequest
  <2>2. CASE qjob[q] # j
    BY <1>c, <1>f, <1>g, <1>i, <2>2, FollowedStays
  <2> QED
    BY <2>1, <2>2
<1>1. CASE ReviewSave(q)
  <2>1. PICK d \in DocTypes, o \in {r.routing, TRUE} : Save(qjob[q], Reviewed(q, r, d, o))
    BY <1>1 DEF ReviewSave
  <2>2. o \in BOOLEAN
    BY <1>b DEF Row
  <2>3. Reviewed(q, r, d, o).path = r.path
    BY <1>b, <2>2, PathsOfMadeRows
  <2>4. /\ qpc[q] = "reviewing" /\ Step(q, "logging", qjob[q], FreshRow)
        /\ UNCHANGED place
    BY <1>1 DEF ReviewSave, worldVars
  <2>5. rows'[j].path = rows[j].path
    BY <1>b, <1>d, <2>1, <2>3, <2>4 DEF Save, Agrees, InHand, TypeOK, StoreTypeOK
  <2> QED
    BY <1>h, <2>4, <2>5
<1>2. CASE ReleaseReject(q)
  <2>1. [r EXCEPT !.status = "quarantined"].path = r.path
    BY <1>b, PathsOfMadeRows DEF Statuses
  <2>2. /\ qpc[q] = "rejecting" /\ Step(q, "logging", qjob[q], FreshRow)
        /\ UNCHANGED place /\ Save(qjob[q], [r EXCEPT !.status = "quarantined"])
    BY <1>2 DEF ReleaseReject, worldVars
  <2>3. rows'[j].path = rows[j].path
    BY <1>b, <1>d, <2>1, <2>2 DEF Save, Agrees, InHand, TypeOK, StoreTypeOK
  <2> QED
    BY <1>h, <2>2, <2>3
<1>3. CASE ReleaseClaim(q)
  <2>1. [rows[qjob[q]] EXCEPT !.status = "delivering"].path = rows[qjob[q]].path
    BY <1>b, PathsOfMadeRows DEF Statuses
  <2> DEFINE c == [r EXCEPT !.status = "delivering"]
  <2>2. /\ qpc[q] = "claiming" /\ UNCHANGED place /\ ClaimDelivery(qjob[q])
        /\ Step(q, "delivering", qjob[q], c)
    BY <1>3 DEF ReleaseClaim, worldVars
  <2>3. rows'[j].path = rows[j].path
    BY <1>b, <2>1, <2>2 DEF ClaimDelivery, TypeOK, StoreTypeOK
  <2> HIDE DEF c
  <2> QED
    BY <1>h, <2>2, <2>3
<1>4. CASE ReleaseClaimRefused(q)
  BY <1>4, <1>h DEF ReleaseClaimRefused, Finish, storeVars, worldVars
<1>5. CASE ReleaseDeliver(q)
  <2> DEFINE c == [r EXCEPT !.status = "failed"]
  <2>1. /\ qpc[q] = "delivering" /\ UNCHANGED <<rows, place>>
        /\ Step(q, "finalizing", qjob[q], r) \/ Step(q, "storing", qjob[q], c)
    BY <1>5 DEF ReleaseDeliver
  <2>2. c.path = r.path
    BY <1>b, PathsOfMadeRows DEF Statuses
  <2> HIDE DEF c
  <2>3. CASE Step(q, "finalizing", qjob[q], r)
    BY <1>h, <2>1, <2>3
  <2>4. CASE Step(q, "storing", qjob[q], c)
    BY <1>i, <2>1, <2>2, <2>4
  <2> QED
    BY <2>1, <2>3, <2>4
<1>6. CASE ReleaseFinalize(q)
  <2>1. PICK cleaned \in BOOLEAN :
          Finalize(qjob[q], r, cleaned) /\ Step(q, "storing", qjob[q], Finalized(r, cleaned))
    BY <1>6 DEF ReleaseFinalize
  <2>2. qpc[q] = "finalizing" /\ UNCHANGED rows
    BY <1>6 DEF ReleaseFinalize, storeVars
  <2>3. qjob[q] # j => place'[j] = place[j]
    BY <1>b, <2>1 DEF Finalize, TypeOK, WorldTypeOK
  <2>4. qjob[q] = j /\ place[j] \in {r.path, "none"} =>
          place'[j] \in {Finalized(r, cleaned).path, "none"}
    BY <1>b, <2>1, FinalizeFollows
  <2> QED
    BY <1>i, <2>1, <2>2, <2>3, <2>4
<1>7. CASE ReleaseStore(q)
  <2>1. /\ qpc[q] = "storing" /\ Save(qjob[q], r) /\ UNCHANGED place
        /\ Step(q, "done", NoJob, FreshRow)
    BY <1>7 DEF ReleaseStore, Finish, worldVars
  <2>2. \A p \in Requests : ~Storing(p, j)'
    BY <1>f, <2>1
  <2>3. CASE qjob[q] = j
    <3>1. rows'[j].path = r.path
      BY <1>b, <2>1, <2>3 DEF Save, TypeOK, StoreTypeOK
    <3>2. \A w \in Workers : ~Working(w, j)'
      BY <1>c, <1>e, <2>1, <2>3 DEF InHand
    <3>3. place[j] \in {r.path, "none"}
      BY <2>1, <2>3 DEF Followed, Storing
    <3> QED
      BY <2>1, <2>2, <3>1, <3>2, <3>3, FollowedAtRest
  <2>4. CASE qjob[q] # j
    <3>1. rows'[j] = rows[j]
      BY <1>b, <2>1, <2>4 DEF Save, TypeOK, StoreTypeOK
    <3> QED
      BY <1>h, <2>1, <2>4, <3>1
  <2> QED
    BY <2>3, <2>4
<1>8. CASE DeleteUnlink(q)
  <2>1. /\ qpc[q] = "unlinking" /\ UNCHANGED rows /\ Step(q, "done", NoJob, FreshRow)
        /\ qjob[q] \notin live
    BY <1>8 DEF DeleteUnlink, Finish, storeVars, DeliveryInv, RequestsGood
  <2>2. place'[j] = place[j]
    BY <1>8, <1>b, <2>1 DEF DeleteUnlink, TypeOK, WorldTypeOK
  <2> QED
    BY <1>h, <2>1, <2>2
<1>9. CASE RequestLog(q)
  BY <1>9, <1>h DEF RequestLog, Finish, worldVars
<1> QED
  BY <1>1, <1>2, <1>3, <1>4, <1>5, <1>6, <1>7, <1>8, <1>9 DEF RequestStep

LEMMA RequestBeginsFollows ==
  ASSUME TypeOK, MaxOpen <= 1, IsFiniteSet(Requests), NEW q \in Requests, NEW i \in Jobs,
         RequestBegins(q, i), UNCHANGED workerVars, NEW j \in live, j \in live', Followed(j)
  PROVE  Followed(j)'
<1>1. (\A p \in Requests : ~Pending(p)) /\ UNCHANGED place
  BY FirstRequest DEF RequestBegins, ReviewRead, ReleaseRead, Retry, Delete, worldVars
<1>2. PICK pc, c : /\ Step(q, pc, i, c)
                    /\ pc \in {"reviewing", "claiming", "rejecting", "logging", "unlinking"}
  BY DEF RequestBegins, ReviewRead, ReleaseRead, Retry, Delete
<1>3. \A p \in Requests : ~Storing(p, j) /\ ~Storing(p, j)'
  BY <1>1, <1>2 DEF Storing, Pending, Step, TypeOK, RequestTypeOK
<1>4. rows'[j].path = rows[j].path
  <2>1. CASE ReviewRead(q, i) \/ ReleaseRead(q, i)
    BY <2>1 DEF ReviewRead, ReleaseRead, storeVars
  <2>2. CASE Retry(q, i)
    BY <2>2 DEF Retry, RetryFailed, TypeOK, StoreTypeOK, Row
  <2>3. CASE Delete(q, i)
    BY <2>3 DEF Delete, DeleteStalledJob, TypeOK, StoreTypeOK
  <2> QED
    BY <2>1, <2>2, <2>3 DEF RequestBegins
<1>5. \A w \in Workers : (Working(w, j)' <=> Working(w, j)) /\ wcopy'[w] = wcopy[w]
  BY WorkingStays DEF workerVars
<1> QED
  BY <1>1, <1>3, <1>4, <1>5, FollowedStays

(* The work copy is followed as long as nothing tears a move from a save.  *)
LEMMA NextFollows ==
  ASSUME MaxOpen <= 1, IsFiniteSet(Requests), TypeOK, DeliveryInv, SerialInv, FollowInv, [Next]_vars
  PROVE  FollowInv'
<1> SUFFICES ASSUME Untorn', NEW j \in live' PROVE Followed(j)'
  BY DEF FollowInv
<1>1. /\ faults["crash"] = 0 /\ faults'["crash"] = 0
      /\ faults["apiCrash"] = 0 /\ faults'["apiCrash"] = 0
      /\ faults["lapse"] = 0 /\ faults'["lapse"] = 0
  <2>1. \A k \in FaultKinds : faults[k] <= faults'[k] /\ faults[k] \in Nat /\ faults'[k] \in Nat
    BY FaultsGrow, NextTyped DEF TypeOK, WorldTypeOK
  <2>2. /\ faults["crash"] \in Nat /\ faults["apiCrash"] \in Nat /\ faults["lapse"] \in Nat
        /\ faults'["crash"] \in Nat /\ faults'["apiCrash"] \in Nat /\ faults'["lapse"] \in Nat
        /\ faults["crash"] <= faults'["crash"] /\ faults["apiCrash"] <= faults'["apiCrash"]
        /\ faults["lapse"] <= faults'["lapse"]
    BY <2>1 DEF FaultKinds
  <2>3. faults'["crash"] + faults'["apiCrash"] + faults'["lapse"] = 0
    BY DEF Untorn
  <2>4. faults'["crash"] = 0 /\ faults'["apiCrash"] = 0 /\ faults'["lapse"] = 0
    <3>1. \A a, b, c \in Nat : a + b + c = 0 => a = 0 /\ b = 0 /\ c = 0
      OBVIOUS
    <3> QED
      BY <2>2, <2>3, <3>1
  <2> QED
    BY <2>2, <2>4
<1>2. /\ OneOpen /\ LeaseHeld /\ Alone /\ RequestsAgree
      /\ j \in live /\ j \in Jobs /\ Followed(j)
  BY <1>1, LiveShrinks DEF SerialInv, FollowInv, Untorn, TypeOK, StoreTypeOK
<1>3. ASSUME NEW kind \in {"crash", "apiCrash", "lapse"}, Suffer(kind) PROVE FALSE
  BY <1>1, <1>3 DEF Suffer, TypeOK, WorldTypeOK, FaultKinds
<1>4. ASSUME UNCHANGED <<place, workerVars, requestVars>>, rows'[j].path = rows[j].path
      PROVE  Followed(j)'
  BY <1>2, <1>4, WorkingStays, FollowedStays DEF workerVars, requestVars, Storing
<1>5. CASE ByWorkers
  <2>1. ASSUME NEW w \in Workers, WorkerStep(w) PROVE Followed(j)'
    BY <1>2, <1>5, <2>1, WorkerStepFollows DEF ByWorkers
  <2>2. ASSUME NEW w \in Workers, WorkerRenews(w) PROVE Followed(j)'
    BY <1>2, <1>4, <1>5, <2>2
       DEF ByWorkers, WorkerRenews, RenewLease, worldVars, TypeOK, StoreTypeOK, Row
  <2>3. ASSUME NEW i \in Jobs, LeaseExpires(i) \/ BackoffEnds(i) PROVE Followed(j)'
    BY <1>2, <1>4, <1>5, <2>3
       DEF ByWorkers, LeaseExpires, LeaseRunsOut, BackoffEnds, BackoffElapses, worldVars, TypeOK,
           StoreTypeOK, Row
  <2>4. /\ \A w \in Workers : ~WorkerCrash(w)
        /\ \A i \in Jobs : ~LeaseLapses(i)
    BY <1>3 DEF WorkerCrash, LeaseLapses
  <2> QED
    BY <1>5, <2>1, <2>2, <2>3, <2>4 DEF ByWorkers
<1>6. CASE ByRequests
  <2>1. ~ApiCrash
    BY <1>3 DEF ApiCrash
  <2> QED
    BY <1>2, <1>6, <2>1, RequestStepFollows, RequestBeginsFollows DEF ByRequests
<1>7. CASE UNCHANGED vars
  BY <1>4, <1>7 DEF vars, storeVars, worldVars
<1> QED
  BY <1>5, <1>6, <1>7 DEF Next

LEMMA InitFollows == Init => FollowInv
BY DEF Init, StoreInit, WorldInit, WorkerInit, RequestInit, FreshRow, FollowInv, Followed, Working,
       Storing

(* Then the path in a row that nobody has in hand is where the document    *)
(* is, unless a crash or a lapsed lease has torn a move from the save that *)
(* was to name it, or a clean-up has left no copy (storage.move).          *)
THEOREM PathsAreTrue ==
  ASSUME MaxOpen <= 1, IsFiniteSet(Requests)
  PROVE  Spec => []PathIsTrue
<1>1. Init => TypeOK /\ DeliveryInv /\ SerialInv /\ FollowInv
  BY InitTyped, InitGood, InitSerial, InitFollows
<1>2. (TypeOK /\ DeliveryInv /\ SerialInv /\ FollowInv) /\ [Next]_vars
        => (TypeOK /\ DeliveryInv /\ SerialInv /\ FollowInv)'
  BY NextTyped, NextGood, NextSerial, NextFollows
<1>3. FollowInv => PathIsTrue
  BY DEF FollowInv, Untorn, Followed, Storing, Open, PathIsTrue, Busy
<1> QED
  BY <1>1, <1>2, <1>3, PTL DEF Spec
=============================================================================
