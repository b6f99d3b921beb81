---------------------------- MODULE JobRequests ----------------------------
(***************************************************************************)
(* The requests an operator makes about a job: the handlers of api.py with *)
(* DocumentPipeline.review and .release.  FastAPI runs the handlers in a   *)
(* thread pool, so their steps interleave with one another and with the    *)
(* workers; each works on the copy of the row it has read.                 *)
(***************************************************************************)
EXTENDS Delivery

CONSTANTS
  Kinds,    \* the requests operators make
  MaxOpen   \* how many of them are under way at a time

ASSUME RequestAssumption ==
  /\ Kinds \subseteq {"review", "release", "retry", "delete"}
  /\ MaxOpen \in Nat

VARIABLES
  qpc,    \* where each request stands
  qjob,   \* the job it is about
  qcopy   \* the copy of the row it has read

requestVars == <<qpc, qjob, qcopy>>

RequestPlaces ==
  {"new", "reviewing", "rejecting", "claiming", "delivering", "finalizing",
   "storing", "unlinking", "logging", "done"}

RequestTypeOK ==
  /\ qpc \in [Requests -> RequestPlaces]
  /\ qjob \in [Requests -> Jobs \cup {NoJob}]
  /\ qcopy \in [Requests -> Row]
  /\ \A q \in Requests : qpc[q] \notin {"new", "done"} => qjob[q] \in Jobs

RequestInit ==
  /\ qpc = [q \in Requests |-> "new"]
  /\ qjob = [q \in Requests |-> NoJob]
  /\ qcopy = [q \in Requests |-> FreshRow]

Open == {q \in Requests : qpc[q] \notin {"new", "done"}}

Step(q, pc, j, r) ==
  /\ qpc' = [qpc EXCEPT ![q] = pc]
  /\ qjob' = [qjob EXCEPT ![q] = j]
  /\ qcopy' = [qcopy EXCEPT ![q] = r]

Finish(q) == Step(q, "done", NoJob, FreshRow)

(* A request of this kind about job j may begin.                           *)
Arrives(q, kind, j) ==
  /\ kind \in Kinds /\ qpc[q] = "new" /\ Cardinality(Open) < MaxOpen
  /\ j \in live

----------------------------------------------------------------------------
(* PATCH review: read the row, refuse it unless in quarantine; later write *)
(* back that copy with the reviewer's corrections and a history entry.     *)
ReviewRead(q, j) ==
  /\ Arrives(q, "review", j)
  /\ rows[j].status = "quarantined"
  /\ Step(q, "reviewing", j, rows[j])
  /\ UNCHANGED <<storeVars, worldVars>>

ReviewedAfresh(q, r, docType, routing) ==
  [r EXCEPT !.docType = docType, !.routing = routing, !.reviews = {q}]

Reviewed(q, r, docType, routing) ==
  [r EXCEPT !.docType = docType, !.routing = routing, !.reviews = @ \cup {q}]

ReviewSave(q) ==
  LET j == qjob[q]
      r == qcopy[q]
  IN /\ qpc[q] = "reviewing"
     /\ \E docType \in DocTypes, routing \in {r.routing, TRUE} :
          Save(j, Reviewed(q, r, docType, routing))
     /\ Step(q, "logging", j, FreshRow)
     /\ UNCHANGED <<events, worldVars>>

----------------------------------------------------------------------------
(* POST release: validate the copy just read.  A delivered job is returned *)
(* as it is, which changes nothing.                                        *)
ReleaseRead(q, j) ==
  /\ Arrives(q, "release", j)
  /\ rows[j].status \in {"quarantined", "delivering"}
  /\ Step(q, IF Valid(rows[j]) THEN "claiming" ELSE "rejecting", j, rows[j])
  /\ UNCHANGED <<storeVars, worldVars>>

(* Not valid: the copy goes back into quarantine.                          *)
ReleaseReject(q) ==
  LET j == qjob[q]
  IN /\ qpc[q] = "rejecting"
     /\ Save(j, [qcopy[q] EXCEPT !.status = "quarantined"])
     /\ Step(q, "logging", j, FreshRow)
     /\ UNCHANGED <<events, worldVars>>

ReleaseClaim(q) ==
  LET j == qjob[q]
  IN /\ qpc[q] = "claiming"
     /\ ClaimDelivery(j)
     /\ Step(q, "delivering", j, [qcopy[q] EXCEPT !.status = "delivering"])
     /\ UNCHANGED <<events, worldVars>>

(* Someone else has claimed, delivered or deleted the job.                 *)
ReleaseClaimRefused(q) ==
  /\ qpc[q] = "claiming"
  /\ ~(qjob[q] \in live /\ DeliveryClaimable(rows[qjob[q]]))
  /\ Finish(q)
  /\ UNCHANGED <<storeVars, worldVars>>

(* No retry here: any error makes the released job a failed one.           *)
ReleaseDeliver(q) ==
  LET j == qjob[q]
      r == qcopy[q]
  IN /\ qpc[q] = "delivering"
     /\ \E answer \in Answers :
          /\ TargetAnswers(j, r, answer)
          /\ IF Succeeded(answer)
             THEN Step(q, "finalizing", j, r)
             ELSE Step(q, "storing", j, [r EXCEPT !.status = "failed"])
     /\ SaveEvent(j)
     /\ UNCHANGED <<live, rows, place>>

ReleaseFinalize(q) ==
  LET j == qjob[q]
      r == qcopy[q]
  IN /\ qpc[q] = "finalizing"
     /\ \E cleaned \in BOOLEAN :
          /\ Finalize(j, r, cleaned)
          /\ Step(q, "storing", j, Finalized(r, cleaned))
     /\ UNCHANGED <<storeVars, accepted, faults>>

ReleaseStore(q) ==
  /\ qpc[q] = "storing"
  /\ Save(qjob[q], qcopy[q])
  /\ Finish(q)
  /\ UNCHANGED <<events, worldVars>>

----------------------------------------------------------------------------
(* POST retry: the update checks the status again, so the read before it   *)
(* adds nothing to the guard.                                              *)
Retry(q, j) ==
  /\ Arrives(q, "retry", j)
  /\ RetryFailed(j)
  /\ Step(q, "logging", j, FreshRow)
  /\ UNCHANGED <<events, worldVars>>

(* DELETE: the row goes first, the files after the commit.                 *)
Delete(q, j) ==
  /\ Arrives(q, "delete", j)
  /\ DeleteStalledJob(j)
  /\ Step(q, "unlinking", j, rows[j])
  /\ UNCHANGED worldVars

UnlinkedRecorded(r) == {r.path}

Unlinked(r) == {r.path, "quarantine"}

(* The recorded work copy, then the quarantine copy are unlinked; in one   *)
(* step, because a worker moves the copy only from the first to the second. *)
DeleteUnlink(q) ==
  LET j == qjob[q]
  IN /\ qpc[q] = "unlinking"
     /\ place' = [place EXCEPT ![j] =
                    IF @ \in Unlinked(qcopy[q]) THEN "none" ELSE @]
     /\ Finish(q)
     /\ UNCHANGED <<storeVars, accepted, faults>>

(* The event a handler writes in a transaction of its own at the end.      *)
RequestLog(q) ==
  /\ qpc[q] = "logging"
  /\ SaveEvent(qjob[q])
  /\ Finish(q)
  /\ UNCHANGED <<live, rows, worldVars>>

(* The API process dies: every request under way is lost.                  *)
ApiCrash ==
  /\ Open # {}
  /\ Suffer("apiCrash")
  /\ qpc' = [q \in Requests |-> IF q \in Open THEN "done" ELSE qpc[q]]
  /\ qjob' = [q \in Requests |-> NoJob]
  /\ qcopy' = [q \in Requests |-> FreshRow]
  /\ UNCHANGED <<storeVars, place, accepted>>

RequestBegins(q, j) ==
  ReviewRead(q, j) \/ ReleaseRead(q, j) \/ Retry(q, j) \/ Delete(q, j)

RequestStep(q) ==
  \/ ReviewSave(q) \/ ReleaseReject(q) \/ ReleaseClaim(q) \/ ReleaseClaimRefused(q)
  \/ ReleaseDeliver(q) \/ ReleaseFinalize(q) \/ ReleaseStore(q)
  \/ DeleteUnlink(q) \/ RequestLog(q)
=============================================================================
