------------------------------ MODULE Pipeline ------------------------------
(***************************************************************************)
(* Workers and operators' requests together over one jobs table, one work  *)
(* directory and one target system.                                        *)
(***************************************************************************)
EXTENDS WorkerProcess, JobRequests

vars == <<storeVars, worldVars, workerVars, requestVars>>

TypeOK == StoreTypeOK /\ WorldTypeOK /\ WorkerTypeOK /\ RequestTypeOK

Init == StoreInit /\ WorldInit /\ WorkerInit /\ RequestInit

ByWorkers ==
  /\ \/ \E w \in Workers : WorkerStep(w) \/ WorkerRenews(w) \/ WorkerCrash(w)
     \/ \E j \in Jobs : LeaseExpires(j) \/ LeaseLapses(j) \/ BackoffEnds(j)
  /\ UNCHANGED requestVars

ByRequests ==
  /\ \/ \E q \in Requests : RequestStep(q) \/ \E j \in Jobs : RequestBegins(q, j)
     \/ ApiCrash
  /\ UNCHANGED workerVars

Next == ByWorkers \/ ByRequests

Spec == Init /\ [][Next]_vars

(* Workers poll for ever and are restarted, handlers run to their end,     *)
(* clocks advance; operators need not ask for anything, faults need not    *)
(* happen.                                                                 *)
Fairness ==
  /\ \A w \in Workers : WF_vars(WorkerStep(w) /\ UNCHANGED requestVars)
  /\ \A q \in Requests : WF_vars(RequestStep(q) /\ UNCHANGED workerVars)
  /\ \A j \in Jobs :
       /\ WF_vars(LeaseExpires(j) /\ UNCHANGED requestVars)
       /\ WF_vars(BackoffEnds(j) /\ UNCHANGED requestVars)

FairSpec == Spec /\ Fairness

----------------------------------------------------------------------------
(* A job recorded as delivered has been taken by the target system,        *)
(* whatever copy of whatever age was written last (pipeline.process and    *)
(* .release set DELIVERED, store.save writes it blindly).                  *)
DeliveredIsAccepted ==
  \A j \in live : rows[j].status = "delivered" => accepted[j] > 0

(* The work copy of a job that still has its row is discarded only when    *)
(* the target system has taken the document (_finalize_work_copy against   *)
(* the quarantine move and delete_job's unlinking).                        *)
DiscardOnlyAccepted ==
  \A j \in live : place[j] \in {"completed", "none"} => accepted[j] > 0

(* A document recorded as delivered passed validation with the fields its  *)
(* row shows: no unknown type, no missing routing reference.               *)
DeliveredIsValid ==
  \A j \in live : rows[j].status = "delivered" =>
    /\ rows[j].docType # "unknown"
    /\ RequireRouting => rows[j].routing

(* Leases keep workers apart: unless a lease has lapsed under a living     *)
(* worker, no two workers process one job (claim_next, renew_lease).       *)
OneWorkerPerJob ==
  faults["lapse"] = 0 =>
    \A v, w \in Workers : v # w => \A j \in Jobs : ~(Working(v, j) /\ Working(w, j))

(* The target system takes a document once, and once more at most for each *)
(* crash, lapsed lease or lost receipt: OPERATIONS.md asks connectors for  *)
(* an idempotency key because of these, and only because of these.         *)
SentOncePerFault == \A j \in Jobs : accepted[j] <= 1 + FaultCount

(* attempt_count passes worker_max_attempts only by claims that follow a   *)
(* crash or a lapsed lease.                                                *)
AttemptsBounded ==
  \A j \in live : rows[j].attempts <= MaxAttempts + faults["crash"] + faults["lapse"]

(* A job nobody works on names the place where its work copy is, unless a  *)
(* crash or a lapsed lease has torn the move from the save.                *)
Busy(j) ==
  \/ \E w \in Workers : Working(w, j)
  \/ \E q \in Open : qjob[q] = j

PathIsTrue ==
  faults["crash"] + faults["apiCrash"] + faults["lapse"] = 0 =>
    \A j \in live : Busy(j) \/ place[j] \in {rows[j].path, "none"}

(* Deleting a job deletes its inbox and quarantine copies, even under the  *)
(* hands of a worker that is moving them; a crash of the API between the   *)
(* commit and the unlinking is the one way to leave them behind.           *)
DeletedLeavesNoCopy ==
  faults["apiCrash"] = 0 =>
    \A j \in Jobs \ live :
      \/ place[j] \in {"completed", "none"}
      \/ \E q \in Requests : qpc[q] = "unlinking" /\ qjob[q] = j

(* A deleted job never gets a row again: "Bei aktiver Verarbeitung         *)
(* verhindert der Store, dass der Worker den gelöschten Job nachträglich   *)
(* wieder anlegt" (OPERATIONS.md).                                         *)
DeletedStaysDeleted == [][live' \subseteq live]_live

(* A row that says delivered says so for good, unless a lapsed lease has   *)
(* left a second worker with an older copy to write (ARCHITECTURE.md draws *)
(* no arrow out of delivered).                                             *)
DeliveredIsFinal ==
  [][\A j \in live :
       rows[j].status = "delivered" /\ faults["lapse"] = 0 =>
         j \in live' /\ rows'[j].status = "delivered"]_storeVars

(* No review is lost: an entry of review_history stays while the job does, *)
(* although every save rewrites the history from a copy.                   *)
ReviewsAreKept ==
  [][faults["lapse"] = 0 =>
       \A j \in live \cap live' : rows[j].reviews \subseteq rows'[j].reviews]_storeVars

----------------------------------------------------------------------------
(* Every job comes to rest: delivered, failed, in quarantine for a human,  *)
(* or deleted ("Nach einem Worker-Abbruch wird der Job nach Ablauf der     *)
(* Lease von einem anderen Worker übernommen", ARCHITECTURE.md).           *)
AtRest(j) ==
  j \in live => rows[j].status \in {"delivered", "failed", "quarantined"}

EveryJobComesToRest == \A j \in Jobs : <>[]AtRest(j)

(* A manual release ends: "quarantined → delivering → delivered | failed"  *)
(* (ARCHITECTURE.md).                                                      *)
Delivering(j) == j \in live /\ rows[j].status = "delivering"

ReleaseEnds == \A j \in Jobs : Delivering(j) ~> ~Delivering(j)

----------------------------------------------------------------------------
(* A statement of the documentation that the code does not keep.           *)

(* "Bereits ausgelieferte Jobs werden bei wiederholter Freigabe nicht      *)
(* erneut an den Connector gesendet" (OPERATIONS.md): a release that wins  *)
(* the claim has a document the target has not taken.                      *)
ReleasedOnce ==
  [][\A q \in Requests :
       qpc[q] = "claiming" /\ qpc'[q] = "delivering" => accepted[qjob[q]] = 0]_vars
=============================================================================
