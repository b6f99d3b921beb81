---------------------------- MODULE WorkerProcess ----------------------------
(***************************************************************************)
(* The worker processes of worker.py and the processing of one job,        *)
(* DocumentPipeline.process.  A worker claims a job, works on its own copy *)
(* of the row, and writes the whole copy back at the end; its heartbeat    *)
(* thread meanwhile renews the lease.                                      *)
(***************************************************************************)
EXTENDS Delivery

VARIABLES
  wpc,    \* where each worker stands
  wjob,   \* the job it works on
  wcopy   \* its copy of the row

workerVars == <<wpc, wjob, wcopy>>

WorkerPlaces == {"idle", "extract", "quarantine", "deliver", "finalize", "save"}

WorkerTypeOK ==
  /\ wpc \in [Workers -> WorkerPlaces]
  /\ wjob \in [Workers -> Jobs \cup {NoJob}]
  /\ wcopy \in [Workers -> Row]
  /\ \A w \in Workers : wpc[w] # "idle" => wjob[w] \in Jobs

WorkerInit ==
  /\ wpc = [w \in Workers |-> "idle"]
  /\ wjob = [w \in Workers |-> NoJob]
  /\ wcopy = [w \in Workers |-> FreshRow]

Working(w, j) == wpc[w] # "idle" /\ wjob[w] = j

Goto(w, pc, j, r) ==
  /\ wpc' = [wpc EXCEPT ![w] = pc]
  /\ wjob' = [wjob EXCEPT ![w] = j]
  /\ wcopy' = [wcopy EXCEPT ![w] = r]

(* Variant for the mutation runs.                                          *)
RestInPlace(w) == Goto(w, wpc[w], NoJob, FreshRow)

Rest(w) == Goto(w, "idle", NoJob, FreshRow)

----------------------------------------------------------------------------
(* The claim loop of run.                                                  *)
WorkerClaim(w) ==
  /\ wpc[w] = "idle"
  /\ \E j \in Jobs :
       /\ ClaimNext(w, j)
       /\ Goto(w, "extract", j, Claimed(w, rows[j]))
  /\ UNCHANGED <<events, worldVars>>

(* Extraction, classification and validation.  The worker goes on to move  *)
(* the document into quarantine or to call the connector.                  *)
Extracted(j, r) == [r EXCEPT !.docType = TextType[j]]

WorkerExtract(w) ==
  LET j == wjob[w]
      r == Extracted(j, wcopy[w])
  IN /\ wpc[w] = "extract"
     /\ place[j] = r.path
     /\ Goto(w, IF Valid(r) THEN "deliver" ELSE "quarantine", j, r)
     /\ SaveEvent(j)
     /\ UNCHANGED <<live, rows, worldVars>>

(* An unreadable or missing work copy, or a rename that fails.             *)
WorkerFails(w) ==
  /\ wpc[w] \in {"extract", "quarantine"}
  /\ Goto(w, "save", wjob[w], AfterError(wcopy[w], FALSE))
  /\ SaveEvent(wjob[w])
  /\ UNCHANGED <<live, rows, worldVars>>

(* The move into quarantine, before the row says so.  When the event after *)
(* it fails, the exception finds the document moved already.               *)
WorkerQuarantine(w) ==
  LET j == wjob[w]
      r == wcopy[w]
  IN /\ wpc[w] = "quarantine"
     /\ r.path = "quarantine" \/ place[j] = r.path
     /\ place' = IF r.path = "quarantine" THEN place
                 ELSE [place EXCEPT ![j] = "quarantine"]
     /\ \/ Goto(w, "save", j, Quarantined(r))
        \/ Goto(w, "save", j, AfterError(Quarantined(r), FALSE))
     /\ SaveEvent(j)
     /\ UNCHANGED <<live, rows, accepted, faults>>

WorkerDeliver(w) ==
  LET j == wjob[w]
      r == wcopy[w]
  IN /\ wpc[w] = "deliver"
     /\ \E answer \in Answers :
          /\ TargetAnswers(j, r, answer)
          /\ IF Succeeded(answer)
             THEN Goto(w, "finalize", j, r)
             ELSE Goto(w, "save", j, AfterError(r, answer.error = "permanent"))
     /\ SaveEvent(j)
     /\ UNCHANGED <<live, rows, place>>

WorkerFinalize(w) ==
  LET j == wjob[w]
      r == wcopy[w]
  IN /\ wpc[w] = "finalize"
     /\ \E cleaned \in BOOLEAN :
          /\ Finalize(j, r, cleaned)
          /\ Goto(w, "save", j, Finalized(r, cleaned))
     /\ UNCHANGED <<storeVars, accepted, faults>>

WorkerSave(w) ==
  /\ wpc[w] = "save"
  /\ Save(wjob[w], Unleased(wcopy[w]))
  /\ Rest(w)
  /\ UNCHANGED <<events, worldVars>>

----------------------------------------------------------------------------
(* The thread of lease_heartbeat; a renewal the store refuses changes      *)
(* nothing, and the worker goes on regardless.                             *)
WorkerRenews(w) ==
  /\ wpc[w] # "idle"
  /\ RenewLease(w, wjob[w])
  /\ UNCHANGED <<events, worldVars, workerVars>>

(* The process dies and is restarted with nothing in memory.               *)
WorkerCrash(w) ==
  /\ wpc[w] # "idle"
  /\ Suffer("crash")
  /\ Rest(w)
  /\ UNCHANGED <<storeVars, place, accepted>>

(* The worker that has the lease is still processing the job.              *)
Held(j) == \E w \in Workers : Working(w, j) /\ Owns(w, j)

(* The lease of a dead worker runs out; that of a living one lapses only   *)
(* when its heartbeat is late, which is a fault.                           *)
LeaseExpires(j) ==
  /\ LeaseRunsOut(j) /\ ~Held(j)
  /\ UNCHANGED <<worldVars, workerVars>>

LeaseLapses(j) ==
  /\ LeaseRunsOut(j) /\ Held(j)
  /\ Suffer("lapse")
  /\ UNCHANGED <<place, accepted, workerVars>>

BackoffEnds(j) == BackoffElapses(j) /\ UNCHANGED <<worldVars, workerVars>>

WorkerStep(w) ==
  \/ WorkerClaim(w) \/ WorkerExtract(w) \/ WorkerFails(w) \/ WorkerQuarantine(w)
  \/ WorkerDeliver(w) \/ WorkerFinalize(w) \/ WorkerSave(w)
=============================================================================
