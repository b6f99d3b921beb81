------------------------------ MODULE Delivery ------------------------------
(***************************************************************************)
(* What pipeline.py does to the world outside the jobs table, for a worker *)
(* and for a manual release alike: the work copy on disk and the target    *)
(* system.  Also the rules of the pipeline that look only at a job object: *)
(* validation, and what an exception makes of the job.                     *)
(***************************************************************************)
EXTENDS JobStore

CONSTANTS
  TextType,        \* what the classifier finds in each document's text
  RequireRouting,  \* settings.require_routing_reference
  Policy,          \* settings.delivered_file_policy
  MaxAttempts,     \* settings.worker_max_attempts
  Budget           \* how many faults of each kind a behaviour contains

FaultKinds == {"crash", "apiCrash", "lapse", "lostAck"}

ASSUME DeliveryAssumption ==
  /\ TextType \in [Jobs -> DocTypes]
  /\ RequireRouting \in BOOLEAN
  /\ Policy \in {"retain", "archive", "delete"}
  /\ MaxAttempts \in Nat \ {0}
  /\ Budget \in [FaultKinds -> Nat]

VARIABLES
  place,     \* where the document's work copy really is
  accepted,  \* how often the target system has taken the document
  faults     \* the faults so far: crashes of workers and of the API process,
             \* leases that lapsed under a living worker, receipts lost after the target accepted

worldVars == <<place, accepted, faults>>

WorldTypeOK ==
  /\ place \in [Jobs -> Paths \cup {"none"}]
  /\ accepted \in [Jobs -> Nat]
  /\ faults \in [FaultKinds -> Nat]

WorldInit ==
  /\ place = [j \in Jobs |-> "inbox"]
  /\ accepted = [j \in Jobs |-> 0]
  /\ faults = [k \in FaultKinds |-> 0]

(* Bookkeeping of the model: every fault is drawn from its budget.         *)
Suffer(kind) ==
  /\ faults[kind] < Budget[kind]
  /\ faults' = [faults EXCEPT ![kind] = @ + 1]

FaultCount ==
  faults["crash"] + faults["apiCrash"] + faults["lapse"] + faults["lostAck"]

----------------------------------------------------------------------------
(* Variants for the mutation runs.                                         *)

ValidTypeOnly(r) == r.docType # "unknown"
AfterErrorOnceMore(r, permanent) ==
  IF ~permanent /\ r.attempts <= MaxAttempts
  THEN [r EXCEPT !.status = "received", !.due = FALSE]
  ELSE [r EXCEPT !.status = "failed", !.due = TRUE]
QuarantinedInPlace(r) == [r EXCEPT !.status = "quarantined"]
SucceededUnlessPermanent(answer) == answer.error # "permanent"

----------------------------------------------------------------------------
(* WorkflowRules.validate returns no errors.                               *)
Valid(r) ==
  /\ r.docType # "unknown"
  /\ RequireRouting => r.routing

(* What an exception in process makes of the job: a later attempt while    *)
(* attempts are left, unless the connector calls the error permanent.      *)
AfterError(r, permanent) ==
  IF ~permanent /\ r.attempts < MaxAttempts
  THEN [r EXCEPT !.status = "received", !.due = FALSE]
  ELSE [r EXCEPT !.status = "failed", !.due = TRUE]

(* The job object after the move into quarantine.                          *)
Quarantined(r) == [r EXCEPT !.status = "quarantined", !.path = "quarantine"]

(* The last assignments before process saves the job.                      *)
Unleased(r) == [r EXCEPT !.worker = Nobody, !.lease = "none"]

----------------------------------------------------------------------------
(* The connector call.  The target either took the document or did not,    *)
(* and independently of that the caller may see an error: a receipt lost   *)
(* on the way, or an exception of the statements after it.                 *)
Answers ==
  {a \in [taken: BOOLEAN, error: {"none", "temporary", "permanent"}] :
     a.error = "none" => a.taken}

Succeeded(answer) == answer.error = "none"

Lost(answer) == answer.taken /\ answer.error # "none"

(* The connector reads the work copy at the path of the job object.        *)
TargetAnswers(j, r, answer) ==
  /\ answer.taken => place[j] = r.path
  /\ accepted' = [accepted EXCEPT ![j] = IF answer.taken THEN @ + 1 ELSE @]
  /\ IF Lost(answer) THEN Suffer("lostAck") ELSE UNCHANGED faults

(* _finalize_work_copy.  An OSError is recorded and otherwise ignored, and *)
(* unlink does not mind a missing file: then cleaned is FALSE.             *)
Finalize(j, r, cleaned) ==
  /\ cleaned => Policy # "retain" /\ place[j] = r.path
  /\ place' = IF ~cleaned THEN place
              ELSE [place EXCEPT ![j] =
                      IF Policy = "archive" THEN "completed" ELSE "none"]

(* The job object afterwards: delivered, and following an archived copy.   *)
Finalized(r, cleaned) ==
  [r EXCEPT !.status = "delivered",
            !.path = IF cleaned /\ Policy = "archive" THEN "completed" ELSE @]
=============================================================================
