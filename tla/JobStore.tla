------------------------------ MODULE JobStore ------------------------------
(***************************************************************************)
(* The jobs table of store.py and the transactions on it.  Every operator  *)
(* below is one database transaction: store.py runs each method inside one *)
(* session, and the processes (workers, request handlers) keep a COPY of   *)
(* the row between two of them.                                            *)
(***************************************************************************)
EXTENDS Integers, FiniteSets

CONSTANTS
  Jobs,        \* jobs, numbered in the order of created_at
  Workers,     \* worker processes
  Nobody,      \* worker_id IS NULL
  Requests     \* requests of operators; a review's request names its entry
               \* in review_history

ASSUME JobsAssumption == Jobs \subseteq Nat
NoJob == -1    \* what a process without a job points to

ASSUME NobodyAssumption == Nobody \notin Workers

Statuses ==
  {"received", "processing", "delivering", "delivered", "quarantined", "failed"}
Paths    == {"inbox", "quarantine", "completed"}
DocTypes == {"typed", "unknown"}
Leases   == {"none", "live", "expired"}

(* A row of the table, and a DocumentJob object, which has the same fields. *)
(* due abstracts next_attempt_at: null or in the past.                      *)
Row ==
  [status: Statuses, path: Paths, docType: DocTypes, routing: BOOLEAN,
   attempts: Nat, due: BOOLEAN, lease: Leases, worker: Workers \cup {Nobody},
   reviews: SUBSET Requests]

(* The row ingest writes: nothing is known of the document yet.            *)
FreshRow ==
  [status |-> "received", path |-> "inbox", docType |-> "unknown",
   routing |-> FALSE, attempts |-> 0, due |-> TRUE, lease |-> "none",
   worker |-> Nobody, reviews |-> {}]

VARIABLES
  live,    \* the jobs that have a row
  rows,    \* their rows; a job without one shows FreshRow
  events   \* the jobs that have entries in job_events

storeVars == <<live, rows, events>>

StoreTypeOK ==
  /\ live \in SUBSET Jobs
  /\ rows \in [Jobs -> Row]
  /\ events \in SUBSET Jobs

StoreInit ==
  /\ live = Jobs
  /\ rows = [j \in Jobs |-> FreshRow]
  /\ events = Jobs

----------------------------------------------------------------------------
(* Variants of the definitions below, as plausible mistakes would write    *)
(* them; the mutation runs substitute them.                                *)

SaveUpserts(j, r) ==
  /\ rows' = [rows EXCEPT ![j] = r]
  /\ live' = live \cup {j}

SaveSparesDelivering(j, r) ==
  /\ rows' = IF j \in live /\ rows[j].status # "delivering"
             THEN [rows EXCEPT ![j] = r] ELSE rows
  /\ UNCHANGED live

ClaimableIgnoringLease(r) == r.status \in {"received", "processing"} /\ r.due
ClaimableReceivedOnly(r) == r.status = "received" /\ r.due
RetriableAnyEnd(r) == r.status \in {"failed", "delivered"}

----------------------------------------------------------------------------
(* save: overwrite every column of the row, or do nothing without a row.   *)
Save(j, r) ==
  /\ rows' = IF j \in live THEN [rows EXCEPT ![j] = r] ELSE rows
  /\ UNCHANGED live

(* The WHERE clause of claim_next.                                         *)
Claimable(r) ==
  \/ r.status = "received" /\ r.due
  \/ r.status = "processing" /\ r.lease = "expired"

(* The row after claim_next; null next_attempt_at reads as due.            *)
Claimed(w, r) ==
  [r EXCEPT !.status = "processing", !.worker = w, !.lease = "live",
            !.due = TRUE, !.attempts = @ + 1]

(* claim_next: the oldest claimable row.  A row locked by another          *)
(* transaction is skipped; that transaction makes it unclaimable, so the   *)
(* skip is this action after the other one.                                *)
ClaimNext(w, j) ==
  /\ j \in live /\ Claimable(rows[j])
  /\ \A k \in live : k < j => ~Claimable(rows[k])
  /\ rows' = [rows EXCEPT ![j] = Claimed(w, @)]
  /\ UNCHANGED live

(* The WHERE clause of renew_lease.                                        *)
Owns(w, j) ==
  j \in live /\ rows[j].status = "processing" /\ rows[j].worker = w

(* renew_lease: only the owner of a job in processing; expiry is not asked. *)
RenewLease(w, j) ==
  /\ Owns(w, j)
  /\ rows' = [rows EXCEPT ![j].lease = "live"]
  /\ UNCHANGED live

(* claim_delivery: a compare-and-set on the status column only.            *)
DeliveryClaimable(r) == r.status = "quarantined"

ClaimDelivery(j) ==
  /\ j \in live /\ DeliveryClaimable(rows[j])
  /\ rows' = [rows EXCEPT ![j].status = "delivering"]
  /\ UNCHANGED live

(* retry_failed: the columns the queue reads start over.                   *)
Retriable(r) == r.status = "failed"

RetryFailed(j) ==
  /\ j \in live /\ Retriable(rows[j])
  /\ rows' = [rows EXCEPT ![j] =
                [@ EXCEPT !.status = "received", !.attempts = 0, !.due = TRUE,
                          !.lease = "none", !.worker = Nobody]]
  /\ UNCHANGED live

(* delete_stalled_job: the row and the job's events go in one transaction. *)
Deletable(r) == r.status \in {"failed", "processing", "quarantined"}

DeleteStalledJob(j) ==
  /\ j \in live /\ Deletable(rows[j])
  /\ live' = live \ {j}
  /\ rows' = [rows EXCEPT ![j] = FreshRow]
  /\ events' = events \ {j}

(* save_event: no foreign key, so the job need not have a row.             *)
SaveEvent(j) == events' = events \cup {j}

----------------------------------------------------------------------------
(* The clock, as far as claim_next compares with it.                       *)
BackoffElapses(j) ==
  /\ j \in live /\ rows[j].status = "received" /\ ~rows[j].due
  /\ rows' = [rows EXCEPT ![j].due = TRUE]
  /\ UNCHANGED <<live, events>>

LeaseRunsOut(j) ==
  /\ j \in live /\ rows[j].status = "processing" /\ rows[j].lease = "live"
  /\ rows' = [rows EXCEPT ![j].lease = "expired"]
  /\ UNCHANGED <<live, events>>
=============================================================================
