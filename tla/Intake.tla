------------------------------- MODULE Intake -------------------------------
(***************************************************************************)
(* Everybody who touches the inbox: uploads, the hotfolder watcher, a      *)
(* worker with the jobs it has claimed, and operators who delete jobs.     *)
(* Of the worker and the deletion only what they do to the row's status    *)
(* and to the file at the inbox path is shown (Pipeline has the rest): the *)
(* attempts of a job count as one, and requests about jobs other than its  *)
(* deletion are left out, because they leave that file alone.              *)
(***************************************************************************)
EXTENDS Hotfolder

CONSTANT Policy   \* DOCUMENT_CORE_DELIVERED_FILE_POLICY

ASSUME PolicyAssumption == Policy \in {"retain", "archive", "delete"}

VARIABLES
  worker,     \* where the worker stands
  wjob,       \* the job it has claimed last
  unlinking   \* deleted jobs whose files the request still has to unlink

workVars == <<worker, wjob, unlinking>>

(* What the worker still has to save of a job it has dealt with.           *)
Outcomes == {"quarantined", "delivered", "archived", "failed"}

vars == <<ingestVars, hotfolderVars, workVars>>

TypeOK ==
  /\ IngestTypeOK /\ HotfolderTypeOK
  /\ worker \in {"idle", "reading", "moving", "storing"} \cup Outcomes
  /\ wjob \in Jobs \cup {Nothing}
  /\ worker # "idle" => wjob \in Jobs
  /\ unlinking \in SUBSET Jobs

Init ==
  /\ IngestInit /\ HotfolderInit
  /\ worker = "idle" /\ wjob = Nothing /\ unlinking = {}

----------------------------------------------------------------------------
(* upload_document: a request comes once, with any document.  The spooled  *)
(* copy it makes belongs to the request alone and is not shown.            *)
Upload(u, d) == Stage(u, d) /\ UNCHANGED <<hotfolderVars, workVars>>

(* The API process dies: requests, watcher and deletions are cut off.  The *)
(* watcher starts anew with the process.                                   *)
ApiCrash ==
  /\ Strike("apiCrash")
  /\ ipc' = [p \in Ingests |->
               IF p = Watcher THEN "idle" ELSE IF p \in Open THEN "raised" ELSE ipc[p]]
  /\ wpc' = "asleep" /\ wname' = Nothing /\ todo' = {}
  /\ apc' = "idle" /\ unlinking' = {}
  /\ UNCHANGED <<job, inbox, idoc, folderVars, channel, werror, aerror,
                 edits, worker, wjob>>

----------------------------------------------------------------------------
(* claim_next.                                                             *)
WorkerClaims(j) ==
  /\ worker = "idle" /\ job[j].status = "received"
  /\ \A k \in Jobs : job[k].status = "received" => j <= k
  /\ job' = [job EXCEPT ![j].status = "processing"]
  /\ worker' = "reading" /\ wjob' = j
  /\ UNCHANGED <<inbox, ipc, idoc, struck, hotfolderVars, unlinking>>

InboxHas(j) == job[j].doc \in inbox

(* The worker goes on from its copy of the row, whether the row is there   *)
(* or not; a stored path without a file makes the job fail.                *)
WorkerReads ==
  /\ worker = "reading"
  /\ worker' \in IF InboxHas(wjob) THEN {"moving", "storing", "failed"} ELSE {"failed"}
  /\ UNCHANGED <<ingestVars, hotfolderVars, wjob, unlinking>>

Take == inbox' = inbox \ {job[wjob].doc}

(* Not valid: the work copy is moved into quarantine.                      *)
WorkerMoves ==
  /\ worker = "moving"
  /\ worker' = IF InboxHas(wjob) THEN "quarantined" ELSE "failed"
  /\ Take
  /\ UNCHANGED <<job, ipc, idoc, struck, hotfolderVars, wjob, unlinking>>

(* Delivered: _finalize_work_copy does with the work copy as the policy    *)
(* says; an archive move that finds no file counts as a failed clean-up.   *)
WorkerStores ==
  /\ worker = "storing"
  /\ worker' = IF Policy = "archive" /\ InboxHas(wjob) THEN "archived" ELSE "delivered"
  /\ IF Policy = "retain" THEN UNCHANGED inbox ELSE Take
  /\ UNCHANGED <<job, ipc, idoc, struck, hotfolderVars, wjob, unlinking>>

(* A mistake: what became of the work copy recorded as the job's status.   *)
SavedWithCopyState(row) ==
  [row EXCEPT !.status = worker,
              !.at = IF worker \in {"quarantined", "archived"} THEN "own" ELSE @]

(* save writes the copy if the row is still there.                         *)
Saved(row) ==
  [row EXCEPT !.status = IF worker = "archived" THEN "delivered" ELSE worker,
              !.at = IF worker \in {"quarantined", "archived"} THEN "own" ELSE @]

WorkerSaves ==
  /\ worker \in Outcomes
  /\ job' = IF Live(wjob) THEN [job EXCEPT ![wjob] = Saved(@)] ELSE job
  /\ worker' = "idle" /\ wjob' = Nothing
  /\ UNCHANGED <<inbox, ipc, idoc, struck, hotfolderVars, unlinking>>

WorkerStep ==
  \/ WorkerReads \/ WorkerMoves \/ WorkerStores \/ WorkerSaves
  \/ \E j \in Jobs : WorkerClaims(j)

----------------------------------------------------------------------------
(* delete_stalled_job commits first; delete_job unlinks the path that the  *)
(* row named afterwards.                                                   *)
DeleteRow(j) ==
  /\ job[j].status \in {"failed", "processing", "quarantined"}
  /\ job' = [job EXCEPT ![j].status = "deleted"]
  /\ unlinking' = unlinking \cup {j}
  /\ UNCHANGED <<inbox, ipc, idoc, struck, hotfolderVars, worker, wjob>>

DeleteFile(j) ==
  /\ j \in unlinking
  /\ inbox' = IF job[j].at = "inbox" THEN inbox \ {job[j].doc} ELSE inbox
  /\ unlinking' = unlinking \ {j}
  /\ UNCHANGED <<job, ipc, idoc, struck, hotfolderVars, worker, wjob>>

----------------------------------------------------------------------------
IngestRuns(p) == IngestStep(p) /\ UNCHANGED <<hotfolderVars, workVars>>

WatcherRuns == WatcherStep /\ UNCHANGED workVars

Next ==
  \/ \E u \in Uploads, d \in Docs : Upload(u, d)
  \/ \E p \in Ingests :
       \/ IngestRuns(p)
       \/ IngestFault(p) /\ UNCHANGED <<hotfolderVars, workVars>>
  \/ WatcherRuns
  \/ (WatcherFault \/ DeviceStep \/ AdminStep) /\ UNCHANGED workVars
  \/ WorkerStep
  \/ \E j \in Jobs : DeleteRow(j) \/ DeleteFile(j)
  \/ ApiCrash

Spec == Init /\ [][Next]_vars

(* Handlers and the watcher's loop run on; operators need not come.        *)
Fairness ==
  /\ \A p \in Ingests : WF_vars(IngestRuns(p))
  /\ WF_vars(WatcherRuns)

FairSpec == Spec /\ Fairness

----------------------------------------------------------------------------
(* Ingest keeps what Registry promises: each content is entered once,      *)
(* whoever brings it and in whatever order the steps of several ingests    *)
(* fall (find_by_hash, create_if_absent and its unique hash).              *)
Stored == {Content(job[j].doc) : j \in {k \in Jobs : Live(k)}}

Asked == [p \in Ingests |-> Content(idoc[p])]

AnswerAt(place) ==
  CASE place \in {"staged", "checked", "fresh", "placed", "conflict"} -> "open"
    [] place \in {"superfluous", "known", "duplicate"} -> "duplicate"
    [] place \in {"created", "new"} -> "new"
    [] OTHER -> "none"

Answers == [p \in Ingests |-> AnswerAt(ipc[p])]

R == INSTANCE Registry
       WITH Senders <- Ingests, stored <- Stored, asked <- Asked, answer <- Answers

RegistryKept == R!Spec

(* A job that waits has its document: neither a duplicate's clean-up nor a *)
(* failed ingest's takes the file of another ingest away.  What can take   *)
(* it: the clean-up after an error of the store, and the deletion of an    *)
(* earlier job with the same content, whose request or worker still uses   *)
(* the path when the document comes in again.                              *)
DeletedEarlier(j) ==
  \E k \in Jobs : job[k].status = "deleted" /\ Content(job[k].doc) = Content(job[j].doc)

WaitingHasFile ==
  struck["store"] = 0 =>
    \A j \in Jobs :
      job[j].status = "received" => InboxHas(j) \/ DeletedEarlier(j)

(* "Verlierer und Fehlerpfade entfernen ihre nicht referenzierten Dateien" *)
(* (ARCHITECTURE.md): a file in the inbox is named by a row, or someone is *)
(* still to remove it or to enter it, or a job has left it behind whose    *)
(* own copy was moved or discarded while the second one came in.           *)
Holds(p, d) ==
  idoc[p] = d /\ ipc[p] \in {"placed", "conflict", "superfluous", "failing", "unreferenced"}

NoFileUnnamed ==
  struck["store"] + struck["apiCrash"] = 0 =>
    \A d \in inbox :
      \/ \E j \in Jobs : (Live(j) \/ j \in unlinking) /\ job[j].doc = d
      \/ \E p \in Ingests : Holds(p, d)
      \/ \E j \in Jobs : job[j].doc = d /\ job[j].at = "own"

(* "Erst nachdem Arbeitskopie und Job sicher gespeichert sind, wird die    *)
(* Quelldatei aus dem Hotfolder entfernt" (STORAGE.md): a file leaves the  *)
(* folder only when its content has been entered, unless it is written     *)
(* again while it is taken in.                                             *)
SourceEnteredFirst ==
  [][struck["rewrite"] = 0 =>
       \A n \in Names :
         hot[n] # Nothing /\ hot'[n] = Nothing =>
           \E j \in Jobs : job[j].status # "unborn" /\ Content(job[j].doc) = hot[n]]_vars

----------------------------------------------------------------------------
(* An accepted file in the folder of an active channel is taken in, unless *)
(* a refused one lists before it: the watcher ends its pass there.         *)
Acceptable(n) == hot[n] \notin Refused \cup {Nothing}

RefusedBefore(n) == \E m \in Names : m < n /\ hot[m] \in Refused

FolderDrains ==
  \A n \in Names :
    []<>(~Acceptable(n) \/ RefusedBefore(n) \/ ~Collecting \/ wpc = "dead"
         \/ Cardinality(Open) >= Cardinality(Unborn))

(* "Deaktivieren pausiert die Abholung" (FRONTEND.md): a channel that is   *)
(* off, or deleted, comes on again only when the administrator saves it.   *)
OffStaysOff == [][~Collecting /\ Collecting' => apc = "editing" /\ apc' = "idle"]_vars
=============================================================================
