------------------------------- MODULE Ingest -------------------------------
(***************************************************************************)
(* DocumentPipeline.ingest: a document is staged and hashed, checked,      *)
(* looked up by its hash, moved to its place in the inbox and entered in   *)
(* the jobs table.  Uploads run it in the API's thread pool, the hotfolder *)
(* watcher in the event loop, all at the same time.                        *)
(*                                                                         *)
(* A document is a content and a file name; the first twelve digits of the *)
(* hash and the name make its path in the inbox, so two documents with the *)
(* same content and name share one path.  The staging file has a name of   *)
(* its own that nobody else touches: it is not shown.                      *)
(***************************************************************************)
EXTENDS Integers, FiniteSets

CONSTANTS
  Contents,   \* what documents say
  Refused,    \* those that fail the type check or the malware scan
  Names,      \* file names, numbered as the directory lists them
  Jobs,       \* job ids, numbered in the order of their creation
  Uploads,    \* upload requests
  Watcher,    \* the hotfolder watcher
  Nothing     \* a name without a file

ASSUME IntakeAssumption ==
  /\ Refused \subseteq Contents
  /\ Names \subseteq Nat /\ Jobs \subseteq Nat
  /\ Watcher \notin Uploads
  /\ Nothing \notin Contents \cup Names \cup Jobs
  /\ Contents # {} /\ Names # {}

CONSTANTS
  FaultBudget   \* how often each kind of fault may strike

FaultNames == {"store", "scanner", "apiCrash", "rewrite"}

ASSUME BudgetAssumption == FaultBudget \in [FaultNames -> Nat]

Ingests == Uploads \cup {Watcher}
Docs == Contents \X Names

VARIABLES
  job,      \* the jobs table; an id not given yet shows "unborn"
  inbox,    \* the documents whose inbox path holds a file
  ipc,      \* where each ingest stands
  idoc,     \* the document it takes in
  struck    \* how often each fault has struck

ingestVars == <<job, inbox, ipc, idoc, struck>>

JobStates ==
  {"unborn", "received", "processing", "quarantined", "delivered", "failed",
   "deleted"}

(* at: whether stored_path is the inbox path, or one that bears the id.    *)
JobRow == [status: JobStates, doc: Docs, at: {"inbox", "own"}]

IngestPlaces ==
  {"idle", "staged", "checked", "fresh", "placed", "conflict", "superfluous",
   "failing", "unreferenced", "known", "created", "duplicate", "new", "raised"}

IngestTypeOK ==
  /\ job \in [Jobs -> JobRow]
  /\ inbox \in SUBSET Docs
  /\ ipc \in [Ingests -> IngestPlaces]
  /\ idoc \in [Ingests -> Docs]
  /\ struck \in [FaultNames -> Nat]

(* What shows before there is a document.                                  *)
AnyDoc == CHOOSE d \in Docs : TRUE

IngestInit ==
  /\ job = [j \in Jobs |-> [status |-> "unborn", doc |-> AnyDoc, at |-> "inbox"]]
  /\ idoc = [p \in Ingests |-> AnyDoc]
  /\ inbox = {}
  /\ ipc = [p \in Ingests |-> "idle"]
  /\ struck = [k \in FaultNames |-> 0]

Strike(k) ==
  /\ struck[k] < FaultBudget[k]
  /\ struck' = [struck EXCEPT ![k] = @ + 1]

Content(d) == d[1]

Live(j) == job[j].status \notin {"unborn", "deleted"}

Unborn == {j \in Jobs : job[j].status = "unborn"}

Goto(p, place) == ipc' = [ipc EXCEPT ![p] = place]

OnlyGoto(p, place) == Goto(p, place) /\ UNCHANGED <<job, inbox, idoc, struck>>

----------------------------------------------------------------------------
(* Variants, as plausible mistakes would write the definitions below.      *)

HasHashAndName(j, d) == Live(j) /\ job[j].doc = d
StoredAnywhere(j, d) == FALSE
StoredAtAnyName(j, d) == job[j].at = "inbox" /\ Content(job[j].doc) = Content(d)

----------------------------------------------------------------------------
(* find_by_hash.                                                           *)
HasHash(j, d) == Live(j) /\ Content(job[j].doc) = Content(d)

Found(d) == {j \in Jobs : HasHash(j, d)}

(* stored_path of the row is the path this document has in the inbox.      *)
StoredAt(j, d) == job[j].at = "inbox" /\ job[j].doc = d

----------------------------------------------------------------------------
(* _stage_and_hash: from here on the ingest knows the bytes it has read.   *)
(* The ids left bound how many ingests may be under way.                   *)
Open == {p \in Ingests : ipc[p] \notin {"idle", "duplicate", "new", "raised"}}

Stage(p, d) ==
  /\ ipc[p] = "idle"
  /\ Cardinality(Open) < Cardinality(Unborn)
  /\ Goto(p, "staged")
  /\ idoc' = [idoc EXCEPT ![p] = d]
  /\ UNCHANGED <<job, inbox, struck>>

(* detect_and_validate_type, then the scan; a refusal raises.              *)
Check(p) ==
  /\ ipc[p] = "staged"
  /\ OnlyGoto(p, IF Content(idoc[p]) \in Refused THEN "raised" ELSE "checked")

ScannerFails(p) ==
  /\ ipc[p] = "staged"
  /\ Strike("scanner") /\ Goto(p, "raised")
  /\ UNCHANGED <<job, inbox, idoc>>

FindByHash(p) ==
  /\ ipc[p] = "checked"
  /\ OnlyGoto(p, IF Found(idoc[p]) # {} THEN "known" ELSE "fresh")

(* staged_path.replace(final_path): an older file there is replaced.       *)
Place(p) ==
  /\ ipc[p] = "fresh"
  /\ inbox' = inbox \cup {idoc[p]}
  /\ Goto(p, "placed")
  /\ UNCHANGED <<job, idoc, struck>>

(* create_if_absent inserts; the unique hash lets one of several win.      *)
Insert(p) ==
  /\ ipc[p] = "placed" /\ Found(idoc[p]) = {}
  /\ \E j \in Unborn :
       /\ \A k \in Unborn : j <= k
       /\ job' = [job EXCEPT ![j] =
                    [status |-> "received", doc |-> idoc[p], at |-> "inbox"]]
  /\ Goto(p, "created")
  /\ UNCHANGED <<inbox, idoc, struck>>

InsertConflicts(p) ==
  /\ ipc[p] = "placed" /\ Found(idoc[p]) # {}
  /\ OnlyGoto(p, "conflict")

(* After the rollback it selects the winner, which may be gone by then.    *)
(* The loser keeps the file if the winner's row names the same path.       *)
SelectWinner(p) ==
  /\ ipc[p] = "conflict"
  /\ \/ /\ Found(idoc[p]) = {}
        /\ OnlyGoto(p, "failing")
     \/ \E j \in Found(idoc[p]) :
          OnlyGoto(p, IF StoredAt(j, idoc[p]) THEN "known" ELSE "superfluous")

Unlink(p, place) ==
  /\ inbox' = inbox \ {idoc[p]}
  /\ Goto(p, place)
  /\ UNCHANGED <<job, idoc, struck>>

DropSuperfluous(p) == ipc[p] = "superfluous" /\ Unlink(p, "known")

(* create_if_absent raises: unless a row names the path, the file goes.    *)
FindAgain(p) ==
  /\ ipc[p] = "failing"
  /\ OnlyGoto(p, IF \E j \in Found(idoc[p]) : StoredAt(j, idoc[p])
                 THEN "raised" ELSE "unreferenced")

DropUnreferenced(p) == ipc[p] = "unreferenced" /\ Unlink(p, "raised")

(* The event "ingested" or "duplicate_detected"; the job is returned.      *)
Log(p) ==
  \/ ipc[p] = "created" /\ OnlyGoto(p, "new")
  \/ ipc[p] = "known" /\ OnlyGoto(p, "duplicate")

(* A call of the store raises.  Only create_if_absent has a handler, which *)
(* cannot tell whether the commit went through.                            *)
Unhandled == {"staged", "checked", "fresh", "failing", "created", "known"}

StoreFails(p) ==
  /\ Strike("store")
  /\ \/ ipc[p] \in Unhandled /\ Goto(p, "raised")
     \/ ipc[p] \in {"placed", "conflict", "created"} /\ Goto(p, "failing")
  /\ UNCHANGED <<job, inbox, idoc>>

IngestStep(p) ==
  \/ Check(p) \/ FindByHash(p) \/ Place(p) \/ Insert(p) \/ InsertConflicts(p)
  \/ SelectWinner(p) \/ DropSuperfluous(p) \/ FindAgain(p)
  \/ DropUnreferenced(p) \/ Log(p)

IngestFault(p) == ScannerFails(p) \/ StoreFails(p)
=============================================================================
