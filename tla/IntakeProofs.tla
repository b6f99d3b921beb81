---------------------------- MODULE IntakeProofs ----------------------------
(***************************************************************************)
(* For any contents, names, uploads, job ids and fault budgets: types; one *)
(* job for each content, so that Intake implements Registry; and what      *)
(* becomes of the files: a waiting job has its own, none is forgotten, and *)
(* none leaves the hotfolder before its content is in the table.           *)
(***************************************************************************)
EXTENDS Intake, TLAPS

LEMMA AnyDocTyped == AnyDoc \in Docs
<1>1. \E d \in Docs : TRUE
  <2>1. PICK c \in Contents, n \in Names : TRUE
    BY IntakeAssumption
  <2>2. <<c, n>> \in Docs
    BY DEF Docs
  <2> QED
    BY <2>2
<1> QED
  BY <1>1 DEF AnyDoc

(* A file the watcher has listed and not come to is still there.           *)
FolderSound ==
  /\ \A n \in todo : hot[n] # Nothing
  /\ wpc = "ingesting" => wname \notin todo

TypedFolder == TypeOK /\ FolderSound

(* Moving an ingest on, and striking a fault, keep types.                  *)
LEMMA GotoTyped ==
  ASSUME IngestTypeOK, NEW p \in Ingests, NEW place \in IngestPlaces, Goto(p, place)
  PROVE  ipc' \in [Ingests -> IngestPlaces]
BY DEF IngestTypeOK, Goto

LEMMA StrikeTyped ==
  ASSUME IngestTypeOK, NEW k \in FaultNames, Strike(k)
  PROVE  struck' \in [FaultNames -> Nat]
<1>1. struck[k] + 1 \in Nat
  BY DEF IngestTypeOK
<1> QED
  BY <1>1 DEF IngestTypeOK, Strike

LEMMA OnlyGotoTyped ==
  ASSUME IngestTypeOK, NEW p \in Ingests, NEW place \in IngestPlaces, OnlyGoto(p, place)
  PROVE  IngestTypeOK'
<1>1. ipc' \in [Ingests -> IngestPlaces]
  BY GotoTyped DEF OnlyGoto
<1> QED
  BY <1>1 DEF OnlyGoto, IngestTypeOK

LEMMA UnlinkTyped ==
  ASSUME IngestTypeOK, NEW p \in Ingests, NEW place \in IngestPlaces, Unlink(p, place)
  PROVE  IngestTypeOK'
<1>1. ipc' \in [Ingests -> IngestPlaces]
  BY GotoTyped DEF Unlink
<1> QED
  BY <1>1 DEF Unlink, IngestTypeOK

LEMMA StageTyped ==
  ASSUME IngestTypeOK, NEW p \in Ingests, NEW d \in Docs, Stage(p, d)
  PROVE  IngestTypeOK'
<1>1. ipc' \in [Ingests -> IngestPlaces]
  BY GotoTyped DEF Stage, IngestPlaces
<1> QED
  BY <1>1 DEF Stage, IngestTypeOK

LEMMA IngestStepTyped ==
  ASSUME IngestTypeOK, NEW p \in Ingests, IngestStep(p) \/ IngestFault(p)
  PROVE  IngestTypeOK'
<1>1. CASE Check(p) \/ FindByHash(p) \/ InsertConflicts(p) \/ FindAgain(p) \/ Log(p)
  <2>1. PICK place \in IngestPlaces : OnlyGoto(p, place)
    BY <1>1 DEF Check, FindByHash, InsertConflicts, FindAgain, Log, IngestPlaces
  <2> QED
    BY <2>1, OnlyGotoTyped
<1>2. CASE SelectWinner(p)
  <2>1. PICK place \in IngestPlaces : OnlyGoto(p, place)
    BY <1>2 DEF SelectWinner, IngestPlaces
  <2> QED
    BY <2>1, OnlyGotoTyped
<1>3. CASE DropSuperfluous(p) \/ DropUnreferenced(p)
  <2>1. PICK place \in IngestPlaces : Unlink(p, place)
    BY <1>3 DEF DropSuperfluous, DropUnreferenced, IngestPlaces
  <2> QED
    BY <2>1, UnlinkTyped
<1>4. CASE Place(p)
  <2>1. ipc' \in [Ingests -> IngestPlaces]
    BY <1>4, GotoTyped DEF Place, IngestPlaces
  <2>2. inbox' \in SUBSET Docs
    BY <1>4 DEF Place, IngestTypeOK
  <2> QED
    BY <1>4, <2>1, <2>2 DEF Place, IngestTypeOK
<1>5. CASE Insert(p)
  <2>1. ipc' \in [Ingests -> IngestPlaces]
    BY <1>5, GotoTyped DEF Insert, IngestPlaces
  <2>2. [status |-> "received", doc |-> idoc[p], at |-> "inbox"] \in JobRow
    BY DEF JobRow, JobStates, IngestTypeOK
  <2>3. job' \in [Jobs -> JobRow]
    BY <1>5, <2>2 DEF Insert, IngestTypeOK
  <2> QED
    BY <1>5, <2>1, <2>3 DEF Insert, IngestTypeOK
<1>6. CASE ScannerFails(p)
  <2>1. ipc' \in [Ingests -> IngestPlaces]
    BY <1>6, GotoTyped DEF ScannerFails, IngestPlaces
  <2>2. struck' \in [FaultNames -> Nat]
    BY <1>6, StrikeTyped DEF ScannerFails, FaultNames
  <2> QED
    BY <1>6, <2>1, <2>2 DEF ScannerFails, IngestTypeOK
<1>7. CASE StoreFails(p)
  <2>1. ipc' \in [Ingests -> IngestPlaces]
    BY <1>7, GotoTyped DEF StoreFails, IngestPlaces
  <2>2. struck' \in [FaultNames -> Nat]
    BY <1>7, StrikeTyped DEF StoreFails, FaultNames
  <2> QED
    BY <1>7, <2>1, <2>2 DEF StoreFails, IngestTypeOK
<1> QED
  BY <1>1, <1>2, <1>3, <1>4, <1>5, <1>6, <1>7 DEF IngestStep, IngestFault

----------------------------------------------------------------------------
LEMMA SaveChannelTyped ==
  ASSUME NEW enabled \in BOOLEAN, NEW error \in BOOLEAN, SaveChannel(enabled, error)
  PROVE  channel' \in ChannelRow
BY DEF SaveChannel, ChannelRow

LEMMA PickTyped ==
  ASSUME TypedFolder, NEW n \in Names, Pick(n), UNCHANGED workVars
  PROVE  TypedFolder'
<1>1. n \in todo /\ hot[n] # Nothing
  BY DEF Pick, TypedFolder, FolderSound
<1>2. <<hot[n], n>> \in Docs
  BY <1>1 DEF TypedFolder, TypeOK, HotfolderTypeOK, Docs
<1>3. IngestTypeOK'
  BY <1>2, StageTyped DEF Pick, TypedFolder, TypeOK, Ingests
<1>4. HotfolderTypeOK' /\ FolderSound'
  BY <1>1 DEF Pick, TypedFolder, TypeOK, HotfolderTypeOK, FolderSound, folderVars, adminVars
<1> QED
  BY <1>3, <1>4 DEF TypedFolder, TypeOK, workVars

LEMMA WatcherStepTyped ==
  ASSUME TypedFolder, WatcherStep, UNCHANGED workVars
  PROVE  TypedFolder'
<1> USE DEF TypedFolder, TypeOK
<1>1. CASE Wake
  BY <1>1 DEF Wake, IngestTypeOK, HotfolderTypeOK, FolderSound, ChannelRow,
     ingestVars, folderVars, adminVars, workVars
<1>2. CASE Remove
  <2>1. ipc' \in [Ingests -> IngestPlaces]
    BY <1>2, GotoTyped DEF Remove, IngestPlaces, Ingests
  <2>2. wname \in Names /\ wname \notin todo
    BY <1>2 DEF Remove, HotfolderTypeOK, FolderSound
  <2>3. IngestTypeOK'
    BY <1>2, <2>1 DEF Remove, IngestTypeOK
  <2>4. HotfolderTypeOK'
    BY <1>2, <2>2 DEF Remove, HotfolderTypeOK, adminVars
  <2>5. FolderSound'
    BY <1>2, <2>2 DEF Remove, HotfolderTypeOK, FolderSound
  <2> QED
    BY <2>3, <2>4, <2>5 DEF workVars
<1>3. CASE SaveTaken
  BY <1>3, SaveChannelTyped DEF SaveTaken, IngestTypeOK, HotfolderTypeOK, FolderSound,
     ingestVars, folderVars, adminVars, workVars
<1>4. CASE IngestRaised
  <2>1. ipc' \in [Ingests -> IngestPlaces]
    BY <1>4, GotoTyped DEF IngestRaised, IngestPlaces, Ingests
  <2> QED
    BY <1>4, <2>1 DEF IngestRaised, IngestTypeOK, HotfolderTypeOK, FolderSound,
       folderVars, adminVars, workVars
<1>5. CASE SaveError
  BY <1>5, SaveChannelTyped DEF SaveError, IngestTypeOK, HotfolderTypeOK, FolderSound,
     ingestVars, folderVars, adminVars, workVars
<1>6. CASE EndPass
  BY <1>6, SaveChannelTyped DEF EndPass, IngestTypeOK, HotfolderTypeOK, FolderSound,
     ingestVars, folderVars, adminVars, workVars
<1>7. CASE \E n \in Names : Pick(n)
  BY <1>7, PickTyped
<1> QED
  BY <1>1, <1>2, <1>3, <1>4, <1>5, <1>6, <1>7 DEF WatcherStep

LEMMA WatcherFaultTyped ==
  ASSUME TypedFolder, WatcherFault, UNCHANGED workVars
  PROVE  TypedFolder'
<1> USE DEF TypedFolder, TypeOK
<1>1. struck' \in [FaultNames -> Nat]
  BY StrikeTyped DEF WatcherFault, ListFails, SaveFails, FaultNames
<1>2. IngestTypeOK'
  BY <1>1 DEF WatcherFault, ListFails, SaveFails, IngestTypeOK
<1>3. HotfolderTypeOK' /\ FolderSound'
  BY DEF WatcherFault, ListFails, SaveFails, HotfolderTypeOK, FolderSound,
     folderVars, adminVars
<1> QED
  BY <1>2, <1>3 DEF workVars

LEMMA DeviceStepTyped ==
  ASSUME TypedFolder, DeviceStep, UNCHANGED workVars
  PROVE  TypedFolder'
<1> USE DEF TypedFolder, TypeOK
<1>1. PICK n \in Names, c \in Contents : Drop(n, c) \/ Rewrite(n, c)
  BY DEF DeviceStep
<1>2. hot' = [hot EXCEPT ![n] = c] /\ c # Nothing
  BY <1>1, IntakeAssumption DEF Drop, Rewrite
<1>3. IngestTypeOK'
  <2>1. CASE Drop(n, c)
    BY <2>1 DEF Drop, IngestTypeOK, ingestVars
  <2>2. CASE Rewrite(n, c)
    <3>1. struck' \in [FaultNames -> Nat]
      BY <2>2, StrikeTyped DEF Rewrite, FaultNames
    <3> QED
      BY <2>2, <3>1 DEF Rewrite, IngestTypeOK
  <2> QED
    BY <1>1, <2>1, <2>2
<1>4. drops' \in Nat
  BY <1>1 DEF Drop, Rewrite, HotfolderTypeOK
<1>5. UNCHANGED <<channel, watcherVars, adminVars>>
  BY <1>1 DEF Drop, Rewrite
<1>6. HotfolderTypeOK'
  BY <1>2, <1>4, <1>5 DEF HotfolderTypeOK, watcherVars, adminVars
<1>7. FolderSound'
  BY <1>2, <1>5 DEF HotfolderTypeOK, FolderSound, watcherVars
<1> QED
  BY <1>3, <1>6, <1>7 DEF workVars

LEMMA AdminStepTyped ==
  ASSUME TypedFolder, AdminStep, UNCHANGED workVars
  PROVE  TypedFolder'
<1> USE DEF TypedFolder, TypeOK
<1>1. UNCHANGED <<ingestVars, folderVars, watcherVars>>
  BY DEF AdminStep, AdminReads, AdminSaves, AdminDeletes
<1>2. channel' \in ChannelRow
  <2>1. CASE \E enabled \in BOOLEAN : AdminSaves(enabled)
    BY <2>1, SaveChannelTyped DEF AdminSaves, HotfolderTypeOK
  <2>2. CASE AdminReads
    BY <2>2 DEF AdminReads, HotfolderTypeOK
  <2>3. CASE AdminDeletes
    <3>1. channel' = [exists |-> FALSE, enabled |-> FALSE, error |-> FALSE]
      BY <2>3 DEF AdminDeletes
    <3> QED
      BY <3>1 DEF ChannelRow
  <2> QED
    BY <2>1, <2>2, <2>3 DEF AdminStep
<1>3. apc' \in {"idle", "editing"} /\ aerror' \in BOOLEAN /\ edits' \in Nat
  BY DEF AdminStep, AdminReads, AdminSaves, AdminDeletes, HotfolderTypeOK, ChannelRow
<1> QED
  BY <1>1, <1>2, <1>3 DEF IngestTypeOK, HotfolderTypeOK, FolderSound,
     ingestVars, folderVars, watcherVars, workVars

----------------------------------------------------------------------------
WorkTypeOK ==
  /\ worker \in {"idle", "reading", "moving", "storing"} \cup Outcomes
  /\ wjob \in Jobs \cup {Nothing}
  /\ worker # "idle" => wjob \in Jobs
  /\ unlinking \in SUBSET Jobs

LEMMA SavedTyped ==
  ASSUME NEW row \in JobRow, worker \in Outcomes
  PROVE  Saved(row) \in JobRow
BY DEF Saved, JobRow, JobStates, Outcomes

LEMMA WorkStepTyped ==
  ASSUME IngestTypeOK, WorkTypeOK,
         WorkerStep \/ \E j \in Jobs : DeleteRow(j) \/ DeleteFile(j)
  PROVE  IngestTypeOK' /\ WorkTypeOK' /\ UNCHANGED hotfolderVars
<1>1. CASE WorkerReads
  BY <1>1 DEF WorkerReads, IngestTypeOK, WorkTypeOK, Outcomes, ingestVars
<1>2. CASE WorkerMoves \/ WorkerStores
  BY <1>2 DEF WorkerMoves, WorkerStores, Take, IngestTypeOK, WorkTypeOK, Outcomes
<1>3. CASE WorkerSaves
  <2>1. wjob \in Jobs
    BY <1>3 DEF WorkerSaves, WorkTypeOK, Outcomes
  <2>2. Saved(job[wjob]) \in JobRow
    BY <1>3, <2>1, SavedTyped DEF WorkerSaves, IngestTypeOK
  <2>3. job' \in [Jobs -> JobRow]
    BY <1>3, <2>1, <2>2 DEF WorkerSaves, IngestTypeOK
  <2> QED
    BY <1>3, <2>3 DEF WorkerSaves, IngestTypeOK, WorkTypeOK
<1>4. CASE \E j \in Jobs : WorkerClaims(j)
  BY <1>4 DEF WorkerClaims, IngestTypeOK, WorkTypeOK, JobRow, JobStates
<1>5. CASE \E j \in Jobs : DeleteRow(j) \/ DeleteFile(j)
  BY <1>5 DEF DeleteRow, DeleteFile, IngestTypeOK, WorkTypeOK, JobRow, JobStates
<1> QED
  BY <1>1, <1>2, <1>3, <1>4, <1>5 DEF WorkerStep, WorkerReads, WorkerMoves,
     WorkerStores, WorkerSaves, WorkerClaims, DeleteRow, DeleteFile

LEMMA HotfolderStutters ==
  ASSUME HotfolderTypeOK, FolderSound, UNCHANGED hotfolderVars
  PROVE  HotfolderTypeOK' /\ FolderSound'
BY DEF HotfolderTypeOK, FolderSound, hotfolderVars, folderVars, watcherVars, adminVars

LEMMA ApiCrashTyped ==
  ASSUME TypedFolder, ApiCrash
  PROVE  TypedFolder'
<1> USE DEF TypedFolder, TypeOK
<1>1. struck' \in [FaultNames -> Nat]
  BY StrikeTyped DEF ApiCrash, FaultNames
<1>2. ipc' \in [Ingests -> IngestPlaces]
  BY DEF ApiCrash, IngestTypeOK, IngestPlaces
<1>3. IngestTypeOK'
  BY <1>1, <1>2 DEF ApiCrash, IngestTypeOK
<1> QED
  BY <1>3 DEF ApiCrash, HotfolderTypeOK, FolderSound, folderVars

----------------------------------------------------------------------------
LEMMA TypedFolderInit == Init => TypedFolder
<1> SUFFICES ASSUME Init PROVE TypedFolder
  OBVIOUS
<1>1. IngestTypeOK
  BY AnyDocTyped DEF Init, IngestInit, IngestTypeOK, JobRow, JobStates, IngestPlaces
<1>2. HotfolderTypeOK /\ FolderSound
  BY DEF Init, HotfolderInit, HotfolderTypeOK, FolderSound, ChannelRow
<1> QED
  BY <1>1, <1>2 DEF Init, TypedFolder, TypeOK

LEMMA TypedFolderStep == TypedFolder /\ [Next]_vars => TypedFolder'
<1> SUFFICES ASSUME TypedFolder, [Next]_vars PROVE TypedFolder'
  OBVIOUS
<1> USE DEF TypedFolder, TypeOK
<1>1. CASE \E u \in Uploads, d \in Docs : Upload(u, d)
  BY <1>1, StageTyped, HotfolderStutters DEF Upload, Ingests, workVars
<1>2. CASE \E p \in Ingests :
         (IngestStep(p) \/ IngestFault(p)) /\ UNCHANGED <<hotfolderVars, workVars>>
  BY <1>2, IngestStepTyped, HotfolderStutters DEF workVars
<1>3. CASE WatcherRuns
  BY <1>3, WatcherStepTyped DEF WatcherRuns
<1>4. CASE (WatcherFault \/ DeviceStep \/ AdminStep) /\ UNCHANGED workVars
  BY <1>4, WatcherFaultTyped, DeviceStepTyped, AdminStepTyped
<1>5. CASE WorkerStep \/ \E j \in Jobs : DeleteRow(j) \/ DeleteFile(j)
  BY <1>5, WorkStepTyped, HotfolderStutters DEF WorkTypeOK
<1>6. CASE ApiCrash
  BY <1>6, ApiCrashTyped
<1>7. CASE UNCHANGED vars
  BY <1>7, HotfolderStutters DEF vars, IngestTypeOK, ingestVars, workVars
<1> QED
  BY <1>1, <1>2, <1>3, <1>4, <1>5, <1>6, <1>7 DEF Next, IngestRuns

(* Every reachable state is well typed, whatever the contents, names, job  *)
(* ids, uploads and bounds (all of pipeline.ingest, watch_hotfolder and    *)
(* those who move or delete what they have put into the inbox).            *)
THEOREM IntakeTypeCorrect == Spec => []TypeOK
<1>1. TypedFolder => TypeOK
  BY DEF TypedFolder
<1> QED
  BY <1>1, TypedFolderInit, TypedFolderStep, PTL DEF Spec

----------------------------------------------------------------------------
(* Intake implements Registry.  Beside the types the mapping needs one     *)
(* fact about the table, OnePerContent: only then does deleting a row take *)
(* its content out of the registry.                                        *)

(* The unique constraint on sha256, as a fact about reachable states.      *)
OnePerContent ==
  \A j, k \in Jobs :
    Live(j) /\ Live(k) /\ Content(job[j].doc) = Content(job[k].doc) => j = k

(* Every step but an insertion keeps the documents and revives no row.     *)
OnlyDies == \A j \in Jobs : Live(j)' => Live(j) /\ job'[j].doc = job[j].doc

LEMMA DyingKeepsOne ==
  ASSUME OnePerContent, OnlyDies
  PROVE  OnePerContent'
BY DEF OnePerContent, OnlyDies

LEMMA SavedKeepsDoc ==
  ASSUME NEW row \in JobRow, worker \in Outcomes
  PROVE  Saved(row).doc = row.doc /\ Saved(row).status \notin {"unborn", "deleted"}
BY DEF Saved, JobRow, Outcomes

(* Who changes the jobs table, and how.                                    *)
LEMMA TableChanges ==
  ASSUME [Next]_vars
  PROVE  \/ UNCHANGED job
         \/ WorkerSaves
         \/ \E j \in Jobs : WorkerClaims(j) \/ DeleteRow(j)
         \/ \E p \in Ingests : Insert(p)
<1>1. CASE \E u \in Uploads, d \in Docs : Upload(u, d)
  BY <1>1 DEF Upload, Stage
<1>2. CASE \E p \in Ingests : IngestRuns(p)
  BY <1>2 DEF IngestRuns, IngestStep, Check, FindByHash, Place, InsertConflicts,
     SelectWinner, DropSuperfluous, FindAgain, DropUnreferenced, Log, Unlink, OnlyGoto
<1>3. CASE \E p \in Ingests : IngestFault(p)
  BY <1>3 DEF IngestFault, ScannerFails, StoreFails
<1>4. CASE WatcherRuns
  BY <1>4 DEF WatcherRuns, WatcherStep, Wake, Pick, Stage, Remove, SaveTaken,
     IngestRaised, SaveError, EndPass, ingestVars
<1>5. CASE WatcherFault \/ DeviceStep \/ AdminStep
  BY <1>5 DEF WatcherFault, ListFails, SaveFails, DeviceStep, Drop, Rewrite,
     AdminStep, AdminReads, AdminSaves, AdminDeletes, ingestVars
<1>6. CASE WorkerReads \/ WorkerMoves \/ WorkerStores
  BY <1>6 DEF WorkerReads, WorkerMoves, WorkerStores, ingestVars
<1>7. CASE ApiCrash \/ \E j \in Jobs : DeleteFile(j)
  BY <1>7 DEF ApiCrash, DeleteFile
<1>8. CASE UNCHANGED vars
  BY <1>8 DEF vars, ingestVars
<1> QED
  BY <1>1, <1>2, <1>3, <1>4, <1>5, <1>6, <1>7, <1>8 DEF Next, WorkerStep

LEMMA TableSteps ==
  ASSUME TypedFolder, [Next]_vars
  PROVE  \/ \E p \in Ingests : Insert(p)
         \/ \E j \in Jobs : DeleteRow(j)
         \/ \A j \in Jobs : Live(j)' = Live(j) /\ job'[j].doc = job[j].doc
<1>1. CASE UNCHANGED job
  BY <1>1 DEF Live
<1>2. CASE WorkerSaves
  <2>1. wjob \in Jobs /\ job \in [Jobs -> JobRow] /\ worker \in Outcomes
    BY <1>2 DEF WorkerSaves, TypedFolder, TypeOK, IngestTypeOK, Outcomes
  <2>2. Saved(job[wjob]).doc = job[wjob].doc
        /\ Saved(job[wjob]).status \notin {"unborn", "deleted"}
    BY <2>1, SavedKeepsDoc
  <2>3. job' = IF Live(wjob) THEN [job EXCEPT ![wjob] = Saved(job[wjob])] ELSE job
    BY <1>2 DEF WorkerSaves
  <2> QED
    BY <2>1, <2>2, <2>3 DEF Live
<1>3. CASE \E j \in Jobs : WorkerClaims(j)
  BY <1>3 DEF WorkerClaims, Live, TypedFolder, TypeOK, IngestTypeOK, JobRow
<1> QED
  BY <1>1, <1>2, <1>3, TableChanges

LEMMA OnePerContentInit == Init => OnePerContent
BY DEF Init, IngestInit, OnePerContent, Live

LEMMA OnePerContentStep ==
  ASSUME TypedFolder, OnePerContent, [Next]_vars
  PROVE  OnePerContent'
<1>1. CASE \E p \in Ingests : Insert(p)
  <2>1. PICK p \in Ingests : Insert(p)
    BY <1>1
  <2>2. PICK j \in Jobs :
          job' = [job EXCEPT ![j] =
                    [status |-> "received", doc |-> idoc[p], at |-> "inbox"]]
    BY <2>1 DEF Insert, Unborn
  <2>3. \A k \in Jobs : Live(k) => Content(job[k].doc) # Content(idoc[p])
    BY <2>1 DEF Insert, Found, HasHash
  <2>4. job'[j].doc = idoc[p]
    BY <2>2 DEF TypedFolder, TypeOK, IngestTypeOK
  <2>5. \A k \in Jobs : k # j => job'[k] = job[k] /\ Live(k)' = Live(k)
    BY <2>2 DEF TypedFolder, TypeOK, IngestTypeOK, Live
  <2> QED
    BY <2>3, <2>4, <2>5 DEF OnePerContent
<1>2. CASE \E j \in Jobs : DeleteRow(j)
  <2>1. OnlyDies
    BY <1>2 DEF OnlyDies, DeleteRow, Live, TypedFolder, TypeOK, IngestTypeOK
  <2> QED
    BY <2>1, DyingKeepsOne
<1>3. CASE \A j \in Jobs : Live(j)' = Live(j) /\ job'[j].doc = job[j].doc
  BY <1>3, DyingKeepsOne DEF OnlyDies
<1> QED
  BY <1>1, <1>2, <1>3, TableSteps

----------------------------------------------------------------------------
(* What the places of an ingest say to the registry.                       *)
LEMMA AnswerTable ==
  /\ \A place \in {"staged", "checked", "fresh", "placed", "conflict"} :
       AnswerAt(place) = "open"
  /\ \A place \in {"superfluous", "known", "duplicate"} : AnswerAt(place) = "duplicate"
  /\ \A place \in {"created", "new"} : AnswerAt(place) = "new"
  /\ \A place \in {"idle", "failing", "unreferenced", "raised"} : AnswerAt(place) = "none"
BY DEF AnswerAt

LEMMA AskedTyped ==
  ASSUME IngestTypeOK
  PROVE  /\ \A p \in Ingests : Content(idoc[p]) \in Contents
         /\ \A j \in Jobs : Content(job[j].doc) \in Contents
<1>1. \A d \in Docs : Content(d) \in Contents
  BY DEF Docs, Content
<1>2. \A p \in Ingests : idoc[p] \in Docs
  BY DEF IngestTypeOK
<1>3. \A j \in Jobs : job[j].doc \in Docs
  BY DEF IngestTypeOK, JobRow
<1> QED
  BY <1>1, <1>2, <1>3

LEMMA GoesOn ==
  ASSUME IngestTypeOK, NEW p \in Ingests, NEW place, Goto(p, place), UNCHANGED idoc
  PROVE  /\ Asked' = Asked
         /\ Answers' = [Answers EXCEPT ![p] = AnswerAt(place)]
         /\ Answers[p] = AnswerAt(ipc[p])
<1>1. ipc' = [ipc EXCEPT ![p] = place] /\ ipc \in [Ingests -> IngestPlaces]
  BY DEF Goto, IngestTypeOK
<1>2. \A q \in Ingests : ipc'[q] = IF q = p THEN place ELSE ipc[q]
  BY <1>1
<1>3. Answers' = [q \in Ingests |-> AnswerAt(ipc'[q])]
  BY DEF Answers, AnswerAt
<1>4. Answers' = [Answers EXCEPT ![p] = AnswerAt(place)]
  BY <1>2, <1>3 DEF Answers
<1> QED
  BY <1>4 DEF Answers, Asked

LEMMA StoredKept ==
  ASSUME \A j \in Jobs : Live(j)' = Live(j) /\ job'[j].doc = job[j].doc
  PROVE  Stored' = Stored
BY DEF Stored

(* The three kinds of steps of one ingest that enter nothing.              *)
LEMMA SameAnswer ==
  ASSUME IngestTypeOK, NEW p \in Ingests, NEW place, Goto(p, place), UNCHANGED idoc,
         Stored' = Stored, AnswerAt(place) = AnswerAt(ipc[p])
  PROVE  UNCHANGED R!registryVars
<1>1. Answers' = Answers
  BY GoesOn DEF Answers
<1> QED
  BY <1>1, GoesOn DEF R!registryVars

LEMMA ErrorAnswer ==
  ASSUME IngestTypeOK, NEW p \in Ingests, NEW place, Goto(p, place), UNCHANGED idoc,
         Stored' = Stored, AnswerAt(place) = "none"
  PROVE  R!Fail
<1>1. Answers' = [s \in Ingests |-> IF s \in {p} THEN "none" ELSE Answers[s]]
  <2>1. Answers' = [Answers EXCEPT ![p] = "none"]
    BY GoesOn
  <2>2. Answers = [s \in Ingests |-> Answers[s]]
    BY DEF Answers
  <2> QED
    BY <2>1, <2>2
<1>2. {p} \in SUBSET Ingests
  OBVIOUS
<1> QED
  BY <1>1, <1>2, GoesOn DEF R!Fail

LEMMA DuplicateAnswer ==
  ASSUME IngestTypeOK, NEW p \in Ingests, NEW place, Goto(p, place), UNCHANGED idoc,
         Stored' = Stored, Found(idoc[p]) # {},
         AnswerAt(ipc[p]) = "open", AnswerAt(place) = "duplicate"
  PROVE  R!Recognize(p)
<1>1. Asked[p] \in Stored
  BY DEF Asked, Stored, Found, HasHash
<1> QED
  BY <1>1, GoesOn DEF R!Recognize

----------------------------------------------------------------------------
LEMMA StageHandsIn ==
  ASSUME IngestTypeOK, NEW p \in Ingests, NEW d \in Docs, Stage(p, d)
  PROVE  R!HandIn(p, Content(d)) /\ Content(d) \in Contents
<1>1. idoc' = [idoc EXCEPT ![p] = d] /\ idoc \in [Ingests -> Docs]
  BY DEF Stage, IngestTypeOK
<1>2. Asked' = [Asked EXCEPT ![p] = Content(d)]
  <2>1. \A q \in Ingests : idoc'[q] = IF q = p THEN d ELSE idoc[q]
    BY <1>1
  <2>2. Asked' = [q \in Ingests |-> Content(idoc'[q])]
    BY DEF Asked, Content
  <2> QED
    BY <2>1, <2>2 DEF Asked
<1>3. ipc' = [ipc EXCEPT ![p] = "staged"] /\ ipc \in [Ingests -> IngestPlaces]
  BY DEF Stage, Goto, IngestTypeOK
<1>4. Answers' = [Answers EXCEPT ![p] = "open"]
  <2>1. \A q \in Ingests : ipc'[q] = IF q = p THEN "staged" ELSE ipc[q]
    BY <1>3
  <2>2. Answers' = [q \in Ingests |-> AnswerAt(ipc'[q])]
    BY DEF Answers, AnswerAt
  <2> QED
    BY <2>1, <2>2, AnswerTable DEF Answers
<1>5. Stored' = Stored
  BY StoredKept DEF Stage, Live
<1>6. Content(d) \in Contents
  BY DEF Docs, Content
<1> QED
  BY <1>2, <1>4, <1>5, <1>6 DEF R!HandIn

(* An insertion that finds no row with its hash enters a new content.      *)
LEMMA InsertAccepts ==
  ASSUME IngestTypeOK, NEW p \in Ingests, Insert(p)
  PROVE  R!Accept(p)
<1>1. PICK j \in Jobs :
        /\ job[j].status = "unborn"
        /\ job' = [job EXCEPT ![j] =
                     [status |-> "received", doc |-> idoc[p], at |-> "inbox"]]
  BY DEF Insert, Unborn
<1>2. Asked[p] \notin Stored
  BY DEF Insert, Found, HasHash, Asked, Stored
<1>3. Stored' = Stored \cup {Asked[p]}
  <2>1. job \in [Jobs -> JobRow]
    BY DEF IngestTypeOK
  <2>2. job'[j].doc = idoc[p] /\ Live(j)' /\ ~Live(j)
    BY <1>1, <2>1 DEF Live
  <2>3. \A k \in Jobs : k # j => job'[k].doc = job[k].doc /\ Live(k)' = Live(k)
    BY <1>1, <2>1 DEF Live
  <2>4. Stored' = {Content(job'[k].doc) : k \in {i \in Jobs : Live(i)'}}
    BY DEF Stored, Live, Content
  <2> QED
    BY <2>2, <2>3, <2>4 DEF Stored, Asked
<1>4. Goto(p, "created") /\ UNCHANGED idoc /\ ipc[p] = "placed"
  BY DEF Insert
<1> QED
  BY <1>2, <1>3, <1>4, GoesOn, AnswerTable DEF R!Accept

(* Deleting a row forgets its content, which no other row has.             *)
LEMMA DeletionForgets ==
  ASSUME IngestTypeOK, OnePerContent, NEW j \in Jobs, DeleteRow(j)
  PROVE  R!Forget(Content(job[j].doc))
<1>1. job \in [Jobs -> JobRow] /\ job' = [job EXCEPT ![j].status = "deleted"]
  BY DEF DeleteRow, IngestTypeOK
<1>2. Live(j) /\ ~Live(j)'
  BY <1>1 DEF DeleteRow, Live
<1>3. \A k \in Jobs : k # j => job'[k].doc = job[k].doc /\ Live(k)' = Live(k)
  BY <1>1 DEF Live
<1>4. Stored' = {Content(job'[k].doc) : k \in {i \in Jobs : Live(i)'}}
  BY DEF Stored, Live, Content
<1>5. \A k \in Jobs : Live(k) /\ k # j => Content(job[k].doc) # Content(job[j].doc)
  BY <1>2 DEF OnePerContent
<1>6. Stored' = Stored \ {Content(job[j].doc)}
  BY <1>2, <1>3, <1>4, <1>5 DEF Stored
<1>7. Asked' = Asked /\ Answers' = Answers
  BY DEF DeleteRow, Asked, Answers, Content, AnswerAt
<1> QED
  BY <1>6, <1>7 DEF R!Forget

----------------------------------------------------------------------------
RegistryStep == R!Next \/ UNCHANGED R!registryVars

LEMMA IngestStepMaps ==
  ASSUME IngestTypeOK, NEW p \in Ingests, IngestStep(p) \/ IngestFault(p)
  PROVE  RegistryStep
<1>1. UNCHANGED job => Stored' = Stored
  BY DEF Stored, Live, Content
<1>2. CASE Check(p) \/ ScannerFails(p)
  <2>1. PICK place \in {"checked", "raised"} :
          Goto(p, place) /\ UNCHANGED <<job, idoc>> /\ ipc[p] = "staged"
    BY <1>2 DEF Check, ScannerFails, OnlyGoto
  <2> QED
    BY <1>1, <2>1, AnswerTable, SameAnswer, ErrorAnswer DEF RegistryStep, R!Next
<1>3. CASE FindByHash(p)
  <2>1. PICK place \in {"known", "fresh"} :
          /\ Goto(p, place) /\ UNCHANGED <<job, idoc>> /\ ipc[p] = "checked"
          /\ place = "known" => Found(idoc[p]) # {}
    BY <1>3 DEF FindByHash, OnlyGoto
  <2>2. CASE place = "known"
    BY <1>1, <2>1, <2>2, AnswerTable, DuplicateAnswer DEF RegistryStep, R!Next
  <2>3. CASE place = "fresh"
    BY <1>1, <2>1, <2>3, AnswerTable, SameAnswer DEF RegistryStep
  <2> QED
    BY <2>1, <2>2, <2>3
<1>4. CASE Place(p) \/ InsertConflicts(p)
  <2>1. PICK place \in {"placed", "conflict"} :
          /\ Goto(p, place) /\ UNCHANGED <<job, idoc>>
          /\ ipc[p] \in {"fresh", "placed"}
    BY <1>4 DEF Place, InsertConflicts, OnlyGoto
  <2> QED
    BY <1>1, <2>1, AnswerTable, SameAnswer DEF RegistryStep
<1>5. CASE Insert(p)
  BY <1>5, InsertAccepts DEF RegistryStep, R!Next
<1>6. CASE SelectWinner(p)
  <2>1. PICK place \in {"failing", "known", "superfluous"} :
          /\ Goto(p, place) /\ UNCHANGED <<job, idoc>> /\ ipc[p] = "conflict"
          /\ place # "failing" => Found(idoc[p]) # {}
    BY <1>6 DEF SelectWinner, OnlyGoto
  <2>2. CASE place = "failing"
    BY <1>1, <2>1, <2>2, AnswerTable, ErrorAnswer DEF RegistryStep, R!Next
  <2>3. CASE place # "failing"
    BY <1>1, <2>1, <2>3, AnswerTable, DuplicateAnswer DEF RegistryStep, R!Next
  <2> QED
    BY <2>2, <2>3
<1>7. CASE DropSuperfluous(p) \/ Log(p)
  <2>1. PICK place \in {"known", "new", "duplicate"} :
          /\ Goto(p, place) /\ UNCHANGED <<job, idoc>>
          /\ ipc[p] \in {"superfluous", "known", "created"}
          /\ place = "new" <=> ipc[p] = "created"
    BY <1>7 DEF DropSuperfluous, Unlink, Log, OnlyGoto
  <2>2. AnswerAt(place) = AnswerAt(ipc[p])
    BY <2>1, AnswerTable
  <2> QED
    BY <1>1, <2>1, <2>2, SameAnswer DEF RegistryStep
<1>8. CASE FindAgain(p) \/ DropUnreferenced(p) \/ StoreFails(p)
  <2>1. PICK place \in {"raised", "unreferenced", "failing"} :
          Goto(p, place) /\ UNCHANGED <<job, idoc>>
    BY <1>8 DEF FindAgain, DropUnreferenced, Unlink, StoreFails, OnlyGoto
  <2> QED
    BY <1>1, <2>1, AnswerTable, ErrorAnswer DEF RegistryStep, R!Next
<1> QED
  BY <1>2, <1>3, <1>4, <1>5, <1>6, <1>7, <1>8 DEF IngestStep, IngestFault

(* A step that touches no ingest and keeps the rows' documents.            *)
LEMMA QuietStep ==
  ASSUME UNCHANGED <<ipc, idoc>>,
         \A j \in Jobs : Live(j)' = Live(j) /\ job'[j].doc = job[j].doc
  PROVE  UNCHANGED R!registryVars
<1>1. Stored' = Stored
  BY StoredKept
<1>2. Asked' = Asked /\ Answers' = Answers
  BY DEF Asked, Answers, Content, AnswerAt
<1> QED
  BY <1>1, <1>2 DEF R!registryVars

LEMMA ApiCrashMaps ==
  ASSUME IngestTypeOK, ApiCrash
  PROVE  R!Fail
<1> DEFINE S == Open \cup {Watcher}
<1>1. S \in SUBSET Ingests
  BY DEF Open, Ingests
<1>2. \A p \in Ingests : ipc'[p] = IF p = Watcher THEN "idle"
                                  ELSE IF p \in Open THEN "raised" ELSE ipc[p]
  BY DEF ApiCrash
<1>3. \A p \in Ingests :
        AnswerAt(ipc'[p]) = IF p \in S THEN "none" ELSE AnswerAt(ipc[p])
  BY <1>2, AnswerTable
<1>4. Answers' = [p \in Ingests |-> AnswerAt(ipc'[p])]
  BY DEF Answers, AnswerAt
<1>5. \A p \in Ingests : Answers[p] = AnswerAt(ipc[p])
  BY DEF Answers
<1>6. Answers' = [p \in Ingests |-> IF p \in S THEN "none" ELSE Answers[p]]
  BY <1>3, <1>4, <1>5
<1>7. Stored' = Stored /\ Asked' = Asked
  BY DEF ApiCrash, Stored, Live, Asked, Content
<1> QED
  BY <1>1, <1>6, <1>7 DEF R!Fail

LEMMA WatcherMaps ==
  ASSUME TypedFolder, WatcherStep
  PROVE  RegistryStep
<1> USE DEF TypedFolder, TypeOK
<1>1. CASE \E n \in Names : Pick(n)
  <2>1. PICK n \in Names : Pick(n)
    BY <1>1
  <2>2. <<hot[n], n>> \in Docs
    BY <2>1 DEF Pick, FolderSound, HotfolderTypeOK, Docs
  <2>3. Stage(Watcher, <<hot[n], n>>)
    BY <2>1 DEF Pick
  <2> QED
    BY <2>2, <2>3, StageHandsIn DEF RegistryStep, R!Next, Ingests
<1>2. CASE Remove \/ IngestRaised
  <2>1. Goto(Watcher, "idle") /\ UNCHANGED <<job, idoc>>
    BY <1>2 DEF Remove, IngestRaised
  <2>2. Stored' = Stored
    BY <2>1 DEF Stored, Live, Content
  <2> QED
    BY <2>1, <2>2, AnswerTable, ErrorAnswer DEF RegistryStep, R!Next, Ingests
<1>3. CASE Wake \/ SaveTaken \/ SaveError \/ EndPass
  <2>1. UNCHANGED <<job, ipc, idoc>>
    BY <1>3 DEF Wake, SaveTaken, SaveError, EndPass, ingestVars
  <2> QED
    BY <2>1, QuietStep DEF Live, RegistryStep
<1> QED
  BY <1>1, <1>2, <1>3 DEF WatcherStep

LEMMA StepMaps ==
  ASSUME TypedFolder, OnePerContent, [Next]_vars
  PROVE  RegistryStep
<1> USE DEF TypedFolder, TypeOK
<1>1. CASE \E u \in Uploads, d \in Docs : Upload(u, d)
  BY <1>1, StageHandsIn DEF Upload, Ingests, RegistryStep, R!Next
<1>2. CASE \E p \in Ingests : IngestStep(p) \/ IngestFault(p)
  BY <1>2, IngestStepMaps
<1>3. CASE WatcherRuns
  BY <1>3, WatcherMaps DEF WatcherRuns
<1>4. CASE \E j \in Jobs : DeleteRow(j)
  BY <1>4, DeletionForgets, AskedTyped DEF RegistryStep, R!Next
<1>5. CASE ApiCrash
  BY <1>5, ApiCrashMaps DEF RegistryStep, R!Next
<1>6. CASE \/ WatcherFault \/ DeviceStep \/ AdminStep \/ WorkerStep
           \/ (\E j \in Jobs : DeleteFile(j)) \/ UNCHANGED vars
  <2>1. UNCHANGED <<ipc, idoc>>
    <3>1. CASE WatcherFault \/ DeviceStep \/ AdminStep
      BY <3>1 DEF WatcherFault, ListFails, SaveFails, DeviceStep, Drop, Rewrite,
         AdminStep, AdminReads, AdminSaves, AdminDeletes, ingestVars
    <3>2. CASE WorkerStep \/ (\E j \in Jobs : DeleteFile(j)) \/ UNCHANGED vars
      BY <3>2 DEF WorkerStep, WorkerReads, WorkerMoves, WorkerStores, WorkerSaves,
         WorkerClaims, DeleteFile, vars, ingestVars
    <3> QED
      BY <1>6, <3>1, <3>2
  <2>2. CASE \A j \in Jobs : Live(j)' = Live(j) /\ job'[j].doc = job[j].doc
    BY <2>1, <2>2, QuietStep DEF RegistryStep
  <2>3. CASE \E p \in Ingests : Insert(p)
    BY <2>3, IngestStepMaps DEF IngestStep
  <2>4. CASE \E j \in Jobs : DeleteRow(j)
    BY <2>4, <1>4
  <2> QED
    BY <2>2, <2>3, <2>4, TableSteps
<1> QED
  BY <1>1, <1>2, <1>3, <1>4, <1>5, <1>6 DEF Next, IngestRuns

LEMMA InitMaps == Init => R!Init
<1> SUFFICES ASSUME Init PROVE R!Init
  OBVIOUS
<1>1. Stored = {}
  BY DEF Init, IngestInit, Stored, Live
<1>2. IngestTypeOK
  BY TypedFolderInit DEF TypedFolder, TypeOK
<1>3. Asked \in [Ingests -> Contents]
  BY <1>2, AskedTyped DEF Asked
<1>4. Answers = [p \in Ingests |-> "none"]
  <2>1. \A p \in Ingests : ipc[p] = "idle"
    BY DEF Init, IngestInit
  <2> QED
    BY <2>1, AnswerTable DEF Answers
<1> QED
  BY <1>1, <1>3, <1>4 DEF R!Init

(* No content ever has two jobs, although several ingests look its hash up *)
(* before any of them inserts it (find_by_hash, create_if_absent).         *)
THEOREM OneJobForEachContent == Spec => []OnePerContent
<1>1. TypedFolder /\ OnePerContent /\ [Next]_vars => (TypedFolder /\ OnePerContent)'
  BY TypedFolderStep, OnePerContentStep
<1> QED
  BY <1>1, TypedFolderInit, OnePerContentInit, PTL DEF Spec

(* Whatever uploads, the watcher, workers, deletions, errors of the store  *)
(* and crashes do between its steps, ingest answers as the registry does:  *)
(* "new" for a content without a job, "duplicate" for one that has a job   *)
(* at some moment of the request, and every other answer is an error.      *)
THEOREM IngestImplementsRegistry == Spec => RegistryKept
<1>1. TypedFolder /\ OnePerContent /\ [Next]_vars => [R!Next]_(R!registryVars)
  BY StepMaps DEF RegistryStep
<1>2. Spec => [](TypedFolder /\ OnePerContent)
  <2>1. TypedFolder /\ OnePerContent /\ [Next]_vars => (TypedFolder /\ OnePerContent)'
    BY TypedFolderStep, OnePerContentStep
  <2> QED
    BY <2>1, TypedFolderInit, OnePerContentInit, PTL DEF Spec
<1> QED
  BY <1>1, <1>2, InitMaps, PTL DEF Spec, RegistryKept, R!Spec
----------------------------------------------------------------------------
(* The files of the inbox: what has to be known of the rows and of the     *)
(* ingests under way, so that nobody removes a file that is needed, or     *)
(* leaves one that is not.                                                 *)

(* A content that has, or had, a job; one whose job was deleted; and one   *)
(* whose job is deleted or keeps its copy under another name.              *)
Known(d) == \E j \in Jobs : job[j].status # "unborn" /\ Content(job[j].doc) = Content(d)

Gone(d) == \E j \in Jobs : job[j].status = "deleted" /\ Content(job[j].doc) = Content(d)

Elsewhere(d) == Gone(d) \/ \E j \in Found(d) : ~StoredAt(j, d)

RowsInv ==
  /\ \A j \in Jobs :
       /\ job[j].status \in {"unborn", "received"} => job[j].at = "inbox"
       /\ j \in unlinking => job[j].status = "deleted"
  /\ worker # "idle" => job[wjob].status \in {"processing", "deleted"}

(* An ingest removes the file only of a content whose job is elsewhere,    *)
(* and tells nobody of a job before there is one.                          *)
IngestSound(p) ==
  /\ ipc[p] \in {"conflict", "superfluous", "known", "duplicate", "created", "new"} =>
       Known(idoc[p])
  /\ ipc[p] = "placed" => struck["store"] > 0 \/ idoc[p] \in inbox \/ Known(idoc[p])
  /\ ipc[p] = "superfluous" => Elsewhere(idoc[p])
  /\ ipc[p] \in {"failing", "unreferenced"} => struck["store"] > 0 \/ Gone(idoc[p])

InboxInv == RowsInv /\ \A p \in Ingests : IngestSound(p)

----------------------------------------------------------------------------
(* What every step keeps of a row, and of what is known through the rows.  *)
RowGoesOn(j) ==
  /\ job[j].status # "unborn" => job'[j].status # "unborn" /\ job'[j].doc = job[j].doc
  /\ job[j].status = "deleted" => job'[j].status = "deleted"
  /\ job[j].at = "own" => job'[j].at = "own"

LEMMA SavedKeepsPlace ==
  ASSUME NEW row \in JobRow, worker \in Outcomes
  PROVE  Saved(row).status # "received" /\ (row.at = "own" => Saved(row).at = "own")
BY DEF Saved, JobRow, Outcomes

LEMMA InsertedRow ==
  ASSUME IngestTypeOK, NEW p \in Ingests, Insert(p)
  PROVE  \E j \in Unborn :
           /\ \A k \in Jobs : k # j => job'[k] = job[k]
           /\ job'[j] = [status |-> "received", doc |-> idoc[p], at |-> "inbox"]
BY DEF Insert, Unborn, IngestTypeOK

LEMMA RowsGoOn ==
  ASSUME TypedFolder, RowsInv, [Next]_vars, NEW j \in Jobs
  PROVE  RowGoesOn(j)
<1>a. job \in [Jobs -> JobRow] /\ IngestTypeOK
  BY DEF TypedFolder, TypeOK, IngestTypeOK
<1>1. CASE UNCHANGED job
  BY <1>1 DEF RowGoesOn
<1>2. CASE WorkerSaves
  <2>1. wjob \in Jobs /\ worker \in Outcomes
    BY <1>2 DEF WorkerSaves, TypedFolder, TypeOK, Outcomes
  <2>2. /\ Saved(job[wjob]).doc = job[wjob].doc
        /\ Saved(job[wjob]).status # "unborn"
        /\ job[wjob].at = "own" => Saved(job[wjob]).at = "own"
    BY <1>a, <2>1, SavedKeepsDoc, SavedKeepsPlace
  <2>3. job' = IF Live(wjob) THEN [job EXCEPT ![wjob] = Saved(job[wjob])] ELSE job
    BY <1>2 DEF WorkerSaves
  <2>4. CASE j = wjob /\ Live(wjob)
    BY <1>a, <2>2, <2>3, <2>4 DEF Live, RowGoesOn
  <2>5. CASE ~(j = wjob /\ Live(wjob))
    BY <1>a, <2>1, <2>3, <2>5 DEF RowGoesOn
  <2> QED
    BY <2>4, <2>5
<1>3. CASE \E k \in Jobs : WorkerClaims(k)
  BY <1>3, <1>a DEF WorkerClaims, RowGoesOn, JobRow
<1>4. CASE \E k \in Jobs : DeleteRow(k)
  BY <1>4, <1>a DEF DeleteRow, RowGoesOn, JobRow
<1>5. CASE \E p \in Ingests : Insert(p)
  BY <1>5, <1>a, InsertedRow DEF Unborn, RowGoesOn, RowsInv
<1> QED
  BY <1>1, <1>2, <1>3, <1>4, <1>5, TableChanges

LEMMA KnowledgeKept ==
  ASSUME TypedFolder, RowsInv, [Next]_vars, NEW p \in Ingests, idoc'[p] = idoc[p]
  PROVE  /\ Known(idoc[p]) => Known(idoc[p])'
         /\ Gone(idoc[p]) => Gone(idoc[p])'
         /\ Elsewhere(idoc[p]) => Elsewhere(idoc[p])'
<1>a. \A j \in Jobs : RowGoesOn(j)
  BY RowsGoOn
<1>1. Known(idoc[p]) => Known(idoc[p])'
  BY <1>a DEF Known, Content, RowGoesOn
<1>2. Gone(idoc[p]) => Gone(idoc[p])'
  BY <1>a DEF Gone, Content, RowGoesOn
<1>3. ASSUME NEW j \in Found(idoc[p]), ~StoredAt(j, idoc[p]) PROVE Elsewhere(idoc[p])'
  <2>1. /\ j \in Jobs /\ job[j].status \notin {"unborn", "deleted"}
        /\ Content(job[j].doc) = Content(idoc[p])
        /\ job[j].at # "inbox" \/ job[j].doc # idoc[p]
    BY <1>3 DEF Found, HasHash, Live, StoredAt
  <2>2. /\ job'[j].status # "unborn" /\ job'[j].doc = job[j].doc
        /\ job'[j].at # "inbox" \/ job'[j].doc # idoc'[p]
    BY <1>a, <2>1 DEF RowGoesOn, TypedFolder, TypeOK, IngestTypeOK, JobRow
  <2>3. CASE job'[j].status = "deleted"
    BY <2>1, <2>2, <2>3 DEF Elsewhere, Gone, Content
  <2>4. CASE job'[j].status # "deleted"
    BY <2>1, <2>2, <2>4 DEF Elsewhere, Found, HasHash, Live, StoredAt, Content
  <2> QED
    BY <2>3, <2>4
<1> QED
  BY <1>1, <1>2, <1>3 DEF Elsewhere

(* Who takes files out of the inbox.                                       *)
LEMMA InboxShrinks ==
  ASSUME [Next]_vars, NEW d \in inbox, d \notin inbox'
  PROVE  \/ \E p \in Ingests : ipc[p] \in {"superfluous", "unreferenced"} /\ d = idoc[p]
         \/ worker # "idle" /\ d = job[wjob].doc
         \/ \E j \in unlinking : j \in Jobs /\ d = job[j].doc
<1>1. CASE \E u \in Uploads, e \in Docs : Upload(u, e)
  BY <1>1 DEF Upload, Stage
<1>2. CASE \E p \in Ingests : IngestRuns(p)
  BY <1>2 DEF IngestRuns, IngestStep, Check, FindByHash, Place, Insert, InsertConflicts,
     SelectWinner, DropSuperfluous, FindAgain, DropUnreferenced, Log, Unlink, OnlyGoto
<1>3. CASE \E p \in Ingests : IngestFault(p)
  BY <1>3 DEF IngestFault, ScannerFails, StoreFails
<1>4. CASE WatcherRuns
  BY <1>4 DEF WatcherRuns, WatcherStep, Wake, Pick, Stage, Remove, SaveTaken,
     IngestRaised, SaveError, EndPass, ingestVars
<1>5. CASE WatcherFault \/ DeviceStep \/ AdminStep
  BY <1>5 DEF WatcherFault, ListFails, SaveFails, DeviceStep, Drop, Rewrite,
     AdminStep, AdminReads, AdminSaves, AdminDeletes, ingestVars
<1>6. CASE WorkerStep
  BY <1>6 DEF WorkerStep, WorkerReads, WorkerMoves, WorkerStores, WorkerSaves, WorkerClaims,
     Take, ingestVars
<1>7. CASE ApiCrash \/ \E j \in Jobs : DeleteRow(j) \/ DeleteFile(j)
  BY <1>7 DEF ApiCrash, DeleteRow, DeleteFile
<1>8. CASE UNCHANGED vars
  BY <1>8 DEF vars, ingestVars
<1> QED
  BY <1>1, <1>2, <1>3, <1>4, <1>5, <1>6, <1>7, <1>8 DEF Next

(* Of a content they take, every row is deleted, in processing, or has its *)
(* copy under another name.                                                *)
LEMMA FileTaken ==
  ASSUME TypedFolder, InboxInv, [Next]_vars, NEW d \in inbox, d \notin inbox'
  PROVE  \/ struck["store"] > 0
         \/ Elsewhere(d)
         \/ \E j \in Found(d) : job[j].status = "processing"
<1>1. CASE \E p \in Ingests : ipc[p] \in {"superfluous", "unreferenced"} /\ d = idoc[p]
  BY <1>1 DEF InboxInv, IngestSound, Elsewhere
<1>2. CASE worker # "idle" /\ d = job[wjob].doc
  <2>1. wjob \in Jobs /\ job[wjob].status \in {"processing", "deleted"}
    BY <1>2 DEF TypedFolder, TypeOK, InboxInv, RowsInv
  <2> QED
    BY <1>2, <2>1 DEF Elsewhere, Gone, Found, HasHash, Live
<1>3. CASE \E j \in unlinking : j \in Jobs /\ d = job[j].doc
  BY <1>3 DEF InboxInv, RowsInv, Elsewhere, Gone
<1> QED
  BY <1>1, <1>2, <1>3, InboxShrinks

LEMMA StrikesCounted ==
  ASSUME TypedFolder, [Next]_vars, NEW k \in FaultNames
  PROVE  struck[k] \in Nat /\ struck'[k] \in Nat /\ struck[k] <= struck'[k]
<1>a. struck \in [FaultNames -> Nat] /\ struck[k] \in Nat
  BY DEF TypedFolder, TypeOK, IngestTypeOK
<1>b. ASSUME UNCHANGED struck \/ \E i \in FaultNames : Strike(i)
      PROVE  struck'[k] \in Nat /\ struck[k] <= struck'[k]
  BY <1>a, <1>b DEF Strike
<1>1. CASE \E u \in Uploads, e \in Docs : Upload(u, e)
  BY <1>1, <1>a, <1>b DEF Upload, Stage
<1>2. CASE \E p \in Ingests : IngestRuns(p)
  BY <1>2, <1>a, <1>b DEF IngestRuns, IngestStep, Check, FindByHash, Place, Insert, InsertConflicts,
     SelectWinner, DropSuperfluous, FindAgain, DropUnreferenced, Log, Unlink, OnlyGoto
<1>3. CASE \E p \in Ingests : IngestFault(p)
  BY <1>3, <1>a, <1>b DEF IngestFault, ScannerFails, StoreFails, FaultNames
<1>4. CASE WatcherRuns
  BY <1>4, <1>a, <1>b DEF WatcherRuns, WatcherStep, Wake, Pick, Stage, Remove, SaveTaken,
     IngestRaised, SaveError, EndPass, ingestVars
<1>5. CASE WatcherFault \/ DeviceStep \/ AdminStep
  BY <1>5, <1>a, <1>b DEF WatcherFault, ListFails, SaveFails, DeviceStep, Drop, Rewrite,
     AdminStep, AdminReads, AdminSaves, AdminDeletes, ingestVars, FaultNames
<1>6. CASE WorkerStep
  BY <1>6, <1>a, <1>b DEF WorkerStep, WorkerReads, WorkerMoves, WorkerStores, WorkerSaves, WorkerClaims,
     Take, ingestVars
<1>7. CASE ApiCrash \/ \E j \in Jobs : DeleteRow(j) \/ DeleteFile(j)
  BY <1>7, <1>a, <1>b DEF ApiCrash, DeleteRow, DeleteFile, FaultNames
<1>8. CASE UNCHANGED vars
  BY <1>8, <1>a, <1>b DEF vars, ingestVars
<1> QED
  BY <1>a, <1>1, <1>2, <1>3, <1>4, <1>5, <1>6, <1>7, <1>8 DEF Next

----------------------------------------------------------------------------
(* Most steps touch neither the rows nor the worker and the deletions.     *)
LEMMA WorkKept ==
  ASSUME [Next]_vars
  PROVE  \/ UNCHANGED <<job, workVars>>
         \/ (\E p \in Ingests : Insert(p)) /\ UNCHANGED workVars
         \/ WorkerStep
         \/ \E j \in Jobs : DeleteRow(j) \/ DeleteFile(j)
         \/ ApiCrash
<1>1. CASE WorkerStep \/ ApiCrash \/ \E j \in Jobs : DeleteRow(j) \/ DeleteFile(j)
  BY <1>1
<1>2. CASE UNCHANGED vars
  BY <1>2 DEF vars, ingestVars
<1>3. CASE UNCHANGED workVars
  <2>1. WorkerSaves \/ (\E j \in Jobs : WorkerClaims(j) \/ DeleteRow(j)) =>
          WorkerStep \/ \E j \in Jobs : DeleteRow(j)
    BY DEF WorkerStep
  <2> QED
    BY <1>3, <2>1, TableChanges
<1>4. ASSUME Next, ~(WorkerStep \/ ApiCrash \/ \E j \in Jobs : DeleteRow(j) \/ DeleteFile(j))
      PROVE  UNCHANGED workVars
  BY <1>4 DEF Next, Upload, IngestRuns, WatcherRuns
<1> QED
  BY <1>1, <1>2, <1>3, <1>4

LEMMA RowsInvStep ==
  ASSUME TypedFolder, RowsInv, [Next]_vars
  PROVE  RowsInv'
<1>a. /\ job \in [Jobs -> JobRow] /\ IngestTypeOK /\ TypeOK
      /\ unlinking \subseteq Jobs
  BY DEF TypedFolder, TypeOK, IngestTypeOK
<1>b. \A j \in Jobs : RowGoesOn(j)
  BY RowsGoOn
<1>1. CASE UNCHANGED <<job, workVars>>
  BY <1>1 DEF RowsInv, workVars
<1>2. CASE (\E p \in Ingests : Insert(p)) /\ UNCHANGED workVars
  <2>1. PICK p \in Ingests : Insert(p)
    BY <1>2
  <2>2. PICK j \in Unborn :
           /\ \A k \in Jobs : k # j => job'[k] = job[k]
           /\ job'[j] = [status |-> "received", doc |-> idoc[p], at |-> "inbox"]
    BY <1>a, <2>1, InsertedRow
  <2>3. /\ j \in Jobs /\ job[j].status = "unborn"
        /\ job'[j].status = "received" /\ job'[j].at = "inbox"
    BY <2>2 DEF Unborn
  <2>4. j \notin unlinking /\ (worker # "idle" => wjob \in Jobs /\ wjob # j)
    BY <1>a, <2>3 DEF RowsInv, TypeOK
  <2> QED
    BY <1>2, <2>2, <2>3, <2>4 DEF RowsInv, workVars
<1>3. CASE WorkerStep
  <2>1. CASE WorkerReads \/ WorkerMoves \/ WorkerStores
    <3>1. UNCHANGED <<job, wjob, unlinking>> /\ worker # "idle"
      BY <2>1 DEF WorkerReads, WorkerMoves, WorkerStores, ingestVars
    <3> QED
      BY <3>1 DEF RowsInv
  <2>2. CASE WorkerSaves
    <3>1. wjob \in Jobs /\ worker \in Outcomes
      BY <1>a, <2>2 DEF WorkerSaves, TypeOK, Outcomes
    <3>2. Saved(job[wjob]).status \notin {"unborn", "received"}
      BY <1>a, <3>1, SavedKeepsDoc, SavedKeepsPlace
    <3>3. /\ job' = IF Live(wjob) THEN [job EXCEPT ![wjob] = Saved(job[wjob])] ELSE job
          /\ worker' = "idle" /\ UNCHANGED unlinking
      BY <2>2 DEF WorkerSaves
    <3>4. \A j \in Jobs : job'[j] = job[j] \/ job'[j].status \notin {"unborn", "received"}
      BY <1>a, <3>1, <3>2, <3>3
    <3> QED
      BY <1>a, <1>b, <3>3, <3>4 DEF RowsInv, RowGoesOn
  <2>3. ASSUME NEW j \in Jobs, WorkerClaims(j) PROVE RowsInv'
    BY <1>a, <2>3 DEF WorkerClaims, RowsInv, JobRow
  <2> QED
    BY <1>3, <2>1, <2>2, <2>3 DEF WorkerStep
<1>4. ASSUME NEW j \in Jobs, DeleteRow(j) PROVE RowsInv'
  <2>1. /\ job' = [job EXCEPT ![j].status = "deleted"]
        /\ unlinking' = unlinking \cup {j} /\ UNCHANGED <<worker, wjob>>
    BY <1>4 DEF DeleteRow
  <2>2. /\ job'[j].status = "deleted"
        /\ \A k \in Jobs : k # j => job'[k] = job[k]
    BY <1>a, <2>1 DEF JobRow
  <2> QED
    BY <1>a, <2>1, <2>2 DEF RowsInv, TypeOK
<1>5. ASSUME NEW j \in Jobs, DeleteFile(j) PROVE RowsInv'
  BY <1>5 DEF DeleteFile, RowsInv
<1>6. CASE ApiCrash
  BY <1>6 DEF ApiCrash, RowsInv
<1> QED
  BY <1>1, <1>2, <1>3, <1>4, <1>5, <1>6, WorkKept

----------------------------------------------------------------------------
(* An ingest that others' steps leave where it is stays sound.             *)
LEMMA IngestStays ==
  ASSUME TypedFolder, InboxInv, [Next]_vars, NEW p \in Ingests,
         ipc'[p] = ipc[p], idoc'[p] = idoc[p]
  PROVE  IngestSound(p)'
<1>a. IngestSound(p) /\ RowsInv
  BY DEF InboxInv
<1>b. /\ Known(idoc[p]) => Known(idoc[p])'
      /\ Gone(idoc[p]) => Gone(idoc[p])'
      /\ Elsewhere(idoc[p]) => Elsewhere(idoc[p])'
  BY <1>a, KnowledgeKept
<1>c. struck["store"] > 0 => struck'["store"] > 0
  BY StrikesCounted DEF FaultNames
<1>1. ASSUME idoc[p] \in inbox, idoc[p] \notin inbox'
      PROVE  struck["store"] > 0 \/ Known(idoc[p])
  BY <1>1, FileTaken DEF Elsewhere, Gone, Known, Found, HasHash, Live
<1> QED
  BY <1>a, <1>b, <1>c, <1>1 DEF IngestSound

LEMMA GoesThere ==
  ASSUME IngestTypeOK, NEW p \in Ingests, NEW place, Goto(p, place)
  PROVE  ipc'[p] = place /\ \A q \in Ingests : q # p => ipc'[q] = ipc[q]
BY DEF Goto, IngestTypeOK

(* Where an ingest need not know anything.                                 *)
Early == {"idle", "staged", "checked", "fresh", "raised"}

LEMMA IngestStepSound ==
  ASSUME TypedFolder, InboxInv, [Next]_vars, NEW p \in Ingests, IngestStep(p) \/ IngestFault(p)
  PROVE  IngestSound(p)'
<1>a. IngestSound(p) /\ RowsInv /\ IngestTypeOK
  BY DEF InboxInv, TypedFolder, TypeOK
<1>b. UNCHANGED idoc
  BY DEF IngestStep, IngestFault, Check, FindByHash, Place, Insert, InsertConflicts, SelectWinner,
         DropSuperfluous, FindAgain, DropUnreferenced, Log, ScannerFails, StoreFails, OnlyGoto, Unlink
<1>c. /\ Known(idoc[p]) => Known(idoc[p])'
      /\ Gone(idoc[p]) => Gone(idoc[p])'
      /\ Elsewhere(idoc[p]) => Elsewhere(idoc[p])'
  BY <1>a, <1>b, KnowledgeKept
<1>d. struck["store"] \in Nat /\ struck'["store"] \in Nat /\ struck["store"] <= struck'["store"]
  BY StrikesCounted DEF FaultNames
<1>e. ASSUME NEW place \in Early, Goto(p, place) PROVE IngestSound(p)'
  BY <1>a, <1>e, GoesThere DEF IngestSound, Early
<1>1. CASE Check(p) \/ ScannerFails(p)
  <2>1. PICK place \in Early : Goto(p, place)
    BY <1>1 DEF Check, ScannerFails, OnlyGoto, Early
  <2> QED
    BY <1>e, <2>1
<1>2. CASE FindByHash(p)
  <2>1. CASE Goto(p, "fresh")
    BY <1>e, <2>1 DEF Early
  <2>2. CASE Goto(p, "known") /\ Found(idoc[p]) # {}
    <3>1. Known(idoc[p])
      BY <2>2 DEF Known, Found, HasHash, Live
    <3> QED
      BY <1>a, <1>c, <2>2, <3>1, GoesThere DEF IngestSound
  <2> QED
    BY <1>2, <2>1, <2>2 DEF FindByHash, OnlyGoto
<1>3. CASE Place(p)
  <2>1. Goto(p, "placed") /\ idoc'[p] \in inbox'
    BY <1>3 DEF Place
  <2> QED
    BY <1>a, <2>1, GoesThere DEF IngestSound
<1>4. CASE Insert(p)
  <2>1. PICK j \in Unborn : job'[j] = [status |-> "received", doc |-> idoc[p], at |-> "inbox"]
    BY <1>4, <1>a, InsertedRow
  <2>2. Known(idoc[p])'
    BY <1>b, <2>1 DEF Known, Content, Unborn
  <2>3. Goto(p, "created")
    BY <1>4 DEF Insert
  <2> QED
    BY <1>a, <2>2, <2>3, GoesThere DEF IngestSound
<1>5. CASE InsertConflicts(p)
  <2>1. Known(idoc[p]) /\ Goto(p, "conflict")
    BY <1>5 DEF InsertConflicts, OnlyGoto, Known, Found, HasHash, Live
  <2> QED
    BY <1>a, <1>c, <2>1, GoesThere DEF IngestSound
<1>6. CASE SelectWinner(p)
  <2>1. Known(idoc[p])
    BY <1>6, <1>a DEF SelectWinner, IngestSound
  <2>2. CASE Found(idoc[p]) = {} /\ Goto(p, "failing")
    <3>1. Gone(idoc[p])
      BY <2>1, <2>2 DEF Known, Gone, Found, HasHash, Live
    <3> QED
      BY <1>a, <1>c, <2>2, <3>1, GoesThere DEF IngestSound
  <2>3. CASE Goto(p, "known")
    BY <1>a, <1>c, <2>1, <2>3, GoesThere DEF IngestSound
  <2>4. CASE Goto(p, "superfluous") /\ \E j \in Found(idoc[p]) : ~StoredAt(j, idoc[p])
    <3>1. Elsewhere(idoc[p])
      BY <2>4 DEF Elsewhere
    <3> QED
      BY <1>a, <1>c, <2>1, <2>4, <3>1, GoesThere DEF IngestSound
  <2> QED
    BY <1>6, <2>2, <2>3, <2>4 DEF SelectWinner, OnlyGoto
<1>7. CASE DropSuperfluous(p) \/ Log(p)
  <2>1. Known(idoc[p])
    BY <1>7, <1>a DEF DropSuperfluous, Log, IngestSound
  <2>2. Goto(p, "known") \/ Goto(p, "new") \/ Goto(p, "duplicate")
    BY <1>7 DEF DropSuperfluous, Log, Unlink, OnlyGoto
  <2> QED
    BY <1>a, <1>c, <2>1, <2>2, GoesThere DEF IngestSound
<1>8. CASE FindAgain(p) \/ DropUnreferenced(p)
  <2>1. Goto(p, "raised") \/ (ipc[p] = "failing" /\ Goto(p, "unreferenced"))
    BY <1>8 DEF FindAgain, DropUnreferenced, OnlyGoto, Unlink
  <2>2. CASE Goto(p, "raised")
    BY <1>e, <2>2 DEF Early
  <2>3. CASE ipc[p] = "failing" /\ Goto(p, "unreferenced")
    BY <1>a, <1>c, <1>d, <2>3, GoesThere DEF IngestSound
  <2> QED
    BY <2>1, <2>2, <2>3
<1>9. CASE StoreFails(p)
  <2>1. struck'["store"] = struck["store"] + 1
    BY <1>9, <1>a DEF StoreFails, Strike, IngestTypeOK, FaultNames
  <2>2. Goto(p, "raised") \/ Goto(p, "failing")
    BY <1>9 DEF StoreFails
  <2> QED
    BY <1>a, <1>d, <2>1, <2>2, GoesThere DEF IngestSound
<1> QED
  BY <1>1, <1>2, <1>3, <1>4, <1>5, <1>6, <1>7, <1>8, <1>9 DEF IngestStep, IngestFault

(* Whose step it is.                                                       *)
LEMMA WhoseStep ==
  ASSUME TypedFolder, [Next]_vars, NEW p \in Ingests
  PROVE  \/ ipc'[p] = ipc[p] /\ idoc'[p] = idoc[p]
         \/ IngestStep(p) \/ IngestFault(p)
         \/ ipc[p] = "idle" /\ ipc'[p] = "staged"
         \/ ipc[p] \in {"duplicate", "new", "raised"} /\ ipc'[p] = "idle" /\ idoc'[p] = idoc[p]
         \/ ApiCrash /\ ipc'[p] \in Early \cup {"duplicate", "new"} /\ idoc'[p] = idoc[p]
            /\ (ipc'[p] # ipc[p] => ipc'[p] \in Early)
<1>a. IngestTypeOK
  BY DEF TypedFolder, TypeOK
<1>b. ASSUME NEW q \in Ingests, q # p, NEW place, Goto(q, place), UNCHANGED idoc
      PROVE  ipc'[p] = ipc[p] /\ idoc'[p] = idoc[p]
  BY <1>a, <1>b, GoesThere
<1>c. ASSUME NEW q \in Ingests, NEW d, Stage(q, d)
      PROVE  \/ ipc'[p] = ipc[p] /\ idoc'[p] = idoc[p]
             \/ ipc[p] = "idle" /\ ipc'[p] = "staged"
  BY <1>a, <1>c, GoesThere DEF Stage, IngestTypeOK
<1>1. CASE \E u \in Uploads, e \in Docs : Upload(u, e)
  BY <1>1, <1>c DEF Upload, Ingests
<1>2. ASSUME NEW q \in Ingests, IngestStep(q) \/ IngestFault(q), q # p
      PROVE  ipc'[p] = ipc[p] /\ idoc'[p] = idoc[p]
  <2>1. UNCHANGED idoc /\ \E place \in IngestPlaces : Goto(q, place)
    BY <1>2 DEF IngestStep, IngestFault, Check, FindByHash, Place, Insert, InsertConflicts, SelectWinner,
         DropSuperfluous, FindAgain, DropUnreferenced, Log, ScannerFails, StoreFails, OnlyGoto, Unlink,
         IngestPlaces
  <2> QED
    BY <1>2, <1>b, <2>1
<1>3. CASE WatcherRuns
  <2>1. CASE \E n \in Names : Pick(n)
    BY <1>c, <2>1 DEF Pick, Ingests
  <2>2. CASE Remove \/ IngestRaised
    BY <1>a, <2>2, GoesThere DEF Remove, IngestRaised, Ingests
  <2>3. CASE Wake \/ SaveTaken \/ SaveError \/ EndPass
    BY <2>3 DEF Wake, SaveTaken, SaveError, EndPass, ingestVars
  <2> QED
    BY <1>3, <2>1, <2>2, <2>3 DEF WatcherRuns, WatcherStep
<1>4. CASE WatcherFault \/ DeviceStep \/ AdminStep
  BY <1>4 DEF WatcherFault, ListFails, SaveFails, DeviceStep, Drop, Rewrite,
     AdminStep, AdminReads, AdminSaves, AdminDeletes, ingestVars
<1>5. CASE WorkerStep
  BY <1>5 DEF WorkerStep, WorkerReads, WorkerMoves, WorkerStores, WorkerSaves, WorkerClaims, ingestVars
<1>6. CASE \E j \in Jobs : DeleteRow(j) \/ DeleteFile(j)
  BY <1>6 DEF DeleteRow, DeleteFile
<1>7. CASE ApiCrash
  <2>1. /\ ipc'[p] = IF p = Watcher THEN "idle" ELSE IF p \in Open THEN "raised" ELSE ipc[p]
        /\ UNCHANGED idoc
    BY <1>7 DEF ApiCrash
  <2> QED
    BY <1>7, <2>1 DEF Open, Early
<1>8. CASE UNCHANGED vars
  BY <1>8 DEF vars, ingestVars
<1> QED
  BY <1>1, <1>2, <1>3, <1>4, <1>5, <1>6, <1>7, <1>8 DEF Next, IngestRuns

LEMMA InboxInvStep ==
  ASSUME TypedFolder, InboxInv, [Next]_vars
  PROVE  InboxInv'
<1>1. RowsInv'
  BY RowsInvStep DEF InboxInv
<1>2. ASSUME NEW p \in Ingests PROVE IngestSound(p)'
  <2>1. CASE ipc'[p] = ipc[p] /\ idoc'[p] = idoc[p]
    BY <2>1, IngestStays
  <2>2. CASE IngestStep(p) \/ IngestFault(p)
    BY <2>2, IngestStepSound
  <2>3. CASE ipc'[p] \in Early
    BY <2>3 DEF Early, IngestSound
  <2> QED
    BY <2>1, <2>2, <2>3, WhoseStep DEF Early
<1> QED
  BY <1>1, <1>2 DEF InboxInv

LEMMA InboxInvInit == Init => InboxInv
BY DEF Init, IngestInit, InboxInv, RowsInv, IngestSound

----------------------------------------------------------------------------
(* A job begins to wait by being inserted, and never again.                *)
LEMMA BeginsToWait ==
  ASSUME TypedFolder, [Next]_vars, NEW j \in Jobs, job[j].status # "received",
         job'[j].status = "received"
  PROVE  \E p \in Ingests : Insert(p) /\ job[j].status = "unborn" /\ job'[j].doc = idoc[p]
<1>a. job \in [Jobs -> JobRow] /\ IngestTypeOK
  BY DEF TypedFolder, TypeOK, IngestTypeOK
<1>1. ~UNCHANGED job
  OBVIOUS
<1>2. ~WorkerSaves
  <2>1. SUFFICES ASSUME WorkerSaves PROVE FALSE
    OBVIOUS
  <2>2. wjob \in Jobs /\ worker \in Outcomes
    BY <2>1 DEF WorkerSaves, TypedFolder, TypeOK, Outcomes
  <2>3. Saved(job[wjob]).status # "received"
    BY <1>a, <2>2, SavedKeepsPlace
  <2>4. job' = IF Live(wjob) THEN [job EXCEPT ![wjob] = Saved(job[wjob])] ELSE job
    BY <2>1 DEF WorkerSaves
  <2> QED
    BY <1>a, <2>2, <2>3, <2>4
<1>3. ~\E k \in Jobs : WorkerClaims(k) \/ DeleteRow(k)
  BY <1>a DEF WorkerClaims, DeleteRow, JobRow
<1>4. ASSUME NEW p \in Ingests, Insert(p)
      PROVE  job[j].status = "unborn" /\ job'[j].doc = idoc[p]
  <2>1. PICK k \in Unborn :
          /\ \A i \in Jobs : i # k => job'[i] = job[i]
          /\ job'[k] = [status |-> "received", doc |-> idoc[p], at |-> "inbox"]
    BY <1>a, <1>4, InsertedRow
  <2>2. j = k
    BY <2>1
  <2> QED
    BY <2>1, <2>2 DEF Unborn
<1> QED
  BY <1>1, <1>2, <1>3, <1>4, TableChanges

LEMMA WaitingStep ==
  ASSUME TypedFolder, OnePerContent, InboxInv, WaitingHasFile, [Next]_vars
  PROVE  WaitingHasFile'
<1> SUFFICES ASSUME struck'["store"] = 0, NEW j \in Jobs, job'[j].status = "received"
             PROVE  job'[j].doc \in inbox'
                    \/ \E k \in Jobs : /\ job'[k].status = "deleted"
                                       /\ Content(job'[k].doc) = Content(job'[j].doc)
  BY DEF WaitingHasFile, InboxHas, DeletedEarlier, Content
<1>a. struck["store"] = 0
  BY StrikesCounted DEF FaultNames
<1>b. RowsInv /\ \A k \in Jobs : RowGoesOn(k)
  BY RowsGoOn DEF InboxInv
<1>1. CASE job[j].status = "received"
  <2>1. job'[j].doc = job[j].doc /\ job[j].at = "inbox"
    BY <1>b, <1>1 DEF RowGoesOn, RowsInv
  <2>2. CASE Gone(job[j].doc)
    BY <1>b, <2>1, <2>2 DEF Gone, RowGoesOn
  <2>3. CASE job[j].doc \in inbox /\ job[j].doc \notin inbox'
    <3>1. \/ Elsewhere(job[j].doc)
          \/ \E k \in Found(job[j].doc) : job[k].status = "processing"
      BY <1>a, <2>3, FileTaken
    <3>2. \A k \in Found(job[j].doc) : k = j
      BY <1>1 DEF Found, HasHash, Live, OnePerContent
    <3>3. Gone(job[j].doc)
      BY <1>1, <2>1, <3>1, <3>2 DEF Elsewhere, StoredAt
    <3> QED
      BY <2>2, <3>3
  <2>4. job[j].doc \in inbox \/ Gone(job[j].doc)
    BY <1>a, <1>1 DEF WaitingHasFile, InboxHas, DeletedEarlier, Gone
  <2> QED
    BY <2>1, <2>2, <2>3, <2>4
<1>2. CASE job[j].status # "received"
  <2>1. PICK p \in Ingests : Insert(p) /\ job[j].status = "unborn" /\ job'[j].doc = idoc[p]
    BY <1>2, BeginsToWait
  <2>2. /\ ipc[p] = "placed" /\ inbox' = inbox /\ Found(idoc[p]) = {}
    BY <2>1 DEF Insert
  <2>3. CASE idoc[p] \in inbox
    BY <2>1, <2>2, <2>3
  <2>4. CASE Known(idoc[p])
    <3>1. PICK k \in Jobs : job[k].status # "unborn" /\ Content(job[k].doc) = Content(idoc[p])
      BY <2>4 DEF Known
    <3>2. job[k].status = "deleted"
      BY <2>2, <3>1 DEF Found, HasHash, Live
    <3> QED
      BY <1>b, <2>1, <3>1, <3>2 DEF RowGoesOn
  <2> QED
    BY <1>a, <2>2, <2>3, <2>4 DEF InboxInv, IngestSound
<1> QED
  BY <1>1, <1>2

(* A job that waits to be processed has its document in the inbox, unless  *)
(* a call of the store failed or a job with the same content has been      *)
(* deleted: whatever uploads and the watcher bring at the same time, no    *)
(* loser of the race for the hash removes the winner's file                *)
(* (pipeline.ingest, _cleanup_unreferenced_ingest_file).                   *)
THEOREM WaitingJobsHaveTheirFile == Spec => []WaitingHasFile
<1>1. Init => TypedFolder /\ OnePerContent /\ InboxInv /\ WaitingHasFile
  <2>1. Init => WaitingHasFile
    BY DEF Init, IngestInit, WaitingHasFile
  <2> QED
    BY <2>1, TypedFolderInit, OnePerContentInit, InboxInvInit
<1>2. (TypedFolder /\ OnePerContent /\ InboxInv /\ WaitingHasFile) /\ [Next]_vars =>
        (TypedFolder /\ OnePerContent /\ InboxInv /\ WaitingHasFile)'
  BY TypedFolderStep, OnePerContentStep, InboxInvStep, WaitingStep
<1> QED
  BY <1>1, <1>2, PTL DEF Spec

----------------------------------------------------------------------------
(* Only an ingest that has moved its staging file puts a file there.       *)
LEMMA InboxGrows ==
  ASSUME [Next]_vars, NEW d \in inbox', d \notin inbox
  PROVE  \E p \in Ingests : Place(p) /\ d = idoc[p]
<1>1. CASE \E u \in Uploads, e \in Docs : Upload(u, e)
  BY <1>1 DEF Upload, Stage
<1>2. ASSUME NEW p \in Ingests, IngestRuns(p) PROVE Place(p) /\ d = idoc[p]
  BY <1>2 DEF IngestRuns, IngestStep, Check, FindByHash, Place, Insert, InsertConflicts,
     SelectWinner, DropSuperfluous, FindAgain, DropUnreferenced, Log, Unlink, OnlyGoto
<1>3. CASE \E p \in Ingests : IngestFault(p)
  BY <1>3 DEF IngestFault, ScannerFails, StoreFails
<1>4. CASE WatcherRuns
  BY <1>4 DEF WatcherRuns, WatcherStep, Wake, Pick, Stage, Remove, SaveTaken,
     IngestRaised, SaveError, EndPass, ingestVars
<1>5. CASE WatcherFault \/ DeviceStep \/ AdminStep
  BY <1>5 DEF WatcherFault, ListFails, SaveFails, DeviceStep, Drop, Rewrite,
     AdminStep, AdminReads, AdminSaves, AdminDeletes, ingestVars
<1>6. CASE WorkerStep
  BY <1>6 DEF WorkerStep, WorkerReads, WorkerMoves, WorkerStores, WorkerSaves, WorkerClaims,
     Take, ingestVars
<1>7. CASE ApiCrash \/ \E j \in Jobs : DeleteRow(j) \/ DeleteFile(j)
  BY <1>7 DEF ApiCrash, DeleteRow, DeleteFile
<1>8. CASE UNCHANGED vars
  BY <1>8 DEF vars, ingestVars
<1> QED
  BY <1>1, <1>2, <1>3, <1>4, <1>5, <1>6, <1>7, <1>8 DEF Next

(* The three ways to answer for a file.                                    *)
Named(d) == \E j \in Jobs : (Live(j) \/ j \in unlinking) /\ job[j].doc = d

Left(d) == \E j \in Jobs : job[j].doc = d /\ job[j].at = "own"

Cared(d) == Named(d) \/ Left(d) \/ \E p \in Ingests : Holds(p, d)

(* Whom deleting a job concerns: its row goes first, then its file.        *)
LEMMA DeletionSteps ==
  ASSUME TypedFolder, RowsInv, [Next]_vars, ~ApiCrash, NEW j \in Jobs,
         Live(j) \/ j \in unlinking
  PROVE  Live(j)' \/ j \in unlinking' \/ DeleteFile(j)
<1>a. RowGoesOn(j)
  BY RowsGoOn
<1>1. CASE j \in unlinking
  <2>1. CASE UNCHANGED workVars
    BY <1>1, <2>1 DEF workVars
  <2>2. CASE WorkerStep
    BY <1>1, <2>2 DEF WorkerStep, WorkerReads, WorkerMoves, WorkerStores, WorkerSaves, WorkerClaims
  <2>3. ASSUME NEW k \in Jobs, DeleteRow(k) \/ DeleteFile(k)
        PROVE  j \in unlinking' \/ DeleteFile(j)
    BY <1>1, <2>3 DEF DeleteRow, DeleteFile
  <2> QED
    BY <2>1, <2>2, <2>3, WorkKept DEF workVars
<1>2. CASE Live(j)
  <2>1. CASE \E p \in Ingests : Insert(p)
    <3>1. job'[j] = job[j]
      BY <1>2, <2>1, InsertedRow DEF Unborn, Live, TypedFolder, TypeOK
    <3> QED
      BY <1>2, <3>1 DEF Live
  <2>2. CASE \E k \in Jobs : DeleteRow(k)
    BY <1>2, <2>2 DEF DeleteRow, Live, TypedFolder, TypeOK, IngestTypeOK, JobRow
  <2> QED
    BY <1>2, <2>1, <2>2, TableSteps
<1> QED
  BY <1>1, <1>2

LEMMA NamedGoesOn ==
  ASSUME TypedFolder, RowsInv, [Next]_vars, ~ApiCrash, NEW d \in inbox', Named(d)
  PROVE  Named(d)' \/ Left(d)'
<1>1. PICK j \in Jobs : (Live(j) \/ j \in unlinking) /\ job[j].doc = d
  BY DEF Named
<1>2. job[j].status # "unborn" /\ RowGoesOn(j)
  BY <1>1, RowsGoOn DEF Live, RowsInv
<1>3. job'[j].doc = d
  BY <1>1, <1>2 DEF RowGoesOn
<1>4. CASE Live(j)' \/ j \in unlinking'
  BY <1>3, <1>4 DEF Named
<1>5. CASE DeleteFile(j)
  <2>1. job[j].at # "inbox" /\ job' = job
    BY <1>1, <1>5 DEF DeleteFile
  <2>2. job'[j].at = "own"
    BY <2>1 DEF TypedFolder, TypeOK, IngestTypeOK, JobRow
  <2> QED
    BY <1>3, <2>2 DEF Left
<1> QED
  BY <1>1, <1>4, <1>5, DeletionSteps

LEMMA LeftGoesOn ==
  ASSUME TypedFolder, RowsInv, [Next]_vars, NEW d, Left(d)
  PROVE  Left(d)'
<1>1. PICK j \in Jobs : job[j].doc = d /\ job[j].at = "own"
  BY DEF Left
<1>2. job[j].status # "unborn" /\ RowGoesOn(j)
  BY <1>1, RowsGoOn DEF RowsInv
<1> QED
  BY <1>1, <1>2 DEF RowGoesOn, Left

LEMMA HoldsGoesOn ==
  ASSUME TypedFolder, [Next]_vars, ~ApiCrash, struck'["store"] = struck["store"],
         NEW d \in inbox', NEW p \in Ingests, Holds(p, d)
  PROVE  Named(d)' \/ Holds(p, d)'
<1>a. IngestTypeOK /\ struck["store"] \in Nat
  BY DEF TypedFolder, TypeOK, IngestTypeOK, FaultNames
<1>b. ~StoreFails(p)
  BY <1>a DEF StoreFails, Strike, IngestTypeOK, FaultNames
<1>c. ASSUME NEW place \in {"conflict", "superfluous", "failing", "unreferenced"}, Goto(p, place),
             UNCHANGED idoc
      PROVE  Holds(p, d)'
  BY <1>a, <1>c, GoesThere DEF Holds
(* The row that an ingest has found or made names the file instead.        *)
<1>d. ASSUME NEW j \in Jobs, Live(j), job[j].doc = d, UNCHANGED job PROVE Named(d)'
  BY <1>d DEF Named, Live
<1>1. CASE IngestStep(p)
  <2>1. ~(Check(p) \/ FindByHash(p) \/ Place(p) \/ Log(p))
    BY DEF Holds, Check, FindByHash, Place, Log
  <2>2. CASE Insert(p)
    <3>1. PICK j \in Unborn : job'[j] = [status |-> "received", doc |-> idoc[p], at |-> "inbox"]
      BY <1>a, <2>2, InsertedRow
    <3> QED
      BY <3>1 DEF Named, Live, Holds, Unborn
  <2>3. CASE InsertConflicts(p)
    BY <1>c, <2>3 DEF InsertConflicts, OnlyGoto
  <2>4. CASE SelectWinner(p)
    <3>1. CASE \E j \in Found(idoc[p]) : StoredAt(j, idoc[p])
      BY <1>d, <2>4, <3>1 DEF Found, HasHash, StoredAt, Holds, SelectWinner, OnlyGoto
    <3>2. CASE ~\E j \in Found(idoc[p]) : StoredAt(j, idoc[p])
      BY <1>c, <2>4, <3>2 DEF SelectWinner, OnlyGoto
    <3> QED
      BY <3>1, <3>2
  <2>5. CASE FindAgain(p)
    <3>1. CASE \E j \in Found(idoc[p]) : StoredAt(j, idoc[p])
      BY <1>d, <2>5, <3>1 DEF Found, HasHash, StoredAt, Holds, FindAgain, OnlyGoto
    <3>2. CASE ~\E j \in Found(idoc[p]) : StoredAt(j, idoc[p])
      BY <1>c, <2>5, <3>2 DEF FindAgain, OnlyGoto
    <3> QED
      BY <3>1, <3>2
  <2>6. ~(DropSuperfluous(p) \/ DropUnreferenced(p))
    BY DEF DropSuperfluous, DropUnreferenced, Unlink, Holds
  <2> QED
    BY <1>1, <2>1, <2>2, <2>3, <2>4, <2>5, <2>6 DEF IngestStep
<1>2. CASE ipc'[p] = ipc[p] /\ idoc'[p] = idoc[p]
  BY <1>2 DEF Holds
<1>3. ~ScannerFails(p) /\ ipc[p] \notin {"idle", "duplicate", "new", "raised"}
  BY DEF ScannerFails, Holds
<1> QED
  BY <1>b, <1>1, <1>2, <1>3, WhoseStep DEF IngestFault

LEMMA UnnamedStep ==
  ASSUME TypedFolder, InboxInv, NoFileUnnamed, [Next]_vars
  PROVE  NoFileUnnamed'
<1> SUFFICES ASSUME struck'["store"] + struck'["apiCrash"] = 0, NEW d \in inbox' PROVE Cared(d)'
  BY DEF NoFileUnnamed, Cared, Named, Left
<1>1. /\ struck["store"] = 0 /\ struck'["store"] = 0
      /\ struck["apiCrash"] = 0 /\ struck'["apiCrash"] = 0
  <2>1. /\ struck["store"] \in Nat /\ struck'["store"] \in Nat
        /\ struck["apiCrash"] \in Nat /\ struck'["apiCrash"] \in Nat
        /\ struck["store"] <= struck'["store"] /\ struck["apiCrash"] <= struck'["apiCrash"]
    BY StrikesCounted DEF FaultNames
  <2> QED
    BY <2>1
<1>2. ~ApiCrash
  BY <1>1 DEF ApiCrash, Strike, TypedFolder, TypeOK, IngestTypeOK, FaultNames
<1>3. CASE d \notin inbox
  <2>1. PICK p \in Ingests : Place(p) /\ d = idoc[p]
    BY <1>3, InboxGrows
  <2>2. Holds(p, d)'
    BY <2>1, GoesThere DEF Place, Holds, TypedFolder, TypeOK
  <2> QED
    BY <2>2 DEF Cared
<1>4. CASE d \in inbox
  <2>1. Cared(d)
    BY <1>1, <1>4 DEF NoFileUnnamed, Cared, Named, Left
  <2> QED
    BY <1>1, <1>2, <2>1, NamedGoesOn, LeftGoesOn, HoldsGoesOn DEF Cared, InboxInv
<1> QED
  BY <1>3, <1>4

(* Every file in the inbox is named by a job, or an ingest or a deletion   *)
(* is about to see to it, or a job whose copy has moved on has left it, as *)
(* long as neither the store nor the API fails: losers of a race and       *)
(* failed ingests leave no file behind (pipeline.ingest, delete_job).      *)
THEOREM NoFileIsForgotten == Spec => []NoFileUnnamed
<1>1. Init => TypedFolder /\ InboxInv /\ NoFileUnnamed
  <2>1. Init => NoFileUnnamed
    BY DEF Init, IngestInit, NoFileUnnamed
  <2> QED
    BY <2>1, TypedFolderInit, InboxInvInit
<1>2. (TypedFolder /\ InboxInv /\ NoFileUnnamed) /\ [Next]_vars =>
        (TypedFolder /\ InboxInv /\ NoFileUnnamed)'
  BY TypedFolderStep, InboxInvStep, UnnamedStep
<1> QED
  BY <1>1, <1>2, PTL DEF Spec

----------------------------------------------------------------------------
(* The file the watcher is at says what its ingest has read, unless it is  *)
(* written again.                                                          *)
SourceKept ==
  struck["rewrite"] = 0 /\ wpc = "ingesting" => hot[wname] = Content(idoc[Watcher])

LEMMA FolderKept ==
  ASSUME [Next]_vars
  PROVE  \/ UNCHANGED <<hot, wname>> /\ (wpc' = "ingesting" => wpc = "ingesting")
         \/ DeviceStep /\ UNCHANGED <<wname, wpc, idoc>>
         \/ Remove
         \/ \E n \in Names : Pick(n)
         \/ wpc' # "ingesting" /\ UNCHANGED hot
<1>1. CASE UNCHANGED hotfolderVars
  BY <1>1 DEF hotfolderVars, folderVars, watcherVars
<1>2. CASE WatcherRuns
  BY <1>2 DEF WatcherRuns, WatcherStep, Wake, SaveTaken, IngestRaised, SaveError, EndPass, folderVars
<1>3. CASE WatcherFault \/ AdminStep
  BY <1>3 DEF WatcherFault, ListFails, SaveFails, AdminStep, AdminReads, AdminSaves, AdminDeletes,
              folderVars, watcherVars
<1>4. CASE DeviceStep
  BY <1>4 DEF DeviceStep, Drop, Rewrite, watcherVars, ingestVars
<1>5. CASE WorkerStep \/ \E j \in Jobs : DeleteRow(j) \/ DeleteFile(j)
  BY <1>1, <1>5 DEF WorkerStep, WorkerReads, WorkerMoves, WorkerStores, WorkerSaves, WorkerClaims,
                    DeleteRow, DeleteFile
<1>6. CASE ApiCrash
  BY <1>6 DEF ApiCrash, folderVars
<1>7. CASE UNCHANGED vars
  BY <1>1, <1>7 DEF vars
<1> QED
  BY <1>1, <1>2, <1>3, <1>4, <1>5, <1>6, <1>7 DEF Next, Upload, IngestRuns

LEMMA WatcherDocKept ==
  ASSUME TypedFolder, [Next]_vars, wpc = "ingesting"
  PROVE  idoc'[Watcher] = idoc[Watcher]
<1>1. CASE \E u \in Uploads, d \in Docs : Upload(u, d)
  BY <1>1, IntakeAssumption DEF Upload, Stage, TypedFolder, TypeOK, IngestTypeOK
<1>2. CASE \E p \in Ingests : IngestRuns(p) \/ IngestFault(p)
  BY <1>2 DEF IngestRuns, IngestStep, IngestFault, Check, FindByHash, Place, Insert, InsertConflicts,
     SelectWinner, DropSuperfluous, FindAgain, DropUnreferenced, Log, ScannerFails, StoreFails,
     OnlyGoto, Unlink
<1>3. CASE WatcherRuns
  BY <1>3 DEF WatcherRuns, WatcherStep, Wake, Pick, Remove, SaveTaken, IngestRaised, SaveError, EndPass
<1>4. CASE WatcherFault \/ DeviceStep \/ AdminStep
  BY <1>4 DEF WatcherFault, ListFails, SaveFails, DeviceStep, Drop, Rewrite,
     AdminStep, AdminReads, AdminSaves, AdminDeletes, ingestVars
<1>5. CASE WorkerStep \/ ApiCrash \/ \E j \in Jobs : DeleteRow(j) \/ DeleteFile(j)
  BY <1>5 DEF WorkerStep, WorkerReads, WorkerMoves, WorkerStores, WorkerSaves, WorkerClaims,
              DeleteRow, DeleteFile, ApiCrash, ingestVars
<1>6. CASE UNCHANGED vars
  BY <1>6 DEF vars, ingestVars
<1> QED
  BY <1>1, <1>2, <1>3, <1>4, <1>5, <1>6 DEF Next

LEMMA SourceKeptStep ==
  ASSUME TypedFolder, SourceKept, [Next]_vars
  PROVE  SourceKept'
<1> SUFFICES ASSUME struck'["rewrite"] = 0, wpc' = "ingesting"
             PROVE  hot'[wname'] = Content(idoc'[Watcher])
  BY DEF SourceKept, Content
<1>a. struck["rewrite"] = 0
  BY StrikesCounted DEF FaultNames
<1>b. /\ hot \in [Names -> Contents \cup {Nothing}] /\ idoc \in [Ingests -> Docs]
      /\ wpc = "ingesting" => wname \in Names
      /\ \A d \in Docs : Content(d) \in Contents /\ Content(d) # Nothing
  BY IntakeAssumption DEF TypedFolder, TypeOK, HotfolderTypeOK, IngestTypeOK, Docs, Content
<1>1. CASE UNCHANGED <<hot, wname>> /\ wpc = "ingesting"
  BY <1>a, <1>1, WatcherDocKept DEF SourceKept, Content
<1>2. CASE DeviceStep /\ UNCHANGED <<wname, wpc, idoc>>
  <2>1. hot[wname] = Content(idoc[Watcher]) /\ hot[wname] # Nothing /\ wname \in Names
    BY <1>a, <1>b, <1>2 DEF SourceKept, Ingests
  <2>2. PICK n \in Names, c \in Contents : Drop(n, c) \/ Rewrite(n, c)
    BY <1>2 DEF DeviceStep
  <2>3. ~Rewrite(n, c)
    BY <1>a DEF Rewrite, Strike, TypedFolder, TypeOK, IngestTypeOK, FaultNames
  <2>4. hot'[wname] = hot[wname]
    BY <1>b, <2>1, <2>2, <2>3 DEF Drop
  <2> QED
    BY <1>2, <2>1, <2>4 DEF Content
<1>3. ~Remove
  BY DEF Remove
<1>4. ASSUME NEW n \in Names, Pick(n) PROVE hot'[wname'] = Content(idoc'[Watcher])
  <2>1. hot' = hot /\ wname' = n /\ idoc' = [idoc EXCEPT ![Watcher] = <<hot[n], n>>]
    BY <1>4 DEF Pick, Stage, folderVars
  <2> QED
    BY <1>b, <2>1 DEF Content, Ingests
<1> QED
  BY <1>1, <1>2, <1>3, <1>4, FolderKept

(* A file leaves the hotfolder only after its content has become a job:    *)
(* watch_hotfolder unlinks it when ingest has returned, and ingest returns *)
(* only what is in the table. A device that writes the file again meanwhile*)
(* is the exception.                                                       *)
THEOREM SourcesAreEnteredFirst == Spec => SourceEnteredFirst
<1>1. ASSUME TypedFolder, InboxInv, SourceKept, [Next]_vars, struck["rewrite"] = 0,
             NEW n \in Names, hot[n] # Nothing, hot'[n] = Nothing
      PROVE  \E j \in Jobs : job[j].status # "unborn" /\ Content(job[j].doc) = hot[n]
  <2>1. ~DeviceStep
    BY <1>1, IntakeAssumption DEF DeviceStep, Drop, Rewrite, TypedFolder, TypeOK, HotfolderTypeOK
  <2>2. Remove
    BY <1>1, <2>1, FolderKept DEF Pick, folderVars
  <2>3. n = wname /\ wpc = "ingesting" /\ ipc[Watcher] \in {"duplicate", "new"}
    BY <1>1, <2>2 DEF Remove, TypedFolder, TypeOK, HotfolderTypeOK
  <2>4. Known(idoc[Watcher])
    BY <1>1, <2>3 DEF InboxInv, IngestSound, Ingests
  <2>5. hot[n] = Content(idoc[Watcher])
    BY <1>1, <2>3 DEF SourceKept
  <2> QED
    BY <2>4, <2>5 DEF Known
<1>2. (TypedFolder /\ InboxInv /\ SourceKept) /\ [Next]_vars =>
        [struck["rewrite"] = 0 =>
           \A n \in Names :
             hot[n] # Nothing /\ hot'[n] = Nothing =>
               \E j \in Jobs : job[j].status # "unborn" /\ Content(job[j].doc) = hot[n]]_vars
  BY <1>1
<1>3. Init => TypedFolder /\ InboxInv /\ SourceKept
  BY TypedFolderInit, InboxInvInit DEF Init, HotfolderInit, SourceKept
<1>4. (TypedFolder /\ InboxInv /\ SourceKept) /\ [Next]_vars =>
        (TypedFolder /\ InboxInv /\ SourceKept)'
  BY TypedFolderStep, InboxInvStep, SourceKeptStep
<1> QED
  BY <1>2, <1>3, <1>4, PTL DEF Spec, SourceEnteredFirst
=============================================================================
