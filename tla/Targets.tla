------------------------------- MODULE Targets -------------------------------
(***************************************************************************)
(* The table target_systems under everybody who writes whole rows into it: *)
(* administrators (api.py), deliveries, which save the target they have    *)
(* read before the connector call (_deliver), and processes that start,    *)
(* which bring secrets under the first of their keys and see to a default  *)
(* target.  On PostgreSQL a statement sees what is committed when it       *)
(* begins, so a save that makes a target the default clears the flag of    *)
(* the rows it saw, and may miss one inserted meanwhile.                   *)
(* Keys are exchanged as CONNECTORS.md says: old, then new before old,     *)
(* then new; the settings that a form check refuses, licences, renaming    *)
(* and the columns last_error and last_delivery_at are left out.           *)
(***************************************************************************)
EXTENDS Naturals, FiniteSets

CONSTANTS
  Ids,         \* ids of targets
  Names,       \* their names, unique in the table
  Standard,    \* "Dateisystem", the name of the target made at the start
  Settings,    \* what else an administrator enters
  Secretive,   \* the settings with a token or client secret in them
  Api,         \* the API process
  Workers,     \* the worker processes
  Requests,    \* administrators' requests; each is made once
  NoTarget

ASSUME TargetsAssumption ==
  /\ Standard \in Names /\ Secretive \subseteq Settings
  /\ Api \notin Workers /\ Requests \cap (Workers \cup {Api}) = {}

Processes == Workers \cup {Api}

(* A delivery is known by its process, which has one at a time.            *)
Writers == Processes \cup Requests

VARIABLES
  targets,   \* the table
  cipher,    \* the key each row's secret is encrypted with
  level,     \* how far the key exchange has come in each process: the keys
             \* are old, new and old, new
  task,      \* what each writer is doing
  resigned,  \* an administrator took the flag from the default target
  stale,     \* a row was written or deleted that had changed since it was read
  crossed    \* a default target was saved that had not seen a new row

vars == <<targets, cipher, level, task, resigned, stale, crossed>>

Target == [name : Names, enabled : BOOLEAN, isDefault : BOOLEAN, settings : Settings]

Task ==
  [stage : {"new", "holding", "saving", "deleting", "done"}, id : Ids \cup {NoTarget},
   base : Target \cup {NoTarget}, copy : Target \cup {NoTarget}, seen : SUBSET Ids]

ASSUME NoTargetAssumption == NoTarget \notin Target /\ NoTarget \notin Ids

TypeOK ==
  /\ targets \in [Ids -> Target \cup {NoTarget}]
  /\ cipher \in [Ids -> {"none", "old", "new"}]
  /\ level \in [Processes -> 1..3]
  /\ task \in [Writers -> Task]
  /\ \A w \in Writers :
       /\ task[w].stage \in {"holding", "saving", "deleting"} => task[w].id \in Ids
       /\ task[w].stage \in {"holding", "saving"} => task[w].copy \in Target
  /\ \A i \in Ids :
       cipher[i] # "none" <=> targets[i] # NoTarget /\ targets[i].settings \in Secretive
  /\ resigned \in BOOLEAN /\ stale \in BOOLEAN /\ crossed \in BOOLEAN

----------------------------------------------------------------------------
Present == {i \in Ids : targets[i] # NoTarget}

Defaults == {i \in Present : targets[i].isDefault}

Rest(stage) ==
  [stage |-> stage, id |-> NoTarget, base |-> NoTarget, copy |-> NoTarget, seen |-> {}]

(* A worker is ready for the next delivery, a request is over.             *)
Idle(w) == Rest(IF w \in Requests THEN "done" ELSE "new")

Init ==
  /\ \E i \in Ids, s \in Settings :
       targets = [k \in Ids |->
                    IF k = i THEN [name |-> Standard, enabled |-> TRUE, isDefault |-> TRUE,
                                   settings |-> s]
                    ELSE NoTarget]
  /\ cipher = [i \in Ids |->
                 IF targets[i] # NoTarget /\ targets[i].settings \in Secretive
                 THEN "old" ELSE "none"]
  /\ level = [p \in Processes |-> 1]
  /\ task = [w \in Writers |-> Rest("new")]
  /\ resigned = FALSE /\ stale = FALSE /\ crossed = FALSE

----------------------------------------------------------------------------
(* Variants, as plausible mistakes would write the definitions below.      *)

ClearsNone(i, t, seen) == {}

DeletesDefaults(i) == TRUE

OldKeyFirst(l) == IF l <= 2 THEN "old" ELSE "new"

RotatedAll(l) == [i \in Ids |-> IF l = 1 THEN "old" ELSE "new"]

DeliveryReadsRedacted(p, i) ==
  /\ p \in Processes /\ task[p].stage = "new" /\ targets[i] # NoTarget
  /\ \E s \in Settings \ Secretive :
       task' = [task EXCEPT ![p] =
                  [stage |-> "holding", id |-> i, base |-> targets[i],
                   copy |-> [targets[i] EXCEPT !.settings = s], seen |-> {}]]
  /\ UNCHANGED <<targets, cipher, level, resigned, stale, crossed>>

----------------------------------------------------------------------------
(* Requests run in the API process.                                        *)
Host(w) == IF w \in Requests THEN Api ELSE w

Primary(l) == IF l = 1 THEN "old" ELSE "new"

Decrypts(l, key) == (key = "old" => l <= 2) /\ (key = "new" => l >= 2)

(* get_target_system: the row, with its secret in plain.                   *)
Readable(w, i) == targets[i] # NoTarget /\ Decrypts(level[Host(w)], cipher[i])

(* A fresh id is nobody's: neither in the table nor in a copy.             *)
Fresh(i) == i \notin Present /\ \A w \in Writers : task[w].id # i

NameTaken(i, n) == \E k \in Present \ {i} : targets[k].name = n

Holds(w, i, base, copy) ==
  task' = [task EXCEPT ![w] =
             [stage |-> "holding", id |-> i, base |-> base, copy |-> copy, seen |-> {}]]

----------------------------------------------------------------------------
(* validate_target: the default target must be active.                     *)
Acceptable(t) == t.isDefault => t.enabled

(* POST /v1/target-systems.                                                *)
CreateTarget(q, i) ==
  /\ q \in Requests /\ task[q].stage = "new" /\ Fresh(i)
  /\ \E t \in Target : Acceptable(t) /\ Holds(q, i, NoTarget, t)
  /\ UNCHANGED <<targets, cipher, level, resigned, stale, crossed>>

(* PATCH: any columns of the row that has been read are set.               *)
EditTarget(q, i) ==
  /\ q \in Requests /\ task[q].stage = "new" /\ Readable(q, i)
  /\ \E t \in Target :
       /\ t.name = targets[i].name /\ Acceptable(t)
       /\ Holds(q, i, targets[i], t)
       /\ resigned' = (resigned \/ (targets[i].isDefault /\ ~t.isDefault))
  /\ UNCHANGED <<targets, cipher, level, stale, crossed>>

Deletable(i) == ~targets[i].isDefault

(* DELETE: the row is read, twice, and only then deleted.                  *)
DeleteChecks(q, i) ==
  /\ q \in Requests /\ task[q].stage = "new" /\ Readable(q, i) /\ Deletable(i)
  /\ task' = [task EXCEPT ![q] = [Rest("deleting") EXCEPT !.id = i, !.base = targets[i]]]
  /\ UNCHANGED <<targets, cipher, level, resigned, stale, crossed>>

Deletes(q) ==
  LET i == task[q].id
  IN /\ task[q].stage = "deleting"
     /\ targets' = [targets EXCEPT ![i] = NoTarget]
     /\ cipher' = [cipher EXCEPT ![i] = "none"]
     /\ stale' = (stale \/ targets[i] # task[q].base)
     /\ task' = [task EXCEPT ![q] = Idle(q)]
     /\ UNCHANGED <<level, resigned, crossed>>

(* _deliver reads the target of a job; whatever the connector answers, the *)
(* same object is saved after the call.                                    *)
DeliveryReads(p, i) ==
  /\ p \in Processes /\ task[p].stage = "new" /\ Readable(p, i)
  /\ Holds(p, i, targets[i], targets[i])
  /\ UNCHANGED <<targets, cipher, level, resigned, stale, crossed>>

----------------------------------------------------------------------------
(* save_target_system.  The statement that clears the flag of the others   *)
(* begins ...                                                              *)
SaveSees(w) ==
  /\ task[w].stage = "holding" /\ task[w].copy.isDefault
  /\ task' = [task EXCEPT ![w].stage = "saving", ![w].seen = Present]
  /\ UNCHANGED <<targets, cipher, level, resigned, stale, crossed>>

Cleared(i, t, seen) == IF t.isDefault THEN seen \ {i} ELSE {}

(* ... and the transaction commits the whole copy, inserting it anew if    *)
(* the row is gone, with the secret under the first key of the process.    *)
SaveCommits(w) ==
  LET i == task[w].id
      t == task[w].copy
      others == Cleared(i, t, task[w].seen)
  IN /\ task[w].stage \in {"holding", "saving"}
     /\ t.isDefault => task[w].stage = "saving"
     /\ ~NameTaken(i, t.name)
     /\ targets' = [k \in Ids |->
                      IF k = i THEN t
                      ELSE IF k \in others \cap Present
                           THEN [targets[k] EXCEPT !.isDefault = FALSE] ELSE targets[k]]
     /\ cipher' = [cipher EXCEPT ![i] =
                     IF t.settings \in Secretive THEN Primary(level[Host(w)]) ELSE "none"]
     /\ task' = [task EXCEPT ![w] = Idle(w)]
     /\ stale' = (stale \/ targets[i] # task[w].base)
     /\ crossed' = (crossed \/ (t.isDefault /\ ~(Present \subseteq task[w].seen \cup {i})))
     /\ UNCHANGED <<level, resigned>>

(* The name is unique: a create, or a save of a target that was deleted    *)
(* and made again meanwhile, is rolled back.                               *)
SaveRefused(w) ==
  /\ task[w].stage \in {"holding", "saving"} /\ NameTaken(task[w].id, task[w].copy.name)
  /\ task' = [task EXCEPT ![w] = Idle(w)]
  /\ UNCHANGED <<targets, cipher, level, resigned, stale, crossed>>

----------------------------------------------------------------------------
(* The operator restarts a process, perhaps with the next keys once every  *)
(* process has the ones before.                                            *)
Keyed(p, l) ==
  /\ l \in {level[p], level[p] + 1} /\ l <= 3
  /\ l > level[p] => \A o \in Processes : level[o] >= level[p]

(* What it was doing ends.                                                 *)
Restarts(p, l) ==
  /\ Keyed(p, l)
  /\ level' = [level EXCEPT ![p] = l]
  /\ task' = [w \in Writers |->
                IF Host(w) = p /\ task[w].stage # "new" THEN Idle(w) ELSE task[w]]
  /\ UNCHANGED <<resigned, stale, crossed>>

(* migrate_or_rotate_target_secrets.                                       *)
Rotated(l) == [i \in Ids |-> IF cipher[i] = "none" THEN "none" ELSE Primary(l)]

KeysFit(l) == \A i \in Ids : Decrypts(l, cipher[i])

HasDefault == \E i \in Defaults : targets[i].enabled

StartRefusedByKeys(p, l) ==
  /\ Restarts(p, l) /\ ~KeysFit(l)
  /\ UNCHANGED <<targets, cipher>>

Starts(p, l) ==
  /\ Restarts(p, l) /\ KeysFit(l) /\ (p = Api => HasDefault)
  /\ cipher' = Rotated(l)
  /\ UNCHANGED targets

(* ensure_default_target_system, when there is none: a target by the name  *)
(* of Dateisystem is made, unless the name is taken; then the API ends.    *)
StartsWithoutDefault(l) ==
  /\ Restarts(Api, l) /\ KeysFit(l) /\ ~HasDefault
  /\ cipher' = Rotated(l)
  /\ \/ NameTaken(NoTarget, Standard) /\ UNCHANGED targets
     \/ /\ ~NameTaken(NoTarget, Standard)
        /\ \E i \in Ids, s \in Settings \ Secretive :
             /\ Fresh(i)
             /\ targets' = [k \in Ids |->
                  IF k = i THEN [name |-> Standard, enabled |-> TRUE, isDefault |-> TRUE,
                                 settings |-> s]
                  ELSE IF k \in Present THEN [targets[k] EXCEPT !.isDefault = FALSE]
                  ELSE NoTarget]

Next ==
  \/ \E q \in Requests, i \in Ids : CreateTarget(q, i) \/ EditTarget(q, i) \/ DeleteChecks(q, i)
  \/ \E q \in Requests : Deletes(q)
  \/ \E p \in Processes, i \in Ids : DeliveryReads(p, i)
  \/ \E w \in Writers : SaveSees(w) \/ SaveCommits(w) \/ SaveRefused(w)
  \/ \E p \in Processes, l \in 1..3 : Starts(p, l) \/ StartRefusedByKeys(p, l)
  \/ \E l \in 1..3 : StartsWithoutDefault(l)

Spec == Init /\ [][Next]_vars

----------------------------------------------------------------------------
(* Of "genau ein aktives Ziel ist Standard" (FRONTEND.md): never two, and  *)
(* never a paused one, unless a save had not seen a target made meanwhile. *)
OneDefault ==
  \/ crossed
  \/ \A i, k \in Defaults : i = k /\ targets[i].enabled

(* ... and never none, however targets are edited, deleted and delivered   *)
(* to, unless an administrator takes the flag away himself or a row that   *)
(* has changed since it was read is overwritten or deleted.                *)
DefaultExists == resigned \/ stale \/ Defaults # {}

(* A delivery does not touch the configuration, although it saves a whole  *)
(* row and clears the flag of all others, as long as its target's row is   *)
(* the one it has read.                                                    *)
DeliveriesLeaveTargets ==
  [][\A p \in Processes :
       SaveCommits(p) /\ targets[task[p].id] = task[p].base /\ ~crossed' => UNCHANGED targets]_vars

(* "Danach kann der alte Schlüssel entfernt werden" (CONNECTORS.md): keys  *)
(* that are exchanged process by process keep no process from starting but *)
(* one that starts behind the others; a missing default target keeps the   *)
(* API from it only if it went as above and left another of its name.      *)
StartsAgain ==
  /\ \A p \in Processes, l \in 1..3 :
       Keyed(p, l) => KeysFit(l) \/ \E o \in Processes : level[o] > l
  /\ HasDefault \/ ~NameTaken(NoTarget, Standard) \/ resigned \/ stale
=============================================================================
