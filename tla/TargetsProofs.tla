---------------------------- MODULE TargetsProofs ----------------------------
(***************************************************************************)
(* For any ids, names, settings, processes and requests: types, the        *)
(* default target, what deliveries leave alone, and the exchange of keys.  *)
(***************************************************************************)
EXTENDS Targets, TLAPS

----------------------------------------------------------------------------
(* Types: those of the table and those of the tasks.                       *)
Tables ==
  /\ targets \in [Ids -> Target \cup {NoTarget}]
  /\ cipher \in [Ids -> {"none", "old", "new"}]
  /\ level \in [Processes -> 1..3]
  /\ resigned \in BOOLEAN /\ stale \in BOOLEAN /\ crossed \in BOOLEAN

Matched ==
  \A i \in Ids :
    cipher[i] # "none" <=> targets[i] # NoTarget /\ targets[i].settings \in Secretive

TaskOK(r) ==
  /\ r \in Task
  /\ r.stage \in {"holding", "saving", "deleting"} => r.id \in Ids
  /\ r.stage \in {"holding", "saving"} => r.copy \in Target

Tasks == task \in [Writers -> Task] /\ \A w \in Writers : TaskOK(task[w])

LEMMA TypeParts == TypeOK <=> Tables /\ Matched /\ Tasks
BY DEF TypeOK, Tables, Matched, Tasks, TaskOK

LEMMA Apart ==
  /\ NoTarget \notin Target /\ NoTarget \notin Ids
  /\ Processes \subseteq Writers /\ Requests \subseteq Writers
  /\ \A w \in Writers : Host(w) \in Processes
  /\ Processes \cap Requests = {} /\ Api \in Processes
BY TargetsAssumption, NoTargetAssumption DEF Processes, Writers, Host

LEMMA RestIsTask ==
  \A w \in Writers : TaskOK(Idle(w)) /\ TaskOK(Rest("new"))
BY DEF Idle, Rest, TaskOK, Task

LEMMA GoesOn ==
  ASSUME Tasks, NEW w \in Writers, NEW r, TaskOK(r), task' = [task EXCEPT ![w] = r]
  PROVE  Tasks'
<1>1. task' \in [Writers -> Task]
  BY DEF Tasks, TaskOK
<1>2. ASSUME NEW v \in Writers PROVE TaskOK(task'[v])
  BY DEF Tasks
<1> QED BY <1>1, <1>2 DEF Tasks

LEMMA HoldsTyped ==
  ASSUME Tasks, NEW w \in Writers, NEW i \in Ids, NEW b \in Target \cup {NoTarget},
         NEW t \in Target, Holds(w, i, b, t)
  PROVE  Tasks'
<1> DEFINE r == [stage |-> "holding", id |-> i, base |-> b, copy |-> t, seen |-> {}]
<1>1. TaskOK(r)
  BY DEF TaskOK, Task
<1>2. task' = [task EXCEPT ![w] = r]
  BY DEF Holds
<1> HIDE DEF r
<1> QED BY <1>1, <1>2, GoesOn

LEMMA InitTyped == Init => Tables /\ Matched /\ Tasks
<1> SUFFICES ASSUME Init PROVE Tables /\ Matched /\ Tasks
  OBVIOUS
<1>1. PICK i \in Ids, s \in Settings :
        targets = [k \in Ids |->
                     IF k = i THEN [name |-> Standard, enabled |-> TRUE, isDefault |-> TRUE,
                                    settings |-> s]
                     ELSE NoTarget]
  BY DEF Init
<1>2. targets \in [Ids -> Target \cup {NoTarget}]
  BY <1>1, TargetsAssumption DEF Target
<1>3. cipher \in [Ids -> {"none", "old", "new"}] /\ Matched
  BY DEF Init, Matched
<1>4. level = [p \in Processes |-> 1] /\ resigned \in BOOLEAN /\ stale \in BOOLEAN /\ crossed \in BOOLEAN
  BY DEF Init
<1>5. Tasks
  BY RestIsTask DEF Init, Tasks, TaskOK
<1>6. level \in [Processes -> 1..3]
  BY <1>4
<1> QED BY <1>2, <1>3, <1>4, <1>5, <1>6 DEF Tables

LEMMA RestartTyped ==
  ASSUME Tables, Tasks, NEW p \in Processes, NEW l \in 1..3, Restarts(p, l)
  PROVE  /\ Tasks' /\ level' \in [Processes -> 1..3]
         /\ UNCHANGED <<resigned, stale, crossed>>
<1>1. ASSUME NEW w \in Writers PROVE TaskOK(task'[w]) /\ task'[w] \in Task
  BY RestIsTask DEF Restarts, Tasks, TaskOK
<1>2. task' \in [Writers -> Task]
  BY <1>1 DEF Restarts
<1>3. level' \in [Processes -> 1..3]
  BY DEF Restarts, Tables
<1> QED BY <1>1, <1>2, <1>3 DEF Restarts, Tasks

LEMMA PrimaryIsKey == \A l : Primary(l) \in {"old", "new"}
BY DEF Primary

LEMMA RotatedTyped ==
  ASSUME Tables, Matched, NEW l, cipher' = Rotated(l), UNCHANGED targets
  PROVE  cipher' \in [Ids -> {"none", "old", "new"}] /\ Matched'
BY PrimaryIsKey DEF Tables, Matched, Rotated

LEMMA StepTyped ==
  ASSUME Tables, Matched, Tasks, [Next]_vars
  PROVE  Tables' /\ Matched' /\ Tasks'
<1> USE Apart
<1>1. ASSUME NEW q \in Requests, NEW i \in Ids, CreateTarget(q, i)
      PROVE  Tables' /\ Matched' /\ Tasks'
  BY <1>1, HoldsTyped DEF CreateTarget, Tables, Matched
<1>2. ASSUME NEW q \in Requests, NEW i \in Ids, EditTarget(q, i)
      PROVE  Tables' /\ Matched' /\ Tasks'
  <2>1. targets[i] \in Target
    BY <1>2 DEF EditTarget, Readable, Tables
  <2>2. PICK t \in Target : Holds(q, i, targets[i], t)
    BY <1>2 DEF EditTarget
  <2>3. Tasks'
    BY <2>1, <2>2, HoldsTyped
  <2>4. resigned' \in BOOLEAN
    BY <1>2 DEF EditTarget, Tables
  <2> QED BY <1>2, <2>3, <2>4 DEF EditTarget, Tables, Matched
<1>3. ASSUME NEW q \in Requests, NEW i \in Ids, DeleteChecks(q, i)
      PROVE  Tables' /\ Matched' /\ Tasks'
  <2> DEFINE r == [Rest("deleting") EXCEPT !.id = i, !.base = targets[i]]
  <2>1. TaskOK(r)
    BY DEF TaskOK, Task, Rest, Tables
  <2>2. task' = [task EXCEPT ![q] = r]
    BY <1>3 DEF DeleteChecks
  <2> HIDE DEF r
  <2>3. Tasks'
    BY <2>1, <2>2, GoesOn
  <2> QED BY <1>3, <2>3 DEF DeleteChecks, Tables, Matched
<1>4. ASSUME NEW q \in Requests, Deletes(q)
      PROVE  Tables' /\ Matched' /\ Tasks'
  <2>1. task[q].id \in Ids
    BY <1>4 DEF Deletes, Tasks, TaskOK
  <2>2. Tasks'
    BY <1>4, RestIsTask, GoesOn DEF Deletes
  <2>3. Tables'
    BY <1>4 DEF Deletes, Tables
  <2>4. Matched'
    BY <1>4, <2>1 DEF Deletes, Tables, Matched
  <2> QED BY <2>2, <2>3, <2>4
<1>5. ASSUME NEW p \in Processes, NEW i \in Ids, DeliveryReads(p, i)
      PROVE  Tables' /\ Matched' /\ Tasks'
  <2>1. targets[i] \in Target
    BY <1>5 DEF DeliveryReads, Readable, Tables
  <2>2. Tasks'
    BY <1>5, <2>1, HoldsTyped DEF DeliveryReads
  <2> QED BY <1>5, <2>2 DEF DeliveryReads, Tables, Matched
<1>6. ASSUME NEW w \in Writers, SaveSees(w)
      PROVE  Tables' /\ Matched' /\ Tasks'
  <2> DEFINE r == [task[w] EXCEPT !.stage = "saving", !.seen = Present]
  <2>1. TaskOK(r)
    BY <1>6 DEF SaveSees, Tasks, TaskOK, Task, Present
  <2>2. task' = [task EXCEPT ![w] = r]
    BY <1>6 DEF SaveSees, Tasks
  <2> HIDE DEF r
  <2>3. Tasks'
    BY <2>1, <2>2, GoesOn
  <2> QED BY <1>6, <2>3 DEF SaveSees, Tables, Matched
<1>7. ASSUME NEW w \in Writers, SaveCommits(w)
      PROVE  Tables' /\ Matched' /\ Tasks'
  <2> DEFINE i == task[w].id
             t == task[w].copy
             cleared == Cleared(i, t, task[w].seen) \cap Present
  <2>1. i \in Ids /\ t \in Target
    BY <1>7 DEF SaveCommits, Tasks, TaskOK
  <2>2. targets' = [k \in Ids |->
                      IF k = i THEN t
                      ELSE IF k \in cleared
                           THEN [targets[k] EXCEPT !.isDefault = FALSE] ELSE targets[k]]
    BY <1>7 DEF SaveCommits
  <2>3. \A k \in cleared : targets[k] \in Target
    BY DEF Tables, Present
  <2>4. cipher' = [cipher EXCEPT ![i] =
                     IF t.settings \in Secretive THEN Primary(level[Host(w)]) ELSE "none"]
    BY <1>7 DEF SaveCommits
  <2>5. Tasks'
    BY <1>7, RestIsTask, GoesOn DEF SaveCommits
  <2>6. stale' \in BOOLEAN /\ crossed' \in BOOLEAN /\ UNCHANGED <<level, resigned>>
    BY <1>7 DEF SaveCommits, Tables
  <2> HIDE DEF i, t, cleared
  <2>7. \A k \in cleared : /\ [targets[k] EXCEPT !.isDefault = FALSE] \in Target
                           /\ [targets[k] EXCEPT !.isDefault = FALSE].settings = targets[k].settings
    BY <2>3 DEF Target
  <2>8. targets' \in [Ids -> Target \cup {NoTarget}]
    BY <2>1, <2>2, <2>7 DEF Tables
  <2>9. cipher' \in [Ids -> {"none", "old", "new"}]
    BY <2>4, PrimaryIsKey DEF Tables
  <2>10. Matched'
    BY <2>1, <2>2, <2>3, <2>4, <2>7, PrimaryIsKey DEF Tables, Matched
  <2> QED BY <2>5, <2>6, <2>8, <2>9, <2>10 DEF Tables
<1>8. ASSUME NEW w \in Writers, SaveRefused(w)
      PROVE  Tables' /\ Matched' /\ Tasks'
  BY <1>8, RestIsTask, GoesOn DEF SaveRefused, Tables, Matched
<1>9. ASSUME NEW p \in Processes, NEW l \in 1..3, Starts(p, l)
      PROVE  Tables' /\ Matched' /\ Tasks'
  BY <1>9, RestartTyped, RotatedTyped DEF Starts, Tables
<1>10. ASSUME NEW p \in Processes, NEW l \in 1..3, StartRefusedByKeys(p, l)
       PROVE  Tables' /\ Matched' /\ Tasks'
  BY <1>10, RestartTyped DEF StartRefusedByKeys, Tables, Matched
<1>11. ASSUME NEW l \in 1..3, StartsWithoutDefault(l)
       PROVE  Tables' /\ Matched' /\ Tasks'
  <2>1. Tasks' /\ level' \in [Processes -> 1..3] /\ UNCHANGED <<resigned, stale, crossed>>
    BY <1>11, RestartTyped DEF StartsWithoutDefault
  <2>2. CASE UNCHANGED targets
    BY <1>11, <2>1, <2>2, RotatedTyped DEF StartsWithoutDefault, Tables
  <2>3. ASSUME NEW i \in Ids, NEW s \in Settings \ Secretive, Fresh(i),
               targets' = [k \in Ids |->
                  IF k = i THEN [name |-> Standard, enabled |-> TRUE, isDefault |-> TRUE,
                                 settings |-> s]
                  ELSE IF k \in Present THEN [targets[k] EXCEPT !.isDefault = FALSE]
                  ELSE NoTarget]
        PROVE  Tables' /\ Matched'
    <3>1. \A k \in Present :
            /\ targets[k] \in Target
            /\ [targets[k] EXCEPT !.isDefault = FALSE] \in Target
            /\ [targets[k] EXCEPT !.isDefault = FALSE].settings = targets[k].settings
      BY DEF Tables, Present, Target
    <3>2. targets' \in [Ids -> Target \cup {NoTarget}]
      BY <2>3, <3>1, TargetsAssumption DEF Target
    <3>3. cipher' = Rotated(l)
      BY <1>11 DEF StartsWithoutDefault
    <3>4. cipher' \in [Ids -> {"none", "old", "new"}]
      BY <3>3, PrimaryIsKey DEF Rotated, Tables
    <3>5. cipher[i] = "none"
      BY <2>3 DEF Fresh, Present, Matched
    <3>6. ASSUME NEW k \in Ids
          PROVE  cipher'[k] # "none" <=> targets'[k] # NoTarget /\ targets'[k].settings \in Secretive
      <4>1. CASE k = i
        BY <2>3, <3>3, <3>5, <4>1 DEF Rotated
      <4>2. CASE k # i /\ k \in Present
        BY <2>3, <3>1, <3>3, <4>2, PrimaryIsKey DEF Rotated, Matched, Present
      <4>3. CASE k # i /\ k \notin Present
        BY <2>3, <3>3, <4>3 DEF Rotated, Matched, Present
      <4> QED BY <4>1, <4>2, <4>3
    <3> QED BY <2>1, <3>2, <3>4, <3>6 DEF Tables, Matched
  <2> QED BY <1>11, <2>1, <2>2, <2>3 DEF StartsWithoutDefault
<1>12. CASE UNCHANGED vars
  BY <1>12 DEF vars, Tables, Matched, Tasks
<1> QED
  BY <1>1, <1>2, <1>3, <1>4, <1>5, <1>6, <1>7, <1>8, <1>9, <1>10, <1>11, <1>12 DEF Next

(* Every reachable state is well typed, and exactly the rows with a secret *)
(* have a key (save_target_system, migrate_or_rotate_target_secrets).      *)
THEOREM TargetsTypeCorrect == Spec => []TypeOK
<1>1. Tables /\ Matched /\ Tasks /\ [Next]_vars => (Tables /\ Matched /\ Tasks)'
  BY StepTyped
<1> QED BY InitTyped, <1>1, TypeParts, PTL DEF Spec

----------------------------------------------------------------------------
(* The default target.  What a copy that will be saved, or a row that will *)
(* be deleted, must be: a default is enabled; a copy without the flag of   *)
(* its row was made by an administrator; a delivery has changed nothing.   *)
Held(r) == r.stage \in {"holding", "saving"}

Sound(w, r) ==
  /\ Held(r) => Acceptable(r.copy)
  /\ Held(r) /\ r.base # NoTarget => (r.base.isDefault => r.copy.isDefault \/ resigned)
  /\ Held(r) /\ w \in Processes => r.copy = r.base
  /\ r.stage = "deleting" => r.base # NoTarget /\ ~r.base.isDefault

AllSound == \A w \in Writers : Sound(w, task[w])

RowsAcceptable == \A i \in Present : Acceptable(targets[i])

DefaultInv == AllSound /\ RowsAcceptable /\ OneDefault /\ DefaultExists

LEMMA RestIsSound == \A w \in Writers : Sound(w, Idle(w)) /\ Sound(w, Rest("new"))
BY DEF Sound, Held, Idle, Rest

LEMMA StaysSound ==
  ASSUME Tasks, AllSound, NEW w \in Writers, NEW r, task' = [task EXCEPT ![w] = r],
         resigned => resigned', Sound(w, r)'
  PROVE  AllSound'
<1>1. ASSUME NEW v \in Writers PROVE Sound(v, task[v])'
  <2>1. Sound(v, task[v])
    BY DEF AllSound
  <2>2. CASE v = w
    BY <2>2 DEF Tasks, Sound
  <2>3. CASE v # w
    <3>1. task'[v] = task[v]
      BY <2>3 DEF Tasks
    <3> QED BY <2>1, <3>1 DEF Sound, Held
  <2> QED BY <2>2, <2>3
<1> QED BY <1>1 DEF AllSound

LEMMA SameRows ==
  ASSUME DefaultInv, UNCHANGED targets, resigned => resigned', UNCHANGED <<stale, crossed>>
  PROVE  (RowsAcceptable /\ OneDefault /\ DefaultExists)'
BY DEF DefaultInv, RowsAcceptable, OneDefault, DefaultExists, Defaults, Present

LEMMA InitDefault == Init => DefaultInv
<1> SUFFICES ASSUME Init PROVE DefaultInv
  OBVIOUS
<1>1. PICK i \in Ids, s \in Settings :
        targets = [k \in Ids |->
                     IF k = i THEN [name |-> Standard, enabled |-> TRUE, isDefault |-> TRUE,
                                    settings |-> s]
                     ELSE NoTarget]
  BY DEF Init
<1>2. targets[i] # NoTarget
  <2>1. [name |-> Standard, enabled |-> TRUE, isDefault |-> TRUE, settings |-> s] \in Target
    BY TargetsAssumption DEF Target
  <2> QED BY <1>1, <2>1, NoTargetAssumption
<1>3. Present = {i} /\ targets[i].isDefault /\ targets[i].enabled
  BY <1>1, <1>2 DEF Present
<1>4. Defaults = {i}
  BY <1>3 DEF Defaults
<1>5. AllSound
  BY RestIsSound DEF Init, AllSound
<1> QED BY <1>3, <1>4, <1>5 DEF DefaultInv, RowsAcceptable, Acceptable, OneDefault, DefaultExists

(* What a save makes of the rows: its own, and the others without the flag *)
(* if they have been seen.                                                 *)
LEMMA SaveMakes ==
  ASSUME Tables, Tasks, NEW w \in Writers, SaveCommits(w)
  PROVE  LET i == task[w].id
             t == task[w].copy
         IN /\ i \in Ids /\ t \in Target /\ Held(task[w])
            /\ targets'[i] = t
            /\ i \in Present' /\ Present' = Present \cup {i}
            /\ ~t.isDefault => \A k \in Ids \ {i} : targets'[k] = targets[k]
            /\ \A k \in Present \ {i} :
                 targets'[k] \in {targets[k], [targets[k] EXCEPT !.isDefault = FALSE]}
            /\ t.isDefault => \A k \in task[w].seen \cap Present :
                 k # i => targets'[k] = [targets[k] EXCEPT !.isDefault = FALSE]
<1> DEFINE i == task[w].id
           t == task[w].copy
           cleared == Cleared(i, t, task[w].seen) \cap Present
<1>1. i \in Ids /\ t \in Target /\ Held(task[w])
  BY DEF SaveCommits, Tasks, TaskOK, Held
<1>2. targets' = [k \in Ids |->
                    IF k = i THEN t
                    ELSE IF k \in cleared
                         THEN [targets[k] EXCEPT !.isDefault = FALSE] ELSE targets[k]]
  BY DEF SaveCommits
<1>3. t.isDefault => cleared = (task[w].seen \ {i}) \cap Present
  BY DEF Cleared
<1>4. ~t.isDefault => cleared = {}
  BY DEF Cleared
<1>5. cleared \subseteq Present
  OBVIOUS
<1> HIDE DEF i, t, cleared
<1>6. \A k \in Present : targets[k] \in Target /\ [targets[k] EXCEPT !.isDefault = FALSE] \in Target
  BY DEF Tables, Present, Target
<1>7. targets'[i] = t /\ \A k \in Ids \ {i} : k \notin cleared => targets'[k] = targets[k]
  BY <1>1, <1>2
<1>8. \A k \in cleared \ {i} : targets'[k] = [targets[k] EXCEPT !.isDefault = FALSE]
  BY <1>2, <1>5 DEF Present
<1>9. \A k \in Ids : targets'[k] # NoTarget <=> targets[k] # NoTarget \/ k = i
  BY <1>1, <1>5, <1>6, <1>7, <1>8, NoTargetAssumption DEF Present
<1>10. Present' = Present \cup {i}
  BY <1>1, <1>9 DEF Present
<1>11. \A k \in Present \ {i} :
         targets'[k] \in {targets[k], [targets[k] EXCEPT !.isDefault = FALSE]}
  BY <1>7, <1>8 DEF Present
<1>12. t.isDefault => \A k \in task[w].seen \cap Present :
         k # i => targets'[k] = [targets[k] EXCEPT !.isDefault = FALSE]
  BY <1>3, <1>8
<1>13. ~t.isDefault => \A k \in Ids \ {i} : targets'[k] = targets[k]
  BY <1>4, <1>7
<1> QED BY <1>1, <1>7, <1>10, <1>11, <1>12, <1>13 DEF i, t

LEMMA SaveKeepsDefault ==
  ASSUME Tables, Tasks, DefaultInv, NEW w \in Writers, SaveCommits(w)
  PROVE  DefaultInv'
<1> DEFINE i == task[w].id
           t == task[w].copy
<1>1. i \in Ids /\ t \in Target /\ Held(task[w])
  BY SaveMakes
<1>2. targets'[i] = t /\ i \in Present' /\ Present' = Present \cup {i}
  BY SaveMakes
<1>3. ~t.isDefault => \A k \in Ids \ {i} : targets'[k] = targets[k]
  BY SaveMakes
<1>4. \A k \in Present \ {i} :
        targets'[k] \in {targets[k], [targets[k] EXCEPT !.isDefault = FALSE]}
  BY SaveMakes
<1>5. t.isDefault => \A k \in task[w].seen \cap Present :
        k # i => targets'[k] = [targets[k] EXCEPT !.isDefault = FALSE]
  BY SaveMakes
<1>6. /\ Sound(w, task[w])
      /\ stale' = (stale \/ targets[i] # task[w].base)
      /\ crossed' = (crossed \/ (t.isDefault /\ ~(Present \subseteq task[w].seen \cup {i})))
      /\ UNCHANGED resigned
  BY DEF SaveCommits, DefaultInv, AllSound
<1>7. AllSound'
  <2>1. Sound(w, Idle(w))'
    BY RestIsSound DEF Sound, Held, Idle, Rest
  <2> QED BY <2>1, StaysSound DEF SaveCommits, DefaultInv
<1> HIDE DEF i, t
<1>8. Acceptable(t)
  BY <1>1, <1>6 DEF Sound, t
<1>9. \A k \in Present : targets[k] \in Target
  BY DEF Tables, Present
<1>10. RowsAcceptable'
  <2>1. ASSUME NEW k \in Present \ {i} PROVE Acceptable(targets'[k])
    BY <1>4, <1>9 DEF DefaultInv, RowsAcceptable, Acceptable, Target
  <2> QED BY <1>2, <1>8, <2>1 DEF RowsAcceptable
<1>11. OneDefault'
  <2> SUFFICES ASSUME ~crossed' PROVE \A a, b \in Defaults' : a = b /\ targets'[a].enabled
    BY DEF OneDefault
  <2>1. \A a, b \in Defaults : a = b
    BY <1>6 DEF DefaultInv, OneDefault
  <2>2. CASE t.isDefault
    <3>1. ASSUME NEW k \in Present \ {i} PROVE ~targets'[k].isDefault
      BY <1>5, <1>6, <1>9, <2>2 DEF Target
    <3>2. Defaults' = {i}
      BY <1>2, <2>2, <3>1 DEF Defaults
    <3> QED BY <1>2, <1>8, <2>2, <3>2 DEF Acceptable
  <2>3. CASE ~t.isDefault
    <3>1. Defaults' \subseteq Defaults
      BY <1>2, <1>3, <2>3 DEF Defaults, Present
    <3> QED BY <1>10, <2>1, <3>1 DEF RowsAcceptable, Acceptable, Defaults
  <2> QED BY <2>2, <2>3
<1>12. DefaultExists'
  <2> SUFFICES ASSUME ~resigned', ~stale' PROVE Defaults' # {}
    BY DEF DefaultExists
  <2>1. targets[i] = task[w].base
    BY <1>6
  <2>2. PICK d \in Defaults : TRUE
    BY <1>6 DEF DefaultInv, DefaultExists
  <2>3. CASE t.isDefault
    BY <1>2, <2>3 DEF Defaults
  <2>4. CASE ~t.isDefault
    <3>1. d # i
      BY <1>1, <1>6, <2>1, <2>4 DEF Sound, Defaults, Present, t
    <3>2. targets'[d] = targets[d]
      BY <1>3, <2>4, <3>1 DEF Defaults, Present
    <3> QED BY <1>2, <3>2 DEF Defaults
  <2> QED BY <2>3, <2>4
<1> QED BY <1>7, <1>10, <1>11, <1>12 DEF DefaultInv

LEMMA HoldingKeepsDefault ==
  ASSUME Tables, Tasks, DefaultInv, NEW w \in Writers, NEW i, NEW b, NEW t, Holds(w, i, b, t),
         UNCHANGED <<targets, stale, crossed>>, resigned => resigned',
         Acceptable(t), b # NoTarget => (b.isDefault => t.isDefault \/ resigned'),
         w \in Processes => t = b
  PROVE  DefaultInv'
<1> DEFINE r == [stage |-> "holding", id |-> i, base |-> b, copy |-> t, seen |-> {}]
<1>1. Sound(w, r)'
  BY DEF Sound, Held, Acceptable
<1>2. task' = [task EXCEPT ![w] = r]
  BY DEF Holds
<1> HIDE DEF r
<1> QED BY <1>1, <1>2, StaysSound, SameRows DEF DefaultInv

LEMMA RestingKeepsDefault ==
  ASSUME Tasks, DefaultInv, NEW w \in Writers, task' = [task EXCEPT ![w] = Idle(w)],
         UNCHANGED <<targets, resigned, stale, crossed>>
  PROVE  DefaultInv'
<1>1. Sound(w, Idle(w))'
  BY RestIsSound DEF Sound, Held, Idle, Rest
<1> QED BY <1>1, StaysSound, SameRows DEF DefaultInv

LEMMA RestartKeepsSound ==
  ASSUME Tasks, AllSound, NEW p \in Processes, NEW l \in 1..3, Restarts(p, l)
  PROVE  AllSound'
<1>1. ASSUME NEW v \in Writers PROVE Sound(v, task[v])'
  <2>1. Sound(v, task[v]) /\ Sound(v, Idle(v))
    BY RestIsSound DEF AllSound
  <2>2. task'[v] \in {task[v], Idle(v)} /\ resigned' = resigned
    BY DEF Restarts
  <2> QED BY <2>1, <2>2 DEF Sound, Held
<1> QED BY <1>1 DEF AllSound

LEMMA DeletionKeepsDefault ==
  ASSUME Tables, Tasks, DefaultInv, NEW q \in Requests, Deletes(q)
  PROVE  DefaultInv'
<1> DEFINE i == task[q].id
<1>1. q \in Writers
  BY Apart
<1>2. /\ targets' = [targets EXCEPT ![i] = NoTarget]
      /\ stale' = (stale \/ targets[i] # task[q].base)
      /\ UNCHANGED <<resigned, crossed>>
  BY DEF Deletes
<1>3. task[q].base # NoTarget /\ ~task[q].base.isDefault
  BY <1>1 DEF Deletes, DefaultInv, AllSound, Sound
<1>4. AllSound'
  <2>1. Sound(q, Idle(q))'
    BY <1>1, RestIsSound DEF Sound, Held, Idle, Rest
  <2>2. task' = [task EXCEPT ![q] = Idle(q)] /\ AllSound
    BY DEF Deletes, DefaultInv
  <2> QED BY <1>1, <1>2, <2>1, <2>2, StaysSound
<1> HIDE DEF i
<1>5. Present' \subseteq Present /\ \A k \in Ids : k # i => targets'[k] = targets[k]
  BY <1>2 DEF Present, Tables
<1>6. \A k \in Present' : targets'[k] = targets[k]
  BY <1>2, <1>5 DEF Present, Tables
<1>7. RowsAcceptable' /\ OneDefault'
  BY <1>2, <1>5, <1>6 DEF DefaultInv, RowsAcceptable, OneDefault, Defaults
<1>8. DefaultExists'
  <2> SUFFICES ASSUME ~resigned', ~stale' PROVE Defaults' # {}
    BY DEF DefaultExists
  <2>1. PICK d \in Defaults : TRUE
    BY <1>2 DEF DefaultInv, DefaultExists
  <2>2. d # i
    BY <1>2, <1>3 DEF Defaults
  <2> QED BY <1>5, <2>2 DEF Defaults, Present
<1> QED BY <1>4, <1>7, <1>8 DEF DefaultInv

LEMMA NewDefaultKeepsDefault ==
  ASSUME Tables, Tasks, DefaultInv, NEW l \in 1..3, StartsWithoutDefault(l)
  PROVE  DefaultInv'
<1>1. Restarts(Api, l) /\ UNCHANGED <<resigned, stale, crossed>>
  BY DEF StartsWithoutDefault, Restarts
<1>2. AllSound'
  BY <1>1, Apart, RestartKeepsSound DEF DefaultInv
<1>3. CASE UNCHANGED targets
  BY <1>1, <1>2, <1>3, SameRows DEF DefaultInv
<1>4. ASSUME NEW i \in Ids, NEW s \in Settings \ Secretive,
             targets' = [k \in Ids |->
                  IF k = i THEN [name |-> Standard, enabled |-> TRUE, isDefault |-> TRUE,
                                 settings |-> s]
                  ELSE IF k \in Present THEN [targets[k] EXCEPT !.isDefault = FALSE]
                  ELSE NoTarget]
      PROVE  DefaultInv'
  <2>1. [name |-> Standard, enabled |-> TRUE, isDefault |-> TRUE, settings |-> s] \in Target
    BY TargetsAssumption DEF Target
  <2>2. i \in Present' /\ targets'[i].isDefault /\ targets'[i].enabled
    BY <1>4, <2>1, NoTargetAssumption DEF Present
  <2>3. ASSUME NEW k \in Present', k # i PROVE ~targets'[k].isDefault
    <3>1. k \in Present
      BY <1>4, <2>3 DEF Present
    <3>2. targets[k] \in Target
      BY <3>1 DEF Present, Tables
    <3> QED BY <1>4, <2>3, <3>1, <3>2 DEF Target, Present
  <2>4. Defaults' = {i}
    BY <2>2, <2>3 DEF Defaults
  <2> QED
    BY <1>2, <2>2, <2>3, <2>4
       DEF DefaultInv, RowsAcceptable, Acceptable, OneDefault, DefaultExists
<1> QED BY <1>3, <1>4 DEF StartsWithoutDefault

LEMMA DefaultStep ==
  ASSUME Tables, Tasks, DefaultInv, [Next]_vars
  PROVE  DefaultInv'
<1> USE Apart
<1>1. ASSUME NEW q \in Requests, NEW i \in Ids, CreateTarget(q, i) PROVE DefaultInv'
  BY <1>1, HoldingKeepsDefault DEF CreateTarget
<1>2. ASSUME NEW q \in Requests, NEW i \in Ids, EditTarget(q, i) PROVE DefaultInv'
  <2>1. PICK t \in Target : /\ Acceptable(t) /\ Holds(q, i, targets[i], t)
                            /\ resigned' = (resigned \/ (targets[i].isDefault /\ ~t.isDefault))
    BY <1>2 DEF EditTarget
  <2> QED BY <1>2, <2>1, HoldingKeepsDefault DEF EditTarget
<1>3. ASSUME NEW q \in Requests, NEW i \in Ids, DeleteChecks(q, i) PROVE DefaultInv'
  <2>1. PICK r : /\ r = [Rest("deleting") EXCEPT !.id = i, !.base = targets[i]]
                 /\ task' = [task EXCEPT ![q] = r]
    BY <1>3 DEF DeleteChecks
  <2>2. targets[i] # NoTarget /\ ~targets[i].isDefault
    BY <1>3 DEF DeleteChecks, Readable, Deletable
  <2>3. r.stage = "deleting" /\ r.base = targets[i] /\ UNCHANGED <<targets, resigned, stale, crossed>>
    BY <1>3, <2>1 DEF Rest, DeleteChecks
  <2>4. Sound(q, r)'
    BY <2>2, <2>3 DEF Sound, Held
  <2> QED BY <2>1, <2>3, <2>4, StaysSound, SameRows DEF DefaultInv
<1>4. ASSUME NEW q \in Requests, Deletes(q) PROVE DefaultInv'
  BY <1>4, DeletionKeepsDefault
<1>5. ASSUME NEW p \in Processes, NEW i \in Ids, DeliveryReads(p, i) PROVE DefaultInv'
  <2>1. targets[i] # NoTarget /\ Acceptable(targets[i])
    BY <1>5 DEF DeliveryReads, Readable, DefaultInv, RowsAcceptable, Present
  <2> QED BY <1>5, <2>1, HoldingKeepsDefault DEF DeliveryReads
<1>6. ASSUME NEW w \in Writers, SaveSees(w) PROVE DefaultInv'
  <2>1. PICK r : /\ r = [task[w] EXCEPT !.stage = "saving", !.seen = Present]
                 /\ task' = [task EXCEPT ![w] = r]
    BY <1>6 DEF SaveSees, Tasks
  <2>2. /\ r.stage = "saving" /\ r.base = task[w].base /\ r.copy = task[w].copy
        /\ UNCHANGED <<targets, resigned, stale, crossed>>
    BY <1>6, <2>1 DEF SaveSees, Tasks, TaskOK, Task
  <2>3. Sound(w, task[w]) /\ Held(task[w])
    BY <1>6 DEF SaveSees, DefaultInv, AllSound, Held
  <2>4. Sound(w, r)'
    BY <2>2, <2>3 DEF Sound, Held
  <2> QED BY <2>1, <2>2, <2>4, StaysSound, SameRows DEF DefaultInv
<1>7. ASSUME NEW w \in Writers, SaveCommits(w) PROVE DefaultInv'
  BY <1>7, SaveKeepsDefault
<1>8. ASSUME NEW w \in Writers, SaveRefused(w) PROVE DefaultInv'
  BY <1>8, RestingKeepsDefault DEF SaveRefused
<1>9. ASSUME NEW p \in Processes, NEW l \in 1..3, Starts(p, l) \/ StartRefusedByKeys(p, l)
      PROVE  DefaultInv'
  BY <1>9, RestartKeepsSound, SameRows DEF Starts, StartRefusedByKeys, Restarts, DefaultInv
<1>10. ASSUME NEW l \in 1..3, StartsWithoutDefault(l) PROVE DefaultInv'
  BY <1>10, NewDefaultKeepsDefault
<1>11. CASE UNCHANGED vars
  BY <1>11, SameRows DEF vars, DefaultInv, AllSound, Sound, Held
<1> QED
  BY <1>1, <1>2, <1>3, <1>4, <1>5, <1>6, <1>7, <1>8, <1>9, <1>10, <1>11 DEF Next

LEMMA DefaultHolds == Spec => [](Tables /\ Tasks /\ DefaultInv)
<1>1. Init => Tables /\ Matched /\ Tasks /\ DefaultInv
  BY InitTyped, InitDefault
<1>2. Tables /\ Matched /\ Tasks /\ DefaultInv /\ [Next]_vars
        => (Tables /\ Matched /\ Tasks /\ DefaultInv)'
  BY StepTyped, DefaultStep
<1> QED BY <1>1, <1>2, PTL DEF Spec

(* Two defaults or a paused one come only from a save that had not seen a  *)
(* target made meanwhile (save_target_system).                             *)
THEOREM DefaultStaysOne == Spec => []OneDefault
<1>1. DefaultInv => OneDefault
  BY DEF DefaultInv
<1> QED BY <1>1, DefaultHolds, PTL

(* No default is left only by an administrator's wish or by a stale copy   *)
(* (_deliver, update_target_system, delete_target_system).                 *)
THEOREM ADefaultRemains == Spec => []DefaultExists
<1>1. DefaultInv => DefaultExists
  BY DEF DefaultInv
<1> QED BY <1>1, DefaultHolds, PTL

(* A delivery whose target has not changed during the call leaves the      *)
(* table as it is, the flags of the others included (_deliver).            *)
THEOREM DeliveriesChangeNothing == Spec => DeliveriesLeaveTargets
<1>1. ASSUME Tables, Tasks, DefaultInv, NEW p \in Processes, SaveCommits(p),
             targets[task[p].id] = task[p].base, ~crossed'
      PROVE  UNCHANGED targets
  <2> DEFINE i == task[p].id
             t == task[p].copy
  <2>1. p \in Writers
    BY Apart
  <2>2. i \in Ids /\ t \in Target /\ Held(task[p]) /\ targets'[i] = t
    BY <1>1, <2>1, SaveMakes
  <2>3. targets[i] = t
    BY <1>1, <2>1, <2>2 DEF DefaultInv, AllSound, Sound
  <2>4. Present' = Present \cup {i}
    BY <1>1, <2>1, SaveMakes
  <2>5. ~t.isDefault => \A k \in Ids \ {i} : targets'[k] = targets[k]
    BY <1>1, <2>1, SaveMakes
  <2>6. \A k \in Present \ {i} :
          targets'[k] \in {targets[k], [targets[k] EXCEPT !.isDefault = FALSE]}
    BY <1>1, <2>1, SaveMakes
  <2> HIDE DEF i, t
  <2>7. ~crossed
    BY <1>1 DEF SaveCommits
  <2>8. i \in Present
    BY <2>2, <2>3, NoTargetAssumption DEF Present
  <2>9. ASSUME NEW k \in Ids, t.isDefault, k # i PROVE targets'[k] = targets[k]
    <3>1. CASE k \in Present
      <4>1. targets[k] \in Target
        BY <1>1, <3>1 DEF Present, Tables
      <4>2. ~targets[k].isDefault
        BY <2>3, <2>7, <2>8, <2>9, <3>1, <1>1 DEF DefaultInv, OneDefault, Defaults
      <4>3. [targets[k] EXCEPT !.isDefault = FALSE] = targets[k]
        BY <4>1, <4>2 DEF Target
      <4> QED BY <2>6, <2>9, <3>1, <4>3
    <3>2. CASE k \notin Present
      BY <2>4, <2>9, <3>2 DEF Present
    <3> QED BY <3>1, <3>2
  <2>10. \A k \in Ids : targets'[k] = targets[k]
    BY <2>2, <2>3, <2>5, <2>9
  <2>11. targets = [k \in Ids |-> targets[k]] /\ targets' = [k \in Ids |-> targets'[k]]
    BY <1>1 DEF Tables, SaveCommits
  <2> QED BY <2>10, <2>11
<1>2. Tables /\ Tasks /\ DefaultInv =>
        [\A p \in Processes :
           SaveCommits(p) /\ targets[task[p].id] = task[p].base /\ ~crossed'
             => UNCHANGED targets]_vars
  BY <1>1
<1> QED BY <1>2, DefaultHolds, PTL DEF DeliveriesLeaveTargets

----------------------------------------------------------------------------
(* The keys.  Once every process has the new key first, nothing is left    *)
(* under the old one; nothing is under the new one before a process has    *)
(* it; and no process gives the old one up while another still uses it.    *)
KeysInv ==
  /\ (\A p \in Processes : level[p] # 1) => \A i \in Ids : cipher[i] # "old"
  /\ \A i \in Ids : cipher[i] = "new" => \E p \in Processes : level[p] # 1
  /\ \A p, o \in Processes : level[p] = 3 => level[o] # 1

LEMMA InitKeys == Init => KeysInv
BY Apart DEF Init, KeysInv

LEMMA SameKeys ==
  ASSUME KeysInv, UNCHANGED level, \A i \in Ids : cipher'[i] = cipher[i] \/ cipher'[i] = "none"
  PROVE  KeysInv'
BY DEF KeysInv

LEMMA KeyedLevels ==
  ASSUME Tables, KeysInv, NEW p \in Processes, NEW l \in 1..3, Restarts(p, l)
  PROVE  /\ level'[p] = l /\ \A o \in Processes \ {p} : level'[o] = level[o]
         /\ level[p] # 1 => l # 1
         /\ l = 3 => \A o \in Processes : level[o] # 1
<1>1. level'[p] = l /\ \A o \in Processes \ {p} : level'[o] = level[o]
  BY DEF Restarts, Tables
<1>2. /\ level[p] \in 1..3 /\ (l = level[p] \/ l = level[p] + 1)
      /\ l > level[p] => \A o \in Processes : level[o] >= level[p]
  BY DEF Restarts, Keyed, Tables
<1>3. level[p] # 1 => l # 1
  BY <1>2
<1>4. CASE l = 3 /\ level[p] = 3
  BY <1>1, <1>3, <1>4 DEF KeysInv
<1>5. CASE l = 3 /\ level[p] # 3
  <2>1. level[p] = 2 /\ l > level[p]
    BY <1>2, <1>5
  <2>2. \A o \in Processes : level[o] \in 1..3 /\ level[o] >= 2
    BY <1>2, <2>1 DEF Tables
  <2> QED BY <1>1, <1>3, <2>2
<1> QED BY <1>1, <1>3, <1>4, <1>5

LEMMA StartKeepsKeys ==
  ASSUME Tables, KeysInv, NEW p \in Processes, NEW l \in 1..3, Restarts(p, l),
         \/ cipher' = Rotated(l)
         \/ ~KeysFit(l) /\ cipher' = cipher
  PROVE  KeysInv'
<1>1. /\ level'[p] = l /\ \A o \in Processes \ {p} : level'[o] = level[o]
      /\ level[p] # 1 => l # 1
      /\ l = 3 => \A o \in Processes : level[o] # 1
  BY KeyedLevels
<1>2. \A q, o \in Processes : level'[q] = 3 => level'[o] # 1
  BY <1>1 DEF KeysInv
<1>3. CASE cipher' = Rotated(l)
  <2>1. \A i \in Ids : cipher'[i] # "none" => cipher'[i] = IF l = 1 THEN "old" ELSE "new"
    BY <1>3 DEF Rotated, Primary
  <2> QED BY <1>1, <1>2, <2>1 DEF KeysInv
<1>4. CASE ~KeysFit(l) /\ cipher' = cipher
  <2>1. l # 2
    BY <1>4 DEF KeysFit, Decrypts
  <2>2. \A i \in Ids : cipher[i] = "new" => \E o \in Processes : level'[o] # 1
    BY <1>1 DEF KeysInv
  <2>3. CASE l = 1
    BY <1>1, <1>2, <1>4, <2>2, <2>3 DEF KeysInv
  <2>4. CASE l = 3
    BY <1>1, <1>2, <1>4, <2>2, <2>4 DEF KeysInv
  <2> QED BY <2>1, <2>3, <2>4
<1> QED BY <1>3, <1>4

LEMMA SaveKeepsKeys ==
  ASSUME Tables, KeysInv, NEW w \in Writers, SaveCommits(w)
  PROVE  KeysInv'
<1> DEFINE h == Host(w)
<1>1. h \in Processes
  BY Apart
<1>2. UNCHANGED level
  BY DEF SaveCommits
<1>3. \A i \in Ids : cipher'[i] \in {cipher[i], "none", Primary(level[h])}
  BY DEF SaveCommits, Tables
<1> HIDE DEF h
<1>4. Primary(level[h]) = "old" => level[h] = 1
  BY DEF Primary
<1>5. Primary(level[h]) = "new" => level[h] # 1
  BY DEF Primary
<1>6. ASSUME NEW i \in Ids, \A p \in Processes : level[p] # 1 PROVE cipher'[i] # "old"
  BY <1>1, <1>3, <1>4, <1>6 DEF KeysInv
<1>7. ASSUME NEW i \in Ids, cipher'[i] = "new" PROVE \E p \in Processes : level[p] # 1
  BY <1>1, <1>3, <1>5, <1>7 DEF KeysInv
<1> QED BY <1>2, <1>6, <1>7 DEF KeysInv

LEMMA KeysStep ==
  ASSUME Tables, KeysInv, [Next]_vars
  PROVE  KeysInv'
<1> USE Apart
<1>1. ASSUME NEW q \in Requests, NEW i \in Ids,
             CreateTarget(q, i) \/ EditTarget(q, i) \/ DeleteChecks(q, i)
      PROVE  KeysInv'
  BY <1>1, SameKeys DEF CreateTarget, EditTarget, DeleteChecks
<1>2. ASSUME NEW q \in Requests, Deletes(q) PROVE KeysInv'
  <2>1. \A i \in Ids : cipher'[i] = cipher[i] \/ cipher'[i] = "none"
    BY <1>2 DEF Deletes, Tables
  <2> QED BY <1>2, <2>1, SameKeys DEF Deletes
<1>3. ASSUME NEW p \in Processes, NEW i \in Ids, DeliveryReads(p, i) PROVE KeysInv'
  BY <1>3, SameKeys DEF DeliveryReads
<1>4. ASSUME NEW w \in Writers, SaveSees(w) \/ SaveRefused(w) PROVE KeysInv'
  BY <1>4, SameKeys DEF SaveSees, SaveRefused
<1>5. ASSUME NEW w \in Writers, SaveCommits(w) PROVE KeysInv'
  BY <1>5, SaveKeepsKeys
<1>6. ASSUME NEW p \in Processes, NEW l \in 1..3, Starts(p, l) \/ StartRefusedByKeys(p, l)
      PROVE  KeysInv'
  BY <1>6, StartKeepsKeys DEF Starts, StartRefusedByKeys
<1>7. ASSUME NEW l \in 1..3, StartsWithoutDefault(l) PROVE KeysInv'
  BY <1>7, StartKeepsKeys DEF StartsWithoutDefault
<1>8. CASE UNCHANGED vars
  BY <1>8, SameKeys DEF vars
<1> QED BY <1>1, <1>2, <1>3, <1>4, <1>5, <1>6, <1>7, <1>8 DEF Next

LEMMA KeysAllowStart ==
  ASSUME Tables, KeysInv, NEW p \in Processes, NEW l \in 1..3, Keyed(p, l)
  PROVE  KeysFit(l) \/ \E o \in Processes : level[o] > l
<1>1. CASE l = 1
  <2>1. \A o \in Processes : level[o] # 1 => level[o] > l
    BY <1>1 DEF Tables
  <2> QED BY <1>1, <2>1 DEF KeysInv, KeysFit, Decrypts
<1>2. CASE l = 2
  BY <1>2 DEF KeysFit, Decrypts
<1>3. CASE l = 3
  <2>1. level[p] \in 1..3 /\ l \in {level[p], level[p] + 1}
    BY DEF Keyed, Tables
  <2>2. CASE level[p] = 3
    BY <1>3, <2>2 DEF KeysInv, KeysFit, Decrypts
  <2>3. CASE level[p] # 3
    <3>1. level[p] = 2 /\ l > level[p]
      BY <1>3, <2>1, <2>3
    <3>2. \A o \in Processes : level[o] >= 2
      BY <3>1 DEF Keyed
    <3> QED BY <1>3, <3>2 DEF KeysInv, KeysFit, Decrypts
  <2> QED BY <2>2, <2>3
<1> QED BY <1>1, <1>2, <1>3

(* An exchange of keys as the documentation prescribes it keeps no process *)
(* from starting that does not start behind the others (secrets.py), nor   *)
(* does a missing default target but for the two exceptions above.         *)
THEOREM ProcessesStartAgain == Spec => []StartsAgain
<1>1. Tables /\ KeysInv /\ DefaultInv => StartsAgain
  <2> SUFFICES ASSUME Tables, KeysInv, DefaultInv PROVE StartsAgain
    OBVIOUS
  <2>1. \A p \in Processes, l \in 1..3 :
          Keyed(p, l) => KeysFit(l) \/ \E o \in Processes : level[o] > l
    BY KeysAllowStart
  <2>2. HasDefault \/ resigned \/ stale
    BY DEF HasDefault, DefaultInv, DefaultExists, RowsAcceptable, Acceptable, Defaults
  <2> QED BY <2>1, <2>2 DEF StartsAgain
<1>2. Tables /\ Matched /\ Tasks /\ KeysInv /\ [Next]_vars
        => (Tables /\ Matched /\ Tasks /\ KeysInv)'
  BY StepTyped, KeysStep
<1> QED BY InitTyped, InitKeys, DefaultHolds, <1>1, <1>2, PTL DEF Spec
=============================================================================
