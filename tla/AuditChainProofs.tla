-------------------------- MODULE AuditChainProofs --------------------------
(***************************************************************************)
(* What holds of the audit log for any number of events and threads, any   *)
(* retention and any clock.                                                *)
(***************************************************************************)
EXTENDS AuditChain, TLAPS

(* A place is the end of the chain.                                        *)
AtTip(place) ==
  IF log = {} THEN place = anchor
  ELSE \E r \in log : IsNewest(r) /\ place = PlaceOf(r)

(* The shape of the log: it starts after 0 and has a newest row; the lock  *)
(* is with the thread that writes; nobody is at work before the legacy     *)
(* events are chained; every event on its way has been created.            *)
Shape ==
  /\ TypeOK
  /\ \A r \in log : r.index > 0 /\ created[r.event] # NotYet
  /\ log = {} \/ \E r \in log : IsNewest(r)
  /\ \A p \in Threads : pc[p] \in Writing => lock = p
  /\ legacy # {} => \A p \in Threads : pc[p] = "idle"
  /\ \A e \in legacy : created[e] # NotYet
  /\ \A p \in Threads : pc[p] \in {"saving", "inserting"} =>
       mem[p].event \in Events /\ created[mem[p].event] # NotYet

LEMMA RowAfterIsRow ==
  ASSUME NEW e \in Events, NEW place \in Place
  PROVE  /\ RowAfter(e, place) \in Row
         /\ RowAfter(e, place).index = place.index + 1
         /\ RowAfter(e, place).event = e
         /\ RowAfter(e, place).prev = place.hash
         /\ RowAfter(e, place).hash = Hash(RowAfter(e, place).prev, ValuesOf(RowAfter(e, place)))
<1>1. Hash(place.hash, <<e, FALSE>>) \in Hashes
  <2>1. place.hash \in Seq(Values)
    BY DEF Place, Hashes
  <2>2. <<e, FALSE>> \in Values
    BY DEF Values
  <2>3. ASSUME NEW v \in Values PROVE Append(place.hash, v) \in Seq(Values)
    BY <2>1
  <2> QED
    BY <2>2, <2>3 DEF Hash, Hashes
<1> QED
  BY <1>1 DEF RowAfter, Row, Place, ValuesOf

LEMMA TipIsTip ==
  ASSUME Shape
  PROVE  Tip \in Place /\ AtTip(Tip)
<1>1. CASE log = {}
  BY <1>1 DEF Shape, TypeOK, Tip, AtTip
<1>2. CASE log # {}
  <2>1. Newest \in log /\ IsNewest(Newest)
    BY <1>2 DEF Shape, Newest
  <2>2. PlaceOf(Newest) \in Place
    BY <2>1 DEF Shape, TypeOK, PlaceOf, Place, Row
  <2> QED
    BY <1>2, <2>1, <2>2 DEF Tip, AtTip
<1> QED
  BY <1>1, <1>2

LEMMA TipBounds ==
  ASSUME NEW place \in Place, AtTip(place)
  PROVE  \A s \in log : s.index <= place.index
BY DEF AtTip, IsNewest, PlaceOf

LEMMA GotoTypes ==
  ASSUME TypeOK, NEW p \in Threads, NEW stage \in Stages,
         NEW e \in Events \cup {NotYet}, NEW place \in Place,
         Goto(p, stage, e, place)
  PROVE  /\ pc' \in [Threads -> Stages]
         /\ mem' \in [Threads -> Memory]
BY DEF TypeOK, Goto, Memory

LEMMA BlankIsMemory == Start \in Place /\ Blank \in Memory /\ "idle" \in Stages
<1>1. Genesis \in Hashes
  BY DEF Genesis, Hashes
<1> QED
  BY <1>1 DEF Start, Place, Blank, Memory, Stages

THEOREM InitShape == Init => Shape
<1> SUFFICES ASSUME Init PROVE Shape
  OBVIOUS
<1>1. created \in [Events -> Nat \cup {NotYet}]
  BY DEF Init, NotYet
<1> QED
  BY <1>1, BlankIsMemory, AuditAssumption
  DEF Init, Shape, TypeOK, Start, Memory, Blank, Stages, Writing, Verdicts

(* A step that leaves the log alone keeps its shape, if the thread it is   *)
(* about keeps to the rules.                                               *)
LEMMA QuietStep ==
  ASSUME Shape, TypeOK', NEW p \in Threads,
         UNCHANGED <<log, created, legacy>>,
         \A q \in Threads \ {p} :
           pc'[q] = pc[q] /\ mem'[q] = mem[q] /\ (pc[q] \in Writing => lock' = lock),
         pc'[p] \in Writing => lock' = p,
         legacy = {},
         pc'[p] \in {"saving", "inserting"} =>
           mem'[p].event \in Events /\ created[mem'[p].event] # NotYet
  PROVE  Shape'
<1>1. (\A q \in Threads : pc[q] \in Writing => lock = q)'
  BY DEF Shape
<1> QED
  BY <1>1 DEF Shape, IsNewest

(* A row after the tip takes the log to a log of the same shape.           *)
LEMMA AppendKeepsLog ==
  ASSUME Shape, NEW e \in Events, NEW place \in Place, AtTip(place),
         created[e] # NotYet,
         log' = log \cup {RowAfter(e, place)}, UNCHANGED created
  PROVE  /\ (\A r \in log : r.index > 0 /\ created[r.event] # NotYet)'
         /\ (\E r \in log : IsNewest(r))'
         /\ log' \in SUBSET Row
<1> DEFINE new == RowAfter(e, place)
<1>1. /\ new \in Row /\ new.index = place.index + 1 /\ new.event = e
      /\ place.index \in Nat
  BY RowAfterIsRow DEF Place
<1>2. \A r \in log : r.index <= place.index
  BY DEF AtTip, IsNewest, PlaceOf
<1>3. \A r \in log : r.index \in Nat
  BY DEF Shape, TypeOK, Row
<1> HIDE DEF new
<1>4. \A r \in log' : r.index <= new.index
  BY <1>1, <1>2, <1>3 DEF new
<1> QED
  BY <1>1, <1>4 DEF Shape, TypeOK, IsNewest, new

LEMMA InitializeShape == Shape /\ Initialize => Shape'
<1> SUFFICES ASSUME Shape, Initialize PROVE Shape'
  OBVIOUS
<1>1. PICK e \in legacy : log' = log \cup {RowAfter(e, Tip)} /\ legacy' = legacy \ {e}
  BY DEF Initialize
<1>2. e \in Events /\ created[e] # NotYet /\ UNCHANGED created
  BY AuditAssumption DEF Shape, TypeOK, Initialize
<1>3. /\ (\A r \in log : r.index > 0 /\ created[r.event] # NotYet)'
      /\ (\E r \in log : IsNewest(r))'
      /\ log' \in SUBSET Row
  BY <1>1, <1>2, TipIsTip, AppendKeepsLog
<1>4. UNCHANGED <<now, created, anchor, status, lock, pc, mem, crashes, damaged>>
  BY DEF Initialize, faultVars
<1>5. legacy # {} /\ \A p \in Threads : pc[p] = "idle"
  BY <1>1 DEF Shape
<1>6. TypeOK'
  BY <1>1, <1>3, <1>4 DEF Shape, TypeOK
<1> QED
  BY <1>1, <1>3, <1>4, <1>5, <1>6 DEF Shape, Writing

LEMMA SaveBeginsShape ==
  ASSUME Shape, NEW p \in Threads, SaveBegins(p) PROVE Shape'
<1>1. PICK e \in Events : /\ created[e] = NotYet
                          /\ created' = [created EXCEPT ![e] = now]
                          /\ Goto(p, "saving", e, Start)
  BY DEF SaveBegins
<1>2. UNCHANGED <<now, legacy, log, anchor, status, lock, crashes, damaged>>
  BY DEF SaveBegins, chainVars, faultVars
<1>3. now \in Nat /\ created \in [Events -> Nat \cup {NotYet}] /\ now # NotYet
  BY DEF Shape, TypeOK, NotYet
<1>4. created' \in [Events -> Nat \cup {NotYet}]
  BY <1>1, <1>3
<1>5. "saving" \in Stages
  BY DEF Stages
<1>6. TypeOK'
  BY <1>1, <1>2, <1>4, <1>5, GotoTypes, BlankIsMemory DEF Shape, TypeOK
<1>7. \A f \in Events : created[f] # NotYet => created'[f] # NotYet
  BY <1>1, <1>3
<1>8. /\ pc'[p] = "saving" /\ mem'[p].event = e /\ created'[e] # NotYet
      /\ \A q \in Threads \ {p} : pc'[q] = pc[q] /\ mem'[q] = mem[q]
  BY <1>1, <1>3 DEF Goto, Shape, TypeOK
<1>9. legacy = {}
  BY DEF SaveBegins, Begins
<1>10. (\A r \in log : r.index > 0 /\ created[r.event] # NotYet)'
  BY <1>2, <1>7 DEF Shape, TypeOK, Row
<1>11. (log = {} \/ \E r \in log : IsNewest(r))'
  BY <1>2 DEF Shape, IsNewest
<1>12. (\A q \in Threads : pc[q] \in Writing => lock = q)'
  BY <1>2, <1>8 DEF Shape, Writing
<1>13. (\A q \in Threads : pc[q] \in {"saving", "inserting"} =>
          mem[q].event \in Events /\ created[mem[q].event] # NotYet)'
  BY <1>7, <1>8 DEF Shape
<1> QED
  BY <1>2, <1>6, <1>9, <1>10, <1>11, <1>12, <1>13 DEF Shape

LEMMA SaveReadShape ==
  ASSUME Shape, NEW p \in Threads, SaveRead(p) PROVE Shape'
<1>1. /\ pc[p] = "saving" /\ lock' = p /\ lock = Nobody
      /\ Goto(p, "inserting", mem[p].event, Tip)
      /\ UNCHANGED <<now, created, legacy, log, anchor, status, crashes, damaged>>
  BY DEF SaveRead, Acquire, chainVars, faultVars
<1>2. mem[p].event \in Events /\ created[mem[p].event] # NotYet /\ legacy = {}
  BY <1>1 DEF Shape
<1>3. "inserting" \in Stages
  BY DEF Stages, Writing
<1>4. TypeOK'
  BY <1>1, <1>2, <1>3, GotoTypes, TipIsTip DEF Shape, TypeOK
<1>5. /\ pc'[p] = "inserting" /\ mem'[p].event = mem[p].event
      /\ \A q \in Threads \ {p} :
           pc'[q] = pc[q] /\ mem'[q] = mem[q] /\ pc[q] \notin Writing
  BY <1>1, AuditAssumption DEF Goto, Shape, TypeOK
<1> QED
  BY <1>1, <1>2, <1>4, <1>5, QuietStep

LEMMA SaveInsertShape ==
  ASSUME Shape, NEW p \in Threads, SaveInsert(p), AtTip(mem[p].at) PROVE Shape'
<1>1. /\ pc[p] = "inserting" /\ lock' = Nobody
      /\ Goto(p, "idle", NotYet, Start)
      /\ UNCHANGED <<now, created, legacy, anchor, status, crashes, damaged>>
      /\ log' = log \/ log' = log \cup {RowAfter(mem[p].event, mem[p].at)}
  BY DEF SaveInsert, Release, Finish, faultVars
<1>2. /\ mem[p].event \in Events /\ created[mem[p].event] # NotYet /\ legacy = {}
      /\ mem[p].at \in Place
  BY <1>1 DEF Shape, TypeOK, Memory
<1>3. /\ (\A r \in log : r.index > 0 /\ created[r.event] # NotYet)'
      /\ (log = {} \/ \E r \in log : IsNewest(r))'
      /\ log' \in SUBSET Row
  <2>1. CASE log' = log
    BY <1>1, <2>1 DEF Shape, TypeOK, IsNewest
  <2>2. CASE log' = log \cup {RowAfter(mem[p].event, mem[p].at)}
    BY <1>1, <1>2, <2>2, AppendKeepsLog
  <2> QED
    BY <1>1, <2>1, <2>2
<1>4. TypeOK'
  BY <1>1, <1>3, GotoTypes, BlankIsMemory DEF Shape, TypeOK
<1>5. /\ pc'[p] = "idle"
      /\ \A q \in Threads \ {p} :
           pc'[q] = pc[q] /\ mem'[q] = mem[q] /\ pc[q] \notin Writing
  BY <1>1 DEF Goto, Shape, TypeOK, Writing
<1> QED
  BY <1>1, <1>2, <1>3, <1>4, <1>5 DEF Shape, Writing

LEMMA CleanFirstShape ==
  ASSUME Shape, NEW p \in Threads, CleanFirst(p) PROVE Shape'
<1>1. /\ pc[p] = "idle" /\ legacy = {} /\ lock' = p /\ lock = Nobody
      /\ UNCHANGED <<now, created, legacy, log, anchor, status, crashes, damaged>>
  BY DEF CleanFirst, Begins, Acquire, chainVars, faultVars
<1>2. PICK stage \in {"bounding", "anchoring"}, place \in Place :
        Goto(p, stage, mem[p].event, place)
  <2>1. \A r \in log : [index |-> r.index - 1, hash |-> Genesis] \in Place
    BY BlankIsMemory DEF Shape, TypeOK, Row, Place, Start
  <2> QED
    BY <2>1, BlankIsMemory DEF CleanFirst
<1>3. stage \in Stages /\ mem[p].event \in Events \cup {NotYet}
  BY DEF Stages, Writing, Shape, TypeOK, Memory
<1>4. TypeOK'
  BY <1>1, <1>2, <1>3, GotoTypes DEF Shape, TypeOK
<1>5. /\ pc'[p] = stage
      /\ \A q \in Threads \ {p} :
           pc'[q] = pc[q] /\ mem'[q] = mem[q] /\ pc[q] \notin Writing
  BY <1>1, <1>2, AuditAssumption DEF Goto, Shape, TypeOK
<1> QED
  BY <1>1, <1>4, <1>5, QuietStep

LEMMA CleanMaxShape ==
  ASSUME Shape, NEW p \in Threads, CleanMax(p) PROVE Shape'
<1>1. /\ pc[p] = "bounding"
      /\ UNCHANGED <<now, created, legacy, log, anchor, status, lock, crashes, damaged>>
  BY DEF CleanMax, chainVars, faultVars
<1>2. PICK place \in Place : Goto(p, "anchoring", mem[p].event, place)
  <2>1. (IF log = {} THEN 0 ELSE Newest.index) \in Nat
    BY DEF Newest, Shape, TypeOK, Row
  <2>2. [index |-> IF log = {} THEN 0 ELSE Newest.index, hash |-> Genesis] \in Place
    BY <2>1, BlankIsMemory DEF Place, Start
  <2> QED
    BY <2>2 DEF CleanMax
<1>3. "anchoring" \in Stages /\ mem[p].event \in Events \cup {NotYet}
  BY DEF Stages, Writing, Shape, TypeOK, Memory
<1>4. TypeOK'
  BY <1>1, <1>2, <1>3, GotoTypes DEF Shape, TypeOK
<1>5. /\ pc'[p] = "anchoring" /\ lock = p /\ legacy = {}
      /\ \A q \in Threads \ {p} : pc'[q] = pc[q] /\ mem'[q] = mem[q]
  BY <1>1, <1>2 DEF Goto, Shape, TypeOK, Writing
<1> QED
  BY <1>1, <1>4, <1>5, QuietStep

LEMMA CleanAnchorShape ==
  ASSUME Shape, NEW p \in Threads, CleanAnchor(p) PROVE Shape'
<1>1. /\ pc[p] = "anchoring"
      /\ UNCHANGED <<now, created, legacy, log, anchor, status, crashes, damaged>>
  BY DEF CleanAnchor, chainVars, faultVars
<1>2. lock = p /\ legacy = {} /\ mem[p].event \in Events \cup {NotYet}
  BY <1>1 DEF Shape, TypeOK, Writing, Memory
<1>3. CASE UNCHANGED lock
  <2>1. PICK place \in Place, e \in Events \cup {NotYet}, stage \in {"deleting", "idle"} :
          Goto(p, stage, e, place)
    BY <1>2, BlankIsMemory DEF CleanAnchor, Finish, PlaceOf, Place, Shape, TypeOK, Row
  <2>2. stage \in Stages
    BY DEF Stages, Writing
  <2>3. TypeOK'
    BY <1>1, <1>3, <2>1, <2>2, GotoTypes DEF Shape, TypeOK
  <2>4. pc'[p] = stage /\ \A q \in Threads \ {p} : pc'[q] = pc[q] /\ mem'[q] = mem[q]
    BY <2>1 DEF Goto, Shape, TypeOK
  <2> QED
    BY <1>1, <1>2, <1>3, <2>3, <2>4, QuietStep
<1>4. CASE Finish(p) /\ Release
  <2>1. Goto(p, "idle", NotYet, Start) /\ lock' = Nobody
    BY <1>4 DEF Finish, Release
  <2>2. TypeOK'
    BY <1>1, <2>1, GotoTypes, BlankIsMemory DEF Shape, TypeOK
  <2>3. /\ pc'[p] = "idle"
        /\ \A q \in Threads \ {p} :
             pc'[q] = pc[q] /\ mem'[q] = mem[q] /\ pc[q] \notin Writing
    BY <1>2, <2>1 DEF Goto, Shape, TypeOK
  <2> QED
    BY <1>1, <1>2, <2>2, <2>3, QuietStep DEF Writing
<1> QED
  BY <1>3, <1>4 DEF CleanAnchor

LEMMA CleanDeleteShape ==
  ASSUME Shape, NEW p \in Threads, CleanDelete(p) PROVE Shape'
<1>1. /\ pc[p] = "deleting" /\ lock' = Nobody /\ anchor' = mem[p].at
      /\ log' = {r \in log : r.index > mem[p].at.index}
      /\ Goto(p, "idle", NotYet, Start)
      /\ UNCHANGED <<now, created, legacy, status, crashes, damaged>>
  BY DEF CleanDelete, Release, Finish, faultVars
<1>2. mem[p].at \in Place /\ lock = p /\ legacy = {}
  BY <1>1 DEF Shape, TypeOK, Memory, Writing
<1>3. (log = {} \/ \E r \in log : IsNewest(r))'
  <2>1. SUFFICES ASSUME NEW s \in log' PROVE \E r \in log' : \A t \in log' : t.index <= r.index
    BY DEF IsNewest
  <2>2. PICK r \in log : \A t \in log : t.index <= r.index
    BY <1>1, <2>1 DEF Shape, IsNewest
  <2>3. s.index > mem[p].at.index /\ s.index <= r.index /\ s.index \in Nat /\ r.index \in Nat
    BY <1>1, <2>1, <2>2 DEF Shape, TypeOK, Row
  <2>4. r.index > mem[p].at.index
    BY <1>2, <2>3 DEF Place
  <2> QED
    BY <1>1, <2>2, <2>4
<1>4. TypeOK'
  BY <1>1, <1>2, GotoTypes, BlankIsMemory DEF Shape, TypeOK
<1>5. /\ pc'[p] = "idle"
      /\ \A q \in Threads \ {p} :
           pc'[q] = pc[q] /\ mem'[q] = mem[q] /\ pc[q] \notin Writing
  BY <1>1, <1>2 DEF Goto, Shape, TypeOK
<1> QED
  BY <1>1, <1>2, <1>3, <1>4, <1>5 DEF Shape, Writing

LEMMA VerifierShape ==
  ASSUME Shape, NEW p \in Threads,
         VerifyHash(p) \/ VerifyStep(p)
  PROVE  Shape' /\ UNCHANGED <<now, created, chainVars, lock, damaged>>
<1>1. UNCHANGED <<now, created, legacy, log, anchor, lock, crashes, damaged>>
  BY DEF VerifyHash, VerifyStep, VerifyIndex, VerifyRows, Report, chainVars, faultVars
<1>2. legacy = {}
  BY DEF VerifyHash, VerifyStep, VerifyIndex, VerifyRows, Report, Begins, Shape, Verdicts
<1>3. PICK stage \in {"idle", "hashed", "indexed", "ok", "invalid"},
           e \in Events \cup {NotYet}, place \in Place :
        Goto(p, stage, e, place)
  <2>1. mem[p].event \in Events \cup {NotYet} /\ mem[p].at \in Place
    BY DEF Shape, TypeOK, Memory
  <2>2. /\ [Start EXCEPT !.hash = anchor.hash] \in Place
        /\ [mem[p].at EXCEPT !.index = anchor.index] \in Place
    BY <2>1, BlankIsMemory DEF Shape, TypeOK, Place
  <2>3. CASE VerifyHash(p)
    BY <2>1, <2>2, <2>3 DEF VerifyHash
  <2>4. CASE VerifyIndex(p)
    BY <2>1, <2>2, <2>4 DEF VerifyIndex
  <2>5. CASE VerifyRows(p)
    BY <2>1, <2>5 DEF VerifyRows
  <2>6. CASE Report(p)
    BY <2>6, BlankIsMemory DEF Report, Finish
  <2> QED
    BY <2>3, <2>4, <2>5, <2>6 DEF VerifyStep
<1>4. stage \in Stages /\ stage \notin Writing
  BY DEF Stages, Verdicts, Writing
<1>5. status' \in Verdicts \cup {"unknown"}
  BY DEF VerifyHash, VerifyStep, VerifyIndex, VerifyRows, Report, Shape, TypeOK
<1>6. TypeOK'
  BY <1>1, <1>3, <1>4, <1>5, GotoTypes DEF Shape, TypeOK
<1>7. pc'[p] = stage /\ \A q \in Threads \ {p} : pc'[q] = pc[q] /\ mem'[q] = mem[q]
  BY <1>3 DEF Goto, Shape, TypeOK
<1> QED
  BY <1>1, <1>2, <1>4, <1>6, <1>7, QuietStep DEF chainVars

LEMMA DamageShape == Shape /\ Damage => Shape'
<1> SUFFICES ASSUME Shape, Damage PROVE Shape'
  OBVIOUS
<1>1. /\ UNCHANGED <<now, created, legacy, anchor, status, lock, pc, mem, crashes>>
      /\ damaged' = TRUE
  BY DEF Damage
<1>2. PICK r \in log :
        \/ log' = (log \ {r}) \cup {[r EXCEPT !.altered = TRUE]}
        \/ ~IsNewest(r) /\ log' = log \ {r}
  BY DEF Damage
<1>3. PICK top \in log : IsNewest(top)
  BY <1>2 DEF Shape
<1>4. CASE log' = (log \ {r}) \cup {[r EXCEPT !.altered = TRUE]}
  <2> DEFINE changed == [r EXCEPT !.altered = TRUE]
  <2>1. changed \in Row /\ changed.index = r.index /\ changed.event = r.event
    BY DEF Shape, TypeOK, Row
  <2> HIDE DEF changed
  <2>2. \A s \in log' : \E t \in log : s.index = t.index /\ s.event = t.event
    BY <1>4, <2>1 DEF changed
  <2>3. (\E s \in log : IsNewest(s))'
    BY <1>3, <1>4, <2>1, <2>2 DEF IsNewest, changed
  <2>4. (\A s \in log : s.index > 0 /\ created[s.event] # NotYet)'
    BY <1>1, <2>2 DEF Shape
  <2>5. log' \in SUBSET Row
    BY <1>4, <2>1 DEF Shape, TypeOK, changed
  <2> QED
    BY <1>1, <2>3, <2>4, <2>5 DEF Shape, TypeOK
<1>5. CASE ~IsNewest(r) /\ log' = log \ {r}
  <2>1. (\E s \in log : IsNewest(s))'
    BY <1>3, <1>5 DEF IsNewest
  <2> QED
    BY <1>1, <1>5, <2>1 DEF Shape, TypeOK
<1> QED
  BY <1>2, <1>4, <1>5

LEMMA CrashAndTickShape == Shape /\ (ApiCrash \/ Tick) => Shape'
<1> SUFFICES ASSUME Shape, ApiCrash \/ Tick PROVE Shape'
  OBVIOUS
<1>1. CASE ApiCrash
  <2>1. /\ UNCHANGED <<now, created, legacy, log, anchor, status, damaged>>
        /\ crashes' \in Nat
        /\ pc' = [p \in Threads |-> "idle"] /\ mem' = [p \in Threads |-> Blank]
        /\ lock' = Nobody
    BY <1>1 DEF ApiCrash, chainVars, Shape, TypeOK
  <2>2. TypeOK'
    BY <2>1, BlankIsMemory DEF Shape, TypeOK
  <2> QED
    BY <2>1, <2>2 DEF Shape, IsNewest, Writing
<1>2. CASE Tick
  <2>1. /\ UNCHANGED <<created, legacy, log, anchor, status, lock, pc, mem, crashes, damaged>>
        /\ now' \in Nat
    BY <1>2 DEF Tick, chainVars, faultVars, Shape, TypeOK
  <2> QED
    BY <2>1 DEF Shape, TypeOK, IsNewest
<1> QED
  BY <1>1, <1>2

----------------------------------------------------------------------------
(* What the thread with the lock has read is still true: the tip it will   *)
(* continue, and, in a log without damage, the row it will anchor.         *)
Current ==
  \A p \in Threads :
    /\ pc[p] = "inserting" => AtTip(mem[p].at)
    /\ pc[p] = "deleting" /\ ~damaged =>
         \E r \in log : mem[p].at = PlaceOf(r)

ChainInv == Shape /\ Current /\ ChainIsIntact

(* Two rows linked as the rows of the chain are.                           *)
LEMMA AppendKeepsIntact ==
  ASSUME Shape, Intact(anchor, log), NEW e \in Events, NEW place \in Place, AtTip(place),
         log' = log \cup {RowAfter(e, place)}, UNCHANGED anchor
  PROVE  Intact(anchor, log)'
<1> DEFINE new == RowAfter(e, place)
<1>1. /\ new.index = place.index + 1 /\ new.prev = place.hash
      /\ new.hash = Hash(new.prev, ValuesOf(new))
      /\ place.index \in Nat
  BY RowAfterIsRow DEF Place
<1>2. \A r \in log : r.index \in Nat /\ r.index <= place.index
  BY DEF AtTip, IsNewest, PlaceOf, Shape, TypeOK, Row
<1>3. anchor.index \in Nat /\ anchor.hash \in Hashes
  BY DEF Shape, TypeOK, Place
<1> HIDE DEF new
<1>4. \A r, s \in log' : r.index = s.index => r = s
  BY <1>1, <1>2 DEF Intact, new
<1>5. /\ new.index > anchor.index
      /\ \/ new.index = anchor.index + 1 /\ new.prev = anchor.hash
         \/ \E s \in log : s.index = new.index - 1 /\ s.hash = new.prev
  <2>1. CASE log = {}
    BY <1>1, <1>3, <2>1 DEF AtTip
  <2>2. CASE log # {}
    <3>1. PICK s \in log : place = PlaceOf(s)
      BY <2>2 DEF AtTip
    <3>2. s.index = place.index /\ s.hash = place.hash /\ s.index > anchor.index
      BY <3>1 DEF PlaceOf, Intact
    <3> QED
      BY <1>1, <1>3, <3>2
  <2> QED
    BY <2>1, <2>2
<1> QED
  BY <1>1, <1>4, <1>5 DEF Intact, new

(* Every action keeps the shape.                                           *)
LEMMA ShapeStep == Shape /\ Current /\ [Next]_vars => Shape'
<1> SUFFICES ASSUME Shape, Current, [Next]_vars PROVE Shape'
  OBVIOUS
<1>1. CASE UNCHANGED vars
  BY <1>1 DEF vars, chainVars, faultVars, Shape, TypeOK, IsNewest
<1>2. ASSUME NEW p \in Threads, SaveInsert(p) PROVE Shape'
  BY <1>2, SaveInsertShape DEF Current, SaveInsert
<1>3. ASSUME NEW p \in Threads,
             SaveBegins(p) \/ CleanFirst(p) \/ VerifyHash(p)
               \/ SaveRead(p) \/ CleanStep(p) \/ VerifyStep(p)
      PROVE  Shape'
  BY <1>3, SaveBeginsShape, CleanFirstShape, VerifierShape, SaveReadShape,
     CleanMaxShape, CleanAnchorShape, CleanDeleteShape DEF CleanStep
<1> QED
  BY <1>1, <1>2, <1>3, InitializeShape, DamageShape, CrashAndTickShape DEF Next, SaveStep

(* A step that keeps the log, the anchor and the memory of the threads     *)
(* that stay at work keeps what they have read true.                       *)
LEMMA ReadersStayCurrent ==
  ASSUME Shape, Current, ChainIsIntact, UNCHANGED <<log, anchor, damaged>>,
         \A q \in Threads : pc'[q] \in {"inserting", "deleting"} =>
           pc'[q] = pc[q] /\ mem'[q] = mem[q]
  PROVE  Current' /\ ChainIsIntact'
<1>1. Current'
  BY DEF Current, AtTip, IsNewest, PlaceOf
<1>2. ChainIsIntact'
  BY DEF ChainIsIntact, Intact
<1> QED
  BY <1>1, <1>2

LEMMA CurrentStep ==
  ASSUME ChainInv, Shape', [Next]_vars
  PROVE  Current' /\ ChainIsIntact'
<1> USE DEF ChainInv
<1>1. CASE UNCHANGED vars
  BY <1>1, ReadersStayCurrent DEF vars, chainVars, faultVars
<1>2. CASE Initialize
  <2>1. PICK e \in legacy : log' = log \cup {RowAfter(e, Tip)}
    BY <1>2 DEF Initialize
  <2>2. e \in Events /\ UNCHANGED <<anchor, damaged, pc, mem>>
    BY <1>2, <2>1, AuditAssumption DEF Initialize, faultVars, Shape, TypeOK
  <2>3. \A q \in Threads : pc'[q] = "idle"
    BY <2>1, <2>2 DEF Shape
  <2>4. ~damaged' => Intact(anchor, log)'
    BY <2>1, <2>2, TipIsTip, AppendKeepsIntact DEF ChainIsIntact
  <2> QED
    BY <2>3, <2>4 DEF Current, ChainIsIntact
<1>3. CASE Damage
  <2>1. /\ damaged' = TRUE /\ UNCHANGED <<anchor, pc, mem>>
    BY <1>3 DEF Damage
  <2>2. ASSUME NEW p \in Threads, pc[p] = "inserting" PROVE AtTip(mem[p].at)'
    <3>1. PICK r \in log :
            \/ log' = (log \ {r}) \cup {[r EXCEPT !.altered = TRUE]}
            \/ ~IsNewest(r) /\ log' = log \ {r}
      BY <1>3 DEF Damage
    <3>2. PICK top \in log : IsNewest(top) /\ mem[p].at = PlaceOf(top)
      BY <2>2, <3>1 DEF Current, AtTip
    <3>3. CASE log' = (log \ {r}) \cup {[r EXCEPT !.altered = TRUE]}
      <4> DEFINE changed == [r EXCEPT !.altered = TRUE]
      <4>1. changed.index = r.index /\ changed.hash = r.hash
        BY DEF Shape, TypeOK, Row
      <4> HIDE DEF changed
      <4>2. \A s \in log' : s.index <= top.index
        BY <3>2, <3>3, <4>1 DEF IsNewest, changed
      <4>3. \E s \in log' : s.index = top.index /\ s.hash = top.hash
        BY <3>2, <3>3, <4>1 DEF changed
      <4> QED
        BY <2>1, <3>2, <4>2, <4>3 DEF AtTip, IsNewest, PlaceOf
    <3>4. CASE ~IsNewest(r) /\ log' = log \ {r}
      BY <2>1, <3>2, <3>4 DEF AtTip, IsNewest, PlaceOf
    <3> QED
      BY <3>1, <3>3, <3>4
  <2> QED
    BY <2>1, <2>2 DEF Current, ChainIsIntact
<1>4. CASE ApiCrash \/ Tick
  <2>1. UNCHANGED <<log, anchor, damaged>>
    BY <1>4 DEF ApiCrash, Tick, chainVars, faultVars
  <2>2. \A q \in Threads : pc'[q] \in {"inserting", "deleting"} =>
          pc'[q] = pc[q] /\ mem'[q] = mem[q]
    BY <1>4 DEF ApiCrash, Tick
  <2> QED
    BY <2>1, <2>2, ReadersStayCurrent
<1>5. ASSUME NEW p \in Threads,
             SaveBegins(p) \/ CleanFirst(p) \/ VerifyHash(p) \/ CleanMax(p) \/ VerifyStep(p)
      PROVE  Current' /\ ChainIsIntact'
  <2>1. UNCHANGED <<log, anchor, damaged>>
    BY <1>5, VerifierShape DEF SaveBegins, CleanFirst, CleanMax, chainVars, faultVars
  <2>2. PICK stage \in Stages \ {"inserting", "deleting"} :
          \E e \in Events \cup {NotYet} : \E place : Goto(p, stage, e, place)
    <3>1. mem[p].event \in Events \cup {NotYet}
      BY DEF Shape, TypeOK, Memory
    <3> QED
      BY <1>5, <3>1 DEF SaveBegins, CleanFirst, VerifyHash, CleanMax, VerifyStep,
        VerifyIndex, VerifyRows, Report, Finish, Stages, Writing, Verdicts
  <2>3. \A q \in Threads : pc'[q] \in {"inserting", "deleting"} =>
          pc'[q] = pc[q] /\ mem'[q] = mem[q]
    BY <2>2 DEF Goto, Shape, TypeOK
  <2> QED
    BY <2>1, <2>3, ReadersStayCurrent
<1>6. ASSUME NEW p \in Threads, SaveRead(p) PROVE Current' /\ ChainIsIntact'
  <2>1. UNCHANGED <<log, anchor, damaged>> /\ Goto(p, "inserting", mem[p].event, Tip)
    BY <1>6 DEF SaveRead, chainVars, faultVars
  <2>2. AtTip(Tip)
    BY TipIsTip
  <2>3. /\ pc'[p] = "inserting" /\ mem'[p].at = Tip
        /\ \A q \in Threads \ {p} : pc'[q] = pc[q] /\ mem'[q] = mem[q]
    BY <2>1 DEF Goto, Shape, TypeOK
  <2>4. Current'
    BY <2>1, <2>2, <2>3 DEF Current, AtTip, IsNewest, PlaceOf
  <2> QED
    BY <2>1, <2>4 DEF ChainIsIntact, Intact
<1>7. ASSUME NEW p \in Threads, SaveInsert(p) PROVE Current' /\ ChainIsIntact'
  <2>1. /\ pc[p] = "inserting" /\ Goto(p, "idle", NotYet, Start) /\ UNCHANGED <<anchor, damaged>>
        /\ log' = log \/ log' = log \cup {RowAfter(mem[p].event, mem[p].at)}
    BY <1>7 DEF SaveInsert, Finish, faultVars
  <2>2. mem[p].event \in Events /\ mem[p].at \in Place /\ AtTip(mem[p].at)
    BY <2>1 DEF Shape, TypeOK, Memory, Current
  <2>3. ~damaged => Intact(anchor, log)'
    BY <2>1, <2>2, AppendKeepsIntact DEF ChainIsIntact, Intact
  <2>4. \A q \in Threads : pc'[q] \notin {"inserting", "deleting"}
    BY <2>1 DEF Goto, Shape, TypeOK, Writing
  <2> QED
    BY <2>1, <2>3, <2>4 DEF Current, ChainIsIntact
<1>8. ASSUME NEW p \in Threads, CleanAnchor(p) PROVE Current' /\ ChainIsIntact'
  <2>1. pc[p] = "anchoring" /\ UNCHANGED <<log, anchor, damaged>>
    BY <1>8 DEF CleanAnchor, chainVars, faultVars
  <2>2. \/ \E r \in log : Goto(p, "deleting", mem[p].event, PlaceOf(r))
        \/ Goto(p, "idle", NotYet, Start)
    BY <1>8 DEF CleanAnchor, Finish
  <2>3. \A q \in Threads \ {p} : pc'[q] \notin {"inserting", "deleting"}
    BY <2>1, <2>2 DEF Goto, Shape, TypeOK, Writing
  <2>4. pc'[p] \in {"inserting", "deleting"} =>
          pc'[p] = "deleting" /\ \E r \in log : mem'[p].at = PlaceOf(r)
    BY <2>2 DEF Goto, Shape, TypeOK
  <2>5. Current'
    BY <2>1, <2>3, <2>4 DEF Current, PlaceOf
  <2> QED
    BY <2>1, <2>5 DEF ChainIsIntact, Intact
<1>9. ASSUME NEW p \in Threads, CleanDelete(p) PROVE Current' /\ ChainIsIntact'
  <2>1. /\ pc[p] = "deleting" /\ Goto(p, "idle", NotYet, Start) /\ UNCHANGED damaged
        /\ anchor' = mem[p].at /\ log' = {r \in log : r.index > mem[p].at.index}
    BY <1>9 DEF CleanDelete, Finish, faultVars
  <2>2. \A q \in Threads : pc'[q] \notin {"inserting", "deleting"}
    BY <2>1 DEF Goto, Shape, TypeOK, Writing
  <2>3. ASSUME ~damaged PROVE Intact(anchor, log)'
    <3>1. PICK a \in log : anchor' = PlaceOf(a)
      BY <2>1, <2>3 DEF Current
    <3>2. /\ anchor'.index = a.index /\ anchor'.hash = a.hash /\ a.index \in Nat
          /\ log' = {r \in log : r.index > a.index}
      BY <2>1, <3>1 DEF PlaceOf, Shape, TypeOK, Row
    <3>3. Intact(anchor, log)
      BY <2>3 DEF ChainIsIntact
    <3>4. ASSUME NEW r \in log'
          PROVE  /\ r.index > anchor'.index
                 /\ r.hash = Hash(r.prev, ValuesOf(r))
                 /\ \/ r.index = anchor'.index + 1 /\ r.prev = anchor'.hash
                    \/ \E s \in log' : s.index = r.index - 1 /\ s.hash = r.prev
      <4>1. r \in log /\ r.index > a.index /\ r.index \in Nat
        BY <3>2 DEF Shape, TypeOK, Row
      <4>2. a.index > anchor.index /\ anchor.index \in Nat
        BY <3>3 DEF Intact, Shape, TypeOK, Place
      <4>3. PICK s \in log : s.index = r.index - 1 /\ s.hash = r.prev
        BY <3>2, <3>3, <4>1, <4>2 DEF Intact
      <4>4. CASE s.index = a.index
        BY <3>2, <3>3, <4>1, <4>3, <4>4 DEF Intact
      <4>5. CASE s.index # a.index
        BY <3>2, <3>3, <4>1, <4>3, <4>5 DEF Intact
      <4> QED
        BY <4>4, <4>5
    <3> QED
      BY <3>2, <3>3, <3>4 DEF Intact
  <2> QED
    BY <2>1, <2>2, <2>3 DEF Current, ChainIsIntact
<1> QED
  BY <1>1, <1>2, <1>3, <1>4, <1>5, <1>6, <1>7, <1>8, <1>9 DEF Next, SaveStep, CleanStep

LEMMA ChainInvariant == Spec => []ChainInv
<1>1. Init => ChainInv
  <2>1. Init => Current /\ ChainIsIntact
    BY DEF Init, Current, ChainIsIntact, Intact
  <2> QED
    BY <2>1, InitShape DEF ChainInv
<1>2. ChainInv /\ [Next]_vars => ChainInv'
  BY ShapeStep, CurrentStep DEF ChainInv
<1> QED
  BY <1>1, <1>2, PTL DEF Spec

(* The variables of the audit log keep their types.                        *)
THEOREM AuditTypeCorrect == Spec => []TypeOK
<1>1. ChainInv => TypeOK
  BY DEF ChainInv, Shape
<1> QED
  BY <1>1, ChainInvariant, PTL

(* Savers, retention and crashes in any order leave one chain.             *)
THEOREM ChainStaysIntact == Spec => []ChainIsIntact
<1>1. ChainInv => ChainIsIntact
  BY DEF ChainInv
<1> QED
  BY <1>1, ChainInvariant, PTL

(* A thread that has inserted its entry finds it in the log: the tip it    *)
(* had read was still the tip, so its index was free.                      *)
THEOREM SavesAreStored == Spec => SavedIsStored
<1>1. ASSUME ChainInv, [Next]_vars, NEW p \in Threads,
             pc[p] = "inserting", pc'[p] = "idle", crashes' = crashes
      PROVE  \E r \in log' : r.event = mem[p].event
  <2>1. SaveInsert(p)
    <3>1. ~UNCHANGED pc
      BY <1>1
    <3>2. PICK q \in Threads :
            \/ SaveBegins(q) \/ CleanFirst(q) \/ VerifyHash(q)
            \/ SaveStep(q) \/ CleanStep(q) \/ VerifyStep(q)
      BY <1>1, <3>1 DEF Next, vars, Initialize, Damage, ApiCrash, Tick, ChainInv, Shape, TypeOK
    <3>3. q = p
      BY <1>1, <3>2 DEF SaveBegins, CleanFirst, VerifyHash, SaveStep, CleanStep, VerifyStep,
        SaveRead, SaveInsert, CleanMax, CleanAnchor, CleanDelete, VerifyIndex, VerifyRows,
        Report, Finish, Goto, ChainInv, Shape, TypeOK
    <3> QED
      BY <1>1, <3>2, <3>3 DEF SaveBegins, CleanFirst, VerifyHash, SaveStep, CleanStep, VerifyStep,
        SaveRead, CleanMax, CleanAnchor, CleanDelete, VerifyIndex, VerifyRows, Report, Begins, Verdicts
  <2>2. mem[p].at \in Place /\ mem[p].event \in Events /\ AtTip(mem[p].at)
    BY <1>1 DEF ChainInv, Shape, TypeOK, Memory, Current
  <2>3. RowAfter(mem[p].event, mem[p].at).index = mem[p].at.index + 1
    BY <2>2, RowAfterIsRow
  <2>4. \A s \in log : s.index # mem[p].at.index + 1
    <3>1. \A s \in log : s.index <= mem[p].at.index
      BY <2>2, TipBounds
    <3> QED
      BY <1>1, <2>2, <3>1 DEF ChainInv, Shape, TypeOK, Row, Place
  <2>5. log' = log \cup {RowAfter(mem[p].event, mem[p].at)}
    BY <2>1, <2>3, <2>4 DEF SaveInsert
  <2> QED
    BY <2>2, <2>5, RowAfterIsRow
<1>2. ChainInv /\ [Next]_vars =>
        [\A p \in Threads :
           pc[p] = "inserting" /\ pc'[p] = "idle" /\ crashes' = crashes =>
             \E r \in log' : r.event = mem[p].event]_vars
  BY <1>1
<1> QED
  BY <1>2, ChainInvariant, PTL DEF Spec, SavedIsStored

----------------------------------------------------------------------------
(* An event that has reached the shortest retention.                       *)
Old(e) == created[e] + MinAge < now

(* Up to the boundary a retention has found, every row is expired.         *)
BoundaryIsOld ==
  \A p \in Threads :
    /\ pc[p] = "bounding" => \A r \in log : Old(r.event)
    /\ pc[p] \in {"anchoring", "deleting"} =>
         \A r \in log : r.index <= mem[p].at.index => Old(r.event)

(* Expired events stay expired, and none of the log comes into being.      *)
LEMMA OldStaysOld ==
  ASSUME Shape, [Next]_vars, NEW r \in log, Old(r.event)
  PROVE  Old(r.event)'
<1>1. created[r.event] \in Nat /\ created[r.event] # NotYet /\ now \in Nat
  BY DEF Shape, TypeOK, Row, NotYet
<1>2. created'[r.event] = created[r.event]
  <2>1. CASE \E p \in Threads : SaveBegins(p)
    BY <2>1, <1>1 DEF SaveBegins, Shape, TypeOK
  <2>2. CASE ~\E p \in Threads : SaveBegins(p)
    BY <2>2 DEF Next, vars, Initialize, Damage, ApiCrash, Tick, CleanFirst, VerifyHash,
      SaveStep, CleanStep, VerifyStep, SaveRead, SaveInsert, CleanMax, CleanAnchor, CleanDelete,
      VerifyIndex, VerifyRows, Report
  <2> QED
    BY <2>1, <2>2
<1>3. now' = now \/ now' = now + 1
  BY DEF Next, vars, Initialize, Damage, ApiCrash, Tick, CleanFirst, VerifyHash, SaveBegins,
    SaveStep, CleanStep, VerifyStep, SaveRead, SaveInsert, CleanMax, CleanAnchor, CleanDelete,
    VerifyIndex, VerifyRows, Report
<1> QED
  BY <1>1, <1>2, <1>3, AuditAssumption DEF Old

LEMMA BoundaryStep ==
  ASSUME ChainInv, BoundaryIsOld, Shape', [Next]_vars
  PROVE  BoundaryIsOld'
<1> USE DEF ChainInv
<1>1. ASSUME \A r \in log' : \E s \in log : r.index = s.index /\ r.event = s.event,
             \A q \in Threads : pc'[q] \in {"bounding", "anchoring", "deleting"} =>
               pc'[q] = pc[q] /\ mem'[q] = mem[q]
      PROVE  BoundaryIsOld'
  <2>1. \A r \in log' : \E s \in log :
          r.index = s.index /\ r.event = s.event /\ (Old(s.event) => Old(r.event)')
    BY <1>1, OldStaysOld DEF Old
  <2> QED
    BY <1>1, <2>1 DEF BoundaryIsOld
<1>2. ASSUME \A q \in Threads : pc'[q] \notin {"bounding", "anchoring", "deleting"}
      PROVE  BoundaryIsOld'
  BY <1>2 DEF BoundaryIsOld
<1>3. CASE UNCHANGED vars
  BY <1>3, <1>1 DEF vars, chainVars
<1>4. CASE Initialize
  <2>1. UNCHANGED pc /\ legacy # {}
    BY <1>4 DEF Initialize
  <2> QED
    BY <2>1, <1>2 DEF Shape
<1>5. CASE Damage
  <2>1. UNCHANGED <<pc, mem>>
    BY <1>5 DEF Damage
  <2>2. PICK r \in log :
          \/ log' = (log \ {r}) \cup {[r EXCEPT !.altered = TRUE]}
          \/ log' = log \ {r}
    BY <1>5 DEF Damage
  <2>3. [r EXCEPT !.altered = TRUE].index = r.index /\ [r EXCEPT !.altered = TRUE].event = r.event
    BY DEF Shape, TypeOK, Row
  <2>4. \A t \in log' : \E s \in log : t.index = s.index /\ t.event = s.event
    BY <2>2, <2>3
  <2> QED
    BY <2>1, <2>4, <1>1
<1>6. CASE ApiCrash \/ Tick
  BY <1>6, <1>1 DEF ApiCrash, Tick, chainVars, faultVars
<1>7. ASSUME NEW p \in Threads,
             SaveBegins(p) \/ VerifyHash(p) \/ VerifyStep(p) \/ SaveRead(p)
      PROVE  BoundaryIsOld'
  <2>1. UNCHANGED log
    BY <1>7, VerifierShape DEF SaveBegins, SaveRead, chainVars
  <2>2. PICK stage \in {"idle", "saving", "inserting", "hashed", "indexed", "ok", "invalid"} :
          \E e, place : Goto(p, stage, e, place)
    BY <1>7 DEF SaveBegins, VerifyHash, SaveRead, VerifyStep,
      VerifyIndex, VerifyRows, Report, Finish
  <2>3. \A q \in Threads : pc'[q] \in {"bounding", "anchoring", "deleting"} =>
          pc'[q] = pc[q] /\ mem'[q] = mem[q]
    BY <2>2 DEF Goto, Shape, TypeOK
  <2> QED
    BY <2>1, <2>3, <1>1
<1>8. ASSUME NEW p \in Threads, SaveInsert(p) \/ CleanDelete(p) PROVE BoundaryIsOld'
  <2>1. pc[p] \in Writing /\ Goto(p, "idle", NotYet, Start)
    BY <1>8 DEF SaveInsert, CleanDelete, Finish, Writing
  <2>2. \A q \in Threads : pc'[q] \notin {"bounding", "anchoring", "deleting"}
    BY <2>1 DEF Goto, Shape, TypeOK, Writing
  <2> QED
    BY <2>2, <1>2
<1>9. ASSUME NEW p \in Threads, CleanFirst(p) PROVE BoundaryIsOld'
  <2>1. PICK cutoff \in Cutoffs :
          LET kept == {r \in log : created[r.event] >= cutoff}
          IN \/ kept = {} /\ Goto(p, "bounding", mem[p].event, Start)
             \/ \E r \in kept :
                  /\ \A s \in kept : r.index <= s.index
                  /\ Goto(p, "anchoring", mem[p].event,
                          [index |-> r.index - 1, hash |-> Genesis])
    BY <1>9 DEF CleanFirst
  <2>2. UNCHANGED <<log, created, now>> /\ \A q \in Threads : pc[q] \notin Writing
    BY <1>9, AuditAssumption DEF CleanFirst, Acquire, chainVars, Shape
  <2>3. cutoff \in Int /\ cutoff + MinAge <= now
    BY AuditAssumption DEF Cutoffs, Shape, TypeOK
  <2>4. \A r \in log : created[r.event] \in Nat /\ r.index \in Nat
    BY DEF Shape, TypeOK, Row, NotYet
  <2>5. \A r \in log : ~(created[r.event] >= cutoff) => Old(r.event)
    BY <2>3, <2>4, AuditAssumption DEF Old, Shape, TypeOK
  <2>6. CASE {r \in log : created[r.event] >= cutoff} = {}
             /\ Goto(p, "bounding", mem[p].event, Start)
    <3>1. \A r \in log : Old(r.event)'
      BY <2>2, <2>5, <2>6 DEF Old
    <3>2. \A q \in Threads : pc'[q] \notin {"anchoring", "deleting"}
      BY <2>2, <2>6 DEF Goto, Shape, TypeOK, Writing
    <3> QED
      BY <2>2, <3>1, <3>2 DEF BoundaryIsOld
  <2>7. ASSUME NEW r \in log, NEW place,
               \A s \in log : created[s.event] >= cutoff => r.index <= s.index,
               place = [index |-> r.index - 1, hash |-> Genesis],
               Goto(p, "anchoring", mem[p].event, place)
        PROVE  BoundaryIsOld'
    <3>1. \A s \in log : s.index <= r.index - 1 => Old(s.event)'
      BY <2>2, <2>4, <2>5, <2>7 DEF Old
    <3>2. mem'[p].at.index = r.index - 1
      BY <2>7 DEF Goto, Shape, TypeOK
    <3>3. \A q \in Threads :
            pc'[q] \in {"bounding", "anchoring", "deleting"} => q = p /\ pc'[q] = "anchoring"
      BY <2>2, <2>7 DEF Goto, Shape, TypeOK, Writing
    <3> QED
      BY <2>2, <3>1, <3>2, <3>3 DEF BoundaryIsOld
  <2> QED
    BY <2>1, <2>6, <2>7
<1>10. ASSUME NEW p \in Threads, CleanMax(p) PROVE BoundaryIsOld'
  <2>1. pc[p] = "bounding" /\ UNCHANGED <<log, created, now>>
    BY <1>10 DEF CleanMax, chainVars
  <2>2. \A r \in log : Old(r.event)'
    BY <2>1 DEF BoundaryIsOld, Old
  <2> QED
    BY <2>1, <2>2 DEF BoundaryIsOld
<1>11. ASSUME NEW p \in Threads, CleanAnchor(p) PROVE BoundaryIsOld'
  <2>1. pc[p] = "anchoring" /\ UNCHANGED <<log, created, now>>
    BY <1>11 DEF CleanAnchor, chainVars
  <2>2. \/ \E r \in log : r.index = mem[p].at.index /\ Goto(p, "deleting", mem[p].event, PlaceOf(r))
        \/ Goto(p, "idle", NotYet, Start)
    BY <1>11 DEF CleanAnchor, Finish
  <2>3. pc'[p] \in {"bounding", "anchoring", "deleting"} => mem'[p].at.index = mem[p].at.index
    BY <2>2 DEF Goto, Shape, TypeOK, PlaceOf
  <2>4. \A q \in Threads \ {p} : pc'[q] \notin {"bounding", "anchoring", "deleting"}
    BY <2>1, <2>2 DEF Goto, Shape, TypeOK, Writing
  <2>5. pc'[p] # "bounding"
    BY <2>2 DEF Goto, Shape, TypeOK
  <2> QED
    BY <2>1, <2>3, <2>4, <2>5 DEF BoundaryIsOld, Old
<1> QED
  BY <1>3, <1>4, <1>5, <1>6, <1>7, <1>8, <1>9, <1>10, <1>11 DEF Next, SaveStep, CleanStep

(* Retention removes expired entries only: the lock keeps fresh ones out   *)
(* between the search for the boundary and the deletion.                   *)
THEOREM RetentionSparesTheYoung == Spec => OnlyExpiredGo
<1>1. Init => BoundaryIsOld
  BY DEF Init, BoundaryIsOld
<1>2. ChainInv /\ BoundaryIsOld /\ [Next]_vars => BoundaryIsOld'
  BY BoundaryStep, ShapeStep DEF ChainInv
<1>3. ASSUME ChainInv, BoundaryIsOld, [Next]_vars, NEW r \in log, damaged' = damaged,
             \A s \in log' : s.index # r.index
      PROVE  Old(r.event)
  <2>1. r \notin log'
    BY <1>3
  <2>2. PICK p \in Threads : CleanDelete(p)
    <3>1. ASSUME NEW p \in Threads, VerifyHash(p) \/ VerifyStep(p) PROVE FALSE
      BY <1>3, <2>1, <3>1, VerifierShape DEF ChainInv, chainVars
    <3> QED
      BY <1>3, <2>1, <3>1 DEF Next, vars, Initialize, Damage, ApiCrash, Tick, CleanFirst, SaveBegins,
        SaveStep, CleanStep, SaveRead, SaveInsert, CleanMax, CleanAnchor, chainVars, faultVars
  <2>3. pc[p] = "deleting" /\ r.index <= mem[p].at.index
    BY <2>1, <2>2, <1>3 DEF CleanDelete, ChainInv, Shape, TypeOK, Row, Memory, Place
  <2> QED
    BY <1>3, <2>3 DEF BoundaryIsOld
<1>4. ChainInv /\ BoundaryIsOld /\ [Next]_vars =>
        [\A r \in log :
           damaged' = damaged /\ (\A s \in log' : s.index # r.index) =>
             created[r.event] + MinAge < now]_vars
  BY <1>3 DEF Old
<1> QED
  BY <1>1, <1>2, <1>4, ChainInvariant, PTL DEF Spec, OnlyExpiredGo
=============================================================================
