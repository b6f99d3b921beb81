----------------------------- MODULE AuditChain -----------------------------
(***************************************************************************)
(* The audit log of store.py on PostgreSQL: a chain of rows linked by      *)
(* hashes, extended by save_audit_event, shortened from its old end by     *)
(* delete_audit_events_before, and checked by verify_audit_chain.  Each    *)
(* action is one SQL statement: writers hold an advisory lock from their   *)
(* first statement to their commit, the verifier holds none.               *)
(***************************************************************************)
EXTENDS Integers, SequencesExt

CONSTANTS
  Events,     \* audit events; their numbers order their ids
  Legacy,     \* the events stored before the table had hashes
  Threads,    \* request handlers and the daily task, all of one API process
  Nobody,     \* no thread
  MinAge,     \* the shortest retention, in ticks of the clock
  MaxTime,    \* bound: the clock stops here
  MaxCrashes, \* bound: crashes of the API process
  MayDamage   \* bound: whether one row may be damaged by hand

ASSUME AuditAssumption ==
  /\ Events \subseteq Nat /\ Legacy \subseteq Events
  /\ Nobody \notin Threads
  /\ MinAge \in Nat \ {0} /\ MaxTime \in Nat /\ MaxCrashes \in Nat
  /\ MayDamage \in BOOLEAN

VARIABLES
  now,      \* the clock
  created,  \* when each event was created
  legacy,   \* the legacy events that are not chained yet
  log,      \* the chained rows of audit_events
  anchor,   \* the settings audit_chain_anchor_index and audit_chain_anchor_hash
  status,   \* the setting audit_integrity_status
  lock,     \* who holds the advisory lock
  pc,       \* where each thread stands in its call of the store
  mem,      \* what the thread remembers: its event, and a place in the chain
  crashes,  \* crashes so far
  damaged   \* whether someone has changed the table by hand

chainVars == <<legacy, log, anchor>>
faultVars == <<crashes, damaged>>
vars == <<now, created, chainVars, status, lock, pc, mem, faultVars>>

NotYet == -1   \* created[e] of an event to come

(* A hash stands for all that went into it: different values, different    *)
(* hashes.  altered tells the stored fields from those that were saved.    *)
Values == Events \X BOOLEAN
Hashes == Seq(Values)
Genesis == <<>>
Hash(previous, values) == Append(previous, values)

Row ==
  [index: Nat, event: Events, altered: BOOLEAN, prev: Hashes, hash: Hashes]

ValuesOf(r) == <<r.event, r.altered>>

Place == [index: Nat, hash: Hashes]
Start == [index |-> 0, hash |-> Genesis]

Memory == [event: Events \cup {NotYet}, at: Place]
Blank == [event |-> NotYet, at |-> Start]

Writing == {"inserting", "bounding", "anchoring", "deleting"}
Verdicts == {"ok", "invalid"}
Stages == {"idle", "saving", "hashed", "indexed"} \cup Writing \cup Verdicts

TypeOK ==
  /\ now \in Nat
  /\ created \in [Events -> Nat \cup {NotYet}]
  /\ legacy \in SUBSET Legacy
  /\ log \in SUBSET Row
  /\ anchor \in Place
  /\ status \in Verdicts \cup {"unknown"}
  /\ lock \in Threads \cup {Nobody}
  /\ pc \in [Threads -> Stages]
  /\ mem \in [Threads -> Memory]
  /\ crashes \in Nat /\ damaged \in BOOLEAN

Init ==
  /\ now = 1
  /\ created \in [Events -> {0, 1, NotYet}]
  /\ \A e \in Events : e \in Legacy <=> created[e] # NotYet
  /\ legacy = Legacy /\ log = {} /\ anchor = Start
  /\ status = "unknown" /\ lock = Nobody
  /\ pc = [p \in Threads |-> "idle"]
  /\ mem = [p \in Threads |-> Blank]
  /\ crashes = 0 /\ damaged = FALSE

----------------------------------------------------------------------------
(* Variants for the mutation runs.                                         *)

AcquireNothing(p) == UNCHANGED lock
CutoffsUnclamped == 0..(now + 1)
SoundWithoutHash(r, place) == r.index = place.index + 1 /\ r.prev = place.hash
RowBefore(e, place) ==
  [index |-> place.index - 1, event |-> e, altered |-> FALSE,
   prev |-> place.hash, hash |-> Hash(place.hash, <<e, FALSE>>)]
RowUnlinked(e, place) ==
  [index |-> place.index + 1, event |-> e, altered |-> FALSE,
   prev |-> Genesis, hash |-> Hash(Genesis, <<e, FALSE>>)]

----------------------------------------------------------------------------
(* _lock_audit_chain, and the release of the lock by commit or rollback.   *)
Acquire(p) == lock = Nobody /\ lock' = p

Release == lock' = Nobody

Goto(p, stage, event, place) ==
  /\ pc' = [pc EXCEPT ![p] = stage]
  /\ mem' = [mem EXCEPT ![p] = [event |-> event, at |-> place]]

Finish(p) == Goto(p, "idle", NotYet, Start)

PlaceOf(r) == [index |-> r.index, hash |-> r.hash]

IsNewest(r) == \A s \in log : s.index <= r.index

Newest == CHOOSE r \in log : IsNewest(r)

(* Where the chain ends: its last row, or the anchor of an empty one.      *)
Tip == IF log = {} THEN anchor ELSE PlaceOf(Newest)

(* The row that continues the chain at a place.                            *)
RowAfter(e, place) ==
  [index |-> place.index + 1, event |-> e, altered |-> FALSE,
   prev |-> place.hash, hash |-> Hash(place.hash, <<e, FALSE>>)]

(* One round of the loop of initialize_audit_chain, which the lifespan     *)
(* runs before anything else and commits as a whole.                       *)
Initialize ==
  \E e \in legacy :
    /\ \A f \in legacy :
         created[e] < created[f] \/ (created[e] = created[f] /\ e <= f)
    /\ log' = log \cup {RowAfter(e, Tip)}
    /\ legacy' = legacy \ {e}
    /\ UNCHANGED <<now, created, anchor, status, lock, pc, mem, faultVars>>

Begins(p) == legacy = {} /\ pc[p] = "idle"

----------------------------------------------------------------------------
(* A handler creates its event; created_at is the moment of creation.      *)
SaveBegins(p) ==
  /\ Begins(p)
  /\ \E e \in Events :
       /\ created[e] = NotYet
       /\ created' = [created EXCEPT ![e] = now]
       /\ Goto(p, "saving", e, Start)
  /\ UNCHANGED <<now, chainVars, status, lock, faultVars>>

SaveRead(p) ==
  /\ pc[p] = "saving"
  /\ Acquire(p)
  /\ Goto(p, "inserting", mem[p].event, Tip)
  /\ UNCHANGED <<now, created, chainVars, status, faultVars>>

(* The unique index on chain_index refuses a second row of that index.     *)
SaveInsert(p) ==
  LET r == RowAfter(mem[p].event, mem[p].at)
  IN /\ pc[p] = "inserting"
     /\ log' = IF \E s \in log : s.index = r.index THEN log ELSE log \cup {r}
     /\ Release
     /\ Finish(p)
     /\ UNCHANGED <<now, created, legacy, anchor, status, faultVars>>

----------------------------------------------------------------------------
(* audit_retention_days clamps the setting to MinAge at least.             *)
Cutoffs == {now - age : age \in MinAge..now}

(* first_retained, the oldest row of the chain that is not expired.        *)
CleanFirst(p) ==
  /\ Begins(p)
  /\ Acquire(p)
  /\ \E cutoff \in Cutoffs :
       LET kept == {r \in log : created[r.event] >= cutoff}
       IN \/ /\ kept = {}
             /\ Goto(p, "bounding", mem[p].event, Start)
          \/ \E r \in kept :
               /\ \A s \in kept : r.index <= s.index
               /\ Goto(p, "anchoring", mem[p].event,
                       [index |-> r.index - 1, hash |-> Genesis])
  /\ UNCHANGED <<now, created, chainVars, status, faultVars>>

(* max(chain_index) when every row is expired.                             *)
CleanMax(p) ==
  /\ pc[p] = "bounding"
  /\ Goto(p, "anchoring", mem[p].event,
          [index |-> IF log = {} THEN 0 ELSE Newest.index, hash |-> Genesis])
  /\ UNCHANGED <<now, created, chainVars, status, lock, faultVars>>

(* The row at the boundary becomes the anchor; without it nothing happens. *)
CleanAnchor(p) ==
  /\ pc[p] = "anchoring"
  /\ \/ \E r \in log :
          /\ r.index = mem[p].at.index
          /\ Goto(p, "deleting", mem[p].event, PlaceOf(r))
          /\ UNCHANGED lock
     \/ /\ \A r \in log : r.index # mem[p].at.index
        /\ Finish(p)
        /\ Release
  /\ UNCHANGED <<now, created, chainVars, status, faultVars>>

CleanDelete(p) ==
  /\ pc[p] = "deleting"
  /\ anchor' = mem[p].at
  /\ log' = {r \in log : r.index > mem[p].at.index}
  /\ Release
  /\ Finish(p)
  /\ UNCHANGED <<now, created, legacy, status, faultVars>>

----------------------------------------------------------------------------
(* verify_audit_chain reads the two settings and the rows one by one.      *)
VerifyHash(p) ==
  /\ Begins(p)
  /\ Goto(p, "hashed", mem[p].event, [Start EXCEPT !.hash = anchor.hash])
  /\ UNCHANGED <<now, created, chainVars, status, lock, faultVars>>

VerifyIndex(p) ==
  /\ pc[p] = "hashed"
  /\ Goto(p, "indexed", mem[p].event, [mem[p].at EXCEPT !.index = anchor.index])
  /\ UNCHANGED <<now, created, chainVars, status, lock, faultVars>>

(* The test of one row against the place the loop has reached.             *)
Sound(r, place) ==
  /\ r.index = place.index + 1
  /\ r.prev = place.hash
  /\ r.hash = Hash(place.hash, ValuesOf(r))

(* The loop over the rows in the order of chain_index.                     *)
Verified(start) ==
  LET Round(so, r) == [ok |-> so.ok /\ Sound(r, so.at), at |-> PlaceOf(r)]
      ordered == SetToSortSeq(log, LAMBDA r, s : r.index < s.index)
  IN FoldLeft(Round, [ok |-> TRUE, at |-> start], ordered).ok

VerifyRows(p) ==
  /\ pc[p] = "indexed"
  /\ Goto(p, IF Verified(mem[p].at) THEN "ok" ELSE "invalid", mem[p].event, mem[p].at)
  /\ UNCHANGED <<now, created, chainVars, status, lock, faultVars>>

(* Both callers store the result in a transaction of its own.              *)
Report(p) ==
  /\ pc[p] \in Verdicts
  /\ status' = pc[p]
  /\ Finish(p)
  /\ UNCHANGED <<now, created, chainVars, lock, faultVars>>

----------------------------------------------------------------------------
(* Someone edits a row in the database, or removes one that is not the     *)
(* newest.                                                                 *)
Damage ==
  /\ MayDamage /\ ~damaged /\ damaged' = TRUE /\ legacy = {}
  /\ \E r \in log :
       \/ log' = (log \ {r}) \cup {[r EXCEPT !.altered = TRUE]}
       \/ ~IsNewest(r) /\ log' = log \ {r}
  /\ UNCHANGED <<now, created, legacy, anchor, status, lock, pc, mem, crashes>>

(* The API process dies: the database rolls back and frees the lock.       *)
ApiCrash ==
  /\ crashes < MaxCrashes /\ crashes' = crashes + 1
  /\ \E p \in Threads : pc[p] # "idle"
  /\ pc' = [p \in Threads |-> "idle"]
  /\ mem' = [p \in Threads |-> Blank]
  /\ lock' = Nobody
  /\ UNCHANGED <<now, created, chainVars, status, damaged>>

Tick ==
  /\ now < MaxTime /\ now' = now + 1
  /\ UNCHANGED <<created, chainVars, status, lock, pc, mem, faultVars>>

SaveStep(p) == SaveRead(p) \/ SaveInsert(p)
CleanStep(p) == CleanMax(p) \/ CleanAnchor(p) \/ CleanDelete(p)
VerifyStep(p) == VerifyIndex(p) \/ VerifyRows(p) \/ Report(p)

Next ==
  \/ Initialize \/ Damage \/ ApiCrash \/ Tick
  \/ \E p \in Threads :
       \/ SaveBegins(p) \/ CleanFirst(p) \/ VerifyHash(p)
       \/ SaveStep(p) \/ CleanStep(p) \/ VerifyStep(p)

Spec == Init /\ [][Next]_vars

(* Calls of the store end, and the daily task never stops asking for a     *)
(* verification, whatever else its process does.                           *)
FairSpec ==
  /\ Spec
  /\ WF_vars(Initialize)
  /\ \A p \in Threads :
       /\ WF_vars(SaveInsert(p)) /\ WF_vars(CleanStep(p)) /\ WF_vars(VerifyStep(p))
       /\ SF_vars(SaveRead(p)) /\ SF_vars(VerifyHash(p))

----------------------------------------------------------------------------
(* What the loop of verify_audit_chain is to find out: rows have one index *)
(* each, each continues the row before it, the first one the anchor.       *)
Intact(start, rows) ==
  /\ \A r, s \in rows : r.index = s.index => r = s
  /\ \A r \in rows :
       /\ r.index > start.index
       /\ r.hash = Hash(r.prev, ValuesOf(r))
       /\ \/ r.index = start.index + 1 /\ r.prev = start.hash
          \/ \E s \in rows : s.index = r.index - 1 /\ s.hash = r.prev

(* Whatever the writers do to it, and wherever they crash, a log nobody    *)
(* has tampered with is one chain that hangs on its anchor ("Damit bleibt  *)
(* die Kette auch nach zulässiger Löschung prüfbar", AUDIT.md).            *)
ChainIsIntact == ~damaged => Intact(anchor, log)

(* A saved entry is in the log: no thread takes the index of another.      *)
SavedIsStored ==
  [][\A p \in Threads :
       pc[p] = "inserting" /\ pc'[p] = "idle" /\ crashes' = crashes =>
         \E r \in log' : r.event = mem[p].event]_vars

(* Retention removes only entries older than the shortest retention, also  *)
(* when others are written while it looks for its boundary.                *)
OnlyExpiredGo ==
  [][\A r \in log :
       damaged' = damaged /\ (\A s \in log' : s.index # r.index) =>
         created[r.event] + MinAge < now]_vars

(* A verification says ok only of an intact chain, even when a retention   *)
(* runs between its reads; it says invalid only of a broken chain, or when *)
(* a retention has moved the anchor it had read.                           *)
VerdictIsRight ==
  [][\A p \in Threads : pc[p] = "indexed" =>
       /\ pc'[p] = "ok" => Intact(anchor, log)
       /\ pc'[p] = "invalid" => ~Intact(anchor, log) \/ mem[p].at # anchor]_vars

(* Damage shows up in the system status sooner or later, unless retention  *)
(* removes the damaged entry first ("Die Prüfung ... läuft täglich         *)
(* automatisch; ihr letzter Status erscheint zusätzlich im administrativen *)
(* Systemstatus", AUDIT.md).                                               *)
DamageIsReported ==
  ~Intact(anchor, log) ~> (status = "invalid" \/ Intact(anchor, log))
=============================================================================
