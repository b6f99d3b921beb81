--------------------------- MODULE ConnectorsProofs ---------------------------
(***************************************************************************)
(* For any jobs, workers, sizes, pieces, waits and numbers of attempts and *)
(* faults: types, waits are kept, nothing fails by itself, receipts are    *)
(* true, and a document is in one place.  The invariant has four parts:    *)
(* the shape of the attempts, the accounts of the jobs, what is at a       *)
(* service, and what is in a folder, where the jobs that crossed another   *)
(* are let out of every statement.                                         *)
(***************************************************************************)
EXTENDS Connectors, FiniteSetTheorems, TLAPS

----------------------------------------------------------------------------
(* What the stages of an attempt have to do with the kind of the target    *)
(* and with the names of its job.                                          *)
Filing == {"choosing", "opening", "copying", "describing"}

Posting == {"posting", "authorizing", "putting", "starting", "sending"}

StageOK(a) ==
  /\ a.stage \in Filing => kind = "filesystem"
  /\ a.stage \in Posting => kind # "filesystem"
  /\ a.stage \in {"opening", "copying", "describing", "received"} =>
       a.place \in {Rendered(a.job), Own(a.job)}
  /\ a.stage \in {"sending", "received"} /\ kind # "filesystem" => a.place = Own(a.job)
  /\ a.stage = "opening" => a.place = Own(a.job) \/ a.seen \in {Nothing, Whole(a.job)}
  /\ a.stage \notin {"sending", "received"} => a.offset = 0
  /\ a.offset <= document[a.job].size

Busy(w) == attempt[w].stage # "idle"

(* Each worker at work has a job of its own that waits for the outcome.    *)
Shape ==
  /\ kind \in Kinds
  /\ document \in [Jobs -> [size : Sizes, suffix : Suffixes]]
  /\ phase \in [Jobs -> {"waiting", "delivered", "failed"}]
  /\ tries \in [Jobs -> Nat]
  /\ attempt \in [Workers -> Attempt]
  /\ target \in [Places -> Held \cup {Nothing}]
  /\ \A w \in Workers :
       /\ ~Busy(w) => attempt[w].job = Nothing
       /\ Busy(w) => /\ attempt[w].job \in Jobs /\ phase[attempt[w].job] = "waiting"
                     /\ tries[attempt[w].job] > 0 /\ StageOK(attempt[w])
  /\ \A v, w \in Workers : Busy(w) /\ attempt[v].job = attempt[w].job => v = w

LEMMA IdleTyped ==
  /\ Idle \in Attempt /\ Idle.stage = "idle" /\ Idle.job = Nothing
  /\ Idle.place = Nothing /\ Idle.offset = 0
BY DEF Idle, Attempt, Stages

LEMMA SizesArePositive ==
  ASSUME Shape, NEW j \in Jobs
  PROVE  document[j].size \in Nat /\ document[j].size > 0 /\ document[j].suffix \in Suffixes
<1>1. document[j] \in [size : Sizes, suffix : Suffixes]
  BY DEF Shape
<1>2. document[j].size \in Nat \ {0} /\ document[j].suffix \in Suffixes
  BY <1>1, ConnectorsAssumption
<1> QED
  BY <1>2

LEMMA NamesTyped ==
  ASSUME Shape, NEW j \in Jobs
  PROVE  /\ Rendered(j) \in Places /\ Own(j) \in Places /\ Rendered(j) # Own(j)
         /\ \A k \in Jobs \ {j} : Own(k) \notin {Rendered(j), Own(j)}
         /\ Whole(j) \in Held /\ Whole(j).of = j /\ Whole(j) # Nothing
         /\ [of |-> j, bytes |-> 0] \in Held /\ Whole(j) # [of |-> j, bytes |-> 0]
<1>1. document[j].size \in Nat /\ document[j].size > 0 /\ document[j].suffix \in Suffixes
  BY SizesArePositive
<1>2. Rendered(j) \in Places /\ Own(j) \in Places
  BY <1>1 DEF Rendered, Own, Places, Stems
<1>3. Rendered(j) # Own(j) /\ \A k \in Jobs \ {j} : Own(k) \notin {Rendered(j), Own(j)}
  BY ConnectorsAssumption DEF Rendered, Own
<1>4. Whole(j) \in Held /\ Whole(j).of = j /\ [of |-> j, bytes |-> 0] \in Held
  BY <1>1 DEF Whole, Held
<1>5. Whole(j) # [of |-> j, bytes |-> 0]
  BY <1>1 DEF Whole
<1> QED BY <1>2, <1>3, <1>4, <1>5, NothingAssumption

(* The steps of a worker, told apart by what they do to the attempt.       *)
GoesOn(w) ==
  /\ Busy(w) /\ Quietly
  /\ \E r \in Attempt :
       /\ Goes(w, r) /\ StageOK(r)
       /\ r.job = attempt[w].job /\ r.stage # "idle"

AskedFor == {0} \cup {RetryAfter(v) : v \in Waits}

Failing(w) == Busy(w) /\ \E f \in Failures, asks \in AskedFor : Fails(w, f, asks)

(* What it writes at the target: the names of its own job only.            *)
Writes(w) ==
  LET j == attempt[w].job
  IN \/ target' = target
     \/ \E p \in {Rendered(j), Own(j)}, h \in {Whole(j), [of |-> j, bytes |-> 0]} :
          /\ target' = [target EXCEPT ![p] = h]
          /\ kind # "filesystem" => p = Own(j) /\ h = Whole(j)

LEMMA WritesTyped ==
  ASSUME Shape, NEW w \in Workers, Busy(w), Writes(w)
  PROVE  target' \in [Places -> Held \cup {Nothing}]
<1>1. CASE target' = target
  BY <1>1 DEF Shape
<1>2. ASSUME NEW p \in {Rendered(attempt[w].job), Own(attempt[w].job)},
             NEW h \in {Whole(attempt[w].job), [of |-> attempt[w].job, bytes |-> 0]},
             target' = [target EXCEPT ![p] = h]
      PROVE  target' \in [Places -> Held \cup {Nothing}]
  <2>1. attempt[w].job \in Jobs
    BY DEF Shape
  <2>2. p \in Places /\ h \in Held
    BY <2>1, NamesTyped
  <2> QED BY <1>2, <2>2 DEF Shape
<1> QED BY <1>1, <1>2 DEF Writes

(* An attempt goes on.                                                     *)
LEMMA ShapeGoesOn ==
  ASSUME Shape, NEW w \in Workers, GoesOn(w), Writes(w)
  PROVE  Shape'
<1>0. PICK r \in Attempt :
        /\ Goes(w, r) /\ StageOK(r)
        /\ r.job = attempt[w].job /\ r.stage # "idle"
  BY DEF GoesOn
<1>1. attempt' \in [Workers -> Attempt]
  BY <1>0 DEF Goes, Shape
<1>2. \A v \in Workers : attempt'[v] = IF v = w THEN r ELSE attempt[v]
  BY <1>0 DEF Goes, Shape
<1>3. \A v \in Workers : attempt'[v].job = attempt[v].job /\ (Busy(v)' <=> Busy(v))
  BY <1>0, <1>2 DEF Busy, GoesOn
<1>4. ASSUME NEW v \in Workers, Busy(v) PROVE StageOK(attempt[v])'
  <2>1. StageOK(attempt[v]) /\ StageOK(r) /\ UNCHANGED <<kind, document>>
    BY <1>0, <1>4 DEF Shape, GoesOn, Quietly
  <2>2. attempt'[v] \in {r, attempt[v]}
    BY <1>2
  <2> QED BY <2>1, <2>2 DEF StageOK, Rendered, Own, Whole
<1>5. UNCHANGED <<kind, document, phase, tries>> /\ target' \in [Places -> Held \cup {Nothing}]
  BY WritesTyped DEF GoesOn, Quietly
<1> QED BY <1>1, <1>3, <1>4, <1>5 DEF Shape

(* An attempt ends, and with it perhaps the job.                           *)
LEMMA ShapeEnds ==
  ASSUME Shape, NEW w \in Workers, Busy(w), NEW s \in {"waiting", "delivered", "failed"},
         Goes(w, Idle), phase' = [phase EXCEPT ![attempt[w].job] = s],
         UNCHANGED <<kind, document, tries>>,
         target' \in [Places -> Held \cup {Nothing}]
  PROVE  Shape'
<1>1. attempt' \in [Workers -> Attempt]
  BY IdleTyped DEF Goes, Shape
<1>2. \A v \in Workers : attempt'[v] = IF v = w THEN Idle ELSE attempt[v]
  BY DEF Goes, Shape
<1>3. attempt'[w].job = Nothing /\ ~Busy(w)'
  BY <1>2, IdleTyped DEF Busy
<1>4. \A v \in Workers \ {w} : attempt'[v] = attempt[v] /\ (Busy(v)' <=> Busy(v))
  BY <1>2 DEF Busy
<1>5. phase' \in [Jobs -> {"waiting", "delivered", "failed"}]
  BY DEF Shape
<1>6. ASSUME NEW v \in Workers \ {w}, Busy(v)
      PROVE  /\ attempt'[v].job \in Jobs /\ phase'[attempt'[v].job] = "waiting"
             /\ tries'[attempt'[v].job] > 0 /\ StageOK(attempt[v])'
  <2>1. attempt[v].job # attempt[w].job
    BY <1>6 DEF Shape
  <2>2. /\ attempt[v].job \in Jobs /\ phase[attempt[v].job] = "waiting"
        /\ tries[attempt[v].job] > 0 /\ StageOK(attempt[v])
    BY <1>6 DEF Shape
  <2>3. phase'[attempt[v].job] = "waiting"
    BY <2>1, <2>2 DEF Shape
  <2>4. StageOK(attempt[v])'
    BY <1>4, <2>2 DEF StageOK, Rendered, Own, Whole
  <2> QED BY <1>4, <2>2, <2>3, <2>4
<1>7. \A v, u \in Workers : Busy(v)' /\ attempt'[v].job = attempt'[u].job => v = u
  <2> SUFFICES ASSUME NEW v \in Workers, NEW u \in Workers,
                      Busy(v)', attempt'[v].job = attempt'[u].job
               PROVE  v = u
    OBVIOUS
  <2>1. v # w /\ attempt'[v].job \in Jobs
    BY <1>3, <1>4, <1>6
  <2>2. u # w
    BY <1>3, <2>1, ConnectorsAssumption
  <2> QED BY <1>4, <2>1, <2>2 DEF Shape
<1> QED BY <1>1, <1>3, <1>4, <1>5, <1>6, <1>7 DEF Shape

LEMMA EndingShape ==
  ASSUME Shape, NEW w \in Workers, Busy(w), NEW f, NEW a, Ends(w, f, a),
         target' \in [Places -> Held \cup {Nothing}]
  PROVE  Shape'
<1> DEFINE s == IF f \notin Permanent /\ tries[attempt[w].job] < MaxAttempts
                THEN "waiting" ELSE "failed"
<1>1. phase' = [phase EXCEPT ![attempt[w].job] = s]
  BY DEF Ends
<1>2. s \in {"waiting", "delivered", "failed"}
  OBVIOUS
<1>3. Goes(w, Idle) /\ UNCHANGED <<kind, document, tries>>
  BY DEF Ends
<1> HIDE DEF s
<1> QED BY <1>1, <1>2, <1>3, ShapeEnds

LEMMA InitShape == Init => Shape
<1> SUFFICES ASSUME Init PROVE Shape
  OBVIOUS
<1>1. \A w \in Workers : attempt[w] = Idle
  BY DEF Init
<1>2. \A w \in Workers : ~Busy(w) /\ attempt[w].job = Nothing
  BY <1>1, IdleTyped DEF Busy
<1>3. /\ kind \in Kinds /\ document \in [Jobs -> [size : Sizes, suffix : Suffixes]]
      /\ phase \in [Jobs -> {"waiting", "delivered", "failed"}]
      /\ tries \in [Jobs -> Nat]
      /\ target \in [Places -> Held \cup {Nothing}]
  BY DEF Init
<1>4. attempt \in [Workers -> Attempt]
  BY IdleTyped DEF Init
<1> QED BY <1>2, <1>3, <1>4 DEF Shape

LEMMA ClaimShape ==
  ASSUME Shape, NEW w \in Workers, NEW j \in Jobs, Claims(w, j)
  PROVE  Shape'
<1> DEFINE r == [Idle EXCEPT !.stage = "connecting", !.job = j]
<1>1. r \in Attempt /\ r.stage = "connecting" /\ r.job = j /\ r.offset = 0
  BY DEF Idle, Attempt, Stages
<1>2. /\ attempt' = [attempt EXCEPT ![w] = r] /\ tries' = [tries EXCEPT ![j] = @ + 1]
      /\ phase[j] = "waiting" /\ \A v \in Workers : attempt[v].job # j
      /\ UNCHANGED <<kind, document, phase, target>> /\ ~Busy(w)
  BY DEF Claims, Goes, Busy
<1> HIDE DEF r
<1>3. \A v \in Workers : attempt'[v] = IF v = w THEN r ELSE attempt[v]
  BY <1>2 DEF Shape
<1>4. attempt' \in [Workers -> Attempt] /\ tries' \in [Jobs -> Nat]
  BY <1>1, <1>2 DEF Shape
<1>5. \A k \in Jobs : tries[k] > 0 \/ k = j => tries'[k] > 0
  BY <1>2 DEF Shape
<1>6. StageOK(r)'
  <2>1. document[j].size >= 0
    BY SizesArePositive
  <2> QED BY <1>1, <1>2, <2>1 DEF StageOK, Filing, Posting
<1>7. ASSUME NEW v \in Workers
      PROVE  /\ ~Busy(v)' => attempt'[v].job = Nothing
             /\ Busy(v)' => /\ attempt'[v].job \in Jobs /\ phase'[attempt'[v].job] = "waiting"
                            /\ tries'[attempt'[v].job] > 0 /\ StageOK(attempt[v])'
  <2>1. CASE v = w
    BY <1>1, <1>2, <1>3, <1>5, <1>6, <2>1 DEF Busy
  <2>2. CASE v # w
    <3>1. attempt'[v] = attempt[v] /\ (Busy(v)' <=> Busy(v))
      BY <1>3, <2>2 DEF Busy
    <3>2. StageOK(attempt[v]) => StageOK(attempt[v])'
      BY <1>2, <3>1 DEF StageOK, Rendered, Own, Whole
    <3> QED BY <1>2, <1>5, <3>1, <3>2 DEF Shape
  <2> QED BY <2>1, <2>2
<1>8. \A v, u \in Workers : Busy(v)' /\ attempt'[v].job = attempt'[u].job => v = u
  BY <1>1, <1>2, <1>3 DEF Shape, Busy
<1> QED BY <1>2, <1>4, <1>7, <1>8 DEF Shape

LEMMA FailingShape ==
  ASSUME Shape, NEW w \in Workers, Failing(w), Writes(w)
  PROVE  Shape'
BY EndingShape, WritesTyped DEF Failing, Fails

LEMMA CrashShape ==
  ASSUME Shape, NEW w \in Workers, Crashes(w)
  PROVE  Shape'
<1>1. attempt[w].job \in Jobs /\ phase[attempt[w].job] = "waiting" /\ Busy(w)
  BY DEF Crashes, Shape, Busy
<1>2. phase' = [phase EXCEPT ![attempt[w].job] = "waiting"]
  BY <1>1 DEF Crashes, Shape
<1>3. /\ Goes(w, Idle) /\ UNCHANGED <<kind, document, tries>>
      /\ target' \in [Places -> Held \cup {Nothing}]
  BY DEF Crashes, Shape
<1> QED BY <1>1, <1>2, <1>3, ShapeEnds

LEMMA SaveShape ==
  ASSUME Shape, NEW w \in Workers, SavesReceipt(w)
  PROVE  Shape'
<1>1. Busy(w) /\ phase' = [phase EXCEPT ![attempt[w].job] = "delivered"]
  BY DEF SavesReceipt, Busy
<1>2. /\ Goes(w, Idle) /\ UNCHANGED <<kind, document, tries>>
      /\ target' \in [Places -> Held \cup {Nothing}]
  BY DEF SavesReceipt, Shape
<1> QED BY <1>1, <1>2, ShapeEnds

----------------------------------------------------------------------------
(* Every step of a worker is of one of these kinds.                        *)
LEMMA RequestFailing ==
  ASSUME NEW w, Busy(w), RequestFails(w)
  PROVE  Failing(w)
BY DEF RequestFails, Failures, Failing, AskedFor

LEMMA ProceedsGoesOn ==
  ASSUME Shape, NEW w \in Workers, Busy(w), NEW s \in Stages \ {"idle"}, Proceeds(w, s), Quietly,
         StageOK([attempt[w] EXCEPT !.stage = s])
  PROVE  GoesOn(w)
<1> DEFINE r == [attempt[w] EXCEPT !.stage = s]
<1>1. r \in Attempt /\ r.job = attempt[w].job /\ r.stage = s
  BY DEF Shape, Attempt
<1>2. Goes(w, r) /\ StageOK(r)
  BY DEF Proceeds
<1> HIDE DEF r
<1> QED BY <1>1, <1>2 DEF GoesOn

(* What is known of an attempt at work, and of one moved to another stage. *)
LEMMA AtWork ==
  ASSUME Shape, NEW w \in Workers, attempt[w].stage # "idle"
  PROVE  /\ Busy(w) /\ attempt[w] \in Attempt /\ attempt[w].job \in Jobs
         /\ StageOK(attempt[w]) /\ kind \in Kinds
         /\ phase[attempt[w].job] = "waiting" /\ tries[attempt[w].job] > 0
BY DEF Shape, Busy

LEMMA Moved ==
  ASSUME NEW a \in Attempt, NEW s \in Stages
  PROVE  LET r == [a EXCEPT !.stage = s]
         IN /\ r \in Attempt /\ r.stage = s /\ r.job = a.job
            /\ r.place = a.place /\ r.seen = a.seen /\ r.offset = a.offset
BY DEF Attempt

LEMMA ConnectsKind ==
  ASSUME Shape, NEW w \in Workers, Connects(w)
  PROVE  (GoesOn(w) \/ Failing(w)) /\ Writes(w)
<1>1. attempt[w].stage = "connecting" /\ Writes(w)
  BY DEF Connects, Writes
<1>2. /\ Busy(w) /\ attempt[w] \in Attempt /\ attempt[w].job \in Jobs
      /\ StageOK(attempt[w]) /\ kind \in Kinds
  BY <1>1, AtWork
<1>3. CASE Fails(w, "unlicensed", 0)
  BY <1>1, <1>2, <1>3 DEF Failing, Failures, AskedFor
<1>4. ASSUME NEW s \in {"choosing", "posting", "authorizing"}, Proceeds(w, s), Quietly,
             s = "choosing" <=> kind = "filesystem"
      PROVE  GoesOn(w)
  <2> DEFINE r == [attempt[w] EXCEPT !.stage = s]
  <2>1. s \in Stages \ {"idle"} /\ r.stage = s /\ r.job = attempt[w].job /\ r.offset = attempt[w].offset
    BY <1>2, Moved DEF Stages
  <2> HIDE DEF r
  <2>2. StageOK(r)
    BY <1>1, <1>2, <1>4, <2>1 DEF StageOK, Filing, Posting
  <2> QED BY <1>2, <1>4, <2>1, <2>2, ProceedsGoesOn DEF r
<1> QED BY <1>1, <1>2, <1>3, <1>4 DEF Connects, Kinds

LEMMA ChoosesNameKind ==
  ASSUME Shape, NEW w \in Workers, ChoosesName(w)
  PROVE  GoesOn(w) /\ Writes(w)
<1> DEFINE a == attempt[w]
           p == NameFor(a.job)
           r == [a EXCEPT !.stage = "opening", !.place = p, !.seen = target[p]]
<1>1. a.stage = "choosing" /\ Writes(w) /\ Goes(w, r) /\ Quietly
  BY DEF ChoosesName, Writes
<1>2. Busy(w) /\ a \in Attempt /\ a.job \in Jobs /\ StageOK(a)
  BY <1>1, AtWork
<1>3. p \in {Rendered(a.job), Own(a.job)} /\ p \in Places
  BY <1>2, NamesTyped DEF NameFor
<1>4. target[p] \in Held \cup {Nothing}
  BY <1>3 DEF Shape
<1>5. p = Own(a.job) \/ target[p] \in {Nothing, Whole(a.job)}
  BY DEF NameFor
<1> HIDE DEF p
<1>6. /\ r \in Attempt /\ r.stage = "opening" /\ r.job = a.job /\ r.place = p
      /\ r.seen = target[p] /\ r.offset = a.offset
  BY <1>2, <1>3, <1>4 DEF Attempt, Stages
<1> HIDE DEF r, a
<1>7. StageOK(r)
  BY <1>1, <1>2, <1>3, <1>5, <1>6 DEF StageOK, Filing, Posting
<1> QED BY <1>1, <1>2, <1>6, <1>7 DEF GoesOn, a

LEMMA OpensCopyKind ==
  ASSUME Shape, NEW w \in Workers, OpensCopy(w)
  PROVE  GoesOn(w) /\ Writes(w)
<1> DEFINE a == attempt[w]
           r == [a EXCEPT !.stage = "copying"]
<1>1. /\ a.stage = "opening" /\ Proceeds(w, "copying") /\ Quietly
      /\ target' = [target EXCEPT ![a.place] = [of |-> a.job, bytes |-> 0]]
  BY DEF OpensCopy
<1>2. Busy(w) /\ a \in Attempt /\ a.job \in Jobs /\ StageOK(a)
  BY <1>1, AtWork
<1>3. a.place \in {Rendered(a.job), Own(a.job)} /\ kind = "filesystem"
  BY <1>1, <1>2 DEF StageOK, Filing
<1>4. Writes(w)
  BY <1>1, <1>3 DEF Writes
<1>5. /\ r \in Attempt /\ r.stage = "copying" /\ r.job = a.job /\ r.place = a.place
      /\ r.offset = a.offset
  BY <1>2, Moved DEF Stages
<1> HIDE DEF r
<1>6. StageOK(r)
  BY <1>1, <1>2, <1>3, <1>5 DEF StageOK, Filing, Posting
<1> QED BY <1>1, <1>2, <1>4, <1>6, ProceedsGoesOn DEF r, Stages

LEMMA CopiesKind ==
  ASSUME Shape, NEW w \in Workers, Copies(w)
  PROVE  (GoesOn(w) \/ Failing(w)) /\ Writes(w)
<1> DEFINE a == attempt[w]
           r == [a EXCEPT !.stage = "describing"]
<1>1. a.stage = "copying"
  BY DEF Copies
<1>2. Busy(w) /\ a \in Attempt /\ a.job \in Jobs /\ StageOK(a)
  BY <1>1, AtWork
<1>3. a.place \in {Rendered(a.job), Own(a.job)} /\ kind = "filesystem"
  BY <1>1, <1>2 DEF StageOK, Filing
<1>4. CASE Fails(w, "unwritable", 0) /\ UNCHANGED target
  BY <1>2, <1>4 DEF Failing, Failures, AskedFor, Writes
<1>5. CASE target' = [target EXCEPT ![a.place] = Whole(a.job)] /\ Proceeds(w, "describing") /\ Quietly
  <2>1. Writes(w)
    BY <1>3, <1>5 DEF Writes
  <2>2. /\ r \in Attempt /\ r.stage = "describing" /\ r.job = a.job /\ r.place = a.place
        /\ r.offset = a.offset
    BY <1>2, Moved DEF Stages
  <2> HIDE DEF r
  <2>3. StageOK(r)
    BY <1>1, <1>2, <1>3, <2>2 DEF StageOK, Filing, Posting
  <2> QED BY <1>2, <1>5, <2>1, <2>3, ProceedsGoesOn DEF r, Stages
<1> QED BY <1>4, <1>5 DEF Copies

LEMMA DescribesKind ==
  ASSUME Shape, NEW w \in Workers, Describes(w)
  PROVE  GoesOn(w) /\ Writes(w)
<1> DEFINE a == attempt[w]
           r == [a EXCEPT !.stage = "received"]
<1>1. a.stage = "describing" /\ Proceeds(w, "received") /\ Quietly /\ Writes(w)
  BY DEF Describes, Writes
<1>2. Busy(w) /\ a \in Attempt /\ a.job \in Jobs /\ StageOK(a)
  BY <1>1, AtWork
<1>3. /\ r \in Attempt /\ r.stage = "received" /\ r.job = a.job /\ r.place = a.place
      /\ r.offset = a.offset
  BY <1>2, Moved DEF Stages
<1> HIDE DEF r
<1>4. StageOK(r)
  BY <1>1, <1>2, <1>3 DEF StageOK, Filing, Posting
<1> QED BY <1>1, <1>2, <1>4, ProceedsGoesOn DEF r, Stages

LEMMA SendsKind ==
  ASSUME Shape, NEW w \in Workers, attempt[w].stage \in Posting, Sends(w, Own(attempt[w].job))
  PROVE  (GoesOn(w) \/ Failing(w)) /\ Writes(w)
<1> DEFINE a == attempt[w]
           key == Own(a.job)
           r == [a EXCEPT !.stage = "received", !.place = key]
<1>1. Busy(w) /\ a \in Attempt /\ a.job \in Jobs /\ StageOK(a) /\ kind # "filesystem"
  BY AtWork DEF Posting, StageOK
<1>2. Writes(w)
  BY DEF Sends, Writes
<1>3. CASE RequestFails(w)
  BY <1>1, <1>2, <1>3, RequestFailing
<1>4. CASE Goes(w, r) /\ Quietly
  <2>0. key \in Places
    BY <1>1, NamesTyped
  <2>1. /\ r \in Attempt /\ r.stage = "received" /\ r.job = a.job /\ r.place = key
        /\ r.offset = a.offset
    BY <1>1, <2>0 DEF Attempt, Stages
  <2> HIDE DEF r
  <2>2. StageOK(r)
    BY <1>1, <2>1 DEF StageOK, Filing, Posting
  <2> QED BY <1>1, <1>2, <1>4, <2>1, <2>2 DEF GoesOn
<1> QED BY <1>2, <1>3, <1>4 DEF Sends

LEMMA AuthorizesKind ==
  ASSUME Shape, NEW w \in Workers, Authorizes(w)
  PROVE  (GoesOn(w) \/ Failing(w)) /\ Writes(w)
<1>1. attempt[w].stage = "authorizing" /\ Writes(w)
  BY DEF Authorizes, Writes
<1>2. Busy(w) /\ attempt[w] \in Attempt /\ StageOK(attempt[w])
  BY <1>1, AtWork
<1>3. CASE RequestFails(w)
  BY <1>1, <1>2, <1>3, RequestFailing
<1>4. ASSUME NEW s \in {"putting", "starting"}, Proceeds(w, s), Quietly
      PROVE  GoesOn(w)
  <2> DEFINE r == [attempt[w] EXCEPT !.stage = s]
  <2>1. s \in Stages \ {"idle"} /\ r.stage = s /\ r.job = attempt[w].job /\ r.offset = attempt[w].offset
    BY <1>2, Moved DEF Stages
  <2> HIDE DEF r
  <2>2. StageOK(r)
    BY <1>1, <1>2, <1>4, <2>1 DEF StageOK, Filing, Posting
  <2> QED BY <1>2, <1>4, <2>1, <2>2, ProceedsGoesOn DEF r
<1> QED BY <1>1, <1>3, <1>4 DEF Authorizes

LEMMA StartsSessionKind ==
  ASSUME Shape, NEW w \in Workers, StartsSession(w)
  PROVE  (GoesOn(w) \/ Failing(w)) /\ Writes(w)
<1> DEFINE a == attempt[w]
           r == [a EXCEPT !.stage = "sending", !.place = Own(a.job)]
<1>1. a.stage = "starting" /\ Writes(w)
  BY DEF StartsSession, Writes
<1>2. Busy(w) /\ a \in Attempt /\ a.job \in Jobs /\ StageOK(a)
  BY <1>1, AtWork
<1>3. CASE RequestFails(w)
  BY <1>1, <1>2, <1>3, RequestFailing
<1>4. CASE Goes(w, r) /\ Quietly
  <2>0. Own(a.job) \in Places
    BY <1>2, NamesTyped
  <2>1. /\ r \in Attempt /\ r.stage = "sending" /\ r.job = a.job /\ r.place = Own(a.job)
        /\ r.offset = a.offset
    BY <1>2, <2>0 DEF Attempt, Stages
  <2> HIDE DEF r
  <2>2. StageOK(r)
    BY <1>1, <1>2, <2>1 DEF StageOK, Filing, Posting
  <2> QED BY <1>1, <1>2, <1>4, <2>1, <2>2 DEF GoesOn
<1> QED BY <1>1, <1>3, <1>4 DEF StartsSession

(* The ranges of the pieces fit: no piece is empty, none goes too far.     *)
LEMMA RangesFit ==
  ASSUME NEW size \in Nat, NEW offset \in Nat, offset < size
  PROVE  /\ Fits(offset, LastByte(offset, size), size)
         /\ LastByte(offset, size) + 1 \in Nat
         /\ LastByte(offset, size) + 1 <= size
         /\ LastByte(offset, size) + 1 > offset
<1>1. Chunk \in Nat /\ Chunk > 0
  BY ConnectorsAssumption
<1> QED
  BY <1>1 DEF Fits, LastByte, Smaller

LEMMA SendsPieceKind ==
  ASSUME Shape, NEW w \in Workers, SendsPiece(w)
  PROVE  (GoesOn(w) \/ Failing(w)) /\ Writes(w)
<1> DEFINE a == attempt[w]
           size == document[a.job].size
           last == LastByte(a.offset, size)
           stored == IF last + 1 = size THEN [target EXCEPT ![a.place] = Whole(a.job)] ELSE target
           r == [a EXCEPT !.offset = last + 1]
<1>1. a.stage = "sending" /\ a.offset < size
  BY DEF SendsPiece
<1>2. Busy(w) /\ a \in Attempt /\ a.job \in Jobs /\ StageOK(a) /\ kind # "filesystem"
  BY <1>1, AtWork DEF StageOK, Posting
<1>3. size \in Nat /\ a.offset \in Nat
  BY <1>2, SizesArePositive DEF Attempt
<1>4. Fits(a.offset, last, size) /\ last + 1 \in Nat /\ last + 1 <= size
  BY <1>1, <1>3, RangesFit
<1>5. a.place = Own(a.job)
  BY <1>1, <1>2 DEF StageOK
<1>6. target' \in {target, stored}
  BY <1>4 DEF SendsPiece
<1>7. Writes(w)
  BY <1>5, <1>6 DEF Writes
<1>8. CASE RequestFails(w)
  BY <1>2, <1>7, <1>8, RequestFailing
<1>9. CASE Goes(w, r) /\ Quietly
  <2> HIDE DEF last, size
  <2>1. /\ r \in Attempt /\ r.stage = "sending" /\ r.job = a.job /\ r.place = a.place
        /\ r.offset = last + 1
    BY <1>1, <1>2, <1>4 DEF Attempt
  <2> HIDE DEF r
  <2>2. StageOK(r)
    BY <1>1, <1>2, <1>4, <2>1 DEF StageOK, Filing, Posting, size
  <2> QED BY <1>1, <1>2, <1>7, <1>9, <2>1, <2>2 DEF GoesOn
<1> QED BY <1>4, <1>7, <1>8, <1>9 DEF SendsPiece

(* A session that has sent every piece and still has no document: never,   *)
(* as DocumentsArrive shows below.                                         *)
Unfinished(w) ==
  /\ Busy(w) /\ Ends(w, "unfinished", 0) /\ UNCHANGED <<faults, torn>>
  /\ attempt[w].stage = "sending" /\ attempt[w].offset = document[attempt[w].job].size
  /\ target[attempt[w].place] # Whole(attempt[w].job)

LEMMA FinishesKind ==
  ASSUME Shape, NEW w \in Workers, Finishes(w)
  PROVE  (GoesOn(w) \/ Failing(w) \/ Unfinished(w)) /\ Writes(w)
<1> DEFINE a == attempt[w]
           r == [a EXCEPT !.stage = "received"]
<1>1. a.stage = "sending" /\ a.offset = document[a.job].size /\ Writes(w)
  BY DEF Finishes, Writes
<1>2. Busy(w) /\ a \in Attempt /\ a.job \in Jobs /\ StageOK(a)
  BY <1>1, AtWork
<1>3. CASE Fails(w, "unfinished", 0)
  BY <1>1, <1>2, <1>3 DEF Failing, Failures, AskedFor
<1>4. CASE Proceeds(w, "received") /\ Quietly
  <2>1. /\ r \in Attempt /\ r.stage = "received" /\ r.job = a.job /\ r.place = a.place
        /\ r.offset = a.offset
    BY <1>2, Moved DEF Stages
  <2> HIDE DEF r
  <2>2. StageOK(r)
    BY <1>1, <1>2, <2>1 DEF StageOK, Filing, Posting
  <2> QED BY <1>1, <1>2, <1>4, <2>2, ProceedsGoesOn DEF r, Stages
<1> QED BY <1>1, <1>2, <1>3, <1>4 DEF Finishes, Unfinished

LEMMA StepKind ==
  ASSUME Shape, NEW w \in Workers, Step(w)
  PROVE  /\ \/ \E j \in Jobs : Claims(w, j)
            \/ GoesOn(w) \/ Failing(w) \/ Unfinished(w)
            \/ SavesReceipt(w)
         /\ Writes(w)
<1>1. ASSUME NEW j \in Jobs, Claims(w, j) PROVE Writes(w)
  BY <1>1 DEF Claims, Writes
<1>2. CASE Posts(w)
  BY <1>2, SendsKind DEF Posts, Posting
<1>3. CASE Puts(w)
  BY <1>3, SendsKind DEF Puts, Posting
<1>4. SavesReceipt(w) => Writes(w)
  BY DEF SavesReceipt, Writes
<1> QED
  BY <1>1, <1>2, <1>3, <1>4, ConnectsKind, ChoosesNameKind, OpensCopyKind, CopiesKind, DescribesKind,
     AuthorizesKind, StartsSessionKind, SendsPieceKind, FinishesKind DEF Step

LEMMA NextShape ==
  ASSUME Shape, [Next]_vars
  PROVE  Shape'
<1>1. ASSUME NEW w \in Workers, Step(w) PROVE Shape'
  <2>1. CASE \E j \in Jobs : Claims(w, j)
    BY <2>1, ClaimShape
  <2>2. CASE GoesOn(w)
    BY <1>1, <2>2, StepKind, ShapeGoesOn
  <2>3. CASE Failing(w)
    BY <1>1, <2>3, StepKind, FailingShape
  <2>4. CASE Unfinished(w)
    BY <1>1, <2>4, StepKind, EndingShape, WritesTyped DEF Unfinished
  <2>5. CASE SavesReceipt(w)
    BY <2>5, SaveShape
  <2> QED BY <1>1, <2>1, <2>2, <2>3, <2>4, <2>5, StepKind
<1>2. ASSUME NEW w \in Workers, Crashes(w) PROVE Shape'
  BY <1>2, CrashShape
<1>3. CASE Tick
  BY <1>3 DEF Tick, Shape, Busy, StageOK, Rendered, Own, Whole
<1>4. CASE UNCHANGED vars
  BY <1>4 DEF vars, Shape, Busy, StageOK, Rendered, Own, Whole
<1> QED BY <1>1, <1>2, <1>3, <1>4 DEF Next

(* What is recorded beside the documents and with the jobs is well typed.  *)
Recorded ==
  /\ beside \in [Stems -> Jobs \cup {Nothing}]
  /\ reference \in [Jobs -> Places \cup {Nothing}]
  /\ torn \in SUBSET Jobs

LEMMA NextRecorded ==
  ASSUME Shape, Recorded, [Next]_vars
  PROVE  Recorded'
<1>1. \A f, asks : \A w \in Workers : Fails(w, f, asks) \/ Ends(w, f, asks) => UNCHANGED reference
  BY DEF Fails, Ends
<1>2. \A w \in Workers : RequestFails(w) => UNCHANGED reference
  BY <1>1 DEF RequestFails
<1>3. ASSUME NEW w \in Workers, Step(w) PROVE Recorded'
  <2>1. ASSUME NEW j \in Jobs, Claims(w, j) PROVE Recorded'
    BY <2>1 DEF Claims, Recorded
  <2>2. CASE Connects(w) \/ ChoosesName(w) \/ OpensCopy(w) \/ Authorizes(w) \/ StartsSession(w)
    BY <1>1, <1>2, <2>2
       DEF Connects, ChoosesName, OpensCopy, Authorizes, StartsSession, Quietly, Recorded
  <2>3. CASE Copies(w)
    <3>1. attempt[w].job \in Jobs
      BY <2>3, AtWork DEF Copies
    <3> QED BY <1>1, <2>3, <3>1 DEF Copies, Quietly, Recorded
  <2>4. CASE Describes(w)
    <3>1. attempt[w].job \in Jobs /\ UNCHANGED <<reference, torn>>
      BY <2>4, AtWork DEF Describes, Quietly
    <3>2. beside' = [beside EXCEPT ![attempt[w].place.stem] = attempt[w].job]
      BY <2>4 DEF Describes, MetadataName
    <3> QED BY <3>1, <3>2 DEF Recorded
  <2>5. CASE Posts(w) \/ Puts(w)
    BY <1>2, <2>5 DEF Posts, Puts, Sends, Quietly, Recorded
  <2>6. CASE SendsPiece(w) \/ Finishes(w)
    BY <1>1, <1>2, <2>6 DEF SendsPiece, Finishes, Quietly, Recorded
  <2>7. CASE SavesReceipt(w)
    <3>0. attempt[w].stage = "received" /\ attempt[w].job \in Jobs /\ StageOK(attempt[w])
      BY <2>7, AtWork DEF SavesReceipt
    <3>1. attempt[w].job \in Jobs /\ attempt[w].place \in Places
      BY <3>0, NamesTyped DEF StageOK
    <3>2. /\ reference' = [reference EXCEPT ![attempt[w].job] = attempt[w].place]
          /\ UNCHANGED <<beside, torn>>
      BY <2>7 DEF SavesReceipt
    <3> QED BY <3>1, <3>2 DEF Recorded
  <2> QED BY <1>3, <2>1, <2>2, <2>3, <2>4, <2>5, <2>6, <2>7 DEF Step
<1>4. ASSUME NEW w \in Workers, Crashes(w) PROVE Recorded'
  <2>1. attempt[w].job \in Jobs
    BY <1>4, AtWork DEF Crashes
  <2> QED BY <1>4, <2>1 DEF Crashes, Recorded
<1>5. CASE Tick \/ UNCHANGED vars
  BY <1>5 DEF Tick, vars, Recorded
<1> QED BY <1>3, <1>4, <1>5 DEF Next

----------------------------------------------------------------------------
(* At the services.  A document that has the name of a job is the whole    *)
(* document of that job, and stays.                                        *)
RemoteInv ==
  kind # "filesystem" =>
    /\ \A p \in Places : target[p] # Nothing => p = Own(target[p].of) /\ target[p] = Whole(target[p].of)
    /\ \A w \in Workers :
         LET a == attempt[w]
         IN a.stage = "received" \/ (a.stage = "sending" /\ a.offset = document[a.job].size)
              => target[Own(a.job)] = Whole(a.job)
    /\ \A j \in Jobs : reference[j] # Nothing => reference[j] = Own(j) /\ target[Own(j)] = Whole(j)

(* Where a worker is about to say that the document of its job is there.   *)
Sent(a) ==
  a.stage = "received" \/ (a.stage = "sending" /\ a.offset = document[a.job].size)

LEMMA DocumentsStay ==
  ASSUME Shape, RemoteInv, kind # "filesystem", UNCHANGED document,
         NEW w \in Workers, Busy(w), Writes(w)
  PROVE  /\ (\A p \in Places :
               target[p] # Nothing => p = Own(target[p].of) /\ target[p] = Whole(target[p].of))'
         /\ \A j \in Jobs : target[Own(j)] = Whole(j) => (target[Own(j)] = Whole(j))'
<1> DEFINE j == attempt[w].job
<1>0. \A k : Own(k)' = Own(k) /\ Whole(k)' = Whole(k)
  BY DEF Own, Whole
<1>1. j \in Jobs
  BY DEF Shape
<1>2. /\ Own(j) \in Places /\ Whole(j).of = j
      /\ \A k \in Jobs \ {j} : Own(k) # Own(j)
  BY <1>1, NamesTyped
<1>3. CASE target' = target
  BY <1>0, <1>3 DEF RemoteInv
<1>4. CASE target' = [target EXCEPT ![Own(j)] = Whole(j)]
  <2>1. \A p \in Places : target'[p] = IF p = Own(j) THEN Whole(j) ELSE target[p]
    BY <1>4 DEF Shape
  <2>2. \A k \in Jobs : Own(k) \in Places
    BY NamesTyped
  <2> QED BY <1>0, <1>2, <2>1, <2>2 DEF RemoteInv
<1>5. target' = target \/ target' = [target EXCEPT ![Own(j)] = Whole(j)]
  BY DEF Writes
<1> QED BY <1>3, <1>4, <1>5

(* A worker that has come so far has just sent the document.               *)
LEMMA DocumentsArrive ==
  ASSUME Shape, RemoteInv, kind # "filesystem", NEW w \in Workers, Step(w),
         Sent(attempt[w])', UNCHANGED document
  PROVE  (target[Own(attempt[w].job)] = Whole(attempt[w].job))'
<1> DEFINE a == attempt[w]
<1>0. /\ \A k : Own(k)' = Own(k) /\ Whole(k)' = Whole(k)
      /\ Sent(attempt[w])' <=> Sent(attempt'[w])
  BY DEF Own, Whole, Sent
<1>1. \A r : Goes(w, r) => attempt'[w] = r
  BY DEF Goes, Shape
<1>2. ~Goes(w, Idle)
  BY <1>0, <1>1, IdleTyped DEF Sent
<1>3. \A f, asks : ~Fails(w, f, asks) /\ ~Ends(w, f, asks)
  BY <1>2 DEF Fails, Ends
<1>4. ~RequestFails(w)
  BY <1>3 DEF RequestFails
<1>5. \A s \in Stages : Proceeds(w, s) => attempt'[w].stage = s /\ attempt'[w].job = a.job
  BY <1>1 DEF Proceeds, Shape, Attempt
<1>6. ASSUME NEW j \in Jobs, Claims(w, j) PROVE FALSE
  BY <1>0, <1>1, <1>6 DEF Claims, Idle, Sent
<1>7. ~Connects(w) /\ ~Authorizes(w)
  BY <1>0, <1>3, <1>4, <1>5 DEF Connects, Authorizes, Sent, Stages, Kinds, Shape
<1>8. ~ChoosesName(w) /\ ~OpensCopy(w) /\ ~Copies(w) /\ ~Describes(w)
  BY AtWork DEF ChoosesName, OpensCopy, Copies, Describes, StageOK, Filing
<1>9. ~SavesReceipt(w)
  BY <1>2 DEF SavesReceipt
<1>10. ASSUME attempt[w].stage # "idle", Sends(w, Own(attempt[w].job))
       PROVE  (target[Own(attempt[w].job)] = Whole(attempt[w].job))'
  <2> DEFINE r == [a EXCEPT !.stage = "received", !.place = Own(a.job)]
  <2>1. a \in Attempt /\ a.job \in Jobs
    BY <1>10, AtWork
  <2>2. target' = [target EXCEPT ![Own(a.job)] = Whole(a.job)] /\ Goes(w, r)
    BY <1>4, <1>10 DEF Sends
  <2>3. attempt'[w].job = a.job
    BY <1>1, <2>1, <2>2 DEF Attempt
  <2>4. Own(a.job) \in Places
    BY <2>1, NamesTyped
  <2> QED BY <1>0, <2>2, <2>3, <2>4 DEF Shape
<1>11. ~StartsSession(w)
  <2> SUFFICES ASSUME StartsSession(w) PROVE FALSE
    OBVIOUS
  <2>1. a \in Attempt /\ a.job \in Jobs /\ a.offset = 0
    BY AtWork DEF StartsSession, StageOK
  <2>2. Goes(w, [a EXCEPT !.stage = "sending", !.place = Own(a.job)])
    BY <1>4 DEF StartsSession
  <2>3. attempt'[w].stage = "sending" /\ attempt'[w].job = a.job /\ attempt'[w].offset = 0
    BY <1>1, <2>1, <2>2 DEF Attempt
  <2> QED BY <1>0, <2>1, <2>3, SizesArePositive DEF Sent
<1>12. ASSUME SendsPiece(w)
       PROVE  (target[Own(attempt[w].job)] = Whole(attempt[w].job))'
  <2> DEFINE size == document[a.job].size
             last == LastByte(a.offset, size)
  <2>1. /\ a \in Attempt /\ a.job \in Jobs /\ a.place = Own(a.job)
        /\ a.stage = "sending" /\ a.offset < size
    BY <1>12, AtWork DEF SendsPiece, StageOK
  <2>2. size \in Nat /\ a.offset \in Nat
    BY <2>1, SizesArePositive DEF Attempt
  <2>3. Fits(a.offset, last, size) /\ last + 1 \in Nat
    BY <2>1, <2>2, RangesFit
  <2>4. /\ Goes(w, [a EXCEPT !.offset = last + 1])
        /\ target' = IF last + 1 = size THEN [target EXCEPT ![a.place] = Whole(a.job)] ELSE target
    BY <1>4, <1>12, <2>3 DEF SendsPiece
  <2> HIDE DEF last, size
  <2>5. attempt'[w].stage = "sending" /\ attempt'[w].job = a.job /\ attempt'[w].offset = last + 1
    BY <1>1, <2>1, <2>4 DEF Attempt
  <2>6. last + 1 = size
    BY <1>0, <2>5 DEF Sent, size
  <2>7. Own(a.job) \in Places
    BY <2>1, NamesTyped
  <2> QED BY <1>0, <2>1, <2>4, <2>5, <2>6, <2>7 DEF Shape
<1>13. ASSUME Finishes(w)
       PROVE  (target[Own(attempt[w].job)] = Whole(attempt[w].job))'
  <2>1. a.job \in Jobs /\ a.place = Own(a.job)
    BY <1>13, AtWork DEF Finishes, StageOK
  <2>2. target[a.place] = Whole(a.job) /\ Proceeds(w, "received") /\ target' = target
    BY <1>3, <1>13 DEF Finishes
  <2> QED BY <1>0, <1>5, <2>1, <2>2 DEF Stages
<1> QED
  BY <1>6, <1>7, <1>8, <1>9, <1>10, <1>11, <1>12, <1>13 DEF Step, Posts, Puts

(* What a step that is not its own leaves of an attempt.                   *)
LEMMA OthersStay ==
  ASSUME Shape, NEW w \in Workers, NEW v \in Workers \ {w}, Step(w) \/ Crashes(w)
  PROVE  attempt'[v] = attempt[v]
<1>1. \A r : Goes(w, r) => attempt'[v] = attempt[v]
  BY DEF Goes, Shape
<1>2. CASE Crashes(w)
  BY <1>1, <1>2 DEF Crashes
<1>3. CASE Step(w)
  <2>1. ASSUME NEW j \in Jobs, Claims(w, j) PROVE \E r : Goes(w, r)
    BY <2>1 DEF Claims
  <2>2. GoesOn(w) => \E r : Goes(w, r)
    BY DEF GoesOn
  <2>3. Failing(w) \/ Unfinished(w) => \E r : Goes(w, r)
    BY DEF Failing, Unfinished, Fails, Ends
  <2>4. SavesReceipt(w) => \E r : Goes(w, r)
    BY DEF SavesReceipt
  <2> QED BY <1>1, <1>3, <2>1, <2>2, <2>3, <2>4, StepKind
<1> QED BY <1>2, <1>3

LEMMA Constant ==
  ASSUME Shape, [Next]_vars
  PROVE  UNCHANGED <<kind, document>>
<1>1. ASSUME NEW w \in Workers, Step(w) PROVE UNCHANGED <<kind, document>>
  <2>1. \A j \in Jobs : Claims(w, j) => UNCHANGED <<kind, document>>
    BY DEF Claims
  <2>2. GoesOn(w) \/ Failing(w) \/ Unfinished(w) \/ SavesReceipt(w) => UNCHANGED <<kind, document>>
    BY DEF GoesOn, Quietly, Failing, Fails, Unfinished, Ends, SavesReceipt
  <2> QED BY <1>1, <2>1, <2>2, StepKind
<1> QED BY <1>1 DEF Next, Tick, Crashes, vars

LEMMA StepRemote ==
  ASSUME Shape, Recorded, RemoteInv, kind # "filesystem", NEW w \in Workers, Step(w),
         UNCHANGED <<kind, document>>
  PROVE  RemoteInv'
<1>0. \A k : Own(k)' = Own(k) /\ Whole(k)' = Whole(k)
  BY DEF Own, Whole
<1>1. Writes(w)
  BY StepKind
<1>2. CASE \E j \in Jobs : Claims(w, j)
  <2>1. PICK j \in Jobs : Claims(w, j)
    BY <1>2
  <2>2. target' = target /\ reference' = reference
    BY <2>1 DEF Claims
  <2>3. attempt'[w].stage = "connecting"
    BY <2>1 DEF Claims, Goes, Idle, Shape
  <2>4. \A v \in Workers \ {w} : attempt'[v] = attempt[v]
    BY OthersStay
  <2> QED BY <1>0, <2>2, <2>3, <2>4 DEF RemoteInv, Own, Whole
<1>3. CASE ~\E j \in Jobs : Claims(w, j)
  <2>1. Busy(w)
    BY <1>3, StepKind DEF GoesOn, Failing, Unfinished, SavesReceipt, Busy
  <2>2. \A j \in Jobs : target[Own(j)] = Whole(j) => (target[Own(j)] = Whole(j))'
    BY <1>1, <2>1, DocumentsStay
  <2>3. (\A p \in Places :
           target[p] # Nothing => p = Own(target[p].of) /\ target[p] = Whole(target[p].of))'
    BY <1>1, <2>1, DocumentsStay
  <2>4. \A v \in Workers : (Sent(attempt[v]) => target[Own(attempt[v].job)] = Whole(attempt[v].job))'
    <3>1. (Sent(attempt[w]) => target[Own(attempt[w].job)] = Whole(attempt[w].job))'
      BY DocumentsArrive
    <3>2. ASSUME NEW v \in Workers \ {w}, Sent(attempt[v])'
          PROVE  (target[Own(attempt[v].job)] = Whole(attempt[v].job))'
      <4>1. attempt'[v] = attempt[v]
        BY OthersStay
      <4>2. Sent(attempt[v]) /\ attempt[v].job \in Jobs
        BY <3>2, <4>1, AtWork DEF Sent
      <4>3. target[Own(attempt[v].job)] = Whole(attempt[v].job)
        BY <4>2 DEF Sent, RemoteInv
      <4> QED BY <1>0, <2>2, <4>1, <4>2, <4>3
    <3> QED BY <3>1, <3>2
  <2>5. (\A j \in Jobs : reference[j] # Nothing => reference[j] = Own(j) /\ target[Own(j)] = Whole(j))'
    <3>1. CASE SavesReceipt(w)
      <4> DEFINE j == attempt[w].job
      <4>1. j \in Jobs /\ attempt[w].place = Own(j) /\ target[Own(j)] = Whole(j)
        BY <3>1, AtWork DEF SavesReceipt, StageOK, RemoteInv
      <4>2. reference' = [reference EXCEPT ![j] = Own(j)] /\ target' = target
        BY <3>1, <4>1 DEF SavesReceipt
      <4>3. reference'[j] = Own(j) /\ \A k \in Jobs \ {j} : reference'[k] = reference[k]
        BY <4>1, <4>2 DEF Recorded
      <4> QED BY <1>0, <4>1, <4>2, <4>3 DEF RemoteInv
    <3>2. CASE reference' = reference
      BY <1>0, <2>2, <3>2 DEF RemoteInv
    <3>3. SavesReceipt(w) \/ reference' = reference
      BY <1>3, StepKind DEF GoesOn, Quietly, Failing, Fails, Unfinished, Ends
    <3> QED BY <3>1, <3>2, <3>3
  <2> QED BY <2>3, <2>4, <2>5 DEF RemoteInv, Sent
<1> QED BY <1>2, <1>3

LEMMA NextRemote ==
  ASSUME Shape, Recorded, RemoteInv, [Next]_vars
  PROVE  RemoteInv'
<1> SUFFICES ASSUME kind # "filesystem" PROVE RemoteInv'
  BY Constant DEF RemoteInv
<1>0. UNCHANGED <<kind, document>>
  BY Constant
<1>1. ASSUME NEW w \in Workers, Step(w) PROVE RemoteInv'
  BY <1>0, <1>1, StepRemote
<1>2. ASSUME NEW w \in Workers, Crashes(w) PROVE RemoteInv'
  <2>1. UNCHANGED <<target, reference>>
    BY <1>2 DEF Crashes
  <2>2. attempt'[w] = Idle
    BY <1>2 DEF Crashes, Goes, Shape
  <2>3. \A v \in Workers \ {w} : attempt'[v] = attempt[v]
    BY <1>2, OthersStay
  <2>4. \A v \in Workers : attempt'[v].stage = "idle" \/ attempt'[v] = attempt[v]
    BY <2>2, <2>3, IdleTyped
  <2> QED BY <1>0, <2>1, <2>4 DEF RemoteInv, Own, Whole
<1>3. CASE Tick \/ UNCHANGED vars
  BY <1>0, <1>3 DEF Tick, vars, RemoteInv, Own, Whole
<1> QED BY <1>1, <1>2, <1>3 DEF Next

----------------------------------------------------------------------------
(* The accounts of the jobs.  One that waits for its next attempt has not  *)
(* used up its attempts, but for those that a crash took, and waits at     *)
(* least as long as the target asked for; nobody asked for anything while  *)
(* a worker has it; and without a fault there is but one attempt.          *)
Free(j) == \A w \in Workers : attempt[w].job # j

Accounts ==
  /\ delay \in [Jobs -> Nat]
  /\ asked \in [Jobs -> 0 .. MaxWait]
  /\ faults \in 0 .. MaxFaults
  /\ \A j \in Jobs :
       /\ tries[j] <= MaxAttempts + faults
       /\ phase[j] = "waiting" /\ Free(j) =>
            tries[j] < MaxAttempts + faults /\ asked[j] <= delay[j]
       /\ ~Free(j) => asked[j] = 0
       /\ faults = 0 => /\ phase[j] # "failed" /\ tries[j] <= 1
                        /\ phase[j] = "waiting" /\ Free(j) => tries[j] = 0

(* parse_retry_after believes no wait longer than the limit.               *)
LEMMA AskedForTyped == AskedFor \subseteq 0 .. MaxWait
<1>1. MaxWait \in Nat /\ \A v \in Waits : v \in Int
  BY ConnectorsAssumption
<1>2. \A v \in Int : RetryAfter(v) \in 0 .. MaxWait
  BY <1>1 DEF RetryAfter, Smaller, Larger
<1> QED
  BY <1>1, <1>2 DEF AskedFor

(* The wait before the next attempt is never shorter than the target asks. *)
LEMMA DelayTyped ==
  ASSUME NEW n \in Nat, n > 0, NEW asks \in Nat
  PROVE  Delay(n, asks) \in Nat /\ asks <= Delay(n, asks)
<1> DEFINE x == 2 ^ (n - 1)
<1>1. x \in Int
  BY SMT
<1> HIDE DEF x
<1>2. Base * x \in Int
  BY <1>1, ConnectorsAssumption
<1> DEFINE y == Base * x
<1> HIDE DEF y
<1>3. Delay(n, asks) = IF y < asks THEN asks ELSE y
  BY DEF Delay, Larger, y, x
<1> QED BY <1>2, <1>3 DEF y

LEMMA LimitsTyped == MaxAttempts \in Nat /\ MaxAttempts > 0 /\ MaxFaults \in Nat /\ MaxWait \in Nat
BY ConnectorsAssumption

(* An attempt ends, and its job waits again, has failed or is delivered.   *)
LEMMA AccountsEnd ==
  ASSUME Shape, Accounts, NEW w \in Workers, Busy(w), Goes(w, Idle),
         NEW j \in Jobs, attempt[w].job = j,
         NEW s \in {"waiting", "delivered", "failed"}, NEW d \in Nat, NEW a \in 0 .. MaxWait,
         phase' = [phase EXCEPT ![j] = s],
         delay' = [delay EXCEPT ![j] = d],
         asked' = [asked EXCEPT ![j] = a],
         tries' = tries, faults' \in {faults, faults + 1}, faults' <= MaxFaults,
         s # "delivered" => faults' > 0,
         s = "waiting" => tries[j] < MaxAttempts + faults' /\ a <= d
  PROVE  Accounts'
<1>2. \A v \in Workers : attempt'[v] = IF v = w THEN Idle ELSE attempt[v]
  BY DEF Goes, Shape
<1>3. Free(j)'
  <2>1. \A v \in Workers \ {w} : attempt[v].job # j
    BY DEF Shape
  <2> QED BY <1>2, <2>1, IdleTyped, ConnectorsAssumption DEF Free
<1>4. \A k \in Jobs \ {j} : Free(k)' <=> Free(k)
  BY <1>2, IdleTyped, ConnectorsAssumption DEF Free
<1>5. faults \in Nat /\ faults' \in 0 .. MaxFaults /\ MaxAttempts \in Nat
  BY LimitsTyped DEF Accounts
<1>6. /\ delay' \in [Jobs -> Nat] /\ asked' \in [Jobs -> 0 .. MaxWait]
      /\ \A k \in Jobs : tries[k] \in Nat
  BY DEF Accounts, Shape
<1>7. /\ phase'[j] = s /\ delay'[j] = d /\ asked'[j] = a
      /\ \A k \in Jobs \ {j} :
           phase'[k] = phase[k] /\ delay'[k] = delay[k] /\ asked'[k] = asked[k]
  BY DEF Accounts, Shape
<1>8. ASSUME NEW k \in Jobs \ {j}
      PROVE  /\ tries'[k] <= MaxAttempts + faults'
             /\ phase'[k] = "waiting" /\ Free(k)' =>
                  tries'[k] < MaxAttempts + faults' /\ asked'[k] <= delay'[k]
             /\ ~Free(k)' => asked'[k] = 0
             /\ faults' = 0 => /\ phase'[k] # "failed" /\ tries'[k] <= 1
                               /\ phase'[k] = "waiting" /\ Free(k)' => tries'[k] = 0
  <2>1. /\ tries[k] <= MaxAttempts + faults
        /\ phase[k] = "waiting" /\ Free(k) =>
             tries[k] < MaxAttempts + faults /\ asked[k] <= delay[k]
        /\ ~Free(k) => asked[k] = 0
        /\ faults = 0 => /\ phase[k] # "failed" /\ tries[k] <= 1
                         /\ phase[k] = "waiting" /\ Free(k) => tries[k] = 0
    BY DEF Accounts
  <2> QED BY <1>4, <1>5, <1>6, <1>7, <2>1
<1>9. /\ tries'[j] <= MaxAttempts + faults'
      /\ phase'[j] = "waiting" => tries'[j] < MaxAttempts + faults' /\ asked'[j] <= delay'[j]
      /\ faults' = 0 => phase'[j] = "delivered" /\ tries'[j] <= 1
  <2>1. tries[j] <= MaxAttempts + faults /\ (faults = 0 => tries[j] <= 1)
    BY DEF Accounts
  <2> QED BY <1>5, <1>6, <1>7, <2>1
<1>10. ASSUME NEW k \in Jobs
       PROVE  /\ tries'[k] <= MaxAttempts + faults'
              /\ phase'[k] = "waiting" /\ Free(k)' =>
                   tries'[k] < MaxAttempts + faults' /\ asked'[k] <= delay'[k]
              /\ ~Free(k)' => asked'[k] = 0
              /\ faults' = 0 => /\ phase'[k] # "failed" /\ tries'[k] <= 1
                                /\ phase'[k] = "waiting" /\ Free(k)' => tries'[k] = 0
  <2>1. CASE k = j
    BY <1>3, <1>9, <2>1
  <2>2. CASE k # j
    BY <1>8, <2>2
  <2> QED BY <2>1, <2>2
<1> QED BY <1>5, <1>6, <1>10 DEF Accounts

LEMMA FailingAccounts ==
  ASSUME Shape, Accounts, NEW w \in Workers, Failing(w)
  PROVE  Accounts'
<1> DEFINE j == attempt[w].job
<1>1. PICK f \in Failures, asks \in AskedFor : Fails(w, f, asks)
  BY DEF Failing
<1>2. Busy(w) /\ j \in Jobs /\ tries[j] \in Nat /\ tries[j] > 0
  BY DEF Failing, Shape
<1>3. asks \in 0 .. MaxWait /\ asks \in Nat
  BY AskedForTyped, LimitsTyped
<1> DEFINE again == f \notin Permanent /\ tries[j] < MaxAttempts
           s == IF again THEN "waiting" ELSE "failed"
           d == IF again THEN Delay(tries[j], asks) ELSE 0
<1>4. d \in Nat /\ (again => asks <= d)
  BY <1>2, <1>3, DelayTyped
<1>5. /\ Goes(w, Idle) /\ phase' = [phase EXCEPT ![j] = s]
      /\ delay' = [delay EXCEPT ![j] = d] /\ asked' = [asked EXCEPT ![j] = asks]
      /\ tries' = tries /\ faults' = faults + 1 /\ faults < MaxFaults
  BY <1>1 DEF Fails, Ends
<1>6. faults' \in {faults, faults + 1} /\ faults' <= MaxFaults /\ faults' > 0
  BY <1>5, LimitsTyped DEF Accounts
<1>7. s \in {"waiting", "delivered", "failed"} /\ s # "delivered" /\ (s = "waiting" => again)
  OBVIOUS
<1>8. again => tries[j] < MaxAttempts + faults'
  BY <1>2, <1>5, LimitsTyped DEF Accounts
<1>9. s = "waiting" => tries[j] < MaxAttempts + faults' /\ asks <= d
  BY <1>4, <1>7, <1>8
<1> HIDE DEF s, d, j
<1> QED BY <1>2, <1>3, <1>4, <1>5, <1>6, <1>7, <1>9, AccountsEnd DEF j

LEMMA CrashAccounts ==
  ASSUME Shape, Accounts, NEW w \in Workers, Crashes(w)
  PROVE  Accounts'
<1> DEFINE j == attempt[w].job
           d == delay[j]
           s == "waiting"
           a == 0
<1>1. Busy(w) /\ j \in Jobs /\ phase[j] = "waiting" /\ ~Free(j)
  BY DEF Crashes, Shape, Busy, Free
<1>2. /\ Goes(w, Idle) /\ UNCHANGED <<phase, delay, asked>> /\ tries' = tries
      /\ faults' = faults + 1 /\ faults < MaxFaults
  BY DEF Crashes
<1>3. /\ asked[j] = 0 /\ d \in Nat /\ a \in 0 .. MaxWait
      /\ tries[j] <= MaxAttempts + faults /\ tries[j] \in Nat
  BY <1>1, LimitsTyped DEF Accounts, Shape
<1>4. /\ phase' = [phase EXCEPT ![j] = s]
      /\ delay' = [delay EXCEPT ![j] = d]
      /\ asked' = [asked EXCEPT ![j] = a]
  BY <1>1, <1>2, <1>3 DEF Shape, Accounts
<1>5. s \in {"waiting", "delivered", "failed"} /\ faults' \in {faults, faults + 1} /\ faults' <= MaxFaults /\ faults' > 0
  BY <1>2, LimitsTyped DEF Accounts
<1>6. tries[j] < MaxAttempts + faults' /\ a <= d
  BY <1>2, <1>3, LimitsTyped DEF Accounts
<1> HIDE DEF j, d, s, a
<1> QED BY <1>1, <1>2, <1>3, <1>4, <1>5, <1>6, AccountsEnd DEF j

LEMMA SaveAccounts ==
  ASSUME Shape, Accounts, NEW w \in Workers, SavesReceipt(w)
  PROVE  Accounts'
<1> DEFINE j == attempt[w].job
<1>1. Busy(w) /\ j \in Jobs
  BY AtWork DEF SavesReceipt
<1>2. /\ Goes(w, Idle) /\ UNCHANGED <<tries, delay, faults>>
      /\ phase' = [phase EXCEPT ![j] = "delivered"] /\ asked' = [asked EXCEPT ![j] = 0]
  BY DEF SavesReceipt
<1>3. delay[j] \in Nat /\ 0 \in 0 .. MaxWait /\ delay' = [delay EXCEPT ![j] = delay[j]]
  BY <1>1, <1>2, LimitsTyped DEF Accounts
<1>4. faults' \in {faults, faults + 1} /\ faults' <= MaxFaults
  BY <1>2, LimitsTyped DEF Accounts
<1> HIDE DEF j
<1>5. "delivered" \in {"waiting", "delivered", "failed"} /\ "delivered" # "waiting"
  OBVIOUS
<1> QED BY <1>1, <1>2, <1>3, <1>4, <1>5, AccountsEnd DEF j

LEMMA ClaimAccounts ==
  ASSUME Shape, Accounts, NEW w \in Workers, NEW j \in Jobs, Claims(w, j)
  PROVE  Accounts'
<1> DEFINE r == [Idle EXCEPT !.stage = "connecting", !.job = j]
<1>1. r.job = j
  BY DEF Idle
<1>2. /\ attempt' = [attempt EXCEPT ![w] = r] /\ tries' = [tries EXCEPT ![j] = @ + 1]
      /\ phase[j] = "waiting" /\ delay[j] = 0 /\ Free(j) /\ attempt[w].stage = "idle"
      /\ UNCHANGED <<phase, delay, asked, faults>>
  BY DEF Claims, Goes, Free
<1> HIDE DEF r
<1>3. \A v \in Workers : attempt'[v] = IF v = w THEN r ELSE attempt[v]
  BY <1>2 DEF Shape
<1>4. ~Free(j)'
  BY <1>1, <1>3 DEF Free
<1>5. attempt[w].job = Nothing
  BY <1>2 DEF Shape, Busy
<1>6. \A k \in Jobs \ {j} : Free(k)' <=> Free(k)
  BY <1>1, <1>3, <1>5, ConnectorsAssumption DEF Free
<1>7. /\ tries'[j] = tries[j] + 1 /\ \A k \in Jobs \ {j} : tries'[k] = tries[k]
      /\ tries[j] \in Nat
  BY <1>2 DEF Shape
<1>8. faults \in Nat /\ MaxAttempts \in Nat
  BY LimitsTyped DEF Accounts
<1>9. /\ tries[j] < MaxAttempts + faults /\ asked[j] <= delay[j] /\ asked[j] \in Nat
      /\ faults = 0 => phase[j] # "failed" /\ tries[j] = 0
  BY <1>2, LimitsTyped DEF Accounts
<1>10. tries'[j] <= MaxAttempts + faults' /\ asked'[j] = 0 /\ (faults' = 0 => phase'[j] # "failed" /\ tries'[j] <= 1)
  BY <1>2, <1>7, <1>8, <1>9
<1>11. ASSUME NEW k \in Jobs
       PROVE  /\ tries'[k] <= MaxAttempts + faults'
              /\ phase'[k] = "waiting" /\ Free(k)' =>
                   tries'[k] < MaxAttempts + faults' /\ asked'[k] <= delay'[k]
              /\ ~Free(k)' => asked'[k] = 0
              /\ faults' = 0 => /\ phase'[k] # "failed" /\ tries'[k] <= 1
                                /\ phase'[k] = "waiting" /\ Free(k)' => tries'[k] = 0
  <2>1. CASE k = j
    BY <1>4, <1>10, <2>1
  <2>2. CASE k # j
    BY <1>2, <1>6, <1>7, <2>2 DEF Accounts
  <2> QED BY <2>1, <2>2
<1> QED BY <1>2, <1>11 DEF Accounts

LEMMA GoOnAccounts ==
  ASSUME Shape, Accounts, NEW w \in Workers, GoesOn(w)
  PROVE  Accounts'
<1>1. PICK r \in Attempt : Goes(w, r) /\ r.job = attempt[w].job
  BY DEF GoesOn
<1>2. \A v \in Workers : attempt'[v].job = attempt[v].job
  BY <1>1 DEF Goes, Shape
<1>3. \A j \in Jobs : Free(j)' <=> Free(j)
  BY <1>2 DEF Free
<1>4. UNCHANGED <<phase, tries, delay, asked, faults>>
  BY DEF GoesOn, Quietly
<1> QED BY <1>3, <1>4 DEF Accounts

LEMMA TickAccounts ==
  ASSUME Shape, Accounts, Tick
  PROVE  Accounts'
<1>1. \A n \in Nat : Larger(0, n - 1) \in Nat /\ Larger(0, n - 1) <= n
  BY DEF Larger
<1>2. \A m, n \in Nat : m <= n => Larger(0, m - 1) <= Larger(0, n - 1)
  BY DEF Larger
<1>3. Larger(0, 0 - 1) = 0
  BY DEF Larger
<1>4. /\ \A j \in Jobs : delay'[j] = Larger(0, delay[j] - 1) /\ asked'[j] = Larger(0, asked[j] - 1)
      /\ delay' = [j \in Jobs |-> Larger(0, delay[j] - 1)]
      /\ asked' = [j \in Jobs |-> Larger(0, asked[j] - 1)]
      /\ UNCHANGED <<phase, tries, attempt, faults>>
  BY DEF Tick, Counted
<1>5. \A j \in Jobs : delay[j] \in Nat /\ asked[j] \in Nat /\ asked[j] <= MaxWait /\ MaxWait \in Nat
  BY LimitsTyped DEF Accounts
<1>6. delay' \in [Jobs -> Nat]
  BY <1>1, <1>4, <1>5
<1>7. \A j \in Jobs : Larger(0, asked[j] - 1) \in 0 .. MaxWait
  BY <1>5 DEF Larger
<1>8. asked' \in [Jobs -> 0 .. MaxWait]
  BY <1>4, <1>7
<1>9. \A j \in Jobs : /\ asked[j] <= delay[j] => asked'[j] <= delay'[j]
                      /\ asked[j] = 0 => asked'[j] = 0
  BY <1>2, <1>3, <1>4, <1>5
<1>10. \A j \in Jobs : Free(j)' <=> Free(j)
  BY <1>4 DEF Free
<1> QED BY <1>4, <1>6, <1>8, <1>9, <1>10 DEF Accounts

LEMMA NextAccounts ==
  ASSUME Shape, RemoteInv, Accounts, [Next]_vars
  PROVE  Accounts'
<1>1. ASSUME NEW w \in Workers, Step(w) PROVE Accounts'
  <2>1. CASE \E j \in Jobs : Claims(w, j)
    BY <2>1, ClaimAccounts
  <2>2. ~Unfinished(w)
    BY AtWork DEF Unfinished, StageOK, Posting, RemoteInv
  <2> QED
    BY <1>1, <2>1, <2>2, StepKind, GoOnAccounts, FailingAccounts, SaveAccounts
<1>2. ASSUME NEW w \in Workers, Crashes(w) PROVE Accounts'
  BY <1>2, CrashAccounts
<1>3. CASE Tick
  BY <1>3, TickAccounts
<1>4. CASE UNCHANGED vars
  BY <1>4 DEF vars, Accounts, Free
<1> QED BY <1>1, <1>2, <1>3, <1>4 DEF Next

----------------------------------------------------------------------------
(* In a folder.  A name is checked before the copy takes it, so two jobs   *)
(* of one suffix can take the same: these are the crossed ones.  For every *)
(* other job: the document under a name that its worker holds is its own,  *)
(* and whole once the copy is done; it takes the name with the id only     *)
(* while another document has the rendered one, and the rendered one only  *)
(* while it has nothing under the name with the id.                        *)
Described(j, p) == beside[p.stem] = j \/ SharesMetadata(j)

WorkerOK(a) ==
  /\ a.stage = "opening" /\ a.seen # Nothing => target[a.place] # Nothing
  /\ a.stage \in {"copying", "describing", "received"} =>
       /\ target[a.place] # Nothing
       /\ target[a.place].of = a.job \/ {a.job, target[a.place].of} \subseteq crossed
  /\ a.stage \in {"describing", "received"} =>
       a.job \in crossed \/ target[a.place] = Whole(a.job)
  /\ a.stage = "received" => a.job \in crossed \/ Described(a.job, a.place)
  /\ a.stage = "opening" /\ a.place = Own(a.job) =>
       a.job \in crossed \/ target[Rendered(a.job)] \notin {Nothing, Whole(a.job)}
  /\ a.stage \in {"opening", "copying", "describing"} /\ a.place = Rendered(a.job) =>
       a.job \in crossed \/ target[Own(a.job)] = Nothing

IsCopied(j) ==
  \E w \in Workers :
    attempt[w].stage = "copying" /\ attempt[w].job = j /\ attempt[w].place = Rendered(j)

JobOK(j) ==
  /\ reference[j] # Nothing =>
       /\ phase[j] = "delivered" /\ reference[j] \in {Rendered(j), Own(j)}
       /\ j \in crossed \/ (target[reference[j]] = Whole(j) /\ Described(j, reference[j]))
  /\ \/ j \in crossed \/ target[Own(j)] = Nothing
     \/ target[Rendered(j)] \notin {Nothing, Whole(j)}
  /\ \/ j \in crossed \/ j \in torn
     \/ target[Rendered(j)] \in {Nothing, Whole(j)} \/ target[Rendered(j)].of # j
     \/ IsCopied(j)

FolderInv ==
  kind = "filesystem" =>
    /\ \A p \in Places : target[p] # Nothing => p \in {Rendered(target[p].of), Own(target[p].of)}
    /\ \A w \in Workers, a \in Attempt : attempt[w] = a => WorkerOK(a)
    /\ \A j \in Jobs : JobOK(j)

LEMMA SharingStays ==
  ASSUME UNCHANGED document, \A k \in Jobs : tries[k] > 0 => tries'[k] > 0,
         NEW j, SharesMetadata(j)
  PROVE  SharesMetadata(j)'
BY DEF SharesMetadata

LEMMA NamesStay ==
  ASSUME UNCHANGED document, NEW j
  PROVE  Rendered(j)' = Rendered(j) /\ Own(j)' = Own(j) /\ Whole(j)' = Whole(j)
BY DEF Rendered, Own, Whole

(* A step that leaves the folder alone; a copy that ends by it was torn.   *)
Harmless ==
  /\ UNCHANGED <<kind, document, target, beside, reference, crossed>>
  /\ torn \subseteq torn'
  /\ \A k \in Jobs : (tries[k] > 0 => tries'[k] > 0) /\ (phase[k] = "delivered" => phase'[k] = "delivered")
  /\ \A v \in Workers :
       \/ attempt'[v] = attempt[v]
       \/ /\ attempt'[v].stage \in {"idle", "connecting", "choosing"}
          /\ attempt[v].stage = "copying" => attempt[v].job \in torn'

LEMMA HarmlessFolder ==
  ASSUME Shape, FolderInv, kind = "filesystem", Harmless
  PROVE  FolderInv'
<1>1. /\ UNCHANGED <<kind, document, target, beside, reference, crossed>>
      /\ torn \subseteq torn'
      /\ \A k \in Jobs : tries[k] > 0 => tries'[k] > 0
      /\ \A k \in Jobs : phase[k] = "delivered" => phase'[k] = "delivered"
  BY DEF Harmless
<1>2. \A j : Rendered(j)' = Rendered(j) /\ Own(j)' = Own(j) /\ Whole(j)' = Whole(j)
  BY <1>1, NamesStay
<1>3. \A j, p : Described(j, p) => Described(j, p)'
  BY <1>1, SharingStays DEF Described
<1>4. ASSUME NEW v \in Workers, NEW a \in Attempt, attempt'[v] = a PROVE WorkerOK(a)'
  <2>1. CASE attempt[v] = a
    <3>1. WorkerOK(a)
      BY <2>1 DEF FolderInv
    <3> QED BY <1>1, <1>2, <1>3, <3>1 DEF WorkerOK
  <2>2. CASE a.stage \in {"idle", "connecting", "choosing"}
    BY <2>2 DEF WorkerOK
  <2> QED BY <1>4, <2>1, <2>2 DEF Harmless
<1>5. ASSUME NEW j \in Jobs PROVE JobOK(j)'
  <2>1. JobOK(j)
    BY DEF FolderInv
  <2>2. IsCopied(j) => IsCopied(j)' \/ j \in torn'
    <3> SUFFICES ASSUME NEW v \in Workers, attempt[v].stage = "copying", attempt[v].job = j,
                        attempt[v].place = Rendered(j)
                 PROVE  IsCopied(j)' \/ j \in torn'
      BY DEF IsCopied
    <3> QED BY <1>2 DEF Harmless, IsCopied
  <2> QED BY <1>1, <1>2, <1>3, <2>1, <2>2 DEF JobOK
<1>6. (\A p \in Places : target[p] # Nothing => p \in {Rendered(target[p].of), Own(target[p].of)})'
  BY <1>1, <1>2 DEF FolderInv
<1> QED BY <1>4, <1>5, <1>6 DEF FolderInv

(* A worker writes at a name of its job i: if it meets the document of     *)
(* another there, both are crossed, so that what was true of the other     *)
(* workers and jobs stays true.                                            *)
WritesAt(w, q, h) ==
  LET i == attempt[w].job
  IN /\ q \in {Rendered(i), Own(i)} /\ h \in {Whole(i), [of |-> i, bytes |-> 0]}
     /\ target' = [target EXCEPT ![q] = h]
     /\ crossed \subseteq crossed'
     /\ target[q] # Nothing /\ target[q].of # i => {i, target[q].of} \subseteq crossed'
     /\ UNCHANGED <<kind, document, phase, tries, beside, reference, torn>>
     /\ \A v \in Workers \ {w} : attempt'[v] = attempt[v]

LEMMA WrittenAt ==
  ASSUME Shape, NEW w \in Workers, Busy(w), NEW q, NEW h, WritesAt(w, q, h),
         NEW i, i = attempt[w].job
  PROVE  /\ i \in Jobs /\ q \in Places /\ h \in Held /\ h # Nothing /\ h.of = i
         /\ \A p \in Places : target'[p] = IF p = q THEN h ELSE target[p]
         /\ \A j : Rendered(j)' = Rendered(j) /\ Own(j)' = Own(j) /\ Whole(j)' = Whole(j)
         /\ \A j, p : Described(j, p) => Described(j, p)'
<1>1. i \in Jobs
  BY DEF Shape
<1>2. q \in Places /\ h \in Held
  BY <1>1, NamesTyped DEF WritesAt
<1>3. h # Nothing /\ h.of = i
  BY <1>2, NothingAssumption DEF WritesAt, Whole
<1>4. UNCHANGED <<document, beside, tries>> /\ target' = [target EXCEPT ![q] = h]
  BY DEF WritesAt
<1>5. \A j : Rendered(j)' = Rendered(j) /\ Own(j)' = Own(j) /\ Whole(j)' = Whole(j)
  BY <1>4, NamesStay
<1>6. \A j, p : Described(j, p) => Described(j, p)'
  BY <1>4, SharingStays DEF Described
<1>7. \A p \in Places : target'[p] = IF p = q THEN h ELSE target[p]
  BY <1>4 DEF Shape
<1> QED BY <1>1, <1>2, <1>3, <1>5, <1>6, <1>7

LEMMA OtherWorkersAfterWrite ==
  ASSUME Shape, FolderInv, kind = "filesystem",
         NEW w \in Workers, Busy(w), NEW q, NEW h, WritesAt(w, q, h),
         NEW v \in Workers \ {w}, NEW a \in Attempt, attempt[v] = a
  PROVE  WorkerOK(a)'
<1> SUFFICES ASSUME a.stage # "idle" PROVE WorkerOK(a)'
  BY DEF WorkerOK
<1>0. PICK i : i = attempt[w].job
  OBVIOUS
<1>1. /\ i \in Jobs /\ q \in Places /\ h \in Held /\ h # Nothing /\ h.of = i
      /\ \A p \in Places : target'[p] = IF p = q THEN h ELSE target[p]
      /\ \A j : Rendered(j)' = Rendered(j) /\ Own(j)' = Own(j) /\ Whole(j)' = Whole(j)
      /\ \A j, p : Described(j, p) => Described(j, p)'
  BY <1>0, WrittenAt
<1>2. /\ q \in {Rendered(i), Own(i)} /\ crossed \subseteq crossed'
      /\ target[q] # Nothing /\ target[q].of # i => {i, target[q].of} \subseteq crossed'
  BY <1>0 DEF WritesAt
<1>3. a.job \in Jobs /\ a.job # i /\ WorkerOK(a) /\ StageOK(a)
  BY <1>0 DEF Shape, FolderInv, Busy
<1>4. Rendered(a.job) \in Places /\ Own(a.job) \in Places /\ Own(a.job) # q
  <2>1. Own(a.job) \notin {Rendered(i), Own(i)}
    BY <1>1, <1>3, NamesTyped
  <2> QED BY <1>2, <1>3, <2>1, NamesTyped
<1>5. a.stage \in {"opening", "copying", "describing", "received"} => a.place \in Places
  BY <1>3, <1>4 DEF StageOK
<1>6. h \notin {Nothing, Whole(a.job)} /\ Whole(a.job).of = a.job
  BY <1>1, <1>3, NamesTyped
<1>7. a.stage = "opening" /\ a.seen # Nothing => target'[a.place] # Nothing
  BY <1>1, <1>3, <1>5 DEF WorkerOK
<1>8. a.stage \in {"copying", "describing", "received"} =>
        /\ target'[a.place] # Nothing
        /\ target'[a.place].of = a.job \/ {a.job, target'[a.place].of} \subseteq crossed'
        /\ a.place = q => a.job \in crossed'
  <2> SUFFICES ASSUME a.stage \in {"copying", "describing", "received"}
               PROVE  /\ target'[a.place] # Nothing
                      /\ target'[a.place].of = a.job \/ {a.job, target'[a.place].of} \subseteq crossed'
                      /\ a.place = q => a.job \in crossed'
    OBVIOUS
  <2>1. /\ target[a.place] # Nothing
        /\ target[a.place].of = a.job \/ {a.job, target[a.place].of} \subseteq crossed
    BY <1>3 DEF WorkerOK
  <2>2. CASE a.place # q
    BY <1>1, <1>2, <1>5, <2>1, <2>2
  <2>3. CASE a.place = q
    <3>1. {a.job, i} \subseteq crossed'
      BY <1>2, <1>3, <2>1, <2>3
    <3> QED BY <1>1, <2>3, <3>1
  <2> QED BY <2>2, <2>3
<1>9. a.stage \in {"describing", "received"} =>
        a.job \in crossed' \/ target'[a.place] = Whole(a.job)
  BY <1>1, <1>2, <1>3, <1>5, <1>8 DEF WorkerOK
<1>10. a.stage = "received" => a.job \in crossed' \/ Described(a.job, a.place)'
  BY <1>1, <1>2, <1>3 DEF WorkerOK
<1>11. a.stage = "opening" /\ a.place = Own(a.job) =>
         a.job \in crossed' \/ target'[Rendered(a.job)] \notin {Nothing, Whole(a.job)}
  BY <1>1, <1>2, <1>3, <1>4, <1>6 DEF WorkerOK
<1>12. a.stage \in {"opening", "copying", "describing"} /\ a.place = Rendered(a.job) =>
         a.job \in crossed' \/ target'[Own(a.job)] = Nothing
  BY <1>1, <1>2, <1>3, <1>4 DEF WorkerOK
<1> QED BY <1>1, <1>7, <1>8, <1>9, <1>10, <1>11, <1>12 DEF WorkerOK

LEMMA OtherJobsAfterWrite ==
  ASSUME Shape, FolderInv, kind = "filesystem",
         NEW w \in Workers, Busy(w), NEW q, NEW h, WritesAt(w, q, h),
         NEW j \in Jobs, j # attempt[w].job
  PROVE  JobOK(j)'
<1>0. PICK i : i = attempt[w].job
  OBVIOUS
<1>1. /\ i \in Jobs /\ q \in Places /\ h \in Held /\ h # Nothing /\ h.of = i
      /\ \A p \in Places : target'[p] = IF p = q THEN h ELSE target[p]
      /\ \A k : Rendered(k)' = Rendered(k) /\ Own(k)' = Own(k) /\ Whole(k)' = Whole(k)
      /\ \A k, p : Described(k, p) => Described(k, p)'
  BY <1>0, WrittenAt
<1>2. /\ q \in {Rendered(i), Own(i)} /\ crossed \subseteq crossed'
      /\ target[q] # Nothing /\ target[q].of # i => {i, target[q].of} \subseteq crossed'
      /\ UNCHANGED <<phase, reference, torn>>
      /\ \A v \in Workers \ {w} : attempt'[v] = attempt[v]
  BY <1>0 DEF WritesAt
<1>3. JobOK(j)
  BY DEF FolderInv
<1>4. /\ Rendered(j) \in Places /\ Own(j) \in Places /\ Own(j) # q
      /\ Whole(j).of = j /\ Whole(j) # Nothing
  BY <1>0, <1>1, <1>2, NamesTyped
<1>5. h \notin {Nothing, Whole(j)}
  BY <1>0, <1>1, <1>4
<1>6. reference'[j] # Nothing =>
        /\ phase'[j] = "delivered" /\ reference'[j] \in {Rendered(j), Own(j)}
        /\ j \in crossed' \/ (target'[reference[j]] = Whole(j) /\ Described(j, reference[j])')
  <2> SUFFICES ASSUME reference[j] # Nothing, j \notin crossed'
               PROVE  /\ phase[j] = "delivered" /\ reference[j] \in {Rendered(j), Own(j)}
                      /\ target'[reference[j]] = Whole(j) /\ Described(j, reference[j])'
    BY <1>2, <1>3 DEF JobOK
  <2>1. PICK p : p = reference[j]
    OBVIOUS
  <2>2. /\ phase[j] = "delivered" /\ p \in {Rendered(j), Own(j)}
        /\ target[p] = Whole(j) /\ Described(j, p)
    BY <1>2, <1>3, <2>1 DEF JobOK
  <2>3. p # q
    BY <1>0, <1>2, <1>4, <2>2
  <2>4. Described(j, p)' /\ target'[p] = Whole(j)
    BY <1>1, <1>4, <2>2, <2>3
  <2>5. Described(j, reference[j])'
    BY <1>2, <2>1, <2>4 DEF Described
  <2> QED BY <2>1, <2>2, <2>4, <2>5
<1>7. \/ j \in crossed' \/ target'[Own(j)] = Nothing
      \/ target'[Rendered(j)] \notin {Nothing, Whole(j)}
  BY <1>1, <1>2, <1>3, <1>4, <1>5 DEF JobOK
<1>8. IsCopied(j) => IsCopied(j)'
  <2> SUFFICES ASSUME NEW v \in Workers, attempt[v].stage = "copying", attempt[v].job = j,
                      attempt[v].place = Rendered(j)
               PROVE  IsCopied(j)'
    BY DEF IsCopied
  <2> QED BY <1>1, <1>2 DEF IsCopied
<1>9. \/ j \in crossed' \/ j \in torn'
      \/ target'[Rendered(j)] \in {Nothing, Whole(j)} \/ target'[Rendered(j)].of # j
      \/ IsCopied(j)'
  BY <1>0, <1>1, <1>2, <1>3, <1>4, <1>8 DEF JobOK
<1> QED BY <1>1, <1>2, <1>6, <1>7, <1>9 DEF JobOK

LEMMA NamesAfterWrite ==
  ASSUME Shape, FolderInv, kind = "filesystem",
         NEW w \in Workers, Busy(w), NEW q, NEW h, WritesAt(w, q, h)
  PROVE  (\A p \in Places : target[p] # Nothing => p \in {Rendered(target[p].of), Own(target[p].of)})'
<1>0. PICK i : i = attempt[w].job
  OBVIOUS
<1>1. /\ i \in Jobs /\ q \in Places /\ h \in Held /\ h # Nothing /\ h.of = i
      /\ \A p \in Places : target'[p] = IF p = q THEN h ELSE target[p]
      /\ \A k : Rendered(k)' = Rendered(k) /\ Own(k)' = Own(k) /\ Whole(k)' = Whole(k)
  BY <1>0, WrittenAt
<1>2. q \in {Rendered(i), Own(i)}
  BY <1>0 DEF WritesAt
<1> SUFFICES ASSUME NEW p \in Places, target'[p] # Nothing
             PROVE  (p \in {Rendered(target[p].of), Own(target[p].of)})'
  OBVIOUS
<1>3. CASE p = q
  BY <1>1, <1>2, <1>3
<1>4. CASE p # q
  BY <1>1, <1>4 DEF FolderInv
<1> QED BY <1>3, <1>4

(* The job of a worker at work has no receipt yet and no other worker.     *)
LEMMA AtWorkInFolder ==
  ASSUME Shape, FolderInv, kind = "filesystem", NEW w \in Workers, attempt[w].stage # "idle",
         NEW a, a = attempt[w], NEW i, i = a.job
  PROVE  /\ a \in Attempt /\ i \in Jobs /\ StageOK(a) /\ WorkerOK(a) /\ JobOK(i)
         /\ reference[i] = Nothing /\ Busy(w)
         /\ IsCopied(i) => a.stage = "copying" /\ a.place = Rendered(i)
<1>1. /\ a \in Attempt /\ i \in Jobs /\ StageOK(a) /\ phase[i] = "waiting" /\ Busy(w)
  BY AtWork
<1>2. WorkerOK(a) /\ JobOK(i)
  BY <1>1 DEF FolderInv
<1>3. reference[i] = Nothing
  BY <1>1, <1>2 DEF JobOK
<1>4. \A v \in Workers : attempt[v].job = i => v = w
  BY <1>1 DEF Shape
<1>5. IsCopied(i) => a.stage = "copying" /\ a.place = Rendered(i)
  BY <1>4 DEF IsCopied
<1> QED BY <1>1, <1>2, <1>3, <1>5

LEMMA FolderAfterWrite ==
  ASSUME Shape, FolderInv, kind = "filesystem",
         NEW w \in Workers, Busy(w), NEW q, NEW h, WritesAt(w, q, h),
         NEW r, attempt'[w] = r, WorkerOK(r)',
         NEW i, i = attempt[w].job, JobOK(i)'
  PROVE  FolderInv'
<1>1. ASSUME NEW v \in Workers, NEW a \in Attempt, attempt'[v] = a PROVE WorkerOK(a)'
  <2>1. CASE v = w
    BY <1>1, <2>1
  <2>2. CASE v # w
    <3>1. attempt[v] = a
      BY <1>1, <2>2 DEF WritesAt
    <3> QED BY <1>1, <2>2, <3>1, OtherWorkersAfterWrite
  <2> QED BY <2>1, <2>2
<1>2. ASSUME NEW j \in Jobs PROVE JobOK(j)'
  BY OtherJobsAfterWrite
<1>3. (\A p \in Places : target[p] # Nothing => p \in {Rendered(target[p].of), Own(target[p].of)})'
  BY NamesAfterWrite
<1> QED BY <1>1, <1>2, <1>3 DEF FolderInv

LEMMA OpensCopyFolder ==
  ASSUME Shape, FolderInv, kind = "filesystem", NEW w \in Workers, OpensCopy(w)
  PROVE  FolderInv'
<1>0. PICK a, i : a = attempt[w] /\ i = a.job
  OBVIOUS
<1> DEFINE q == a.place
           h == [of |-> i, bytes |-> 0]
           r == [a EXCEPT !.stage = "copying"]
<1>1. /\ a.stage = "opening" /\ Goes(w, r) /\ Quietly /\ UNCHANGED beside
      /\ target' = [target EXCEPT ![q] = h]
      /\ crossed' = IF target[q] = a.seen THEN crossed ELSE crossed \cup {i, target[q].of}
  BY <1>0 DEF OpensCopy, Proceeds
<1>2. /\ a \in Attempt /\ i \in Jobs /\ StageOK(a) /\ WorkerOK(a) /\ JobOK(i)
      /\ reference[i] = Nothing /\ Busy(w) /\ ~IsCopied(i)
  BY <1>0, <1>1, AtWorkInFolder
<1>3. q \in {Rendered(i), Own(i)} /\ (q = Own(i) \/ a.seen \in {Nothing, Whole(i)})
  BY <1>0, <1>1, <1>2 DEF StageOK
<1>4. /\ Rendered(i) \in Places /\ Own(i) \in Places /\ Rendered(i) # Own(i)
      /\ Whole(i).of = i /\ h \notin {Nothing, Whole(i)} /\ h \in Held
      /\ \A k \in Jobs \ {i} : Own(i) \notin {Rendered(k), Own(k)}
  BY <1>2, NamesTyped, NothingAssumption
<1>5. target[q] # Nothing /\ target[q].of # i => {i, target[q].of} \subseteq crossed'
  <2> SUFFICES ASSUME target[q] # Nothing, target[q].of # i, target[q] = a.seen PROVE FALSE
    BY <1>1
  <2>1. target[q] \in Held /\ target[q].of \in Jobs
    BY <1>3, <1>4 DEF Shape, Held
  <2>2. q \in {Rendered(target[q].of), Own(target[q].of)}
    BY <1>3, <1>4 DEF FolderInv
  <2>3. q # Own(i)
    BY <1>4, <2>1, <2>2
  <2> QED BY <1>3, <1>4, <2>3
<1>6. /\ attempt'[w] = r /\ \A v \in Workers \ {w} : attempt'[v] = attempt[v]
      /\ r.stage = "copying" /\ r.job = i /\ r.place = q
  <2>1. attempt'[w] = r /\ \A v \in Workers \ {w} : attempt'[v] = attempt[v]
    BY <1>1 DEF Goes, Shape
  <2> QED BY <1>0, <1>2, <2>1, Moved DEF Stages
<1> HIDE DEF q, h, r
<1>7. WritesAt(w, q, h)
  BY <1>0, <1>1, <1>3, <1>5, <1>6 DEF WritesAt, Quietly, h
<1>8. /\ \A p \in Places : target'[p] = IF p = q THEN h ELSE target[p]
      /\ Rendered(i)' = Rendered(i) /\ Own(i)' = Own(i) /\ Whole(i)' = Whole(i) /\ h.of = i
  BY <1>0, <1>2, <1>7, WrittenAt
<1>9. crossed \subseteq crossed' /\ UNCHANGED <<reference, torn>>
  BY <1>1 DEF Quietly
<1>10. WorkerOK(r)'
  BY <1>1, <1>2, <1>3, <1>4, <1>6, <1>8, <1>9, <1>0 DEF WorkerOK, q
<1>11. JobOK(i)'
  <2>1. CASE q = Rendered(i)
    <3>1. IsCopied(i)'
      BY <1>6, <1>8, <2>1 DEF IsCopied
    <3> QED BY <1>2, <1>4, <1>8, <1>9, <2>1, <3>1 DEF JobOK
  <2>2. CASE q = Own(i)
    <3>1. i \in crossed \/ target[Rendered(i)] \notin {Nothing, Whole(i)}
      BY <1>0, <1>1, <1>2, <2>2 DEF WorkerOK, q
    <3> QED BY <1>2, <1>4, <1>8, <1>9, <2>2, <3>1 DEF JobOK
  <2> QED BY <1>3, <2>1, <2>2
<1> QED BY <1>0, <1>2, <1>6, <1>7, <1>10, <1>11, FolderAfterWrite

LEMMA CopiesFolder ==
  ASSUME Shape, FolderInv, kind = "filesystem", NEW w \in Workers, attempt[w].stage = "copying",
         target' = [target EXCEPT ![attempt[w].place] = Whole(attempt[w].job)],
         Proceeds(w, "describing"), Quietly, UNCHANGED <<beside, crossed>>
  PROVE  FolderInv'
<1>0. PICK a, i : a = attempt[w] /\ i = a.job
  OBVIOUS
<1> DEFINE q == a.place
           h == Whole(i)
           r == [a EXCEPT !.stage = "describing"]
<1>1. Goes(w, r) /\ target' = [target EXCEPT ![q] = h] /\ a.stage = "copying"
  BY <1>0 DEF Proceeds
<1>2. /\ a \in Attempt /\ i \in Jobs /\ StageOK(a) /\ WorkerOK(a) /\ JobOK(i)
      /\ reference[i] = Nothing /\ Busy(w)
      /\ IsCopied(i) => q = Rendered(i)
  BY <1>0, <1>1, AtWorkInFolder
<1>3. q \in {Rendered(i), Own(i)}
  BY <1>0, <1>1, <1>2 DEF StageOK
<1>4. /\ Rendered(i) \in Places /\ Own(i) \in Places /\ Rendered(i) # Own(i)
      /\ h # Nothing /\ h.of = i
  BY <1>2, NamesTyped
<1>5. /\ target[q] # Nothing
      /\ target[q].of # i => {i, target[q].of} \subseteq crossed'
  BY <1>0, <1>1, <1>2 DEF WorkerOK
<1>6. /\ attempt'[w] = r /\ \A v \in Workers \ {w} : attempt'[v] = attempt[v]
      /\ r.stage = "describing" /\ r.job = i /\ r.place = q
  <2>1. attempt'[w] = r /\ \A v \in Workers \ {w} : attempt'[v] = attempt[v]
    BY <1>1 DEF Goes, Shape
  <2> QED BY <1>0, <1>2, <2>1, Moved DEF Stages
<1> HIDE DEF q, h, r
<1>7. WritesAt(w, q, h)
  BY <1>0, <1>1, <1>3, <1>5, <1>6 DEF WritesAt, Quietly, h
<1>8. /\ \A p \in Places : target'[p] = IF p = q THEN h ELSE target[p]
      /\ Rendered(i)' = Rendered(i) /\ Own(i)' = Own(i) /\ Whole(i)' = Whole(i)
  BY <1>0, <1>2, <1>7, WrittenAt
<1>9. UNCHANGED <<crossed, reference, torn>>
  BY DEF Quietly
<1>10. q = Rendered(i) => i \in crossed \/ target[Own(i)] = Nothing
  BY <1>0, <1>1, <1>2 DEF WorkerOK, q
<1>11. WorkerOK(r)'
  BY <1>3, <1>4, <1>6, <1>8, <1>9, <1>10 DEF WorkerOK, h
<1>12. JobOK(i)'
  <2>1. CASE q = Rendered(i)
    BY <1>2, <1>4, <1>8, <1>9, <1>10, <2>1 DEF JobOK, h
  <2>2. CASE q = Own(i)
    BY <1>2, <1>4, <1>5, <1>8, <1>9, <2>2 DEF JobOK
  <2> QED BY <1>3, <2>1, <2>2
<1> QED BY <1>0, <1>2, <1>6, <1>7, <1>11, <1>12, FolderAfterWrite

(* A step of one worker that writes no document, and leaves the jobs as    *)
(* they are: only its own attempt needs a look.                            *)
LEMMA FolderKeepsTarget ==
  ASSUME Shape, FolderInv, kind = "filesystem", NEW w \in Workers, attempt[w].stage # "copying",
         UNCHANGED <<kind, document, target, beside, reference, crossed, torn, phase, tries>>,
         \A v \in Workers \ {w} : attempt'[v] = attempt[v],
         NEW r, attempt'[w] = r, WorkerOK(r)'
  PROVE  FolderInv'
<1>1. \A j : Rendered(j)' = Rendered(j) /\ Own(j)' = Own(j) /\ Whole(j)' = Whole(j)
  BY NamesStay
<1>2. \A j, p : Described(j, p) => Described(j, p)'
  BY SharingStays DEF Described
<1>3. ASSUME NEW v \in Workers, NEW a \in Attempt, attempt'[v] = a PROVE WorkerOK(a)'
  <2>1. CASE v = w
    BY <1>3, <2>1
  <2>2. CASE v # w
    <3>1. WorkerOK(a)
      BY <1>3, <2>2 DEF FolderInv
    <3> QED BY <1>1, <1>2, <3>1 DEF WorkerOK
  <2> QED BY <2>1, <2>2
<1>4. ASSUME NEW j \in Jobs PROVE JobOK(j)'
  <2>1. JobOK(j)
    BY DEF FolderInv
  <2>2. IsCopied(j) => IsCopied(j)'
    BY <1>1 DEF IsCopied
  <2> QED BY <1>1, <1>2, <2>1, <2>2 DEF JobOK
<1>5. (\A p \in Places : target[p] # Nothing => p \in {Rendered(target[p].of), Own(target[p].of)})'
  BY <1>1 DEF FolderInv
<1> QED BY <1>3, <1>4, <1>5 DEF FolderInv

LEMMA ChoosesNameFolder ==
  ASSUME Shape, FolderInv, kind = "filesystem", NEW w \in Workers, ChoosesName(w)
  PROVE  FolderInv'
<1>0. PICK a, i, q, t : a = attempt[w] /\ i = a.job /\ q = NameFor(i) /\ t = target[q]
  OBVIOUS
<1> DEFINE r == [a EXCEPT !.stage = "opening", !.place = q, !.seen = t]
<1>1. /\ Goes(w, r) /\ a.stage = "choosing" /\ Quietly
      /\ UNCHANGED <<target, beside, crossed>>
  BY <1>0 DEF ChoosesName
<1>2. a \in Attempt /\ i \in Jobs /\ JobOK(i)
  BY <1>0, <1>1, AtWorkInFolder
<1>3. /\ q \in {Rendered(i), Own(i)}
      /\ q = Own(i) => target[Rendered(i)] \notin {Nothing, Whole(i)}
      /\ q = Rendered(i) => target[Rendered(i)] \in {Nothing, Whole(i)}
  BY <1>0, <1>2, NamesTyped DEF NameFor
<1>4. q = Rendered(i) => i \in crossed \/ target[Own(i)] = Nothing
  BY <1>2, <1>3 DEF JobOK
<1>5. r.stage = "opening" /\ r.job = i /\ r.place = q /\ r.seen = t
  BY <1>0, <1>2 DEF Attempt
<1>6. attempt'[w] = r /\ \A v \in Workers \ {w} : attempt'[v] = attempt[v]
  BY <1>1 DEF Goes, Shape
<1> HIDE DEF r
<1>7. Rendered(i)' = Rendered(i) /\ Own(i)' = Own(i) /\ Whole(i)' = Whole(i)
  BY <1>1, NamesStay DEF Quietly
<1>8. WorkerOK(r)'
  BY <1>0, <1>1, <1>3, <1>4, <1>5, <1>7 DEF WorkerOK
<1>9. /\ attempt[w].stage # "copying"
      /\ UNCHANGED <<kind, document, target, beside, reference, crossed, torn, phase, tries>>
  BY <1>0, <1>1 DEF Quietly
<1> QED BY <1>6, <1>8, <1>9, FolderKeepsTarget

(* The metadata of another job of the same stem are overwritten only if    *)
(* the suffixes differ.                                                    *)
LEMMA MetadataMeet ==
  ASSUME Shape, FolderInv, kind = "filesystem", NEW w \in Workers,
         attempt[w].stage = "describing",
         NEW j \in Jobs, j # attempt[w].job, j \notin crossed,
         NEW p \in {Rendered(j), Own(j)}, target[p] = Whole(j),
         p.stem = attempt[w].place.stem
  PROVE  SharesMetadata(j)
<1>0. PICK a, i : a = attempt[w] /\ i = a.job
  OBVIOUS
<1>1. /\ i \in Jobs /\ StageOK(a) /\ WorkerOK(a) /\ tries[i] > 0
  BY <1>0, AtWork, AtWorkInFolder
<1>2. a.place \in {Rendered(i), Own(i)}
  BY <1>0, <1>1 DEF StageOK
<1>3. a.place = Rendered(i) /\ p = Rendered(j)
  BY <1>0, <1>1, <1>2, ConnectorsAssumption DEF Rendered, Own
<1>4. target[a.place].of # j
  BY <1>0, <1>1 DEF WorkerOK
<1>5. a.place # p
  BY <1>4 DEF Whole
<1>6. document[i].suffix # document[j].suffix
  BY <1>3, <1>5 DEF Rendered
<1> QED BY <1>1, <1>6 DEF SharesMetadata

LEMMA DescribesFolder ==
  ASSUME Shape, Recorded, FolderInv, kind = "filesystem", NEW w \in Workers, Describes(w)
  PROVE  FolderInv'
<1>0. PICK a, i, m : a = attempt[w] /\ i = a.job /\ m = a.place.stem
  OBVIOUS
<1> DEFINE r == [a EXCEPT !.stage = "received"]
<1>1. /\ Goes(w, r) /\ a.stage = "describing"
      /\ beside' = [beside EXCEPT ![m] = i]
      /\ UNCHANGED <<kind, document, target, reference, crossed, torn, phase, tries>>
  BY <1>0 DEF Describes, Proceeds, Quietly, MetadataName
<1>2. a \in Attempt /\ i \in Jobs /\ StageOK(a) /\ WorkerOK(a)
  BY <1>0, <1>1, AtWorkInFolder
<1>3. m \in Stems
  <2>1. a.place \in Places
    BY <1>0, <1>1, <1>2, NamesTyped DEF StageOK
  <2> QED BY <1>0, <2>1 DEF Places
<1>4. beside'[m] = i /\ \A s \in Stems \ {m} : beside'[s] = beside[s]
  BY <1>1, <1>3 DEF Recorded
<1>5. \A j : Rendered(j)' = Rendered(j) /\ Own(j)' = Own(j) /\ Whole(j)' = Whole(j)
  BY <1>1, NamesStay
<1>6. \A j : SharesMetadata(j) => SharesMetadata(j)'
  BY <1>1, SharingStays
<1>7. ASSUME NEW j \in Jobs, j # i, j \notin crossed,
             NEW p \in {Rendered(j), Own(j)}, target[p] = Whole(j), Described(j, p)
      PROVE  Described(j, p)'
  <2>1. CASE p.stem = m
    <3>1. SharesMetadata(j)
      BY <1>0, <1>1, <1>7, <2>1, MetadataMeet
    <3> QED BY <1>6, <3>1 DEF Described
  <2>2. CASE p.stem # m
    <3>1. p \in Places
      BY <1>7, NamesTyped
    <3>2. p.stem \in Stems
      BY <3>1 DEF Places
    <3> QED BY <1>4, <1>6, <1>7, <2>2, <3>2 DEF Described
  <2> QED BY <2>1, <2>2
<1>8. /\ attempt'[w] = r /\ \A v \in Workers \ {w} : attempt'[v] = attempt[v]
      /\ r.stage = "received" /\ r.job = i /\ r.place = a.place
  <2>1. attempt'[w] = r /\ \A v \in Workers \ {w} : attempt'[v] = attempt[v]
    BY <1>1 DEF Goes, Shape
  <2> QED BY <1>0, <1>2, <2>1, Moved DEF Stages
<1> HIDE DEF r
<1>9. WorkerOK(r)'
  <2>1. Described(i, a.place)'
    BY <1>0, <1>4 DEF Described
  <2> QED BY <1>0, <1>1, <1>2, <1>5, <1>8, <2>1 DEF WorkerOK
<1>10. ASSUME NEW v \in Workers, NEW b \in Attempt, attempt'[v] = b PROVE WorkerOK(b)'
  <2>1. CASE v = w
    BY <1>8, <1>9, <1>10, <2>1
  <2>2. CASE v # w
    <3>1. attempt[v] = b
      BY <1>8, <1>10, <2>2
    <3>2. WorkerOK(b) /\ (b.stage # "idle" => b.job \in Jobs /\ b.job # i /\ StageOK(b))
      BY <1>0, <1>1, <2>2, <3>1 DEF FolderInv, Shape, Busy
    <3>3. b.stage = "received" => b.job \in crossed \/ Described(b.job, b.place)'
      BY <1>7, <3>2 DEF WorkerOK, StageOK
    <3> QED BY <1>1, <1>5, <3>2, <3>3 DEF WorkerOK
  <2> QED BY <2>1, <2>2
<1>11. ASSUME NEW j \in Jobs PROVE JobOK(j)'
  <2>1. JobOK(j) /\ (j = i => reference[j] = Nothing)
    BY <1>0, <1>1, AtWorkInFolder DEF FolderInv
  <2>2. IsCopied(j) => IsCopied(j)'
    BY <1>0, <1>1, <1>5, <1>8 DEF IsCopied
  <2>3. reference[j] # Nothing /\ j \notin crossed => Described(j, reference[j])'
    <3> SUFFICES ASSUME reference[j] # Nothing, j \notin crossed
                 PROVE  Described(j, reference[j])'
      OBVIOUS
    <3>1. PICK p : p = reference[j]
      OBVIOUS
    <3>2. p \in {Rendered(j), Own(j)} /\ target[p] = Whole(j) /\ Described(j, p) /\ j # i
      BY <2>1, <3>1 DEF JobOK
    <3>3. Described(j, p)'
      BY <1>7, <3>2
    <3> QED BY <1>1, <3>1, <3>3 DEF Described
  <2> QED BY <1>1, <1>5, <2>1, <2>2, <2>3 DEF JobOK
<1>12. (\A p \in Places : target[p] # Nothing => p \in {Rendered(target[p].of), Own(target[p].of)})'
  BY <1>1, <1>5 DEF FolderInv
<1> QED BY <1>10, <1>11, <1>12 DEF FolderInv

LEMMA SavesReceiptFolder ==
  ASSUME Shape, Recorded, FolderInv, kind = "filesystem", NEW w \in Workers, SavesReceipt(w)
  PROVE  FolderInv'
<1>0. PICK a, i, q : a = attempt[w] /\ i = a.job /\ q = a.place
  OBVIOUS
<1>1. /\ Goes(w, Idle) /\ a.stage = "received"
      /\ phase' = [phase EXCEPT ![i] = "delivered"]
      /\ reference' = [reference EXCEPT ![i] = q]
      /\ UNCHANGED <<kind, document, target, beside, crossed, torn, tries>>
  BY <1>0 DEF SavesReceipt
<1>2. a \in Attempt /\ i \in Jobs /\ StageOK(a) /\ WorkerOK(a) /\ JobOK(i)
  BY <1>0, <1>1, AtWorkInFolder
<1>3. \A j : Rendered(j)' = Rendered(j) /\ Own(j)' = Own(j) /\ Whole(j)' = Whole(j)
  BY <1>1, NamesStay
<1>4. \A j, p : Described(j, p) => Described(j, p)'
  BY <1>1, SharingStays DEF Described
<1>5. attempt'[w] = Idle /\ \A v \in Workers \ {w} : attempt'[v] = attempt[v]
  BY <1>1 DEF Goes, Shape
<1>6. ASSUME NEW v \in Workers, NEW b \in Attempt, attempt'[v] = b PROVE WorkerOK(b)'
  <2>1. CASE v = w
    BY <1>5, <1>6, <2>1, IdleTyped DEF WorkerOK
  <2>2. CASE v # w
    <3>1. WorkerOK(b)
      BY <1>5, <1>6, <2>2 DEF FolderInv
    <3> QED BY <1>1, <1>3, <1>4, <3>1 DEF WorkerOK
  <2> QED BY <2>1, <2>2
<1>7. /\ reference'[i] = q /\ \A j \in Jobs \ {i} : reference'[j] = reference[j]
      /\ phase'[i] = "delivered" /\ \A j \in Jobs \ {i} : phase'[j] = phase[j]
  BY <1>1, <1>2 DEF Recorded, Shape
<1>8. /\ q \in {Rendered(i), Own(i)}
      /\ i \in crossed \/ (target[q] = Whole(i) /\ Described(i, q))
  BY <1>0, <1>1, <1>2 DEF StageOK, WorkerOK
<1>9. ASSUME NEW j \in Jobs PROVE JobOK(j)'
  <2>1. JobOK(j)
    BY DEF FolderInv
  <2>2. IsCopied(j) => IsCopied(j)'
    BY <1>0, <1>1, <1>3, <1>5 DEF IsCopied
  <2>3. PICK p : p = reference'[j]
    OBVIOUS
  <2>4. p # Nothing =>
          /\ phase'[j] = "delivered" /\ p \in {Rendered(j), Own(j)}
          /\ j \in crossed' \/ (target'[p] = Whole(j) /\ Described(j, p)')
    <3>1. CASE j = i
      BY <1>1, <1>4, <1>7, <1>8, <2>3, <3>1
    <3>2. CASE j # i
      BY <1>1, <1>4, <1>7, <2>1, <2>3, <3>2 DEF JobOK
    <3> QED BY <3>1, <3>2
  <2> QED BY <1>1, <1>3, <2>1, <2>2, <2>3, <2>4 DEF JobOK, Described
<1>10. (\A p \in Places : target[p] # Nothing => p \in {Rendered(target[p].of), Own(target[p].of)})'
  BY <1>1, <1>3 DEF FolderInv
<1> QED BY <1>6, <1>9, <1>10 DEF FolderInv

(* An attempt that ends without a receipt is harmless.                     *)
LEMMA GivesUpHarmless ==
  ASSUME Shape, NEW w \in Workers, Busy(w), Goes(w, Idle),
         NEW s, phase' = [phase EXCEPT ![attempt[w].job] = s],
         UNCHANGED <<kind, document, tries, target, beside, reference, crossed>>,
         torn \subseteq torn', attempt[w].stage = "copying" => attempt[w].job \in torn'
  PROVE  Harmless
<1>1. attempt'[w] = Idle /\ \A v \in Workers \ {w} : attempt'[v] = attempt[v]
  BY DEF Goes, Shape
<1>2. attempt[w].job \in Jobs /\ phase[attempt[w].job] = "waiting"
  BY DEF Shape
<1>3. \A k \in Jobs : phase[k] = "delivered" => phase'[k] = "delivered"
  BY <1>2 DEF Shape
<1> QED BY <1>1, <1>3, IdleTyped DEF Harmless

LEMMA StepFolder ==
  ASSUME Shape, Recorded, FolderInv, kind = "filesystem", NEW w \in Workers, Step(w)
  PROVE  FolderInv'
<1>1. ASSUME NEW j \in Jobs, Claims(w, j) PROVE FolderInv'
  <2>1. /\ UNCHANGED <<kind, document, phase, target, beside, reference, torn, crossed>>
        /\ tries' = [tries EXCEPT ![j] = @ + 1] /\ attempt[w].stage = "idle"
    BY <1>1 DEF Claims
  <2>2. attempt'[w].stage = "connecting" /\ \A v \in Workers \ {w} : attempt'[v] = attempt[v]
    BY <1>1 DEF Claims, Goes, Idle, Shape
  <2>3. \A k \in Jobs : tries[k] > 0 => tries'[k] > 0
    BY <2>1 DEF Shape
  <2>4. Harmless
    BY <2>1, <2>2, <2>3 DEF Harmless
  <2> QED BY <2>4, HarmlessFolder
<1>2. CASE Connects(w)
  <2>0. Busy(w) /\ attempt[w].stage = "connecting" /\ UNCHANGED <<target, beside, crossed>>
    BY <1>2 DEF Connects, Busy
  <2>1. CASE Proceeds(w, "choosing") /\ Quietly
    <3>1. attempt'[w].stage = "choosing" /\ \A v \in Workers \ {w} : attempt'[v] = attempt[v]
      BY <2>1 DEF Proceeds, Goes, Shape, Attempt
    <3>2. Harmless
      BY <2>0, <2>1, <3>1 DEF Quietly, Harmless
    <3> QED BY <3>2, HarmlessFolder
  <2>2. CASE Fails(w, "unlicensed", 0) /\ UNCHANGED torn
    <3>1. PICK s : phase' = [phase EXCEPT ![attempt[w].job] = s]
      BY <2>2 DEF Fails, Ends
    <3>2. Goes(w, Idle) /\ UNCHANGED <<kind, document, tries, reference>>
      BY <2>2 DEF Fails, Ends
    <3>3. Harmless
      BY <2>0, <2>2, <3>1, <3>2, GivesUpHarmless
    <3> QED BY <3>3, HarmlessFolder
  <2> QED BY <1>2, <2>1, <2>2 DEF Connects
<1>3. CASE Copies(w)
  <2>0. Busy(w) /\ attempt[w].stage = "copying" /\ UNCHANGED <<beside, crossed>>
    BY <1>3 DEF Copies, Busy
  <2>1. CASE /\ target' = [target EXCEPT ![attempt[w].place] = Whole(attempt[w].job)]
             /\ Proceeds(w, "describing") /\ Quietly
    BY <2>0, <2>1, CopiesFolder
  <2>2. CASE /\ Fails(w, "unwritable", 0)
             /\ torn' = torn \cup {attempt[w].job} /\ UNCHANGED target
    <3>1. PICK s : phase' = [phase EXCEPT ![attempt[w].job] = s]
      BY <2>2 DEF Fails, Ends
    <3>2. Goes(w, Idle) /\ UNCHANGED <<kind, document, tries, reference>>
      BY <2>2 DEF Fails, Ends
    <3>3. Harmless
      BY <2>0, <2>2, <3>1, <3>2, GivesUpHarmless
    <3> QED BY <3>3, HarmlessFolder
  <2> QED BY <1>3, <2>1, <2>2 DEF Copies
<1>4. ~(Posts(w) \/ Authorizes(w) \/ Puts(w) \/ StartsSession(w) \/ SendsPiece(w))
  BY AtWork DEF Posts, Authorizes, Puts, StartsSession, SendsPiece, StageOK, Posting
<1>5. ~Finishes(w)
  BY AtWork DEF Finishes, StageOK, Posting
<1> QED
  BY <1>1, <1>2, <1>3, <1>4, <1>5, ChoosesNameFolder, OpensCopyFolder, DescribesFolder,
     SavesReceiptFolder DEF Step

LEMMA NextFolder ==
  ASSUME Shape, Recorded, FolderInv, [Next]_vars
  PROVE  FolderInv'
<1>0. UNCHANGED <<kind, document>>
  BY Constant
<1> SUFFICES ASSUME kind = "filesystem" PROVE FolderInv'
  BY <1>0 DEF FolderInv
<1>1. ASSUME NEW w \in Workers, Step(w) PROVE FolderInv'
  BY <1>1, StepFolder
<1>2. ASSUME NEW w \in Workers, Crashes(w) PROVE FolderInv'
  <2>1. /\ Busy(w) /\ Goes(w, Idle)
        /\ UNCHANGED <<kind, document, phase, tries, target, beside, reference, crossed>>
        /\ torn' = IF attempt[w].stage = "copying" THEN torn \cup {attempt[w].job} ELSE torn
    BY <1>2 DEF Crashes, Busy
  <2>2. attempt[w].job \in Jobs
    BY <2>1 DEF Shape
  <2>3. phase' = [phase EXCEPT ![attempt[w].job] = phase[attempt[w].job]]
    BY <2>1, <2>2 DEF Shape
  <2>4. Harmless
    BY <2>1, <2>3, GivesUpHarmless
  <2> QED BY <2>4, HarmlessFolder
<1>3. CASE Tick \/ UNCHANGED vars
  <2>1. Harmless
    BY <1>3 DEF Tick, vars, Harmless
  <2> QED BY <2>1, HarmlessFolder
<1> QED BY <1>1, <1>2, <1>3 DEF Next

(* Only jobs are crossed.                                                  *)
CrossedInv == crossed \in SUBSET Jobs

LEMMA NextCrossed ==
  ASSUME Shape, FolderInv, CrossedInv, [Next]_vars
  PROVE  CrossedInv'
<1>1. ASSUME NEW w \in Workers, OpensCopy(w) PROVE CrossedInv'
  <2> DEFINE a == attempt[w]
  <2>1. a.stage = "opening" /\ a \in Attempt /\ a.job \in Jobs /\ StageOK(a)
    BY <1>1, AtWork DEF OpensCopy
  <2>2. kind = "filesystem" /\ a.place \in Places
    BY <2>1, NamesTyped DEF StageOK, Filing
  <2>3. WorkerOK(a)
    BY <2>1, <2>2 DEF FolderInv
  <2>4. CASE target[a.place] = a.seen
    BY <1>1, <2>4 DEF OpensCopy, CrossedInv
  <2>5. CASE target[a.place] # a.seen
    <3>1. target[a.place] # Nothing
      BY <2>1, <2>3, <2>5 DEF WorkerOK
    <3>2. target[a.place].of \in Jobs
      BY <2>2, <3>1 DEF Shape, Held
    <3>3. crossed' = crossed \cup {a.job, target[a.place].of}
      BY <1>1, <2>5 DEF OpensCopy
    <3> QED BY <2>1, <3>2, <3>3 DEF CrossedInv
  <2> QED BY <2>4, <2>5
<1>2. ASSUME NEW w \in Workers, Step(w), ~OpensCopy(w) PROVE crossed' = crossed
  BY <1>2 DEF Step, Claims, Connects, ChoosesName, Copies, Describes, Posts, Puts, Sends,
     Authorizes, StartsSession, SendsPiece, Finishes, SavesReceipt
<1> QED BY <1>1, <1>2 DEF Next, Crashes, Tick, vars, CrossedInv

----------------------------------------------------------------------------
ConnectorsInv == Shape /\ Recorded /\ RemoteInv /\ Accounts /\ FolderInv /\ CrossedInv

LEMMA InitConnectors == Init => ConnectorsInv
<1> SUFFICES ASSUME Init PROVE ConnectorsInv
  OBVIOUS
<1>1. Shape
  BY InitShape
<1>2. /\ \A w \in Workers : attempt[w] = Idle
      /\ \A p \in Places : target[p] = Nothing
      /\ \A j \in Jobs : /\ reference[j] = Nothing /\ phase[j] = "waiting"
                         /\ tries[j] = 0 /\ delay[j] = 0 /\ asked[j] = 0
      /\ faults = 0 /\ torn = {} /\ crossed = {}
  BY DEF Init
<1>3. Recorded /\ CrossedInv
  BY DEF Init, Recorded, CrossedInv
<1>4. RemoteInv
  BY <1>2, IdleTyped DEF RemoteInv
<1>5. Accounts
  <2>1. \A j \in Jobs : Free(j)
    BY <1>2, IdleTyped, ConnectorsAssumption DEF Free
  <2>2. delay \in [Jobs -> Nat] /\ asked \in [Jobs -> 0 .. MaxWait]
    BY LimitsTyped DEF Init
  <2> QED BY <1>2, <2>1, <2>2, LimitsTyped DEF Accounts
<1>6. FolderInv
  <2>1. \A w \in Workers, a \in Attempt : attempt[w] = a => WorkerOK(a)
    BY <1>2, IdleTyped DEF WorkerOK
  <2>2. \A j \in Jobs : Rendered(j) \in Places /\ Own(j) \in Places
    BY <1>1, NamesTyped
  <2>3. \A j \in Jobs : JobOK(j)
    BY <1>2, <2>2 DEF JobOK
  <2> QED BY <1>2, <2>1, <2>3 DEF FolderInv
<1> QED BY <1>1, <1>3, <1>4, <1>5, <1>6 DEF ConnectorsInv

(* The inductive invariant of the deliveries.                              *)
THEOREM DeliveriesAreInOrder == Spec => []ConnectorsInv
<1>1. Init => ConnectorsInv
  BY InitConnectors
<1>2. ConnectorsInv /\ [Next]_vars => ConnectorsInv'
  BY NextShape, NextRecorded, NextRemote, NextAccounts, NextFolder, NextCrossed DEF ConnectorsInv
<1> QED BY <1>1, <1>2, PTL DEF Spec

(* Documents, attempts, waits and receipts are what the program can store: *)
(* in particular a job is tried at most once more than the limit for each  *)
(* fault, and nothing is uploaded beyond the end of a document.            *)
THEOREM ConnectorsWellTyped == Spec => []TypeOK
<1>1. ConnectorsInv => TypeOK
  <2> SUFFICES ASSUME ConnectorsInv PROVE TypeOK
    OBVIOUS
  <2>1. Shape /\ Recorded /\ Accounts /\ CrossedInv
    BY DEF ConnectorsInv
  <2>2. \A j \in Jobs : tries[j] \in 0 .. MaxAttempts + MaxFaults
    BY <2>1, LimitsTyped DEF Shape, Accounts
  <2>3. tries \in [Jobs -> 0 .. MaxAttempts + MaxFaults]
    BY <2>1, <2>2 DEF Shape
  <2>4. \A w \in Workers : attempt[w].stage # "idle" =>
          attempt[w].job \in Jobs /\ attempt[w].offset <= document[attempt[w].job].size
    BY <2>1, AtWork DEF StageOK
  <2> QED BY <2>1, <2>3, <2>4 DEF TypeOK, Shape, Recorded, Accounts, CrossedInv
<1> QED BY <1>1, DeliveriesAreInOrder, PTL

(* CONNECTORS.md's Retry-After: no attempt begins, and no crash or second  *)
(* worker brings one forward, before the target wants to hear of the job   *)
(* again, whatever the limits and however the waits run down.              *)
THEOREM WaitsAreKept == Spec => []RetryWaits
<1>1. ConnectorsInv => RetryWaits
  BY DEF ConnectorsInv, Accounts, Shape, Busy, Free, RetryWaits
<1> QED BY <1>1, DeliveriesAreInOrder, PTL

(* As long as no fault happens, no job fails and none is tried twice: the  *)
(* pieces of every size follow one another to the last byte, and no job is *)
(* hurt by those delivered beside it.                                      *)
THEOREM NothingFailsByItself == Spec => []NoFailureByItself
<1>1. ConnectorsInv => NoFailureByItself
  BY DEF ConnectorsInv, Accounts, NoFailureByItself
<1> QED BY <1>1, DeliveriesAreInOrder, PTL

(* What a receipt names is at the target, whole and with its metadata, for *)
(* every job that met no other at the check of its name.                   *)
THEOREM ReceiptsAreTrue == Spec => []ReceiptIsTrue
<1>1. ConnectorsInv => ReceiptIsTrue
  <2> SUFFICES ASSUME ConnectorsInv, NEW j \in Jobs \ crossed, NEW p \in Named(j)
               PROVE  /\ target[p] = Whole(j)
                      /\ kind = "filesystem" => beside[p.stem] = j \/ SharesMetadata(j)
    BY DEF ReceiptIsTrue, MetadataName
  <2>1. Shape /\ RemoteInv /\ FolderInv
    BY DEF ConnectorsInv
  <2>2. CASE p = reference[j] /\ p # Nothing
    <3>1. CASE kind = "filesystem"
      <4>1. JobOK(j)
        BY <2>1, <3>1 DEF FolderInv
      <4> QED BY <2>2, <4>1 DEF JobOK, Described
    <3>2. CASE kind # "filesystem"
      BY <2>1, <2>2, <3>2 DEF RemoteInv
    <3> QED BY <3>1, <3>2
  <2>3. ASSUME NEW w \in Workers, attempt[w].stage = "received", attempt[w].job = j,
               p = attempt[w].place
        PROVE  /\ target[p] = Whole(j)
               /\ kind = "filesystem" => beside[p.stem] = j \/ SharesMetadata(j)
    <3>1. attempt[w] \in Attempt /\ StageOK(attempt[w])
      BY <2>1, <2>3, AtWork
    <3>2. CASE kind = "filesystem"
      <4>1. WorkerOK(attempt[w])
        BY <2>1, <3>1, <3>2 DEF FolderInv
      <4> QED BY <2>3, <4>1 DEF WorkerOK, Described
    <3>3. CASE kind # "filesystem"
      BY <2>1, <2>3, <3>1, <3>3 DEF RemoteInv, StageOK
    <3> QED BY <3>2, <3>3
  <2> QED BY <2>2, <2>3 DEF Named
<1> QED BY <1>1, DeliveriesAreInOrder, PTL

LEMMA AtMostOne ==
  ASSUME NEW S, NEW x, S \subseteq {x}
  PROVE  Cardinality(S) <= 1
<1>1. S = {} \/ S = {x}
  OBVIOUS
<1>2. Cardinality({}) = 0 /\ Cardinality({x}) = 1
  BY FS_EmptySet, FS_Singleton
<1> QED BY <1>1, <1>2

(* However often a job is sent, and whatever crashes, the target has its   *)
(* document once; a second, partial one only after a copy was cut short.   *)
THEOREM DocumentsInOnePlace == Spec => []OnePlaceEach
<1>1. ConnectorsInv => OnePlaceEach
  <2> SUFFICES ASSUME ConnectorsInv, NEW j \in Jobs \ crossed
               PROVE  LET places == {p \in Places : target[p] # Nothing /\ target[p].of = j}
                      IN /\ Cardinality({p \in places : target[p] = Whole(j)}) <= 1
                         /\ j \notin torn => Cardinality(places) <= 1
    BY DEF OnePlaceEach
  <2> DEFINE places == {p \in Places : target[p] # Nothing /\ target[p].of = j}
             wholes == {p \in places : target[p] = Whole(j)}
  <2>1. Shape /\ RemoteInv /\ FolderInv
    BY DEF ConnectorsInv
  <2>2. CASE kind # "filesystem"
    <3>1. places \subseteq {Own(j)} /\ wholes \subseteq {Own(j)}
      BY <2>1, <2>2 DEF RemoteInv
    <3> QED BY <3>1, AtMostOne
  <2>3. CASE kind = "filesystem"
    <3>1. places \subseteq {Rendered(j), Own(j)}
      BY <2>1, <2>3 DEF FolderInv
    <3>2. JobOK(j)
      BY <2>1, <2>3 DEF FolderInv
    <3>3. \/ target[Own(j)] = Nothing
          \/ target[Rendered(j)] \notin {Nothing, Whole(j)}
      BY <3>2 DEF JobOK
    <3>4. wholes \subseteq {Rendered(j)} \/ wholes \subseteq {Own(j)}
      BY <3>1, <3>3
    <3>5. Cardinality(wholes) <= 1
      BY <3>4, AtMostOne
    <3>6. ASSUME j \notin torn PROVE Cardinality(places) <= 1
      <4>1. IsCopied(j) => target[Own(j)] = Nothing
        <5> SUFFICES ASSUME NEW w \in Workers, attempt[w].stage = "copying", attempt[w].job = j,
                            attempt[w].place = Rendered(j)
                     PROVE  target[Own(j)] = Nothing
          BY DEF IsCopied
        <5>1. attempt[w] \in Attempt
          BY <2>1, AtWork
        <5>2. WorkerOK(attempt[w])
          BY <2>1, <2>3, <5>1 DEF FolderInv
        <5> QED BY <5>2 DEF WorkerOK
      <4>2. target[Own(j)] = Nothing \/ target[Rendered(j)].of # j
        BY <3>2, <3>3, <3>6, <4>1 DEF JobOK
      <4>3. places \subseteq {Rendered(j)} \/ places \subseteq {Own(j)}
        BY <3>1, <4>2
      <4> QED BY <4>3, AtMostOne
    <3> QED BY <3>5, <3>6
  <2> QED BY <2>2, <2>3
<1> QED BY <1>1, DeliveriesAreInOrder, PTL
===============================================================================
