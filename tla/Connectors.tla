------------------------------ MODULE Connectors ------------------------------
(***************************************************************************)
(* What the connectors (connectors.py) do when a worker delivers a         *)
(* document: the copy into a folder with its metadata beside it, the       *)
(* multipart POST, and Microsoft Graph with its token and the upload in    *)
(* pieces; which answers are tried again (_deliver, process), after how    *)
(* long, and what the attempts of several workers leave at the target.     *)
(* The queue gives a job to one worker at a time.  Path templates are of   *)
(* the kind that names a file, and render the same name for every job but  *)
(* for the suffix; a template with {job_id} keeps jobs apart by itself.    *)
(* Remote names begin with the job's id, HTTP requests carry it as their   *)
(* Idempotency-Key: the target is trusted to keep one document for a key.  *)
(***************************************************************************)
EXTENDS Integers, FiniteSets

CONSTANTS
  Jobs, Workers,
  Suffixes,
  Sizes,        \* of documents, in the units of Chunk
  Chunk,        \* upload_chunk_bytes, which is max_simple_upload_bytes too
  Base,         \* worker_retry_base_seconds
  MaxWait,      \* 86400, the longest Retry-After that is believed
  Waits,        \* what a Retry-After may say; a date that has passed is negative
  MaxAttempts,  \* worker_max_attempts
  MaxFaults,    \* bad answers, errors and crashes together
  Common,       \* the stem that the template renders for every job
  Nothing

ASSUME ConnectorsAssumption ==
  /\ Sizes \subseteq Nat \ {0} /\ Chunk \in Nat \ {0} /\ Base \in Nat
  /\ MaxWait \in Nat /\ Waits \subseteq Int
  /\ MaxAttempts \in Nat \ {0} /\ MaxFaults \in Nat
  /\ Common \notin Jobs /\ Nothing \notin Jobs

VARIABLES
  kind,       \* of the target system
  document,   \* size and suffix of each job's document
  phase,      \* of each job
  tries,      \* attempt_count
  delay,      \* seconds until next_attempt_at
  asked,      \* seconds the target still wants to be left alone about a job
  attempt,    \* what each worker is doing
  target,     \* the documents at the target, by name
  beside,     \* whose metadata lie beside a document, by the stem of its name
  reference,  \* the name in the receipt of a delivered job
  faults,     \* so far
  torn,       \* jobs of which a copy was cut short
  crossed     \* jobs that met another between the check of a name and the copy

vars == <<kind, document, phase, tries, delay, asked, attempt, target, beside,
          reference, faults, torn, crossed>>

Kinds == {"filesystem", "http", "microsoft_graph"}

Stems == Jobs \cup {Common}

Places == [stem : Stems, suffix : Suffixes]

(* A document, as far as it has been written: 0 is any part of it.         *)
Held == [of : Jobs, bytes : Nat]

ASSUME NothingAssumption == Nothing \notin Held

Stages ==
  {"idle", "connecting", "choosing", "opening", "copying", "describing", "posting",
   "authorizing", "putting", "starting", "sending", "received"}

Attempt ==
  [stage : Stages, job : Jobs \cup {Nothing}, place : Places \cup {Nothing},
   seen : Held \cup {Nothing}, offset : Nat]

TypeOK ==
  /\ kind \in Kinds
  /\ document \in [Jobs -> [size : Sizes, suffix : Suffixes]]
  /\ phase \in [Jobs -> {"waiting", "delivered", "failed"}]
  /\ tries \in [Jobs -> 0 .. MaxAttempts + MaxFaults]
  /\ delay \in [Jobs -> Nat] /\ asked \in [Jobs -> 0 .. MaxWait]
  /\ attempt \in [Workers -> Attempt]
  /\ \A w \in Workers : attempt[w].stage # "idle" =>
       /\ attempt[w].job \in Jobs
       /\ attempt[w].offset <= document[attempt[w].job].size
  /\ target \in [Places -> Held \cup {Nothing}]
  /\ beside \in [Stems -> Jobs \cup {Nothing}]
  /\ reference \in [Jobs -> Places \cup {Nothing}]
  /\ faults \in 0 .. MaxFaults
  /\ torn \in SUBSET Jobs /\ crossed \in SUBSET Jobs

----------------------------------------------------------------------------
Rendered(j) == [stem |-> Common, suffix |-> document[j].suffix]

(* The name with the id of the job in it.                                  *)
Own(j) == [stem |-> j, suffix |-> document[j].suffix]

Whole(j) == [of |-> j, bytes |-> document[j].size]

Idle == [stage |-> "idle", job |-> Nothing, place |-> Nothing, seen |-> Nothing, offset |-> 0]

Larger(a, b) == IF a < b THEN b ELSE a

Smaller(a, b) == IF a < b THEN a ELSE b

Init ==
  /\ kind \in Kinds
  /\ document \in [Jobs -> [size : Sizes, suffix : Suffixes]]
  /\ phase = [j \in Jobs |-> "waiting"]
  /\ tries = [j \in Jobs |-> 0]
  /\ delay = [j \in Jobs |-> 0] /\ asked = [j \in Jobs |-> 0]
  /\ attempt = [w \in Workers |-> Idle]
  /\ target = [p \in Places |-> Nothing]
  /\ beside = [s \in Stems |-> Nothing]
  /\ reference = [j \in Jobs |-> Nothing]
  /\ faults = 0 /\ torn = {} /\ crossed = {}

Goes(w, a) == attempt' = [attempt EXCEPT ![w] = a]

Proceeds(w, stage) == Goes(w, [attempt[w] EXCEPT !.stage = stage])

(* A step of an attempt that changes neither the job nor the accounts.     *)
Quietly == UNCHANGED <<kind, document, phase, tries, delay, asked, reference, faults, torn>>

----------------------------------------------------------------------------
(* Variants, as plausible mistakes would write the definitions below.      *)

NameBlindly(j) == Rendered(j)

NameAfresh(j) == IF target[Rendered(j)] = Nothing THEN Rendered(j) ELSE Own(j)

RetryAfterUncapped(v) == Larger(0, v)

DelayIgnoringTarget(n, asks) == Base * 2 ^ (n - 1)

LastByteBeyond(offset, size) == Smaller(offset + Chunk, size)

----------------------------------------------------------------------------
(* How an attempt ends.  Unreachable, unlicensed and unwritable stand for  *)
(* every exception that is not told apart; a 2xx answer that cannot be     *)
(* read is taken for permanent, an upload without an id for temporary.     *)
Failures == {"unreachable", "unwritable", "unlicensed", "busy", "refused", "unusable", "unfinished"}

Permanent == {"refused", "unusable"}

(* parse_retry_after.                                                      *)
RetryAfter(v) == Smaller(Larger(0, v), MaxWait)

(* The wait before attempt n + 1: exponential, or what the target asks.    *)
Delay(n, asks) == Larger(Base * 2 ^ (n - 1), asks)

Ends(w, failure, asks) ==
  LET j == attempt[w].job
      again == failure \notin Permanent /\ tries[j] < MaxAttempts
  IN /\ phase' = [phase EXCEPT ![j] = IF again THEN "waiting" ELSE "failed"]
     /\ delay' = [delay EXCEPT ![j] = IF again THEN Delay(tries[j], asks) ELSE 0]
     /\ asked' = [asked EXCEPT ![j] = asks]
     /\ Goes(w, Idle)
     /\ UNCHANGED <<kind, document, tries, reference>>

(* A failure is the target's or the environment's fault, up to MaxFaults.  *)
Fails(w, failure, asks) ==
  /\ faults < MaxFaults /\ faults' = faults + 1
  /\ Ends(w, failure, asks)

(* A request that went wrong, for one of the statuses 408, 425, 429, 500,  *)
(* 502, 503 and 504, for another one, or without any.                      *)
RequestFails(w) ==
  \/ \E v \in Waits : Fails(w, "busy", RetryAfter(v))
  \/ \E f \in {"busy", "refused", "unreachable", "unusable"} : Fails(w, f, 0)

----------------------------------------------------------------------------
Claims(w, j) ==
  /\ attempt[w].stage = "idle" /\ \A v \in Workers : attempt[v].job # j
  /\ phase[j] = "waiting" /\ delay[j] = 0
  /\ tries' = [tries EXCEPT ![j] = @ + 1]
  /\ Goes(w, [Idle EXCEPT !.stage = "connecting", !.job = j])
  /\ UNCHANGED <<kind, document, phase, delay, asked, target, beside, reference,
                 faults, torn, crossed>>

(* _connector_for: the registry makes the connector, if it is licensed.    *)
Connects(w) ==
  /\ attempt[w].stage = "connecting"
  /\ \/ /\ Proceeds(w, CASE kind = "filesystem" -> "choosing"
                         [] kind = "http" -> "posting"
                         [] kind = "microsoft_graph" -> "authorizing")
        /\ Quietly
     \/ Fails(w, "unlicensed", 0) /\ UNCHANGED torn
  /\ UNCHANGED <<target, beside, crossed>>

(* FilesystemConnector.deliver: the rendered name, unless a file of that   *)
(* name has another content ...                                            *)
NameFor(j) ==
  IF target[Rendered(j)] \in {Nothing, Whole(j)} THEN Rendered(j) ELSE Own(j)

ChoosesName(w) ==
  LET p == NameFor(attempt[w].job)
  IN /\ attempt[w].stage = "choosing"
     /\ Goes(w, [attempt[w] EXCEPT !.stage = "opening", !.place = p, !.seen = target[p]])
     /\ Quietly /\ UNCHANGED <<target, beside, crossed>>

(* ... which the copy first empties ...                                    *)
OpensCopy(w) ==
  LET a == attempt[w]
  IN /\ a.stage = "opening"
     /\ target' = [target EXCEPT ![a.place] = [of |-> a.job, bytes |-> 0]]
     /\ crossed' = IF target[a.place] = a.seen THEN crossed
                   ELSE crossed \cup {a.job, target[a.place].of}
     /\ Proceeds(w, "copying")
     /\ Quietly /\ UNCHANGED beside

(* ... then fills, unless the device is full or gone ...                   *)
Copies(w) ==
  LET a == attempt[w]
  IN /\ a.stage = "copying"
     /\ \/ /\ target' = [target EXCEPT ![a.place] = Whole(a.job)]
           /\ Proceeds(w, "describing") /\ Quietly
        \/ /\ Fails(w, "unwritable", 0)
           /\ torn' = torn \cup {a.job} /\ UNCHANGED target
     /\ UNCHANGED <<beside, crossed>>

(* ... and the metadata get the stem of the name that was taken.           *)
MetadataName(place) == place.stem

Describes(w) ==
  LET a == attempt[w]
  IN /\ a.stage = "describing"
     /\ beside' = [beside EXCEPT ![MetadataName(a.place)] = a.job]
     /\ Proceeds(w, "received")
     /\ Quietly /\ UNCHANGED <<target, crossed>>

----------------------------------------------------------------------------
(* A request that carries the whole document.  One that fails may have     *)
(* been heard all the same.                                                *)
Sends(w, key) ==
  LET a == attempt[w]
      stored == [target EXCEPT ![key] = Whole(a.job)]
  IN /\ \/ /\ target' = stored
           /\ Goes(w, [a EXCEPT !.stage = "received", !.place = key])
           /\ Quietly
        \/ RequestFails(w) /\ target' \in {target, stored} /\ UNCHANGED torn
     /\ UNCHANGED <<beside, crossed>>

(* HttpConnector.deliver.                                                  *)
Posts(w) == attempt[w].stage = "posting" /\ Sends(w, Own(attempt[w].job))

(* MicrosoftGraphConnector: _access_token ...                              *)
Authorizes(w) ==
  LET a == attempt[w]
  IN /\ a.stage = "authorizing"
     /\ \/ /\ Proceeds(w, IF document[a.job].size <= Chunk THEN "putting" ELSE "starting")
           /\ Quietly
        \/ RequestFails(w) /\ UNCHANGED torn
     /\ UNCHANGED <<target, beside, crossed>>

(* ... a small document in one request ...                                 *)
Puts(w) == attempt[w].stage = "putting" /\ Sends(w, Own(attempt[w].job))

(* ... _upload_large: a session, which replaces what has the name ...      *)
StartsSession(w) ==
  /\ attempt[w].stage = "starting"
  /\ \/ /\ Goes(w, [attempt[w] EXCEPT !.stage = "sending", !.place = Own(attempt[w].job)])
        /\ Quietly
     \/ RequestFails(w) /\ UNCHANGED torn
  /\ UNCHANGED <<target, beside, crossed>>

(* ... and the pieces one after the other, each with its Content-Range.    *)
LastByte(offset, size) == Smaller(offset + Chunk, size) - 1

(* The service wants ranges that follow one another and end in the file;   *)
(* the last one makes the document.                                        *)
Fits(offset, last, size) == offset <= last /\ last < size

SendsPiece(w) ==
  LET a == attempt[w]
      size == document[a.job].size
      last == LastByte(a.offset, size)
      stored == IF last + 1 = size THEN [target EXCEPT ![a.place] = Whole(a.job)] ELSE target
  IN /\ a.stage = "sending" /\ a.offset < size
     /\ \/ IF Fits(a.offset, last, size)
           THEN target' = stored /\ Goes(w, [a EXCEPT !.offset = last + 1]) /\ Quietly
           ELSE Ends(w, "refused", 0) /\ UNCHANGED <<target, faults, torn>>
        \/ RequestFails(w) /\ target' \in {target, stored} /\ UNCHANGED torn
     /\ UNCHANGED <<beside, crossed>>

(* No piece is left; the last answer must be 200 or 201 and name an id.    *)
Finishes(w) ==
  LET a == attempt[w]
  IN /\ a.stage = "sending" /\ a.offset = document[a.job].size
     /\ \/ IF target[a.place] = Whole(a.job)
           THEN Proceeds(w, "received") /\ Quietly
           ELSE Ends(w, "unfinished", 0) /\ UNCHANGED <<faults, torn>>
        \/ Fails(w, "unfinished", 0) /\ UNCHANGED torn
     /\ UNCHANGED <<target, beside, crossed>>

----------------------------------------------------------------------------
(* The receipt is saved with the job.                                      *)
SavesReceipt(w) ==
  LET a == attempt[w]
  IN /\ a.stage = "received"
     /\ phase' = [phase EXCEPT ![a.job] = "delivered"]
     /\ reference' = [reference EXCEPT ![a.job] = a.place]
     /\ asked' = [asked EXCEPT ![a.job] = 0]
     /\ Goes(w, Idle)
     /\ UNCHANGED <<kind, document, tries, delay, target, beside, faults, torn, crossed>>

(* The worker dies; the lease runs out and the job is due.                 *)
Crashes(w) ==
  LET a == attempt[w]
  IN /\ a.stage # "idle"
     /\ faults < MaxFaults /\ faults' = faults + 1
     /\ torn' = IF a.stage = "copying" THEN torn \cup {a.job} ELSE torn
     /\ Goes(w, Idle)
     /\ UNCHANGED <<kind, document, phase, tries, delay, asked, target, beside,
                    reference, crossed>>

Counted(clock) == [j \in Jobs |-> Larger(0, clock[j] - 1)]

Tick ==
  /\ \E j \in Jobs : delay[j] > 0 \/ asked[j] > 0
  /\ delay' = Counted(delay) /\ asked' = Counted(asked)
  /\ UNCHANGED <<kind, document, phase, tries, attempt, target, beside, reference,
                 faults, torn, crossed>>

Step(w) ==
  \/ \E j \in Jobs : Claims(w, j)
  \/ Connects(w) \/ ChoosesName(w) \/ OpensCopy(w) \/ Copies(w) \/ Describes(w)
  \/ Posts(w) \/ Authorizes(w) \/ Puts(w) \/ StartsSession(w) \/ SendsPiece(w)
  \/ Finishes(w) \/ SavesReceipt(w)

Next == Tick \/ \E w \in Workers : Step(w) \/ Crashes(w)

Spec == Init /\ [][Next]_vars

----------------------------------------------------------------------------
(* The place a receipt names, that the worker has or the job is saved with.*)
Named(j) ==
  {attempt[w].place : w \in {v \in Workers : attempt[v].stage = "received" /\ attempt[v].job = j}}
    \cup ({reference[j]} \ {Nothing})

(* Jobs of another suffix share the name of the metadata.                  *)
SharesMetadata(j) == \E k \in Jobs : tries[k] > 0 /\ document[k].suffix # document[j].suffix

(* What a receipt names is there: the whole document and, in a folder, its *)
(* own metadata beside it (OPERATIONS.md), whatever else is delivered.     *)
(* Two exceptions: the check of a name and the copy are not one step, and  *)
(* names that differ in the suffix alone have one metadata file.           *)
ReceiptIsTrue ==
  \A j \in Jobs \ crossed : \A p \in Named(j) :
    /\ target[p] = Whole(j)
    /\ kind = "filesystem" => beside[MetadataName(p)] = j \/ SharesMetadata(j)

(* "deliver muss bei Wiederholung sicher sein" (CONNECTORS.md): however    *)
(* often a job is sent, the target has it in one place; after a copy that  *)
(* was cut short, also its remains in another.                             *)
OnePlaceEach ==
  \A j \in Jobs \ crossed :
    LET places == {p \in Places : target[p] # Nothing /\ target[p].of = j}
    IN /\ Cardinality({p \in places : target[p] = Whole(j)}) <= 1
       /\ j \notin torn => Cardinality(places) <= 1

(* "als Mindestwartezeit für den nächsten Worker-Versuch" (CONNECTORS.md): *)
(* no attempt begins before the time the target asked for, up to a day.    *)
RetryWaits == \A w \in Workers : attempt[w].stage # "idle" => asked[attempt[w].job] = 0

(* If everything around it works, a delivery succeeds at the first attempt,*)
(* whatever the size of the document and whoever delivers beside it.       *)
NoFailureByItself == faults = 0 => \A j \in Jobs : phase[j] # "failed" /\ tries[j] <= 1
=============================================================================
