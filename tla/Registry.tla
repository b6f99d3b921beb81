------------------------------ MODULE Registry ------------------------------
(***************************************************************************)
(* What ingest promises to those who hand documents in: a set of contents  *)
(* that have a job, and one atomic answer for each document.  A content    *)
(* gets one job; a second document with it is told so; an error leaves     *)
(* open whether the content has been stored.                               *)
(***************************************************************************)
CONSTANTS
  Contents,   \* what a document says, as far as its SHA-256 tells
  Senders     \* who hands documents in, one after the other

VARIABLES
  stored,   \* the contents that have a job
  asked,    \* the content each sender has handed in last
  answer    \* what has become of it

registryVars == <<stored, asked, answer>>

Init ==
  /\ stored = {}
  /\ asked \in [Senders -> Contents]
  /\ answer = [s \in Senders |-> "none"]

HandIn(s, c) ==
  /\ asked' = [asked EXCEPT ![s] = c]
  /\ answer' = [answer EXCEPT ![s] = "open"]
  /\ UNCHANGED stored

Accept(s) ==
  /\ answer[s] = "open" /\ asked[s] \notin stored
  /\ stored' = stored \cup {asked[s]}
  /\ answer' = [answer EXCEPT ![s] = "new"]
  /\ UNCHANGED asked

Recognize(s) ==
  /\ answer[s] = "open" /\ asked[s] \in stored
  /\ answer' = [answer EXCEPT ![s] = "duplicate"]
  /\ UNCHANGED <<stored, asked>>

(* Some senders get an error, lose the connection, or are done.            *)
Fail ==
  /\ \E S \in SUBSET Senders :
       answer' = [s \in Senders |-> IF s \in S THEN "none" ELSE answer[s]]
  /\ UNCHANGED <<stored, asked>>

(* An operator deletes the content's job.                                  *)
Forget(c) ==
  /\ stored' = stored \ {c}
  /\ UNCHANGED <<asked, answer>>

Next ==
  \/ \E s \in Senders : Accept(s) \/ Recognize(s) \/ \E c \in Contents : HandIn(s, c)
  \/ \E c \in Contents : Forget(c)
  \/ Fail

Spec == Init /\ [][Next]_registryVars
=============================================================================
