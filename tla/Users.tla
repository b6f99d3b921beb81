-------------------------------- MODULE Users --------------------------------
(***************************************************************************)
(* Accounts, sessions and login: the handlers under /v1/auth and /v1/users *)
(* of api.py over the users, user_sessions and LOGIN entries of store.py.  *)
(* Every handler reads a user, works on the object (hashing a password     *)
(* takes 600,000 rounds) and writes all its columns back; they run in the  *)
(* thread pool of the API process.  A request that is refused (401, 403,   *)
(* 404, 409) reads and ends; unless it is a login it leaves nothing behind *)
(* here.  Operator and viewer may make the same requests, so only admin is *)
(* told apart; names, time stamps and cookies are left out.                *)
(***************************************************************************)
EXTENDS Naturals, Sequences, FiniteSets

CONSTANTS
  Names,          \* the usernames; a user is never deleted, so a name is a user
  Passwords,
  Tokens,         \* session tokens
  Requests,       \* each is made once
  MaxOpen,        \* requests under way at a time
  MaxFailures,    \* DOCUMENT_CORE_LOGIN_MAX_ATTEMPTS
  MaxCuts,        \* crashes of the API and errors of the store together
  NoUser, NoSession

ASSUME UsersAssumption ==
  /\ MaxOpen \in Nat /\ MaxFailures \in Nat \ {0} /\ MaxCuts \in Nat

VARIABLES
  users,     \* table users, by name
  sessions,  \* table user_sessions, by token; an expired row counts as none
  failures,  \* LOGIN entries of each name within the window and since its
             \* last success, oldest first: a wrong guess, or a refusal unseen
  request,   \* where each request stands and what it has read
  cuts,      \* requests or processes cut off so far
  unseen,    \* an administrator was removed by a request that had not counted
             \* the others as they were then
  loose      \* users with a session opened, or a password put back, from a
             \* row read before it changed, or a revocation cut off

vars == <<users, sessions, failures, request, cuts, unseen, loose>>

User == [admin : BOOLEAN, active : BOOLEAN, password : Passwords]

ASSUME NoUserAssumption == NoUser \notin User

(* A session remembers, for the properties only, the password it was       *)
(* opened with.                                                            *)
Session == [name : Names, password : Passwords]

Stages ==
  {"new", "counted", "guessed", "limited", "verified", "opened", "greeting",
   "authorized", "read", "edited", "revoking", "creating", "done"}

(* Where the handler has found the user it is about.                       *)
Known == {"verified", "opened", "authorized", "read", "edited"}

(* The acting user, the user the request is about, the row it has read,    *)
(* the row it will write, and the administrators it has counted.           *)
Request ==
  [stage : Stages, by : Names \cup {NoUser}, name : Names \cup {NoUser},
   base : User \cup {NoUser}, copy : User \cup {NoUser}, admins : SUBSET Names]

TypeOK ==
  /\ users \in [Names -> User \cup {NoUser}]
  /\ sessions \in [Tokens -> Session \cup {NoSession}]
  /\ failures \in [Names -> Seq({"guessed", "limited"})]
  /\ request \in [Requests -> Request]
  /\ \A q \in Requests :
       /\ request[q].stage \notin {"new", "done"} => request[q].name \in Names
       /\ request[q].stage \in {"verified", "opened", "read", "edited"} =>
            request[q].base \in User /\ request[q].copy \in User
       /\ request[q].stage = "creating" => request[q].copy \in User
       /\ request[q].stage \in Known => users[request[q].name] # NoUser
  /\ cuts \in Nat /\ unseen \in BOOLEAN /\ loose \in SUBSET Names

----------------------------------------------------------------------------
Present == {n \in Names : users[n] # NoUser}

ActiveAdmins == {n \in Present : users[n].active /\ users[n].admin}

At(stage) ==
  [stage |-> stage, by |-> NoUser, name |-> NoUser, base |-> NoUser,
   copy |-> NoUser, admins |-> {}]

Open == {q \in Requests : request[q].stage \notin {"new", "done"}}

Arrives(q) == request[q].stage = "new" /\ Cardinality(Open) < MaxOpen

Goes(q, r) == request' = [request EXCEPT ![q] = r]

(* get_session_user: the user behind a token, as long as he is active.     *)
Speaks(t, n) ==
  /\ sessions[t] # NoSession /\ sessions[t].name = n
  /\ users[n] # NoUser /\ users[n].active

(* The database between two requests: nobody yet, or staff with an active  *)
(* administrator, and sessions that were opened with present passwords.    *)
Init ==
  /\ users \in [Names -> User \cup {NoUser}]
  /\ Present = {} \/ ActiveAdmins # {}
  /\ sessions \in [Tokens -> Session \cup {NoSession}]
  /\ \A t \in Tokens : sessions[t] # NoSession =>
       /\ Speaks(t, sessions[t].name)
       /\ sessions[t].password = users[sessions[t].name].password
  /\ failures = [n \in Names |-> <<>>]
  /\ request = [q \in Requests |-> At("new")]
  /\ cuts = 0 /\ unseen = FALSE /\ loose = {}

(* lifespan: an installation without users gets its first administrator.   *)
Bootstrap(n) ==
  /\ Present = {} /\ Open = {}
  /\ \E p \in Passwords :
       users' = [users EXCEPT ![n] = [admin |-> TRUE, active |-> TRUE, password |-> p]]
  /\ UNCHANGED <<sessions, failures, request, cuts, unseen, loose>>

----------------------------------------------------------------------------
(* Variants, as plausible mistakes would write the definitions below.      *)

LimitedLate(n) == Len(failures[n]) > MaxFailures

OnlySwitchedOff(r, admins) == ~r.copy.active /\ admins = {r.name}

ForgetsSession(q) ==
  LET n == request[q].name
  IN /\ request[q].stage = "revoking"
     /\ \E t \in Tokens :
          /\ sessions[t] # NoSession /\ sessions[t].name = n
          /\ sessions' = [sessions EXCEPT ![t] = NoSession]
     /\ Goes(q, At("done"))
     /\ UNCHANGED <<users, failures, cuts, unseen, loose>>

UpdateOfAnyone(q, t, by, n) ==
  /\ Arrives(q) /\ Speaks(t, by) /\ users[by].admin
  /\ Goes(q, [At("authorized") EXCEPT !.by = by, !.name = n])
  /\ UNCHANGED <<users, sessions, failures, cuts, unseen, loose>>

----------------------------------------------------------------------------
(* POST /v1/auth/login.  recent_failed_logins counts refused attempts too. *)
Limited(n) == Len(failures[n]) >= MaxFailures

LoginCounts(q, n) ==
  /\ Arrives(q)
  /\ Goes(q, [At(IF Limited(n) THEN "limited" ELSE "counted") EXCEPT !.name = n])
  /\ UNCHANGED <<users, sessions, failures, cuts, unseen, loose>>

Admitted(r, p) ==
  users[r.name] # NoUser /\ users[r.name].active /\ users[r.name].password = p

(* The user is read and the password p compared with his hash.             *)
LoginReads(q, p) ==
  LET r == request[q]
  IN /\ r.stage = "counted"
     /\ Goes(q, IF Admitted(r, p)
                THEN [r EXCEPT !.stage = "verified", !.by = r.name,
                               !.base = users[r.name], !.copy = users[r.name]]
                ELSE [r EXCEPT !.stage = "guessed"])
     /\ UNCHANGED <<users, sessions, failures, cuts, unseen, loose>>

LoginFails(q) ==
  LET r == request[q]
  IN /\ r.stage \in {"guessed", "limited"}
     /\ failures' = [failures EXCEPT ![r.name] = Append(@, r.stage)]
     /\ Goes(q, At("done"))
     /\ UNCHANGED <<users, sessions, cuts, unseen, loose>>

(* create_session, for the user as he was read.                            *)
LoginOpens(q) ==
  LET r == request[q]
      now == users[r.name]
  IN /\ r.stage = "verified"
     /\ \E t \in Tokens :
          /\ sessions[t] = NoSession
          /\ sessions' = [sessions EXCEPT ![t] =
                            [name |-> r.name, password |-> r.base.password]]
     /\ loose' = IF now.active /\ now.password = r.base.password
                 THEN loose ELSE loose \cup {r.name}
     /\ Goes(q, [r EXCEPT !.stage = "opened"])
     /\ UNCHANGED <<users, failures, cuts, unseen>>

(* A success ends the count of failures.                                   *)
LoginSucceeds(q) ==
  /\ request[q].stage = "greeting"
  /\ failures' = [failures EXCEPT ![request[q].name] = <<>>]
  /\ Goes(q, At("done"))
  /\ UNCHANGED <<users, sessions, cuts, unseen, loose>>

----------------------------------------------------------------------------
(* PATCH /v1/auth/me: the middleware has read the user; name and password  *)
(* are his to change.                                                      *)
ProfileReads(q, t, n) ==
  /\ Arrives(q) /\ Speaks(t, n)
  /\ \E p \in Passwords :
       Goes(q, [At("edited") EXCEPT !.by = n, !.name = n, !.base = users[n],
                  !.copy = [users[n] EXCEPT !.password = p]])
  /\ UNCHANGED <<users, sessions, failures, cuts, unseen, loose>>

(* POST /v1/auth/logout.                                                   *)
Logout(t, n) ==
  /\ Speaks(t, n)
  /\ sessions' = [sessions EXCEPT ![t] = NoSession]
  /\ UNCHANGED <<users, failures, request, cuts, unseen, loose>>

----------------------------------------------------------------------------
(* PATCH /v1/users/{id}: the middleware lets an administrator in ...       *)
UpdateArrives(q, t, by, n) ==
  /\ Arrives(q) /\ Speaks(t, by) /\ users[by].admin /\ users[n] # NoUser
  /\ Goes(q, [At("authorized") EXCEPT !.by = by, !.name = n])
  /\ UNCHANGED <<users, sessions, failures, cuts, unseen, loose>>

(* ... the handler reads the user and edits him; nobody deactivates his    *)
(* own account ...                                                         *)
UpdateReads(q) ==
  LET r == request[q]
  IN /\ r.stage = "authorized"
     /\ \E copy \in User :
          /\ r.name # r.by \/ copy.active
          /\ Goes(q, [r EXCEPT !.stage = "read", !.base = users[r.name], !.copy = copy])
     /\ UNCHANGED <<users, sessions, failures, cuts, unseen, loose>>

Dismisses(r) == ~(r.copy.active /\ r.copy.admin)

(* ... the last active administrator must remain.                          *)
LastOne(r, admins) == Dismisses(r) /\ admins = {r.name}

UpdateCounts(q) ==
  LET r == request[q]
  IN /\ r.stage = "read"
     /\ Goes(q, IF LastOne(r, ActiveAdmins) THEN At("done")
                ELSE [r EXCEPT !.stage = "edited", !.admins = ActiveAdmins])
     /\ UNCHANGED <<users, sessions, failures, cuts, unseen, loose>>

(* POST /v1/users: the name is free; the insert finds out if it still is.  *)
CreateArrives(q, t, by, n) ==
  /\ Arrives(q) /\ Speaks(t, by) /\ users[by].admin /\ users[n] = NoUser
  /\ \E admin \in BOOLEAN, p \in Passwords :
       Goes(q, [At("creating") EXCEPT !.by = by, !.name = n, !.copy =
                  [admin |-> admin, active |-> TRUE, password |-> p]])
  /\ UNCHANGED <<users, sessions, failures, cuts, unseen, loose>>

CreateInserts(q) ==
  LET r == request[q]
  IN /\ r.stage = "creating"
     /\ users' = IF users[r.name] = NoUser
                 THEN [users EXCEPT ![r.name] = r.copy] ELSE users
     /\ Goes(q, At("done"))
     /\ UNCHANGED <<sessions, failures, cuts, unseen, loose>>

----------------------------------------------------------------------------
(* Which changes end the user's sessions: update_profile and update_user.  *)
(* A password that is set is taken to differ from the one before.          *)
SetsPassword(r) == r.copy.password # r.base.password

Revokes(r) == SetsPassword(r) \/ ~r.copy.active

(* save_user writes the whole copy.  A login goes on to its entry.         *)
SaveUser(q) ==
  LET r == request[q]
  IN /\ r.stage \in {"opened", "edited"}
     /\ users' = [users EXCEPT ![r.name] = r.copy]
     /\ Goes(q, IF r.stage = "opened" THEN [r EXCEPT !.stage = "greeting"]
                ELSE IF Revokes(r) THEN [r EXCEPT !.stage = "revoking"]
                ELSE At("done"))
     /\ unseen' = (unseen \/ (r.name \in ActiveAdmins /\ Dismisses(r)
                              /\ r.admins # ActiveAdmins))
     /\ loose' = IF r.copy.password # users[r.name].password /\ ~SetsPassword(r)
                 THEN loose \cup {r.name} ELSE loose
     /\ UNCHANGED <<sessions, failures, cuts>>

(* delete_user_sessions.                                                   *)
RevokeSessions(q) ==
  LET n == request[q].name
  IN /\ request[q].stage = "revoking"
     /\ sessions' = [t \in Tokens |->
                       IF sessions[t] # NoSession /\ sessions[t].name = n
                       THEN NoSession ELSE sessions[t]]
     /\ Goes(q, At("done"))
     /\ UNCHANGED <<users, failures, cuts, unseen, loose>>

----------------------------------------------------------------------------
(* A session reaches its end.                                              *)
Expire(t) ==
  /\ sessions[t] # NoSession
  /\ sessions' = [sessions EXCEPT ![t] = NoSession]
  /\ UNCHANGED <<users, failures, request, cuts, unseen, loose>>

(* The oldest entry leaves the window.                                     *)
Ages(n) ==
  /\ failures[n] # <<>>
  /\ failures' = [failures EXCEPT ![n] = Tail(@)]
  /\ UNCHANGED <<users, sessions, request, cuts, unseen, loose>>

(* The store raises in one request, or the process dies with all of them.  *)
CutOff ==
  /\ cuts < MaxCuts /\ cuts' = cuts + 1
  /\ \E S \in {{q} : q \in Open} \cup {Open} :
       /\ S # {}
       /\ request' = [q \in Requests |-> IF q \in S THEN At("done") ELSE request[q]]
       /\ loose' = loose \cup {request[q].name : q \in {k \in S : request[k].stage = "revoking"}}
  /\ UNCHANGED <<users, sessions, failures, unseen>>

----------------------------------------------------------------------------
Next ==
  \/ \E n \in Names : Bootstrap(n) \/ Ages(n)
  \/ \E q \in Requests, n \in Names : LoginCounts(q, n)
  \/ \E q \in Requests, p \in Passwords : LoginReads(q, p)
  \/ \E q \in Requests :
       LoginFails(q) \/ LoginOpens(q) \/ LoginSucceeds(q) \/ UpdateReads(q)
       \/ UpdateCounts(q) \/ CreateInserts(q) \/ SaveUser(q) \/ RevokeSessions(q)
  \/ \E t \in Tokens, n \in Names : Logout(t, n) \/ \E q \in Requests : ProfileReads(q, t, n)
  \/ \E q \in Requests, t \in Tokens, by, n \in Names :
       UpdateArrives(q, t, by, n) \/ CreateArrives(q, t, by, n)
  \/ \E t \in Tokens : Expire(t)
  \/ CutOff

Spec == Init /\ [][Next]_vars

----------------------------------------------------------------------------
(* There is an active administrator ("Der letzte aktive Admin muss         *)
(* erhalten bleiben"), unless one has been removed by a request that knew  *)
(* the others from before: two of them dismissing each other, or a saved   *)
(* copy in which he was none yet.                                          *)
AdminRemains == Present = {} \/ unseen \/ ActiveAdmins # {}

Current(t) ==
  LET s == sessions[t]
  IN users[s.name] # NoUser /\ users[s.name].active /\ users[s.name].password = s.password

(* A new password or a deactivation ends all sessions of the user          *)
(* (OPERATIONS.md): a session that lives belongs to an active user and was *)
(* opened with his present password, but for the moment until the sessions *)
(* are deleted, a revocation cut off, and logins and saves that went by a  *)
(* row read before the change.                                             *)
SessionsAreCurrent ==
  \A t \in Tokens :
    \/ sessions[t] = NoSession
    \/ Current(t)
    \/ sessions[t].name \in loose
    \/ \E q \in Requests :
         request[q].stage = "revoking" /\ request[q].name = sessions[t].name

(* Within the window nobody guesses more than the limit and the requests   *)
(* under way at once allow, because each login counts before it compares.  *)
GuessesBounded ==
  \A n \in Names :
    Cardinality({i \in DOMAIN failures[n] : failures[n][i] = "guessed"}) < MaxFailures + MaxOpen
=============================================================================
