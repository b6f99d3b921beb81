----------------------------- MODULE UsersProofs -----------------------------
(***************************************************************************)
(* For any names, passwords, tokens, requests and limits: types, an        *)
(* administrator remains, sessions are current, guesses are bounded.       *)
(***************************************************************************)
EXTENDS Users, FiniteSetTheorems, TLAPS

(* The operators that only abbreviate what a step reads and writes.        *)
USE DEF Goes, At, Arrives, Speaks

----------------------------------------------------------------------------
(* Types: those of the tables, and those of the requests.                  *)
Tables ==
  /\ users \in [Names -> User \cup {NoUser}]
  /\ sessions \in [Tokens -> Session \cup {NoSession}]
  /\ failures \in [Names -> Seq({"guessed", "limited"})]
  /\ cuts \in Nat /\ unseen \in BOOLEAN /\ loose \in SUBSET Names

RequestOK(r) ==
  /\ r \in Request
  /\ r.stage \notin {"new", "done"} => r.name \in Names
  /\ r.stage \in {"verified", "opened", "read", "edited"} =>
       r.base \in User /\ r.copy \in User
  /\ r.stage = "creating" => r.copy \in User

Knows(r) == r.stage \in Known => users[r.name] # NoUser

Asked ==
  /\ request \in [Requests -> Request]
  /\ \A q \in Requests : RequestOK(request[q]) /\ Knows(request[q])

(* Users do not vanish, so that what a request knows stays so.             *)
UsersStay == \A n \in Names : users[n] # NoUser => users'[n] # NoUser

LEMMA TypeParts == TypeOK <=> Tables /\ Asked
BY DEF TypeOK, Tables, Asked, RequestOK, Knows

(* A request that goes on to a sound record leaves all of them sound.      *)
LEMMA GoesOn ==
  ASSUME Asked, NEW q \in Requests, NEW r, RequestOK(r), Goes(q, r), UsersStay,
         r.stage \in Known => users'[r.name] # NoUser
  PROVE  Asked'
<1>1. request' \in [Requests -> Request]
  BY DEF Asked, RequestOK
<1>2. ASSUME NEW k \in Requests PROVE (RequestOK(request[k]) /\ Knows(request[k]))'
  <2>1. CASE k = q
    BY <2>1 DEF Asked, RequestOK, Knows
  <2>2. CASE k # q
    <3>1. request'[k] = request[k]
      BY <2>2 DEF Asked
    <3>2. RequestOK(request[k]) /\ Knows(request[k])
      BY DEF Asked
    <3>3. request[k].stage \in Known => request[k].name \in Names
      BY <3>2 DEF RequestOK, Known
    <3> QED BY <3>1, <3>2, <3>3 DEF RequestOK, Knows, UsersStay
  <2> QED BY <2>1, <2>2
<1> QED BY <1>1, <1>2 DEF Asked

LEMMA InitTyped == Init => Tables /\ Asked
<1> SUFFICES ASSUME Init PROVE Tables /\ Asked
  OBVIOUS
<1>1. Tables
  <2>1. <<>> \in Seq({"guessed", "limited"})
    OBVIOUS
  <2> QED BY <2>1 DEF Init, Tables
<1>2. RequestOK(At("new")) /\ At("new") \in Request /\ Knows(At("new"))
  BY DEF RequestOK, Request, Stages, Knows, Known
<1>3. request = [q \in Requests |-> At("new")]
  BY DEF Init
<1>4. Asked
  BY <1>2, <1>3 DEF Asked
<1> QED BY <1>1, <1>4

LEMMA DoneOK == RequestOK(At("done")) /\ "done" \notin Known
BY DEF RequestOK, Request, Stages, Known

LEMMA StepTyped ==
  ASSUME Tables, Asked, [Next]_vars
  PROVE  Tables' /\ Asked'
<1> DEFINE Goal == Tables' /\ Asked'
<1>1. ASSUME NEW n \in Names, Bootstrap(n) PROVE Goal
  <2>1. Tables'
    BY <1>1 DEF Bootstrap, Tables, User
  <2>2. Asked'
    BY <1>1, NoUserAssumption DEF Bootstrap, Tables, Asked, RequestOK, Knows, User, Open, Known
  <2> QED BY <2>1, <2>2
<1>2. ASSUME NEW n \in Names, Ages(n) PROVE Goal
  <2>1. Tail(failures[n]) \in Seq({"guessed", "limited"})
    BY <1>2 DEF Ages, Tables
  <2> QED BY <1>2, <2>1 DEF Ages, Tables, Asked, RequestOK, Knows
<1>3. ASSUME NEW q \in Requests, NEW n \in Names, LoginCounts(q, n) PROVE Goal
  <2> DEFINE r == [At(IF Limited(n) THEN "limited" ELSE "counted") EXCEPT !.name = n]
  <2>1. RequestOK(r) /\ r.stage \notin Known
    BY DEF RequestOK, Request, Stages, Known
  <2>2. Asked'
    BY <1>3, <2>1, GoesOn DEF LoginCounts, UsersStay
  <2> QED BY <1>3, <2>2 DEF LoginCounts, Tables
<1>4. ASSUME NEW q \in Requests, NEW p \in Passwords, LoginReads(q, p) PROVE Goal
  <2> DEFINE r == request[q]
             s == IF Admitted(r, p)
                  THEN [r EXCEPT !.stage = "verified", !.by = r.name,
                                 !.base = users[r.name], !.copy = users[r.name]]
                  ELSE [r EXCEPT !.stage = "guessed"]
  <2>1. r \in Request /\ r.name \in Names /\ users[r.name] \in User \cup {NoUser}
    BY <1>4 DEF LoginReads, Asked, RequestOK, Tables
  <2>2. RequestOK(s) /\ (s.stage \in Known => users[s.name] # NoUser)
    BY <2>1 DEF RequestOK, Request, Stages, Admitted, Known
  <2>3. Asked'
    BY <1>4, <2>2, GoesOn DEF LoginReads, UsersStay
  <2> QED BY <1>4, <2>3 DEF LoginReads, Tables
<1>5. ASSUME NEW q \in Requests, LoginFails(q) PROVE Goal
  <2>1. request[q].name \in Names
    BY <1>5 DEF LoginFails, Asked, RequestOK
  <2>2. Append(failures[request[q].name], request[q].stage) \in Seq({"guessed", "limited"})
    BY <1>5, <2>1 DEF LoginFails, Tables
  <2>3. Asked'
    BY <1>5, DoneOK, GoesOn DEF LoginFails, UsersStay
  <2> QED BY <1>5, <2>2, <2>3 DEF LoginFails, Tables
<1>6. ASSUME NEW q \in Requests, LoginOpens(q) PROVE Goal
  <2> DEFINE r == request[q]
             s == [r EXCEPT !.stage = "opened"]
  <2>1. r \in Request /\ r.name \in Names /\ r.base \in User /\ r.copy \in User
        /\ users[r.name] # NoUser
    BY <1>6 DEF LoginOpens, Asked, RequestOK, Knows, Known
  <2>2. RequestOK(s) /\ s.name = r.name
    BY <2>1 DEF RequestOK, Request, Stages
  <2>3. Tables'
    BY <1>6, <2>1 DEF LoginOpens, Tables, Session, User
  <2>4. Asked'
    BY <1>6, <2>1, <2>2, GoesOn DEF LoginOpens, UsersStay
  <2> QED BY <2>3, <2>4
<1>7. ASSUME NEW q \in Requests, LoginSucceeds(q) PROVE Goal
  <2>1. Asked'
    BY <1>7, DoneOK, GoesOn DEF LoginSucceeds, UsersStay
  <2>2. <<>> \in Seq({"guessed", "limited"})
    OBVIOUS
  <2> QED BY <1>7, <2>1, <2>2 DEF LoginSucceeds, Tables
<1>8. ASSUME NEW q \in Requests, NEW t \in Tokens, NEW n \in Names, ProfileReads(q, t, n)
      PROVE  Goal
  <2>1. PICK p \in Passwords :
          Goes(q, [At("edited") EXCEPT !.by = n, !.name = n, !.base = users[n],
                     !.copy = [users[n] EXCEPT !.password = p]])
    BY <1>8 DEF ProfileReads
  <2> DEFINE r == [At("edited") EXCEPT !.by = n, !.name = n, !.base = users[n],
                     !.copy = [users[n] EXCEPT !.password = p]]
  <2>2. users[n] \in User /\ users[n] # NoUser
    BY <1>8 DEF ProfileReads, Tables
  <2>3. [users[n] EXCEPT !.password = p] \in User
    BY <2>2 DEF User
  <2>4. RequestOK(r) /\ r.name = n
    BY <2>2, <2>3 DEF RequestOK, Request, Stages
  <2>5. Asked'
    BY <1>8, <2>1, <2>2, <2>4, GoesOn DEF ProfileReads, UsersStay
  <2> QED BY <1>8, <2>5 DEF ProfileReads, Tables
<1>9. ASSUME NEW t \in Tokens, NEW n \in Names, Logout(t, n) PROVE Goal
  BY <1>9 DEF Logout, Tables, Asked, RequestOK, Knows
<1>10. ASSUME NEW q \in Requests, NEW t \in Tokens, NEW by \in Names, NEW n \in Names,
              UpdateArrives(q, t, by, n)
       PROVE  Goal
  <2> DEFINE r == [At("authorized") EXCEPT !.by = by, !.name = n]
  <2>1. RequestOK(r) /\ r.name = n
    BY DEF RequestOK, Request, Stages
  <2>2. Asked'
    BY <1>10, <2>1, GoesOn DEF UpdateArrives, UsersStay
  <2> QED BY <1>10, <2>2 DEF UpdateArrives, Tables
<1>11. ASSUME NEW q \in Requests, UpdateReads(q) PROVE Goal
  <2> DEFINE r == request[q]
  <2>1. PICK copy \in User :
          Goes(q, [r EXCEPT !.stage = "read", !.base = users[r.name], !.copy = copy])
    BY <1>11 DEF UpdateReads
  <2> DEFINE s == [r EXCEPT !.stage = "read", !.base = users[r.name], !.copy = copy]
  <2>2. r \in Request /\ r.name \in Names /\ users[r.name] \in User /\ users[r.name] # NoUser
    BY <1>11 DEF UpdateReads, Asked, RequestOK, Knows, Known, Tables
  <2>3. RequestOK(s) /\ s.name = r.name
    BY <2>2 DEF RequestOK, Request, Stages
  <2>4. Asked'
    BY <1>11, <2>1, <2>2, <2>3, GoesOn DEF UpdateReads, UsersStay
  <2> QED BY <1>11, <2>4 DEF UpdateReads, Tables
<1>12. ASSUME NEW q \in Requests, UpdateCounts(q) PROVE Goal
  <2> DEFINE r == request[q]
             s == IF LastOne(r, ActiveAdmins) THEN At("done")
                  ELSE [r EXCEPT !.stage = "edited", !.admins = ActiveAdmins]
  <2>1. RequestOK(r) /\ r.name \in Names /\ r.stage = "read" /\ users[r.name] # NoUser
    BY <1>12 DEF UpdateCounts, Asked, RequestOK, Knows, Known
  <2>2. RequestOK(s) /\ (s.stage \in Known => users[s.name] # NoUser)
    BY <2>1, DoneOK DEF RequestOK, Request, Stages, ActiveAdmins, Present
  <2>3. Asked'
    BY <1>12, <2>2, GoesOn DEF UpdateCounts, UsersStay
  <2> QED BY <1>12, <2>3 DEF UpdateCounts, Tables
<1>13. ASSUME NEW q \in Requests, NEW t \in Tokens, NEW by \in Names, NEW n \in Names,
              CreateArrives(q, t, by, n)
       PROVE  Goal
  <2>1. PICK admin \in BOOLEAN, p \in Passwords :
          Goes(q, [At("creating") EXCEPT !.by = by, !.name = n, !.copy =
                     [admin |-> admin, active |-> TRUE, password |-> p]])
    BY <1>13 DEF CreateArrives
  <2> DEFINE r == [At("creating") EXCEPT !.by = by, !.name = n, !.copy =
                     [admin |-> admin, active |-> TRUE, password |-> p]]
  <2>2. RequestOK(r) /\ r.stage \notin Known
    BY DEF RequestOK, Request, Stages, User, Known
  <2>3. Asked'
    BY <1>13, <2>1, <2>2, GoesOn DEF CreateArrives, UsersStay
  <2> QED BY <1>13, <2>3 DEF CreateArrives, Tables
<1>14. ASSUME NEW q \in Requests, CreateInserts(q) PROVE Goal
  <2>1. request[q].name \in Names /\ request[q].copy \in User
    BY <1>14 DEF CreateInserts, Asked, RequestOK
  <2>2. Tables' /\ UsersStay
    BY <1>14, <2>1, NoUserAssumption DEF CreateInserts, Tables, UsersStay
  <2>3. Asked'
    BY <1>14, <2>2, DoneOK, GoesOn DEF CreateInserts
  <2> QED BY <2>2, <2>3
<1>15. ASSUME NEW q \in Requests, SaveUser(q) PROVE Goal
  <2> DEFINE r == request[q]
             s == IF r.stage = "opened" THEN [r EXCEPT !.stage = "greeting"]
                  ELSE IF Revokes(r) THEN [r EXCEPT !.stage = "revoking"]
                  ELSE At("done")
  <2>1. r \in Request /\ r.name \in Names /\ r.copy \in User
    BY <1>15 DEF SaveUser, Asked, RequestOK
  <2>2. Tables' /\ UsersStay
    BY <1>15, <2>1, NoUserAssumption DEF SaveUser, Tables, UsersStay
  <2>3. RequestOK(s) /\ s.stage \notin Known
    BY <2>1, DoneOK DEF RequestOK, Request, Stages, Known
  <2>4. Asked'
    BY <1>15, <2>2, <2>3, GoesOn DEF SaveUser
  <2> QED BY <2>2, <2>4
<1>16. ASSUME NEW q \in Requests, RevokeSessions(q) PROVE Goal
  <2>1. Asked'
    BY <1>16, DoneOK, GoesOn DEF RevokeSessions, UsersStay
  <2> QED BY <1>16, <2>1 DEF RevokeSessions, Tables
<1>17. ASSUME NEW t \in Tokens, Expire(t) PROVE Goal
  BY <1>17 DEF Expire, Tables, Asked, RequestOK, Knows
<1>18. ASSUME CutOff PROVE Goal
  <2>1. PICK S \in {{q} : q \in Open} \cup {Open} :
          /\ request' = [q \in Requests |-> IF q \in S THEN At("done") ELSE request[q]]
          /\ loose' = loose \cup
               {request[q].name : q \in {k \in S : request[k].stage = "revoking"}}
    BY <1>18 DEF CutOff
  <2>2. \A k \in S : request[k].stage = "revoking" => request[k].name \in Names
    BY <2>1 DEF Open, Asked, RequestOK
  <2>3. Tables'
    BY <1>18, <2>1, <2>2 DEF CutOff, Tables
  <2>4. \A k \in Requests : request'[k] = At("done") \/ request'[k] = request[k]
    BY <2>1
  <2>5. RequestOK(At("done")) /\ At("done") \in Request
    BY DoneOK DEF RequestOK
  <2>6. Asked'
    BY <1>18, <2>1, <2>4, <2>5, DoneOK DEF CutOff, Asked, RequestOK, Knows
  <2> QED BY <2>3, <2>6
<1>19. ASSUME UNCHANGED vars PROVE Goal
  BY <1>19 DEF vars, Tables, Asked, RequestOK, Knows
<1> QED BY <1>1, <1>2, <1>3, <1>4, <1>5, <1>6, <1>7, <1>8, <1>9, <1>10, <1>11, <1>12,
          <1>13, <1>14, <1>15, <1>16, <1>17, <1>18, <1>19 DEF Next

LEMMA PartsType == Tables /\ Asked => TypeOK
BY TypeParts

(* Every table, request and history variable of Users keeps to its type.   *)
THEOREM UsersTypeCorrect == Spec => []TypeOK
<1>1. Tables /\ Asked /\ [Next]_vars => (Tables /\ Asked)'
  BY StepTyped
<1> QED BY InitTyped, <1>1, PartsType, PTL DEF Spec

----------------------------------------------------------------------------
(* An administrator remains.  What a request has counted must leave one    *)
(* besides the user it dismisses; a login and a profile have counted none. *)
Careful(r) ==
  /\ r.stage \in {"counted", "verified", "opened"} => r.admins = {}
  /\ r.stage = "edited" => ~LastOne(r, r.admins)

AllCareful == \A q \in Requests : Careful(request[q])

(* Who creates users is one.                                               *)
Staffed == \A q \in Requests : request[q].stage = "creating" => Present # {}

AdminInv == AllCareful /\ Staffed /\ AdminRemains

LEMMA GoesCarefully ==
  ASSUME Asked, AllCareful, Staffed, NEW q \in Requests, NEW r, Goes(q, r), Careful(r), UsersStay,
         r.stage = "creating" => Present # {}
  PROVE  AllCareful' /\ Staffed'
<1>1. \A k \in Requests : request'[k] = IF k = q THEN r ELSE request[k]
  BY DEF Asked
<1>2. Present # {} => Present' # {}
  BY DEF Present, UsersStay
<1>3. AllCareful'
  BY <1>1 DEF AllCareful, Careful, LastOne, Dismisses
<1> QED BY <1>1, <1>2, <1>3 DEF Staffed

(* Steps that leave the users as they are.                                 *)
LEMMA SameUsers ==
  ASSUME AdminInv, Asked, UNCHANGED <<users, unseen>>, NEW q \in Requests, NEW r, Goes(q, r),
         Careful(r), r.stage = "creating" => Present # {}
  PROVE  AdminInv'
<1>1. UsersStay /\ AdminRemains'
  BY DEF UsersStay, AdminInv, AdminRemains, ActiveAdmins, Present
<1> QED BY <1>1, GoesCarefully DEF AdminInv

LEMMA SaveKeepsAdmin ==
  ASSUME Tables, Asked, AdminInv, NEW q \in Requests, SaveUser(q)
  PROVE  AdminRemains'
<1> DEFINE r == request[q]
           n == r.name
<1>1. n \in Names /\ r.copy \in User /\ r.copy # NoUser /\ users[n] # NoUser
  BY NoUserAssumption DEF SaveUser, Asked, RequestOK, Knows, Known
<1>2. users' = [users EXCEPT ![n] = r.copy]
  BY DEF SaveUser
<1>3. \A m \in Names : users'[m] = IF m = n THEN r.copy ELSE users[m]
  BY <1>1, <1>2 DEF Tables
<1>4. n \in Present
  BY <1>1 DEF Present
<1>5. unseen \/ ActiveAdmins # {}
  BY <1>4 DEF AdminInv, AdminRemains
<1>6. unseen' = (unseen \/ (n \in ActiveAdmins /\ Dismisses(r) /\ r.admins # ActiveAdmins))
  BY DEF SaveUser
<1>7. ActiveAdmins \ {n} \subseteq ActiveAdmins'
  BY <1>3 DEF ActiveAdmins, Present
<1>8. CASE ~Dismisses(r)
  <2>1. n \in ActiveAdmins'
    BY <1>1, <1>3, <1>8 DEF Dismisses, ActiveAdmins, Present
  <2> QED BY <2>1 DEF AdminRemains
<1>9. CASE Dismisses(r) /\ r.admins = ActiveAdmins
  <2>1. r.stage \in {"opened", "edited"} /\ Careful(r)
    BY DEF SaveUser, AdminInv, AllCareful
  <2>2. ActiveAdmins # {n}
    BY <1>9, <2>1 DEF Careful, LastOne
  <2>3. unseen \/ ActiveAdmins' # {}
    BY <1>5, <1>7, <2>2
  <2> QED BY <1>6, <2>3 DEF AdminRemains
<1>10. CASE r.admins # ActiveAdmins
  <2>1. CASE n \in ActiveAdmins /\ Dismisses(r)
    BY <1>6, <1>10, <2>1 DEF AdminRemains
  <2>2. CASE n \notin ActiveAdmins
    BY <1>5, <1>6, <1>7, <2>2 DEF AdminRemains
  <2> QED BY <1>8, <2>1, <2>2
<1> QED BY <1>8, <1>9, <1>10

LEMMA AdminStep ==
  ASSUME Tables, Asked, AdminInv, [Next]_vars
  PROVE  AdminInv'
<1> USE DEF AdminInv
<1>1. ASSUME NEW n \in Names, Bootstrap(n) PROVE AdminInv'
  <2>1. PICK p \in Passwords :
          users' = [users EXCEPT ![n] = [admin |-> TRUE, active |-> TRUE, password |-> p]]
    BY <1>1 DEF Bootstrap
  <2> DEFINE first == [admin |-> TRUE, active |-> TRUE, password |-> p]
  <2>2. first # NoUser
    <3>1. first \in User
      BY DEF User
    <3> QED BY <3>1, NoUserAssumption
  <2>3. n \in ActiveAdmins' /\ n \in Present'
    <3>1. users'[n] = first
      BY <2>1 DEF Tables
    <3>2. first.admin /\ first.active
      OBVIOUS
    <3> HIDE DEF first
    <3> QED BY <2>2, <3>1, <3>2 DEF ActiveAdmins, Present, first
  <2>4. AllCareful' /\ Staffed'
    BY <1>1, <2>3 DEF Bootstrap, AllCareful, Careful, LastOne, Dismisses, Staffed
  <2> QED BY <2>3, <2>4 DEF AdminRemains
<1>2. ASSUME NEW q \in Requests, NEW n \in Names, LoginCounts(q, n) PROVE AdminInv'
  BY <1>2, SameUsers DEF LoginCounts, Careful
<1>3. ASSUME NEW q \in Requests, NEW p \in Passwords, LoginReads(q, p) PROVE AdminInv'
  <2> DEFINE r == request[q]
             s == IF Admitted(r, p)
                  THEN [r EXCEPT !.stage = "verified", !.by = r.name,
                                 !.base = users[r.name], !.copy = users[r.name]]
                  ELSE [r EXCEPT !.stage = "guessed"]
  <2>1. r.admins = {} /\ r \in Request
    BY <1>3 DEF LoginReads, AllCareful, Careful, Asked
  <2>2. Careful(s) /\ s.stage # "creating"
    BY <2>1 DEF Request, Careful
  <2> QED BY <1>3, <2>2, SameUsers DEF LoginReads
<1>4. ASSUME NEW q \in Requests, LoginOpens(q) PROVE AdminInv'
  <2> DEFINE s == [request[q] EXCEPT !.stage = "opened"]
  <2>1. request[q].admins = {} /\ request[q] \in Request
    BY <1>4 DEF LoginOpens, AllCareful, Careful, Asked
  <2>2. Careful(s) /\ s.stage # "creating"
    BY <2>1 DEF Request, Careful
  <2> QED BY <1>4, <2>2, SameUsers DEF LoginOpens
<1>5. ASSUME NEW q \in Requests, LoginFails(q) \/ LoginSucceeds(q) \/ RevokeSessions(q)
      PROVE  AdminInv'
  BY <1>5, SameUsers DEF LoginFails, LoginSucceeds, RevokeSessions, Careful
<1>6. ASSUME NEW q \in Requests, NEW t \in Tokens, NEW n \in Names, ProfileReads(q, t, n)
      PROVE  AdminInv'
  <2>1. PICK p \in Passwords :
          Goes(q, [At("edited") EXCEPT !.by = n, !.name = n, !.base = users[n],
                     !.copy = [users[n] EXCEPT !.password = p]])
    BY <1>6 DEF ProfileReads
  <2> DEFINE r == [At("edited") EXCEPT !.by = n, !.name = n, !.base = users[n],
                     !.copy = [users[n] EXCEPT !.password = p]]
  <2>2. Careful(r) /\ r.stage # "creating"
    BY DEF Careful, LastOne
  <2> QED BY <1>6, <2>1, <2>2, SameUsers DEF ProfileReads
<1>7. ASSUME NEW q \in Requests, NEW t \in Tokens, NEW by \in Names, NEW n \in Names,
             UpdateArrives(q, t, by, n)
      PROVE  AdminInv'
  BY <1>7, SameUsers DEF UpdateArrives, Careful
<1>8. ASSUME NEW q \in Requests, UpdateReads(q) PROVE AdminInv'
  <2> DEFINE r == request[q]
  <2>1. PICK copy \in User :
          Goes(q, [r EXCEPT !.stage = "read", !.base = users[r.name], !.copy = copy])
    BY <1>8 DEF UpdateReads
  <2> DEFINE s == [r EXCEPT !.stage = "read", !.base = users[r.name], !.copy = copy]
  <2>2. s.stage = "read"
    BY DEF Asked, Request
  <2>3. Careful(s) /\ s.stage # "creating"
    BY <2>2 DEF Careful
  <2> QED BY <1>8, <2>1, <2>3, SameUsers DEF UpdateReads
<1>9. ASSUME NEW q \in Requests, UpdateCounts(q) PROVE AdminInv'
  <2> DEFINE r == request[q]
             s == IF LastOne(r, ActiveAdmins) THEN At("done")
                  ELSE [r EXCEPT !.stage = "edited", !.admins = ActiveAdmins]
  <2>1. r \in Request
    BY DEF Asked
  <2>2. Careful(s) /\ s.stage # "creating"
    BY <2>1 DEF Careful, LastOne, Dismisses, Request
  <2> QED BY <1>9, <2>2, SameUsers DEF UpdateCounts
<1>10. ASSUME NEW q \in Requests, NEW t \in Tokens, NEW by \in Names, NEW n \in Names,
              CreateArrives(q, t, by, n)
       PROVE  AdminInv'
  <2>1. PICK admin \in BOOLEAN, p \in Passwords :
          Goes(q, [At("creating") EXCEPT !.by = by, !.name = n, !.copy =
                     [admin |-> admin, active |-> TRUE, password |-> p]])
    BY <1>10 DEF CreateArrives
  <2> DEFINE r == [At("creating") EXCEPT !.by = by, !.name = n, !.copy =
                     [admin |-> admin, active |-> TRUE, password |-> p]]
  <2>2. Careful(r) /\ Present # {}
    BY <1>10 DEF Careful, CreateArrives, Present
  <2> QED BY <1>10, <2>1, <2>2, SameUsers DEF CreateArrives
<1>11. ASSUME NEW q \in Requests, CreateInserts(q) PROVE AdminInv'
  <2>1. request[q].name \in Names /\ request[q].copy # NoUser /\ Present # {}
    BY <1>11, NoUserAssumption DEF CreateInserts, Asked, RequestOK, Staffed
  <2>2. \A n \in Names : users[n] # NoUser => users'[n] = users[n]
    BY <1>11, <2>1 DEF CreateInserts, Tables
  <2>3. UsersStay /\ ActiveAdmins \subseteq ActiveAdmins'
    BY <2>2 DEF UsersStay, ActiveAdmins, Present
  <2>4. AdminRemains'
    BY <1>11, <2>1, <2>3 DEF AdminRemains, CreateInserts
  <2>5. Careful(At("done"))
    BY DEF Careful
  <2> QED BY <1>11, <2>3, <2>4, <2>5, GoesCarefully DEF CreateInserts
<1>12. ASSUME NEW q \in Requests, SaveUser(q) PROVE AdminInv'
  <2> DEFINE r == request[q]
             s == IF r.stage = "opened" THEN [r EXCEPT !.stage = "greeting"]
                  ELSE IF Revokes(r) THEN [r EXCEPT !.stage = "revoking"]
                  ELSE At("done")
  <2>1. r \in Request /\ r.name \in Names /\ r.copy \in User
    BY <1>12 DEF SaveUser, Asked, RequestOK
  <2>2. UsersStay
    BY <1>12, <2>1, NoUserAssumption DEF SaveUser, Tables, UsersStay
  <2>3. s.stage \in {"greeting", "revoking", "done"}
    BY <2>1 DEF Request
  <2>4. Goes(q, s)
    BY <1>12 DEF SaveUser
  <2> HIDE DEF s
  <2>5. Careful(s) /\ s.stage # "creating"
    BY <2>3 DEF Careful
  <2> QED BY <1>12, <2>2, <2>4, <2>5, GoesCarefully, SaveKeepsAdmin
<1>13. ASSUME CutOff PROVE AdminInv'
  <2>1. \A k \in Requests : request'[k] = At("done") \/ request'[k] = request[k]
    BY <1>13 DEF CutOff
  <2>2. AllCareful' /\ Staffed'
    BY <1>13, <2>1 DEF CutOff, AllCareful, Careful, LastOne, Dismisses, Staffed, Present
  <2> QED BY <1>13, <2>2 DEF CutOff, AdminRemains, ActiveAdmins, Present
<1>14. ASSUME UNCHANGED <<users, unseen, request>> PROVE AdminInv'
  BY <1>14 DEF AllCareful, Careful, LastOne, Dismisses, Staffed, AdminRemains, ActiveAdmins, Present
<1>15. ASSUME NEW t \in Tokens, NEW n \in Names, Logout(t, n) PROVE AdminInv'
  BY <1>14, <1>15 DEF Logout
<1>16. ASSUME NEW n \in Names, Ages(n) PROVE AdminInv'
  BY <1>14, <1>16 DEF Ages
<1>17. ASSUME NEW t \in Tokens, Expire(t) PROVE AdminInv'
  BY <1>14, <1>17 DEF Expire
<1>18. CASE UNCHANGED vars
  BY <1>14, <1>18 DEF vars
<1> QED BY <1>1, <1>2, <1>3, <1>4, <1>5, <1>6, <1>7, <1>8, <1>9, <1>10, <1>11, <1>12,
          <1>13, <1>15, <1>16, <1>17, <1>18 DEF Next

(* There is an active administrator as long as no request removes one by a *)
(* count or a copy that is out of date.                                    *)
THEOREM AnAdminRemains == Spec => []AdminRemains
<1>1. Init => AdminInv
  BY DEF Init, AdminInv, AllCareful, Careful, Staffed, AdminRemains
<1>2. Tables /\ Asked /\ AdminInv /\ [Next]_vars => (Tables /\ Asked /\ AdminInv)'
  BY StepTyped, AdminStep
<1>3. AdminInv => AdminRemains
  BY DEF AdminInv
<1> QED BY InitTyped, <1>1, <1>2, <1>3, PTL DEF Spec

----------------------------------------------------------------------------
(* Sessions are current.  A login keeps to the row it has read, of a user  *)
(* who was active.                                                         *)
KeepsBase(r) ==
  r.stage \in {"verified", "opened"} => r.copy = r.base /\ r.base.active

AllKeepBase == \A q \in Requests : KeepsBase(request[q])

SessionInv == AllKeepBase /\ SessionsAreCurrent

LEMMA GoesKeeping ==
  ASSUME Asked, AllKeepBase, NEW q \in Requests, NEW r, Goes(q, r), KeepsBase(r)
  PROVE  AllKeepBase'
BY DEF Asked, AllKeepBase, KeepsBase

(* Steps that leave users and sessions as they are, and no revocation out. *)
LEMMA SameSessions ==
  ASSUME SessionInv, Asked, UNCHANGED <<users, loose>>, NEW q \in Requests, NEW r, Goes(q, r),
         KeepsBase(r), request[q].stage # "revoking",
         \A t \in Tokens : sessions'[t] \in {sessions[t], NoSession}
  PROVE  SessionInv'
<1>1. \A k \in Requests : request[k].stage = "revoking" => request'[k] = request[k]
  BY DEF Asked
<1>2. SessionsAreCurrent'
  BY <1>1 DEF SessionInv, SessionsAreCurrent, Current
<1> QED BY <1>2, GoesKeeping DEF SessionInv

LEMMA SaveKeepsSessions ==
  ASSUME Tables, Asked, SessionInv, NEW q \in Requests, SaveUser(q)
  PROVE  SessionsAreCurrent'
<1> DEFINE r == request[q]
           n == r.name
<1>1. n \in Names /\ r.copy \in User /\ r.copy # NoUser /\ users[n] # NoUser /\ r \in Request
  BY NoUserAssumption DEF SaveUser, Asked, RequestOK, Knows, Known
<1>2. \A m \in Names : users'[m] = IF m = n THEN r.copy ELSE users[m]
  BY <1>1 DEF SaveUser, Tables
<1>3. \A k \in Requests : request[k].stage = "revoking" => request'[k] = request[k]
  BY DEF SaveUser, Asked
<1>4. sessions' = sessions /\ loose \subseteq loose'
  BY DEF SaveUser
<1> SUFFICES ASSUME NEW t \in Tokens, sessions[t] # NoSession
             PROVE  \/ Current(t)'
                    \/ sessions[t].name \in loose'
                    \/ \E k \in Requests :
                         request'[k].stage = "revoking" /\ request'[k].name = sessions[t].name
  BY <1>4 DEF SessionsAreCurrent
<1>5. sessions[t].name \in Names
  BY DEF Tables, Session
<1>6. CASE ~Current(t) \/ sessions[t].name # n
  BY <1>1, <1>2, <1>3, <1>4, <1>5, <1>6 DEF SessionInv, SessionsAreCurrent, Current
<1>7. CASE sessions[t].name = n /\ Current(t)
  <2>1. users[n].password = sessions[t].password
    BY <1>7 DEF Current
  <2>2. CASE r.stage = "edited" /\ Revokes(r)
    <3>1. request'[q] = [r EXCEPT !.stage = "revoking"]
      BY <2>2 DEF SaveUser, Asked
    <3>2. request'[q].stage = "revoking" /\ request'[q].name = n
      BY <1>1, <3>1 DEF Request
    <3> QED BY <1>7, <3>2
  <2>3. CASE r.stage = "opened" \/ ~Revokes(r)
    <3>1. r.stage \in {"opened", "edited"}
      BY DEF SaveUser
    <3>2. r.copy.active /\ ~SetsPassword(r)
      BY <2>3, <3>1 DEF Revokes, SetsPassword, SessionInv, AllKeepBase, KeepsBase
    <3>3. CASE r.copy.password = users[n].password
      <4>1. users'[n] = r.copy
        BY <1>1, <1>2
      <4> QED BY <1>1, <1>4, <1>7, <2>1, <3>2, <3>3, <4>1 DEF Current
    <3>4. CASE r.copy.password # users[n].password
      BY <1>1, <1>7, <3>2, <3>4 DEF SaveUser
    <3> QED BY <3>3, <3>4
  <2>4. r.stage \in {"opened", "edited"}
    BY DEF SaveUser
  <2> QED BY <2>2, <2>3, <2>4
<1> QED BY <1>6, <1>7

LEMMA OpenKeepsSessions ==
  ASSUME Tables, Asked, SessionInv, NEW q \in Requests, LoginOpens(q)
  PROVE  SessionsAreCurrent'
<1> DEFINE r == request[q]
           n == r.name
<1>1. n \in Names /\ users[n] # NoUser /\ r.base \in User
  BY DEF LoginOpens, Asked, RequestOK, Knows, Known
<1>2. PICK o \in Tokens :
        sessions' = [sessions EXCEPT ![o] = [name |-> n, password |-> r.base.password]]
  BY DEF LoginOpens
<1>3. \A k \in Requests : request[k].stage = "revoking" => request'[k] = request[k]
  BY DEF LoginOpens, Asked
<1>4. users' = users /\ loose \subseteq loose'
  BY DEF LoginOpens
<1> SUFFICES ASSUME NEW t \in Tokens, sessions'[t] # NoSession
             PROVE  \/ Current(t)'
                    \/ sessions'[t].name \in loose'
                    \/ \E k \in Requests :
                         request'[k].stage = "revoking" /\ request'[k].name = sessions'[t].name
  BY DEF SessionsAreCurrent
<1>5. CASE t = o
  <2>1. sessions'[t] = [name |-> n, password |-> r.base.password]
    BY <1>2, <1>5 DEF Tables
  <2>2. CASE users[n].active /\ users[n].password = r.base.password
    BY <1>1, <1>4, <2>1, <2>2 DEF Current
  <2>3. CASE ~(users[n].active /\ users[n].password = r.base.password)
    <3>1. n \in loose'
      BY <2>3 DEF LoginOpens
    <3> QED BY <2>1, <3>1
  <2> QED BY <2>2, <2>3
<1>6. CASE t # o
  <2>1. sessions'[t] = sessions[t]
    BY <1>2, <1>6 DEF Tables
  <2> QED BY <1>3, <1>4, <2>1 DEF SessionInv, SessionsAreCurrent, Current
<1> QED BY <1>5, <1>6

LEMMA SessionStep ==
  ASSUME Tables, Asked, SessionInv, [Next]_vars
  PROVE  SessionInv'
<1>1. ASSUME NEW n \in Names, Bootstrap(n) PROVE SessionInv'
  <2>1. users[n] = NoUser
    BY <1>1 DEF Bootstrap, Present
  <2>2. \A m \in Names : m # n => users'[m] = users[m]
    BY <1>1 DEF Bootstrap, Tables
  <2>3. \A t \in Tokens : sessions[t] # NoSession => sessions[t].name \in Names
    BY DEF Tables, Session
  <2>4. SessionsAreCurrent'
    BY <1>1, <2>1, <2>2, <2>3 DEF Bootstrap, SessionInv, SessionsAreCurrent, Current
  <2> QED BY <1>1, <2>4 DEF Bootstrap, SessionInv, AllKeepBase, KeepsBase
<1>2. ASSUME NEW q \in Requests, NEW n \in Names, LoginCounts(q, n) PROVE SessionInv'
  BY <1>2, SameSessions DEF LoginCounts, KeepsBase
<1>3. ASSUME NEW q \in Requests, NEW p \in Passwords, LoginReads(q, p) PROVE SessionInv'
  <2> DEFINE r == request[q]
             s == IF Admitted(r, p)
                  THEN [r EXCEPT !.stage = "verified", !.by = r.name,
                                 !.base = users[r.name], !.copy = users[r.name]]
                  ELSE [r EXCEPT !.stage = "guessed"]
  <2>1. r \in Request /\ r.stage = "counted"
    BY <1>3 DEF LoginReads, Asked
  <2>2. KeepsBase(s)
    BY <2>1 DEF Request, KeepsBase, Admitted
  <2> QED BY <1>3, <2>1, <2>2, SameSessions DEF LoginReads
<1>4. ASSUME NEW q \in Requests, LoginOpens(q) PROVE SessionInv'
  <2> DEFINE s == [request[q] EXCEPT !.stage = "opened"]
  <2>1. request[q] \in Request /\ KeepsBase(request[q]) /\ request[q].stage = "verified"
    BY <1>4 DEF LoginOpens, Asked, SessionInv, AllKeepBase
  <2>2. KeepsBase(s)
    BY <2>1 DEF Request, KeepsBase
  <2>3. AllKeepBase'
    BY <1>4, <2>2, GoesKeeping DEF LoginOpens, SessionInv
  <2> QED BY <1>4, <2>3, OpenKeepsSessions DEF SessionInv
<1>5. ASSUME NEW q \in Requests, LoginFails(q) \/ LoginSucceeds(q) PROVE SessionInv'
  BY <1>5, SameSessions DEF LoginFails, LoginSucceeds, KeepsBase
<1>6. ASSUME NEW q \in Requests, NEW t \in Tokens, NEW n \in Names, ProfileReads(q, t, n)
      PROVE  SessionInv'
  <2>1. PICK p \in Passwords :
          Goes(q, [At("edited") EXCEPT !.by = n, !.name = n, !.base = users[n],
                     !.copy = [users[n] EXCEPT !.password = p]])
    BY <1>6 DEF ProfileReads
  <2> DEFINE r == [At("edited") EXCEPT !.by = n, !.name = n, !.base = users[n],
                     !.copy = [users[n] EXCEPT !.password = p]]
  <2>2. KeepsBase(r)
    BY DEF KeepsBase
  <2> QED BY <1>6, <2>1, <2>2, SameSessions DEF ProfileReads
<1>7. ASSUME NEW q \in Requests, NEW t \in Tokens, NEW by \in Names, NEW n \in Names,
             UpdateArrives(q, t, by, n)
      PROVE  SessionInv'
  BY <1>7, SameSessions DEF UpdateArrives, KeepsBase
<1>8. ASSUME NEW q \in Requests, UpdateReads(q) PROVE SessionInv'
  <2> DEFINE r == request[q]
  <2>1. PICK copy \in User :
          Goes(q, [r EXCEPT !.stage = "read", !.base = users[r.name], !.copy = copy])
    BY <1>8 DEF UpdateReads
  <2> DEFINE s == [r EXCEPT !.stage = "read", !.base = users[r.name], !.copy = copy]
  <2>2. s.stage = "read"
    BY DEF Asked, Request
  <2>3. KeepsBase(s)
    BY <2>2 DEF KeepsBase
  <2> QED BY <1>8, <2>1, <2>3, SameSessions DEF UpdateReads
<1>9. ASSUME NEW q \in Requests, UpdateCounts(q) PROVE SessionInv'
  <2> DEFINE r == request[q]
             s == IF LastOne(r, ActiveAdmins) THEN At("done")
                  ELSE [r EXCEPT !.stage = "edited", !.admins = ActiveAdmins]
  <2>1. r \in Request
    BY DEF Asked
  <2>2. KeepsBase(s)
    BY <2>1 DEF KeepsBase, Request
  <2> QED BY <1>9, <2>2, SameSessions DEF UpdateCounts
<1>10. ASSUME NEW q \in Requests, NEW t \in Tokens, NEW by \in Names, NEW n \in Names,
              CreateArrives(q, t, by, n)
       PROVE  SessionInv'
  <2>1. PICK admin \in BOOLEAN, p \in Passwords :
          Goes(q, [At("creating") EXCEPT !.by = by, !.name = n, !.copy =
                     [admin |-> admin, active |-> TRUE, password |-> p]])
    BY <1>10 DEF CreateArrives
  <2> DEFINE r == [At("creating") EXCEPT !.by = by, !.name = n, !.copy =
                     [admin |-> admin, active |-> TRUE, password |-> p]]
  <2>2. KeepsBase(r)
    BY DEF KeepsBase
  <2> QED BY <1>10, <2>1, <2>2, SameSessions DEF CreateArrives
<1>11. ASSUME NEW q \in Requests, CreateInserts(q) PROVE SessionInv'
  <2>1. request[q].name \in Names
    BY <1>11 DEF CreateInserts, Asked, RequestOK
  <2>2. \A m \in Names : users[m] # NoUser => users'[m] = users[m]
    BY <1>11, <2>1 DEF CreateInserts, Tables
  <2>3. \A t \in Tokens : sessions[t] # NoSession => sessions[t].name \in Names
    BY DEF Tables, Session
  <2>4. \A k \in Requests : request[k].stage = "revoking" => request'[k] = request[k]
    BY <1>11 DEF CreateInserts, Asked
  <2>5. SessionsAreCurrent'
    BY <1>11, <2>2, <2>3, <2>4 DEF CreateInserts, SessionInv, SessionsAreCurrent, Current
  <2>6. AllKeepBase'
    BY <1>11, GoesKeeping DEF CreateInserts, SessionInv, KeepsBase
  <2> QED BY <2>5, <2>6 DEF SessionInv
<1>12. ASSUME NEW q \in Requests, SaveUser(q) PROVE SessionInv'
  <2> DEFINE r == request[q]
             s == IF r.stage = "opened" THEN [r EXCEPT !.stage = "greeting"]
                  ELSE IF Revokes(r) THEN [r EXCEPT !.stage = "revoking"]
                  ELSE At("done")
  <2>1. s.stage \in {"greeting", "revoking", "done"}
    BY DEF Request, Asked
  <2>2. Goes(q, s)
    BY <1>12 DEF SaveUser
  <2> HIDE DEF s
  <2>3. KeepsBase(s)
    BY <2>1 DEF KeepsBase
  <2>4. AllKeepBase'
    BY <2>2, <2>3, GoesKeeping DEF SessionInv
  <2> QED BY <1>12, <2>4, SaveKeepsSessions DEF SessionInv
<1>13. ASSUME NEW q \in Requests, RevokeSessions(q) PROVE SessionInv'
  <2>1. \A k \in Requests : k # q => request'[k] = request[k]
    BY <1>13 DEF RevokeSessions, Asked
  <2>2. \A t \in Tokens : sessions'[t] # NoSession =>
          sessions'[t] = sessions[t] /\ sessions[t].name # request[q].name
    BY <1>13 DEF RevokeSessions
  <2>3. SessionsAreCurrent'
    BY <1>13, <2>1, <2>2 DEF RevokeSessions, SessionInv, SessionsAreCurrent, Current
  <2>4. AllKeepBase'
    BY <1>13, GoesKeeping DEF RevokeSessions, SessionInv, KeepsBase
  <2> QED BY <2>3, <2>4 DEF SessionInv
<1>14. ASSUME CutOff PROVE SessionInv'
  <2>1. PICK S \in {{q} : q \in Open} \cup {Open} :
          /\ request' = [q \in Requests |-> IF q \in S THEN At("done") ELSE request[q]]
          /\ loose' = loose \cup
               {request[q].name : q \in {k \in S : request[k].stage = "revoking"}}
    BY <1>14 DEF CutOff
  <2>2. \A k \in Requests :
          \/ request'[k] = request[k]
          \/ request'[k] = At("done")
             /\ (request[k].stage = "revoking" => request[k].name \in loose')
    BY <2>1
  <2>3. loose \subseteq loose'
    BY <2>1
  <2>4. SessionsAreCurrent'
    BY <1>14, <2>2, <2>3 DEF CutOff, SessionInv, SessionsAreCurrent, Current
  <2>5. AllKeepBase'
    BY <2>2 DEF SessionInv, AllKeepBase, KeepsBase
  <2> QED BY <2>4, <2>5 DEF SessionInv
<1>15. ASSUME UNCHANGED <<users, loose, request>>,
              \A t \in Tokens : sessions'[t] \in {sessions[t], NoSession}
       PROVE  SessionInv'
  BY <1>15 DEF SessionInv, AllKeepBase, KeepsBase, SessionsAreCurrent, Current
<1>16. ASSUME NEW t \in Tokens, NEW n \in Names, Logout(t, n) PROVE SessionInv'
  BY <1>15, <1>16 DEF Logout, Tables
<1>17. ASSUME NEW n \in Names, Ages(n) PROVE SessionInv'
  BY <1>15, <1>17 DEF Ages
<1>18. ASSUME NEW t \in Tokens, Expire(t) PROVE SessionInv'
  BY <1>15, <1>18 DEF Expire, Tables
<1>19. CASE UNCHANGED vars
  BY <1>15, <1>19 DEF vars
<1> QED BY <1>1, <1>2, <1>3, <1>4, <1>5, <1>6, <1>7, <1>8, <1>9, <1>10, <1>11, <1>12,
          <1>13, <1>14, <1>16, <1>17, <1>18, <1>19 DEF Next

(* Every session belongs to an active user and was opened with his present *)
(* password, but for revocations under way or cut off and for what was     *)
(* written from rows read before.                                          *)
THEOREM SessionsStayCurrent == Spec => []SessionsAreCurrent
<1>1. Init => SessionInv
  BY DEF Init, SessionInv, AllKeepBase, KeepsBase, SessionsAreCurrent, Current
<1>2. Tables /\ Asked /\ SessionInv /\ [Next]_vars => (Tables /\ Asked /\ SessionInv)'
  BY StepTyped, SessionStep
<1>3. SessionInv => SessionsAreCurrent
  BY DEF SessionInv
<1> QED BY InitTyped, <1>1, <1>2, <1>3, PTL DEF Spec

----------------------------------------------------------------------------
(* Guesses are bounded.  Those that are entered and those of the logins    *)
(* that have counted and not yet entered theirs make up one bound: a login *)
(* counts when the entries are below the limit, and at most MaxOpen        *)
(* requests are under way.                                                 *)
Guesses(n) == {i \in DOMAIN failures[n] : failures[n][i] = "guessed"}

Pending(n) ==
  {q \in Requests : request[q].stage \in {"counted", "guessed"} /\ request[q].name = n}

FewOpen == IsFiniteSet(Open) /\ Cardinality(Open) <= MaxOpen

GuessInv ==
  /\ FewOpen
  /\ \A n \in Names :
       Cardinality(Guesses(n)) + Cardinality(Pending(n)) < MaxFailures + MaxOpen

LEMMA LimitsTyped == MaxOpen \in Nat /\ MaxFailures \in Nat /\ MaxFailures > 0
BY UsersAssumption

LEMMA SmallerSet ==
  ASSUME NEW S, IsFiniteSet(S), NEW T, T \subseteq S
  PROVE  /\ IsFiniteSet(T) /\ Cardinality(T) \in Nat /\ Cardinality(S) \in Nat
         /\ Cardinality(T) <= Cardinality(S)
BY FS_Subset, FS_CardinalityType

(* The entries of a name are as many as its sequence is long, at most.     *)
LEMMA GuessesTyped ==
  ASSUME Tables, NEW n \in Names
  PROVE  /\ IsFiniteSet(Guesses(n)) /\ Cardinality(Guesses(n)) \in Nat
         /\ Cardinality(Guesses(n)) <= Len(failures[n]) /\ Len(failures[n]) \in Nat
         /\ DOMAIN failures[n] = 1 .. Len(failures[n])
<1>1. failures[n] \in Seq({"guessed", "limited"})
  BY DEF Tables
<1>2. Len(failures[n]) \in Nat /\ DOMAIN failures[n] = 1 .. Len(failures[n])
  BY <1>1
<1> DEFINE k == Len(failures[n])
<1> HIDE DEF k
<1>3. IsFiniteSet(1 .. k) /\ Cardinality(1 .. k) = k
  BY <1>2, FS_Interval DEF k
<1>4. Guesses(n) \subseteq 1 .. k
  BY <1>2 DEF Guesses, k
<1> QED BY <1>2, <1>3, <1>4, SmallerSet DEF k

LEMMA PendingTyped ==
  ASSUME FewOpen, NEW n
  PROVE  /\ IsFiniteSet(Pending(n)) /\ Cardinality(Pending(n)) \in Nat
         /\ Cardinality(Pending(n)) <= MaxOpen
<1>1. Pending(n) \subseteq Open
  BY DEF Pending, Open
<1>2. /\ IsFiniteSet(Pending(n)) /\ Cardinality(Pending(n)) \in Nat
      /\ Cardinality(Open) \in Nat /\ Cardinality(Pending(n)) <= Cardinality(Open)
  BY <1>1, SmallerSet DEF FewOpen
<1> QED
  BY <1>2, LimitsTyped DEF FewOpen

LEMMA OpenStays ==
  ASSUME Asked, FewOpen, NEW q \in Requests, NEW r, Goes(q, r), q \in Open \/ Arrives(q)
  PROVE  FewOpen'
<1>1. Open' \subseteq Open \cup {q}
  BY DEF Asked, Open
<1>2. /\ IsFiniteSet(Open \cup {q}) /\ Cardinality(Open) \in Nat
      /\ Cardinality(Open \cup {q}) = IF q \in Open THEN Cardinality(Open) ELSE Cardinality(Open) + 1
  BY FS_AddElement, FS_CardinalityType DEF FewOpen
<1>3. Cardinality(Open \cup {q}) <= MaxOpen
  BY <1>2, LimitsTyped DEF FewOpen
<1>4. /\ IsFiniteSet(Open') /\ Cardinality(Open') \in Nat
      /\ Cardinality(Open') <= Cardinality(Open \cup {q})
  BY <1>1, <1>2, SmallerSet
<1> QED
  BY <1>2, <1>3, <1>4, LimitsTyped DEF FewOpen

(* Entries that become fewer, pending logins that become fewer.            *)
LEMMA FewerGuesses ==
  ASSUME Tables, GuessInv, FewOpen',
         \A n \in Names : /\ Cardinality(Guesses(n)') \in Nat
                          /\ Cardinality(Guesses(n)') <= Cardinality(Guesses(n))
                          /\ Pending(n)' \subseteq Pending(n)
  PROVE  GuessInv'
<1> SUFFICES ASSUME NEW n \in Names
             PROVE  Cardinality(Guesses(n)') + Cardinality(Pending(n)') < MaxFailures + MaxOpen
  BY DEF GuessInv
<1>1. FewOpen
  BY DEF GuessInv
<1>2. IsFiniteSet(Pending(n)) /\ Cardinality(Pending(n)) \in Nat
  BY <1>1, PendingTyped
<1>3. Cardinality(Pending(n)') \in Nat /\ Cardinality(Pending(n)') <= Cardinality(Pending(n))
  BY <1>2, SmallerSet
<1>4. Cardinality(Guesses(n)) + Cardinality(Pending(n)) < MaxFailures + MaxOpen
  BY DEF GuessInv
<1>5. Cardinality(Guesses(n)) \in Nat
  BY GuessesTyped
<1> QED BY <1>2, <1>3, <1>4, <1>5, LimitsTyped

(* Steps that enter nothing and count nothing.                             *)
LEMMA QuietGuesses ==
  ASSUME Tables, Asked, GuessInv, NEW q \in Requests, NEW r, Goes(q, r),
         q \in Open \/ Arrives(q), failures' = failures,
         r.stage \in {"counted", "guessed"} =>
           request[q].stage \in {"counted", "guessed"} /\ r.name = request[q].name
  PROVE  GuessInv'
<1>1. FewOpen'
  BY OpenStays DEF GuessInv
<1>2. \A k \in Requests : request'[k] = IF k = q THEN r ELSE request[k]
  BY DEF Asked
<1>3. \A n \in Names : Pending(n)' \subseteq Pending(n)
  BY <1>2 DEF Pending
<1>4. \A n \in Names : Guesses(n)' = Guesses(n)
  BY DEF Guesses
<1>5. \A n \in Names : /\ Cardinality(Guesses(n)') \in Nat
                       /\ Cardinality(Guesses(n)') <= Cardinality(Guesses(n))
  BY <1>4, GuessesTyped
<1> QED BY <1>1, <1>3, <1>5, FewerGuesses

LEMMA CountKeepsBound ==
  ASSUME Tables, Asked, GuessInv, NEW q \in Requests, NEW n \in Names, LoginCounts(q, n)
  PROVE  GuessInv'
<1> DEFINE r == [At(IF Limited(n) THEN "limited" ELSE "counted") EXCEPT !.name = n]
<1>1. Goes(q, r) /\ Arrives(q) /\ failures' = failures
  BY DEF LoginCounts
<1>2. CASE Limited(n)
  <2>1. r.stage = "limited"
    BY <1>2
  <2> HIDE DEF r
  <2> QED BY <1>1, <2>1, QuietGuesses
<1>3. CASE ~Limited(n)
  <2>1. r.stage = "counted" /\ r.name = n
    BY <1>3
  <2> HIDE DEF r
  <2>2. FewOpen'
    BY <1>1, OpenStays DEF GuessInv
  <2>3. \A k \in Requests : request'[k] = IF k = q THEN r ELSE request[k]
    BY <1>1 DEF Asked
  <2>4. \A m \in Names \ {n} : Pending(m)' \subseteq Pending(m)
    BY <2>1, <2>3 DEF Pending
  <2>5. \A m \in Names : Guesses(m)' = Guesses(m)
    BY <1>1 DEF Guesses
  <2>6. Cardinality(Guesses(n)) < MaxFailures /\ Cardinality(Guesses(n)) \in Nat
    BY <1>3, GuessesTyped, LimitsTyped DEF Limited
  <2>7. Cardinality(Pending(n)') \in Nat /\ Cardinality(Pending(n)') <= MaxOpen
    <3>1. Pending(n)' \subseteq Open'
      BY DEF Pending, Open
    <3>2. IsFiniteSet(Open') /\ Cardinality(Open') <= MaxOpen
      BY <2>2 DEF FewOpen
    <3>3. /\ Cardinality(Pending(n)') \in Nat /\ Cardinality(Open') \in Nat
          /\ Cardinality(Pending(n)') <= Cardinality(Open')
      BY <3>1, <3>2, SmallerSet
    <3> QED BY <3>2, <3>3, LimitsTyped
  <2>8. ASSUME NEW m \in Names
        PROVE  Cardinality(Guesses(m)') + Cardinality(Pending(m)') < MaxFailures + MaxOpen
    <3>1. CASE m = n
      BY <2>5, <2>6, <2>7, <3>1, LimitsTyped
    <3>2. CASE m # n
      <4>1. IsFiniteSet(Pending(m)) /\ Cardinality(Pending(m)) \in Nat
        BY PendingTyped DEF GuessInv
      <4>2. Cardinality(Pending(m)') \in Nat /\ Cardinality(Pending(m)') <= Cardinality(Pending(m))
        BY <2>4, <3>2, <4>1, SmallerSet
      <4>3. Cardinality(Guesses(m)) + Cardinality(Pending(m)) < MaxFailures + MaxOpen
        BY DEF GuessInv
      <4>4. Cardinality(Guesses(m)) \in Nat
        BY GuessesTyped
      <4> QED BY <2>5, <4>1, <4>2, <4>3, <4>4, LimitsTyped
    <3> QED BY <3>1, <3>2
  <2> QED BY <2>2, <2>8 DEF GuessInv
<1> QED BY <1>2, <1>3

LEMMA FailKeepsBound ==
  ASSUME Tables, Asked, GuessInv, NEW q \in Requests, LoginFails(q)
  PROVE  GuessInv'
<1>0. PICK n, e : n = request[q].name /\ e = request[q].stage
  OBVIOUS
<1>1. /\ n \in Names /\ e \in {"guessed", "limited"} /\ q \in Open
      /\ failures' = [failures EXCEPT ![n] = Append(@, e)] /\ Goes(q, At("done"))
  BY <1>0 DEF LoginFails, Asked, RequestOK, Open
<1>2. FewOpen'
  BY <1>1, OpenStays DEF GuessInv
<1>3. \A k \in Requests : request'[k] = IF k = q THEN At("done") ELSE request[k]
  BY <1>1 DEF Asked
<1>4. \A m \in Names : Pending(m)' = IF m = n /\ e = "guessed" THEN Pending(m) \ {q} ELSE Pending(m)
  <2> SUFFICES ASSUME NEW m \in Names
               PROVE  Pending(m)' = IF m = n /\ e = "guessed" THEN Pending(m) \ {q} ELSE Pending(m)
    OBVIOUS
  <2>1. CASE m = n /\ e = "guessed"
    BY <1>0, <1>3, <2>1 DEF Pending
  <2>2. CASE ~(m = n /\ e = "guessed")
    BY <1>0, <1>1, <1>3, <2>2 DEF Pending
  <2> QED BY <2>1, <2>2
<1>5. \A m \in Names \ {n} : Guesses(m)' = Guesses(m)
  BY <1>1 DEF Guesses, Tables
<1>6. Guesses(n)' = IF e = "guessed" THEN Guesses(n) \cup {Len(failures[n]) + 1} ELSE Guesses(n)
  <2> DEFINE s == failures[n]
  <2>1. s \in Seq({"guessed", "limited"}) /\ failures'[n] = Append(s, e)
    BY <1>1 DEF Tables
  <2>2. /\ Len(s) \in Nat /\ DOMAIN s = 1 .. Len(s)
        /\ DOMAIN Append(s, e) = 1 .. (Len(s) + 1)
        /\ \A i \in 1 .. (Len(s) + 1) : Append(s, e)[i] = IF i = Len(s) + 1 THEN e ELSE s[i]
    BY <1>1, <2>1
  <2>3. Guesses(n)' = {i \in 1 .. (Len(s) + 1) : Append(s, e)[i] = "guessed"}
    BY <2>1, <2>2 DEF Guesses
  <2>4. Guesses(n) = {i \in 1 .. Len(s) : s[i] = "guessed"}
    BY <2>2 DEF Guesses
  <2>5. CASE e = "guessed"
    BY <2>2, <2>3, <2>4, <2>5
  <2>6. CASE e # "guessed"
    BY <2>2, <2>3, <2>4, <2>6
  <2> QED BY <2>5, <2>6
<1>7. CASE e = "limited"
  <2>1. \A m \in Names : Guesses(m)' = Guesses(m) /\ Pending(m)' \subseteq Pending(m)
    BY <1>4, <1>5, <1>6, <1>7
  <2>2. \A m \in Names : /\ Cardinality(Guesses(m)') \in Nat
                         /\ Cardinality(Guesses(m)') <= Cardinality(Guesses(m))
    BY <2>1, GuessesTyped
  <2> QED BY <1>2, <2>1, <2>2, FewerGuesses
<1>8. CASE e = "guessed"
  <2>1. q \in Pending(n)
    BY <1>0, <1>8 DEF Pending
  <2>2. IsFiniteSet(Pending(n)) /\ Cardinality(Pending(n)) \in Nat
    BY PendingTyped DEF GuessInv
  <2>3. Cardinality(Pending(n)') = Cardinality(Pending(n)) - 1
    BY <1>1, <1>4, <1>8, <2>1, <2>2, FS_RemoveElement
  <2>4. /\ IsFiniteSet(Guesses(n)) /\ Cardinality(Guesses(n)) \in Nat
        /\ Len(failures[n]) + 1 \notin Guesses(n)
    <3>1. Len(failures[n]) \in Nat /\ Guesses(n) \subseteq 1 .. Len(failures[n])
      BY <1>1, GuessesTyped DEF Guesses
    <3> QED BY <1>1, <3>1, GuessesTyped
  <2>5. Cardinality(Guesses(n)') = Cardinality(Guesses(n)) + 1
    BY <1>6, <1>8, <2>4, FS_AddElement
  <2>6. ASSUME NEW m \in Names
        PROVE  Cardinality(Guesses(m)') + Cardinality(Pending(m)') < MaxFailures + MaxOpen
    <3>1. Cardinality(Guesses(m)) + Cardinality(Pending(m)) < MaxFailures + MaxOpen
      BY DEF GuessInv
    <3>2. CASE m = n
      BY <2>2, <2>3, <2>4, <2>5, <3>1, <3>2, LimitsTyped
    <3>3. CASE m # n
      BY <1>4, <1>5, <3>1, <3>3
    <3> QED BY <3>2, <3>3
  <2> QED BY <1>2, <2>6 DEF GuessInv
<1> QED BY <1>1, <1>7, <1>8

LEMMA SuccessKeepsBound ==
  ASSUME Tables, Asked, GuessInv, NEW q \in Requests, LoginSucceeds(q)
  PROVE  GuessInv'
<1>0. PICK n : n = request[q].name
  OBVIOUS
<1>1. /\ n \in Names /\ q \in Open /\ Goes(q, At("done"))
      /\ failures' = [failures EXCEPT ![n] = <<>>]
  BY <1>0 DEF LoginSucceeds, Asked, RequestOK, Open
<1>2. FewOpen'
  BY <1>1, OpenStays DEF GuessInv
<1>3. \A k \in Requests : request'[k] = IF k = q THEN At("done") ELSE request[k]
  BY <1>1 DEF Asked
<1>4. \A m \in Names : Pending(m)' \subseteq Pending(m)
  BY <1>3 DEF Pending
<1>5. Guesses(n)' = {} /\ \A m \in Names \ {n} : Guesses(m)' = Guesses(m)
  <2>1. failures'[n] = <<>> /\ \A m \in Names \ {n} : failures'[m] = failures[m]
    BY <1>1 DEF Tables
  <2> QED BY <2>1 DEF Guesses
<1>6. \A m \in Names : /\ Cardinality(Guesses(m)') \in Nat
                       /\ Cardinality(Guesses(m)') <= Cardinality(Guesses(m))
  <2> SUFFICES ASSUME NEW m \in Names
               PROVE  /\ Cardinality(Guesses(m)') \in Nat
                      /\ Cardinality(Guesses(m)') <= Cardinality(Guesses(m))
    OBVIOUS
  <2>1. Cardinality(Guesses(m)) \in Nat
    BY GuessesTyped
  <2>2. Cardinality({}) = 0
    BY FS_EmptySet
  <2>3. Guesses(m)' = {} \/ Guesses(m)' = Guesses(m)
    BY <1>5
  <2> QED BY <2>1, <2>2, <2>3
<1> QED BY <1>2, <1>4, <1>6, FewerGuesses

LEMMA AgeKeepsBound ==
  ASSUME Tables, Asked, GuessInv, NEW n \in Names, Ages(n)
  PROVE  GuessInv'
<1>1. /\ failures[n] # <<>> /\ failures' = [failures EXCEPT ![n] = Tail(@)]
      /\ request' = request
  BY DEF Ages
<1>2. FewOpen' /\ \A m : Pending(m)' = Pending(m)
  BY <1>1 DEF GuessInv, FewOpen, Open, Pending
<1>3. \A m \in Names \ {n} : Guesses(m)' = Guesses(m)
  BY <1>1 DEF Guesses, Tables
<1> DEFINE s == failures[n]
           f == [i \in Guesses(n)' |-> i + 1]
<1>4. s \in Seq({"guessed", "limited"}) /\ failures'[n] = Tail(s) /\ s # <<>>
  BY <1>1 DEF Tables
<1>5. /\ Len(s) \in Nat /\ Len(s) > 0 /\ DOMAIN s = 1 .. Len(s)
      /\ DOMAIN Tail(s) = 1 .. (Len(s) - 1)
      /\ \A i \in 1 .. (Len(s) - 1) : Tail(s)[i] = s[i + 1]
  BY <1>4
<1>6. \A i \in Guesses(n)' : i \in Nat /\ i + 1 \in Guesses(n)
  BY <1>4, <1>5 DEF Guesses
<1>7. f \in Injection(Guesses(n)', Guesses(n))
  BY <1>6 DEF Injection, IsInjective
<1>8. IsFiniteSet(Guesses(n)') /\ Cardinality(Guesses(n)') <= Cardinality(Guesses(n))
  BY <1>7, GuessesTyped, FS_Injection
<1>9. \A m \in Names : /\ Cardinality(Guesses(m)') \in Nat
                       /\ Cardinality(Guesses(m)') <= Cardinality(Guesses(m))
  BY <1>3, <1>8, GuessesTyped, FS_CardinalityType
<1> QED BY <1>2, <1>9, FewerGuesses

LEMMA GuessStep ==
  ASSUME Tables, Asked, GuessInv, [Next]_vars
  PROVE  GuessInv'
<1>1. ASSUME UNCHANGED <<request, failures>> PROVE GuessInv'
  BY <1>1 DEF GuessInv, FewOpen, Open, Guesses, Pending
<1>2. ASSUME NEW q \in Requests, NEW n \in Names, LoginCounts(q, n) PROVE GuessInv'
  BY <1>2, CountKeepsBound
<1>3. ASSUME NEW q \in Requests, NEW p \in Passwords, LoginReads(q, p) PROVE GuessInv'
  <2> DEFINE r == request[q]
             s == IF Admitted(r, p)
                  THEN [r EXCEPT !.stage = "verified", !.by = r.name,
                                 !.base = users[r.name], !.copy = users[r.name]]
                  ELSE [r EXCEPT !.stage = "guessed"]
  <2>1. r \in Request /\ r.stage = "counted" /\ q \in Open /\ Goes(q, s) /\ failures' = failures
    BY <1>3 DEF LoginReads, Asked, Open
  <2>2. s.stage \in {"counted", "guessed"} => s.name = r.name
    BY <2>1 DEF Request
  <2> HIDE DEF s
  <2> QED BY <2>1, <2>2, QuietGuesses
<1>4. ASSUME NEW q \in Requests, LoginOpens(q) \/ UpdateReads(q) \/ UpdateCounts(q) \/ SaveUser(q)
      PROVE  GuessInv'
  <2>1. q \in Open /\ failures' = failures
    BY <1>4 DEF LoginOpens, UpdateReads, UpdateCounts, SaveUser, Open
  <2>2. PICK r : Goes(q, r) /\ r.stage \notin {"counted", "guessed"}
    <3>1. request[q] \in Request
      BY DEF Asked
    <3>2. CASE LoginOpens(q)
      <4>1. [request[q] EXCEPT !.stage = "opened"].stage = "opened"
        BY <3>1 DEF Request
      <4> QED BY <3>2, <4>1 DEF LoginOpens
    <3>3. CASE UpdateReads(q)
      <4>1. PICK copy \in User :
              Goes(q, [request[q] EXCEPT !.stage = "read", !.base = users[request[q].name],
                                         !.copy = copy])
        BY <3>3 DEF UpdateReads
      <4>2. [request[q] EXCEPT !.stage = "read", !.base = users[request[q].name],
                               !.copy = copy].stage = "read"
        BY <3>1 DEF Request
      <4> QED BY <4>1, <4>2
    <3>4. CASE UpdateCounts(q)
      <4>1. [request[q] EXCEPT !.stage = "edited", !.admins = ActiveAdmins].stage = "edited"
        BY <3>1 DEF Request
      <4>2. CASE LastOne(request[q], ActiveAdmins)
        <5>1. Goes(q, At("done")) /\ At("done").stage \notin {"counted", "guessed"}
          BY <3>4, <4>2 DEF UpdateCounts
        <5> QED BY <5>1
      <4>3. CASE ~LastOne(request[q], ActiveAdmins)
        BY <3>4, <4>1, <4>3 DEF UpdateCounts
      <4> QED BY <4>2, <4>3
    <3>5. CASE SaveUser(q)
      <4> DEFINE s == IF request[q].stage = "opened" THEN [request[q] EXCEPT !.stage = "greeting"]
                      ELSE IF Revokes(request[q]) THEN [request[q] EXCEPT !.stage = "revoking"]
                      ELSE At("done")
      <4>1. s.stage \in {"greeting", "revoking", "done"}
        BY <3>1 DEF Request
      <4>2. Goes(q, s)
        BY <3>5 DEF SaveUser
      <4> HIDE DEF s
      <4> QED BY <4>1, <4>2
    <3> QED BY <1>4, <3>2, <3>3, <3>4, <3>5
  <2> QED BY <2>1, <2>2, QuietGuesses
<1>5. ASSUME NEW q \in Requests, CreateInserts(q) \/ RevokeSessions(q) PROVE GuessInv'
  <2>1. q \in Open /\ failures' = failures /\ Goes(q, At("done")) /\ At("done").stage = "done"
    BY <1>5 DEF CreateInserts, RevokeSessions, Open
  <2> QED BY <2>1, QuietGuesses
<1>6. ASSUME NEW q \in Requests, LoginFails(q) \/ LoginSucceeds(q) PROVE GuessInv'
  BY <1>6, FailKeepsBound, SuccessKeepsBound
<1>7. ASSUME NEW q \in Requests, NEW t \in Tokens, NEW n \in Names, ProfileReads(q, t, n)
      PROVE  GuessInv'
  <2>1. Arrives(q) /\ failures' = failures
    BY <1>7 DEF ProfileReads
  <2>2. PICK p \in Passwords :
          Goes(q, [At("edited") EXCEPT !.by = n, !.name = n, !.base = users[n],
                     !.copy = [users[n] EXCEPT !.password = p]])
    BY <1>7 DEF ProfileReads
  <2> DEFINE r == [At("edited") EXCEPT !.by = n, !.name = n, !.base = users[n],
                     !.copy = [users[n] EXCEPT !.password = p]]
  <2>3. r.stage = "edited" /\ Goes(q, r)
    BY <2>2
  <2> HIDE DEF r
  <2> QED BY <2>1, <2>3, QuietGuesses
<1>8. ASSUME NEW q \in Requests, NEW t \in Tokens, NEW by \in Names, NEW n \in Names,
             UpdateArrives(q, t, by, n) \/ CreateArrives(q, t, by, n)
      PROVE  GuessInv'
  <2>1. Arrives(q) /\ failures' = failures
    BY <1>8 DEF UpdateArrives, CreateArrives
  <2>2. PICK r : Goes(q, r) /\ r.stage \notin {"counted", "guessed"}
    <3>1. CASE UpdateArrives(q, t, by, n)
      <4>1. [At("authorized") EXCEPT !.by = by, !.name = n].stage = "authorized"
        OBVIOUS
      <4> QED BY <3>1, <4>1 DEF UpdateArrives
    <3>2. CASE CreateArrives(q, t, by, n)
      <4>1. PICK admin \in BOOLEAN, p \in Passwords :
              Goes(q, [At("creating") EXCEPT !.by = by, !.name = n, !.copy =
                         [admin |-> admin, active |-> TRUE, password |-> p]])
        BY <3>2 DEF CreateArrives
      <4>2. [At("creating") EXCEPT !.by = by, !.name = n, !.copy =
               [admin |-> admin, active |-> TRUE, password |-> p]].stage = "creating"
        OBVIOUS
      <4> QED BY <4>1, <4>2
    <3> QED BY <1>8, <3>1, <3>2
  <2> QED BY <2>1, <2>2, QuietGuesses
<1>9. ASSUME CutOff PROVE GuessInv'
  <2>1. failures' = failures /\ \A k \in Requests : request'[k] \in {request[k], At("done")}
    BY <1>9 DEF CutOff
  <2>2. Open' \subseteq Open /\ \A n \in Names : Pending(n)' \subseteq Pending(n)
    BY <2>1 DEF Open, Pending
  <2>3. FewOpen'
    <3>1. IsFiniteSet(Open) /\ Cardinality(Open) <= MaxOpen
      BY DEF GuessInv, FewOpen
    <3>2. /\ IsFiniteSet(Open') /\ Cardinality(Open') \in Nat /\ Cardinality(Open) \in Nat
          /\ Cardinality(Open') <= Cardinality(Open)
      BY <2>2, <3>1, SmallerSet
    <3> QED BY <3>1, <3>2, LimitsTyped DEF FewOpen
  <2>4. \A n \in Names : /\ Cardinality(Guesses(n)') \in Nat
                         /\ Cardinality(Guesses(n)') <= Cardinality(Guesses(n))
    BY <2>1, GuessesTyped DEF Guesses
  <2> QED BY <2>2, <2>3, <2>4, FewerGuesses
<1>10. ASSUME NEW n \in Names, Ages(n) PROVE GuessInv'
  BY <1>10, AgeKeepsBound
<1>11. ASSUME NEW n \in Names, Bootstrap(n) PROVE GuessInv'
  BY <1>1, <1>11 DEF Bootstrap
<1>12. ASSUME NEW t \in Tokens, Expire(t) \/ \E n \in Names : Logout(t, n) PROVE GuessInv'
  BY <1>1, <1>12 DEF Expire, Logout
<1>13. CASE UNCHANGED vars
  BY <1>1, <1>13 DEF vars
<1> QED BY <1>2, <1>3, <1>4, <1>5, <1>6, <1>7, <1>8, <1>9, <1>10, <1>11, <1>12, <1>13 DEF Next

(* Within the window a name has fewer wrong guesses than the limit and the *)
(* requests under way at once together, however the logins overlap, and    *)
(* with successes, refusals and entries that leave the window in between.  *)
THEOREM GuessesStayBounded == Spec => []GuessesBounded
<1>1. Init => GuessInv
  <2> SUFFICES ASSUME Init PROVE GuessInv
    OBVIOUS
  <2>1. Open = {} /\ \A n \in Names : Guesses(n) = {} /\ Pending(n) = {}
    BY DEF Init, Open, Guesses, Pending
  <2> QED BY <2>1, FS_EmptySet, LimitsTyped DEF GuessInv, FewOpen
<1>2. Tables /\ Asked /\ GuessInv /\ [Next]_vars => (Tables /\ Asked /\ GuessInv)'
  BY StepTyped, GuessStep
<1>3. Tables /\ GuessInv => GuessesBounded
  <2> SUFFICES ASSUME Tables, GuessInv, NEW n \in Names
               PROVE  Cardinality(Guesses(n)) < MaxFailures + MaxOpen
    BY DEF GuessesBounded, Guesses
  <2>1. Cardinality(Guesses(n)) + Cardinality(Pending(n)) < MaxFailures + MaxOpen
    BY DEF GuessInv
  <2>2. Cardinality(Pending(n)) \in Nat /\ Cardinality(Guesses(n)) \in Nat
    BY PendingTyped, GuessesTyped DEF GuessInv
  <2> QED BY <2>1, <2>2, LimitsTyped
<1> QED BY InitTyped, <1>1, <1>2, <1>3, PTL DEF Spec
===============================================================================
