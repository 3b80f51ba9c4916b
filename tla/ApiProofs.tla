----------------------------- MODULE ApiProofs -----------------------------
(***************************************************************************)
(* Theorems about Api for any number of workers, accounts, flights and     *)
(* requests.                                                               *)
(***************************************************************************)
EXTENDS Api, TLAPS

(* What a worker that is past the first statement of a request knows. *)
WorkerInv(w) ==
  /\ pc[w] = "createFlight" => req[w].path = "api/flight"
  /\ pc[w] \in {"updateUser", "deleteUser", "createFlight", "deleteFlights"} => Cookie(w) \in Accounts
  /\ pc[w] = "commit" => writer = w /\ user[w].id \in drawn /\ ~ Exists(user[w].id)
  /\ pc[w] = "respond" /\ HandsOut(w) => user[w].id \in drawn
  /\ pc[w] # "respond" => shown[w] = {}
  /\ Views(req[w]) => pc[w] \in {"idle", "findByName", "findFriend", "list", "respond"}

(* Whom a worker is about to let in was entitled: what it read of the
   account's visibility was true once, and a friendship found later was there
   then, as the code never makes one. *)
EntitledInv(w) ==
  Views(req[w]) =>
    /\ pc[w] = "findFriend" /\ (NeedsFriend(w) => FriendFound(w)) => user[w].id \in entitled[w]
    /\ pc[w] = "list" => user[w].id \in entitled[w]
    /\ pc[w] = "respond" /\ (status[w] \in {200, 206} \/ shown[w] # {}) => user[w].id \in entitled[w]

DrawnInv == \A a \in Accounts : Exists(a) => a \in drawn
Inv == DrawnInv /\ \A w \in Workers : WorkerInv(w) /\ EntitledInv(w)

-----------------------------------------------------------------------------
(* A step of one worker. *)

Acts(w) ==
  \/ Route(w)
  \/ FindByName(w)
  \/ FindFriend(w)
  \/ FindFriendFails(w)
  \/ List(w)
  \/ ListFails(w)
  \/ FindById(w)
  \/ FindByIdFails(w)
  \/ FindUser(w)
  \/ UpdateUser(w)
  \/ DeleteUser(w)
  \/ Signin(w)
  \/ Signup(w)
  \/ Commit(w)
  \/ CommitLost(w)
  \/ CreateFlight(w)
  \/ DeleteFlights(w)
  \/ StatementFails(w)
  \/ Respond(w)

LEMMA OneActs == ASSUME Next PROVE \E w \in Workers : Acts(w)
  BY DEF Next, Acts

(* What it leaves alone. *)
Frame(w) ==
  /\ \A v \in Workers \ {w} : /\ pc'[v] = pc[v] /\ req'[v] = req[v] /\ user'[v] = user[v]
                              /\ status'[v] = status[v] /\ shown'[v] = shown[v]
  /\ friends' \subseteq friends
  /\ drawn \subseteq drawn'
  /\ writer \notin {None, w} => UNCHANGED <<writer, users>>
  /\ Remember

LEMMA MeetAnswers ==
  ASSUME NEW w \in Workers, NEW u, Meet(w, u)
  PROVE  UNCHANGED status \/ \E c \in {401, 403, 307} : status' = [status EXCEPT ![w] = c]
  BY ZenonT(60) DEF Meet, Answer

LEMMA FrameHolds ==
  ASSUME TypeOK, NEW w \in Workers, WorkerInv(w), Acts(w)
  PROVE  Frame(w)
<1> USE DEF TypeOK, Frame, Goto, Answer, Statement, WriteLockFree, dbVars, answerVars
<1>1. CASE Route(w)
  <2>1. PICK r \in Requests : req' = [req EXCEPT ![w] = r] /\ Dispatch(w, r)
    BY <1>1 DEF Route
  <2>2. /\ \E p : pc' = [pc EXCEPT ![w] = p]
        /\ UNCHANGED status \/ \E c : status' = [status EXCEPT ![w] = c]
    BY <2>1, ZenonT(60) DEF Dispatch
  <2> QED
    BY <1>1, <2>1, <2>2 DEF Route
<1>2. CASE FindByName(w)
  <2>1. UNCHANGED <<dbVars, issued, writer, req, shown, page>> /\ Remember
    BY <1>2 DEF FindByName
  <2>2. CASE Answer(w, 404) /\ UNCHANGED user
    BY <2>1, <2>2
  <2>3. ASSUME NEW u, Meet(w, u)
        PROVE  Frame(w)
    <3>1. \E p : pc' = [pc EXCEPT ![w] = p]
      BY <2>3, ZenonT(60) DEF Meet
    <3>2. \/ UNCHANGED status
          \/ \E c \in {401, 403, 307} : status' = [status EXCEPT ![w] = c]
      BY <2>3, MeetAnswers
    <3>3. user' = [user EXCEPT ![w] = u]
      BY <2>3 DEF Meet
    <3> QED
      BY <2>1, <3>1, <3>2, <3>3
  <2> QED
    BY <1>2, <2>2, <2>3 DEF FindByName
<1>3. CASE FindFriend(w)
  BY <1>3 DEF FindFriend
<1>4. CASE FindFriendFails(w)
  BY <1>4 DEF FindFriendFails
<1>5. CASE List(w)
  BY <1>5 DEF List
<1>6. CASE ListFails(w)
  BY <1>6 DEF ListFails
<1>7. CASE FindById(w)
  BY <1>7 DEF FindById
<1>8. CASE FindByIdFails(w)
  BY <1>8 DEF FindByIdFails
<1>9. CASE FindUser(w)
  BY <1>9 DEF FindUser
<1>10. CASE UpdateUser(w)
  BY <1>10 DEF UpdateUser
<1>11. CASE DeleteUser(w)
  BY <1>11 DEF DeleteUser, Cascade
<1>12. CASE Signin(w)
  BY <1>12 DEF Signin
<1>13. CASE Signup(w)
  BY <1>13 DEF Signup
<1>14. CASE Commit(w)
  BY <1>14 DEF Commit, WorkerInv
<1>15. CASE CommitLost(w)
  BY <1>15 DEF CommitLost, WorkerInv
<1>16. CASE CreateFlight(w)
  BY <1>16 DEF CreateFlight
<1>17. CASE DeleteFlights(w)
  BY <1>17 DEF DeleteFlights, Purge
<1>18. CASE StatementFails(w)
  BY <1>18 DEF StatementFails
<1>19. CASE Respond(w)
  BY <1>19 DEF Respond
<1> QED
  BY <1>1, <1>2, <1>3, <1>4, <1>5, <1>6, <1>7, <1>8, <1>9, <1>10, <1>11, <1>12, <1>13, <1>14, <1>15, <1>16, <1>17, <1>18, <1>19 DEF Acts

-----------------------------------------------------------------------------
(* Type correctness. *)

Codes == {0, 200, 201, 206, 307, 400, 401, 403, 404, 405, 409, 500}

LEMMA RememberType ==
  ASSUME TypeOK, Remember
  PROVE  entitled' \in [Workers -> SUBSET Accounts] /\ exposed' \subseteq Flights
  BY DEF TypeOK, Remember, Viewable

LEMMA RequestType == \A r \in Requests : r \in Request
  BY ApiAssumption

LEMMA InitType == Init => TypeOK
  BY ApiAssumption DEF Init, TypeOK, Account, Visibilities, Pc, NoUser, NoRequest

LEMMA AnswerType ==
  ASSUME TypeOK, NEW w \in Workers, NEW c \in Codes, Answer(w, c)
  PROVE  pc' \in [Workers -> Pc] /\ status' \in [Workers -> Codes]
  BY DEF TypeOK, Answer, Goto, Pc, Codes

LEMMA RefusalType == \A r \in Requests : Refusal(r) \in Codes
  BY DEF Refusal, Codes

LEMMA FirstStatementType ==
  ASSUME NEW r \in Requests, Refusal(r) = 0
  PROVE  /\ FirstStatement(r) \in Pc
         /\ FirstStatement(r) = "respond" => r.path \in Pages
  BY RequestType DEF Refusal, FirstStatement, Pc, Request, Handled, Handler, Handlers, IsProfile, PathFound, Views, Pages, Endpoints

LEMMA ControlType ==
  ASSUME TypeOK, Inv, NEW w \in Workers, Acts(w)
  PROVE  pc' \in [Workers -> Pc] /\ status' \in [Workers -> Codes]
<1>a. pc \in [Workers -> Pc] /\ status \in [Workers -> Codes]
  BY DEF TypeOK, Codes
<1>b. ASSUME NEW c \in Codes, Answer(w, c)
      PROVE  pc' \in [Workers -> Pc] /\ status' \in [Workers -> Codes]
  BY <1>b, AnswerType
<1>c. ASSUME NEW p \in Pc, Goto(w, p), UNCHANGED status
      PROVE  pc' \in [Workers -> Pc] /\ status' \in [Workers -> Codes]
  BY <1>a, <1>c DEF Goto
<1> USE <1>b, <1>c DEF Codes
<1>1. CASE Route(w)
  <2>1. PICK r \in Requests : Dispatch(w, r)
    BY <1>1 DEF Route
  <2>2. Refusal(r) \in Codes /\ (Refusal(r) = 0 => FirstStatement(r) \in Pc)
    BY RefusalType, FirstStatementType
  <2> QED
    BY <2>1, <2>2 DEF Dispatch
<1>2. CASE FindByName(w)
  <2>1. CASE Answer(w, 404)
    BY <2>1
  <2>2. ASSUME NEW u, Meet(w, u)
        PROVE  pc' \in [Workers -> Pc] /\ status' \in [Workers -> Codes]
    <3>1. \/ Answer(w, 401) \/ Answer(w, 403) \/ Answer(w, 307)
          \/ /\ Allowed(w, u) \in {"list", "findFriend"}
             /\ Goto(w, Allowed(w, u)) /\ UNCHANGED status
      BY <2>2, ZenonT(60) DEF Meet
    <3> QED
      BY <3>1 DEF Pc
  <2>3. Answer(w, 404) \/ \E u : Meet(w, u)
    BY <1>2, ZenonT(60) DEF FindByName
  <2> QED
    BY <2>1, <2>2, <2>3
<1>3. CASE FindFriend(w)
  BY <1>3 DEF FindFriend, Pc
<1>4. CASE FindFriendFails(w)
  BY <1>4 DEF FindFriendFails, Pc
<1>5. CASE List(w)
  BY <1>5 DEF List
<1>6. CASE ListFails(w)
  BY <1>6 DEF ListFails
<1>7. CASE FindById(w)
  BY <1>7 DEF FindById
<1>8. CASE FindByIdFails(w)
  BY <1>8 DEF FindByIdFails
<1>9. CASE FindUser(w)
  BY <1>9 DEF FindUser
<1>10. CASE UpdateUser(w)
  BY <1>10 DEF UpdateUser
<1>11. CASE DeleteUser(w)
  BY <1>11 DEF DeleteUser
<1>12. CASE Signin(w)
  BY <1>12 DEF Signin
<1>13. CASE Signup(w)
  <2>1. CASE Answer(w, 409)
    BY <2>1
  <2>2. CASE Goto(w, "commit") /\ status' = [status EXCEPT ![w] = 201]
    BY <1>a, <2>2 DEF Goto, Pc
  <2> QED
    BY <1>13, <2>1, <2>2 DEF Signup
<1>14. CASE Commit(w)
  BY <1>14 DEF Commit, answerVars, Pc
<1>15. CASE CommitLost(w)
  BY <1>15 DEF CommitLost, answerVars, Pc
<1>16. CASE CreateFlight(w)
  BY <1>16 DEF CreateFlight
<1>17. CASE DeleteFlights(w)
  BY <1>17 DEF DeleteFlights
<1>18. CASE StatementFails(w)
  BY <1>18 DEF StatementFails
<1>19. CASE Respond(w)
  BY <1>a, <1>19 DEF Respond, Goto, Pc
<1> QED
  BY <1>1, <1>2, <1>3, <1>4, <1>5, <1>6, <1>7, <1>8, <1>9, <1>10, <1>11, <1>12, <1>13, <1>14, <1>15, <1>16, <1>17, <1>18, <1>19 DEF Acts

LEMMA DatabaseType ==
  ASSUME TypeOK, Inv, NEW w \in Workers, Acts(w)
  PROVE  /\ users' \in [Accounts -> Account \cup {None}]
         /\ friends' \subseteq Accounts \X Accounts
         /\ owner' \in [Flights -> Accounts \cup {None}]
         /\ drawn' \subseteq Accounts /\ issued' \subseteq drawn'
         /\ writer' \in Workers \cup {None}
<1> USE DEF TypeOK, dbVars, Statement
<1>1. CASE UpdateUser(w)
  <2>1. CASE UNCHANGED users
    BY <1>1, <2>1 DEF UpdateUser
  <2>2. CASE Exists(Cookie(w)) /\ users' = [users EXCEPT ![Cookie(w)].visibility = req[w].visibility]
    <3>1. req[w].visibility \in Visibilities
      BY RequestType DEF Request
    <3>2. \A a \in Accounts : Exists(a) => users[a] \in Account
      BY DEF Exists
    <3>3. Cookie(w) \in Accounts => users[Cookie(w)] \in [name : Names, visibility : Visibilities]
      BY <2>2, <3>2 DEF Account
    <3>4. Cookie(w) \in Accounts => [users[Cookie(w)] EXCEPT !.visibility = req[w].visibility] \in Account
      BY <3>1, <3>3 DEF Account
    <3>5. users' = [a \in Accounts |-> IF a = Cookie(w) THEN [users[a] EXCEPT !.visibility = req[w].visibility]
                                      ELSE users[a]]
      BY <2>2
    <3>6. users' \in [Accounts -> Account \cup {None}]
      BY <3>4, <3>5
    <3> QED
      BY <1>1, <3>6 DEF UpdateUser
  <2> QED
    BY <1>1, <2>1, <2>2 DEF UpdateUser
<1>2. CASE DeleteUser(w)
  BY <1>2 DEF DeleteUser, Cascade
<1>3. CASE Signup(w)
  BY <1>3 DEF Signup
<1>4. CASE Commit(w)
  <2>1. req[w].name \in Names /\ user[w].visibility \in Visibilities
    BY RequestType DEF Request
  <2>2. [name |-> req[w].name, visibility |-> user[w].visibility] \in Account
    BY <2>1 DEF Account
  <2>3. users' \in [Accounts -> Account \cup {None}]
    BY <1>4, <2>2 DEF Commit
  <2> QED
    BY <1>4, <2>3 DEF Commit
<1>5. CASE CommitLost(w)
  BY <1>5 DEF CommitLost
<1>6. CASE CreateFlight(w)
  <2>1. CASE UNCHANGED owner
    BY <1>6, <2>1 DEF CreateFlight
  <2>2. CASE Exists(Cookie(w)) /\ owner' = [owner EXCEPT ![req[w].flight] = Cookie(w)]
    BY <1>6, <2>2 DEF CreateFlight, Inv, WorkerInv
  <2> QED
    BY <1>6, <2>1, <2>2 DEF CreateFlight
<1>7. CASE DeleteFlights(w)
  BY <1>7 DEF DeleteFlights, Purge
<1>8. CASE Respond(w)
  BY <1>8 DEF Respond, Inv, WorkerInv
<1>9. CASE Route(w) \/ FindByName(w) \/ FindFriend(w) \/ FindFriendFails(w) \/ List(w) \/ ListFails(w) \/ FindById(w) \/ FindByIdFails(w) \/ FindUser(w) \/ Signin(w) \/ StatementFails(w)
  BY <1>9 DEF Route, FindByName, FindFriend, FindFriendFails, List, ListFails, FindById, FindByIdFails, FindUser, Signin, StatementFails
<1> QED
  BY <1>1, <1>2, <1>3, <1>4, <1>5, <1>6, <1>7, <1>8, <1>9 DEF Acts

LEMMA ReplyType ==
  ASSUME TypeOK, Inv, NEW w \in Workers, Acts(w)
  PROVE  /\ req' \in [Workers -> Requests]
         /\ user' \in [Workers -> [id : Accounts \cup {None}, visibility : Visibilities]]
         /\ shown' \in [Workers -> SUBSET Flights]
         /\ page' \in [Workers -> Pages \cup {None, "self", "other"}]
<1> USE DEF TypeOK, answerVars
<1>1. CASE Route(w)
  <2>1. PICK r \in Requests : req' = [req EXCEPT ![w] = r] /\ Dispatch(w, r)
    BY <1>1 DEF Route
  <2>2. UNCHANGED page \/ (r.path \in Pages /\ page' = [page EXCEPT ![w] = r.path])
    BY <2>1, FirstStatementType DEF Dispatch
  <2> QED
    BY <1>1, <2>1, <2>2 DEF Route
<1>2. CASE FindByName(w)
  <2>1. ASSUME NEW a \in Found(w)
        PROVE  [id |-> a, visibility |-> users[a].visibility] \in [id : Accounts \cup {None}, visibility : Visibilities]
    BY DEF Found, Named, Exists, Account
  <2>2. UNCHANGED user \/ \E a \in Found(w) : user' = [user EXCEPT ![w] = [id |-> a, visibility |-> users[a].visibility]]
    BY <1>2, Zenon DEF FindByName, Meet
  <2>3. user' \in [Workers -> [id : Accounts \cup {None}, visibility : Visibilities]]
    BY <2>1, <2>2
  <2> QED
    BY <1>2, <2>3 DEF FindByName
<1>3. CASE List(w)
  <2>1. UNCHANGED shown \/ \E rows \in SUBSET FlightsOf(user[w].id) : shown' = [shown EXCEPT ![w] = rows]
    BY <1>3, Zenon DEF List
  <2>3. shown' \in [Workers -> SUBSET Flights]
    BY <2>1 DEF FlightsOf
  <2>2. page' \in [Workers -> Pages \cup {None, "self", "other"}]
    BY <1>3 DEF List
  <2> QED
    BY <1>3, <2>2, <2>3 DEF List
<1>4. CASE ListFails(w)
  BY <1>4 DEF ListFails, FlightsOf
<1>5. CASE FindById(w)
  BY <1>5 DEF FindById, Pages
<1>6. CASE FindByIdFails(w)
  BY <1>6 DEF FindByIdFails, Pages
<1>7. CASE Signin(w)
  BY <1>7 DEF Signin, Named, Account, Exists
<1>8. CASE Signup(w)
  BY <1>8 DEF Signup, Visibilities
<1>9. CASE Respond(w)
  BY <1>9 DEF Respond, NoRequest, NoUser, Visibilities
<1>10. CASE FindFriend(w) \/ FindFriendFails(w) \/ FindUser(w) \/ UpdateUser(w) \/ DeleteUser(w) \/ Commit(w) \/ CommitLost(w) \/ CreateFlight(w) \/ DeleteFlights(w) \/ StatementFails(w)
  BY <1>10 DEF FindFriend, FindFriendFails, FindUser, UpdateUser, DeleteUser, Commit, CommitLost, CreateFlight, DeleteFlights, StatementFails
<1> QED
  BY <1>1, <1>2, <1>3, <1>4, <1>5, <1>6, <1>7, <1>8, <1>9, <1>10 DEF Acts

LEMMA TypeStep ==
  ASSUME TypeOK, Inv, NEW w \in Workers, Acts(w)
  PROVE  TypeOK'
<1>1. entitled' \in [Workers -> SUBSET Accounts] /\ exposed' \subseteq Flights
  BY FrameHolds, RememberType DEF Inv, Frame
<1> QED
  BY <1>1, ControlType, DatabaseType, ReplyType DEF TypeOK, Codes

-----------------------------------------------------------------------------
(* What the workers know stays true. *)

LEMMA RefusalCodes == \A r \in Requests : Refusal(r) \notin {200, 201, 206}
  BY DEF Refusal

LEMMA FirstStatementFacts ==
  ASSUME NEW r \in Requests, Refusal(r) = 0
  PROVE  /\ FirstStatement(r) \notin {"idle", "commit", "list", "findFriend"}
         /\ Views(r) => FirstStatement(r) = "findByName"
         /\ FirstStatement(r) = "createFlight" => r.path = "api/flight"
         /\ FirstStatement(r) \in {"updateUser", "deleteUser", "createFlight", "deleteFlights"} => r.cookie \in Accounts
  BY RequestType DEF Refusal, FirstStatement, Request, NeedsCookie, Handler, IsProfile, PathFound, Handlers, Views

LEMMA Recalls ==
  ASSUME TypeOK, Remember, NEW v \in Workers, pc'[v] # "idle"
  PROVE  /\ entitled[v] \subseteq entitled'[v]
         /\ \A a \in Accounts : Views(req[v])' /\ MayView(req[v].cookie, a)' => a \in entitled'[v]
  BY DEF Remember, Viewable, TypeOK

(* A step of one worker makes nothing wrong of what another knows. *)
LEMMA OthersKeep ==
  ASSUME TypeOK, TypeOK', Inv, NEW w \in Workers, Frame(w), NEW v \in Workers \ {w}
  PROVE  WorkerInv(v)' /\ EntitledInv(v)'
<1>1. /\ pc'[v] = pc[v] /\ req'[v] = req[v] /\ user'[v] = user[v] /\ status'[v] = status[v] /\ shown'[v] = shown[v]
      /\ Remember
  BY DEF Frame
<1>2. WorkerInv(v) /\ EntitledInv(v)
  BY DEF Inv
<1>3. pc[v] = "commit" => UNCHANGED <<writer, users>>
  BY <1>2, ApiAssumption DEF Frame, WorkerInv, TypeOK
<1>4. WorkerInv(v)'
  BY <1>1, <1>2, <1>3 DEF WorkerInv, Frame, Exists, HandsOut, TakesCredentials, Cookie, Views, Handler, TypeOK
<1>5. pc[v] # "idle" => entitled[v] \subseteq entitled'[v]
  BY <1>1, Recalls
<1>6. FriendFound(v)' => FriendFound(v)
  BY <1>1 DEF Frame, FriendFound, Cookie
<1>7. EntitledInv(v)'
  BY <1>1, <1>2, <1>5, <1>6 DEF EntitledInv, Views, Handler, NeedsFriend, Self, Cookie
<1> QED
  BY <1>4, <1>7


(* Where a request goes first. *)
LEMMA RouteFacts ==
  ASSUME TypeOK, NEW w \in Workers, Route(w)
  PROVE  \E r \in Requests :
           /\ req'[w] = r
           /\ \/ pc'[w] = "respond" /\ status'[w] \notin {200, 201, 206}
              \/ pc'[w] = "respond" /\ status'[w] = 200 /\ ~ Views(r)
              \/ Refusal(r) = 0 /\ pc'[w] = FirstStatement(r) /\ pc'[w] # "respond"
<1>1. PICK r \in Requests : req' = [req EXCEPT ![w] = r] /\ Dispatch(w, r)
  BY DEF Route
<1>2. req'[w] = r
  BY <1>1 DEF TypeOK
<1>3. CASE Refusal(r) # 0 /\ Answer(w, Refusal(r))
  BY <1>2, <1>3, RefusalCodes DEF Answer, Goto, TypeOK
<1>4. CASE Refusal(r) = 0 /\ FirstStatement(r) = "respond" /\ Answer(w, 200)
  BY <1>2, <1>4, FirstStatementFacts DEF Answer, Goto, TypeOK
<1>5. CASE Refusal(r) = 0 /\ FirstStatement(r) # "respond" /\ Goto(w, FirstStatement(r))
  BY <1>2, <1>5 DEF Goto, TypeOK
<1> QED
  BY <1>1, <1>3, <1>4, <1>5, Zenon DEF Dispatch

(* Where a request goes that has met an account. *)
LEMMA MeetFacts ==
  ASSUME TypeOK, NEW w \in Workers, NEW u, Meet(w, u)
  PROVE  /\ user'[w] = u
         /\ \/ pc'[w] = "respond" /\ status'[w] \in {401, 403, 307}
            \/ Allowed(w, u) \in {"list", "findFriend"} /\ pc'[w] = Allowed(w, u)
<1>1. user'[w] = u
  BY ZenonT(60) DEF Meet, TypeOK
<1>2. ASSUME NEW c \in {401, 403, 307}, Answer(w, c)
      PROVE  pc'[w] = "respond" /\ status'[w] \in {401, 403, 307}
  BY <1>2 DEF Answer, Goto, TypeOK
<1>3. CASE Allowed(w, u) \in {"list", "findFriend"} /\ Goto(w, Allowed(w, u))
  BY <1>1, <1>3 DEF Goto, TypeOK
<1>4. CASE Answer(w, 401) \/ Answer(w, 403) \/ Answer(w, 307)
  BY <1>1, <1>2, <1>4
<1> QED
  BY <1>3, <1>4, Zenon DEF Meet

LEMMA OwnWorkerInv ==
  ASSUME TypeOK, Inv, NEW w \in Workers, Acts(w)
  PROVE  WorkerInv(w)'
<1>a. /\ pc \in [Workers -> Pc] /\ status \in [Workers -> Codes] /\ req \in [Workers -> Requests]
      /\ shown \in [Workers -> SUBSET Flights] /\ DOMAIN user = Workers
  BY DEF TypeOK, Codes
<1>b. WorkerInv(w)
  BY DEF Inv
<1> USE <1>a, <1>b DEF WorkerInv, Statement, Answer, Goto, HandsOut, TakesCredentials, Cookie, Views, Handler
<1>1. CASE Route(w)
  <2>1. PICK r \in Requests :
          /\ req'[w] = r
          /\ \/ pc'[w] = "respond" /\ status'[w] \notin {200, 201, 206}
             \/ pc'[w] = "respond" /\ status'[w] = 200 /\ ~ Views(r)
             \/ Refusal(r) = 0 /\ pc'[w] = FirstStatement(r) /\ pc'[w] # "respond"
    BY <1>1, RouteFacts
  <2>2. shown'[w] = {}
    BY <1>1 DEF Route
  <2> QED
    BY <2>1, <2>2, FirstStatementFacts
<1>2. CASE FindByName(w)
  <2>1. pc[w] = "findByName" /\ UNCHANGED <<req, shown>>
    BY <1>2 DEF FindByName
  <2>2. CASE Answer(w, 404)
    BY <2>1, <2>2
  <2>3. ASSUME NEW u, Meet(w, u) PROVE WorkerInv(w)'
    BY <2>1, <2>3, MeetFacts
  <2> QED
    BY <1>2, <2>2, <2>3, Zenon DEF FindByName
<1>3. CASE FindFriend(w)
  BY <1>3 DEF FindFriend
<1>4. CASE FindFriendFails(w)
  BY <1>4 DEF FindFriendFails
<1>5. CASE List(w)
  BY <1>5 DEF List
<1>6. CASE ListFails(w)
  BY <1>6 DEF ListFails
<1>7. CASE FindById(w)
  BY <1>7 DEF FindById
<1>8. CASE FindByIdFails(w)
  BY <1>8 DEF FindByIdFails
<1>9. CASE FindUser(w)
  BY <1>9 DEF FindUser
<1>10. CASE UpdateUser(w)
  BY <1>10 DEF UpdateUser
<1>11. CASE DeleteUser(w)
  BY <1>11 DEF DeleteUser
<1>12. CASE Signin(w)
  <2>1. pc[w] = "signin" /\ UNCHANGED <<req, shown, drawn>>
    BY <1>12 DEF Signin, dbVars
  <2>2. CASE Answer(w, 401)
    BY <2>1, <2>2
  <2>3. ASSUME NEW a \in Named(req[w].name), Answer(w, 201), user' = [user EXCEPT ![w] = [id |-> a, visibility |-> users[a].visibility]]
        PROVE  WorkerInv(w)'
    <3>1. user'[w].id = a
      BY <2>3
    <3>2. a \in drawn'
      BY <2>1, <2>3 DEF Named, Inv, DrawnInv
    <3>3. pc'[w] = "respond" /\ req'[w] = req[w] /\ ~ Views(req[w])
      BY <2>1, <2>3
    <3> QED
      BY <3>1, <3>2, <3>3
  <2> QED
    BY <1>12, <2>2, <2>3 DEF Signin
<1>13. CASE Signup(w)
  <2>1. pc[w] = "signup" /\ UNCHANGED <<req, shown, users>>
    BY <1>13 DEF Signup
  <2>2. CASE Answer(w, 409)
    BY <2>1, <2>2
  <2>3. ASSUME NEW a \in Accounts \ drawn, user' = [user EXCEPT ![w] = [id |-> a, visibility |-> "private"]],
               drawn' = drawn \cup {a}, writer' = w, Goto(w, "commit")
        PROVE  WorkerInv(w)'
    <3>1. user'[w].id = a /\ a \in drawn' /\ pc'[w] = "commit" /\ req'[w] = req[w] /\ ~ Views(req[w])
      BY <2>1, <2>3
    <3>2. ~ Exists(a)'
      BY <2>1, <2>3 DEF Inv, DrawnInv, Exists
    <3> QED
      BY <2>1, <2>3, <3>1, <3>2 DEF Exists
  <2> QED
    BY <1>13, <2>2, <2>3 DEF Signup
<1>14. CASE Commit(w)
  BY <1>14 DEF Commit
<1>15. CASE CommitLost(w)
  <2>1. pc[w] = "commit" /\ UNCHANGED <<req, shown, user, drawn>> /\ pc' = [pc EXCEPT ![w] = "respond"]
    BY <1>15 DEF CommitLost, dbVars, answerVars
  <2> QED
    BY <2>1
<1>16. CASE CreateFlight(w)
  BY <1>16 DEF CreateFlight
<1>17. CASE DeleteFlights(w)
  BY <1>17 DEF DeleteFlights
<1>18. CASE StatementFails(w)
  BY <1>18 DEF StatementFails
<1>19. CASE Respond(w)
  BY <1>19 DEF Respond
<1> QED
  BY <1>1, <1>2, <1>3, <1>4, <1>5, <1>6, <1>7, <1>8, <1>9, <1>10, <1>11, <1>12, <1>13, <1>14, <1>15, <1>16, <1>17, <1>18, <1>19 DEF Acts

LEMMA OwnEntitledInv ==
  ASSUME TypeOK, Inv, NEW w \in Workers, Acts(w)
  PROVE  EntitledInv(w)'
<1>a. /\ pc \in [Workers -> Pc] /\ status \in [Workers -> Codes] /\ req \in [Workers -> Requests]
      /\ shown \in [Workers -> SUBSET Flights] /\ DOMAIN user = Workers
  BY DEF TypeOK, Codes
<1>b. WorkerInv(w) /\ EntitledInv(w)
  BY DEF Inv
<1>c. Remember
  BY FrameHolds DEF Inv, Frame
<1>d. pc'[w] # "idle" => entitled[w] \subseteq entitled'[w]
  BY <1>c, Recalls
<1>1. CASE Route(w)
  <2>1. PICK r \in Requests :
          /\ req'[w] = r
          /\ \/ pc'[w] = "respond" /\ status'[w] \notin {200, 201, 206}
             \/ pc'[w] = "respond" /\ status'[w] = 200 /\ ~ Views(r)
             \/ Refusal(r) = 0 /\ pc'[w] = FirstStatement(r) /\ pc'[w] # "respond"
    BY <1>1, RouteFacts
  <2>2. shown'[w] = {}
    BY <1>1, <1>b DEF Route, WorkerInv
  <2> QED
    BY <2>1, <2>2, FirstStatementFacts DEF EntitledInv, Views, Handler
<1>2. CASE FindByName(w)
  <2>1. pc[w] = "findByName" /\ UNCHANGED <<req, shown, friends, users>>
    BY <1>2 DEF FindByName, dbVars, Statement
  <2>2. shown'[w] = {} /\ req'[w] = req[w]
    BY <1>b, <2>1 DEF WorkerInv
  <2>3. CASE Answer(w, 404)
    BY <1>a, <2>2, <2>3 DEF EntitledInv, Answer, Goto
  <2>4. ASSUME NEW a \in Found(w), Meet(w, [id |-> a, visibility |-> users[a].visibility]), Views(req[w])
        PROVE  EntitledInv(w)'
    <3>1. a \in Accounts /\ Exists(a)
      BY <2>4 DEF Found, Named
    <3> DEFINE u == [id |-> a, visibility |-> users[a].visibility]
    <3>2. CASE pc'[w] = "respond" /\ status'[w] \in {401, 403, 307}
      BY <2>2, <3>2 DEF EntitledInv
    <3>3. CASE Allowed(w, u) \in {"list", "findFriend"} /\ pc'[w] = Allowed(w, u) /\ user'[w] = u
      <4>1. MayView(Cookie(w), a)' => a \in entitled'[w]
        BY <1>c, <2>1, <2>2, <2>4, <3>1, <3>3, Recalls DEF Views, Handler, Cookie
      <4>2. MayView(Cookie(w), a) => a \in entitled'[w]
        BY <2>1, <4>1 DEF MayView, Exists, Cookie
      <4>3. users[a].visibility \in Visibilities
        BY <3>1 DEF TypeOK, Exists, Account
      <4>4. CASE Allowed(w, u) = "list"
        <5>1. users[a].visibility = "public"
          BY <4>4 DEF Allowed
        <5> QED
          BY <3>1, <3>3, <4>2, <4>4, <5>1 DEF EntitledInv, MayView
      <4>5. CASE Allowed(w, u) = "findFriend"
        <5>1. Cookie(w) = a \/ users[a].visibility = "friends"
          BY <2>4, <4>3, <4>5 DEF Allowed, Visibilities
        <5>2. (NeedsFriend(w) => FriendFound(w))' => MayView(Cookie(w), a)
          BY <2>1, <2>2, <3>1, <3>3, <5>1 DEF MayView, NeedsFriend, FriendFound, Self, Cookie
        <5> QED
          BY <3>3, <4>2, <4>5, <5>2 DEF EntitledInv
      <4> QED
        BY <3>3, <4>4, <4>5
    <3> QED
      BY <2>4, <3>2, <3>3, MeetFacts
  <2>5. CASE ~ Views(req[w])
    BY <2>2, <2>5 DEF EntitledInv, Views, Handler
  <2> QED
    BY <1>2, <2>3, <2>4, <2>5, Zenon DEF FindByName
<1>3. CASE FindFriend(w)
  BY <1>a, <1>b, <1>d, <1>3 DEF FindFriend, EntitledInv, WorkerInv, Statement, Answer, Goto, Views, Handler, NeedsFriend, Self, FriendFound, Cookie
<1>4. CASE FindFriendFails(w)
  BY <1>a, <1>b, <1>d, <1>4 DEF FindFriendFails, EntitledInv, WorkerInv, Statement, Answer, Goto, Views, Handler, NeedsFriend, Self, FriendFound, Cookie
<1>5. CASE List(w)
  BY <1>a, <1>b, <1>d, <1>5 DEF List, EntitledInv, WorkerInv, Statement, Answer, Goto, Views, Handler, NeedsFriend, Self, FriendFound, Cookie
<1>6. CASE ListFails(w)
  BY <1>a, <1>b, <1>d, <1>6 DEF ListFails, EntitledInv, WorkerInv, Statement, Answer, Goto, Views, Handler, NeedsFriend, Self, FriendFound, Cookie
<1>7. CASE StatementFails(w)
  BY <1>a, <1>b, <1>d, <1>7 DEF StatementFails, EntitledInv, WorkerInv, Statement, Answer, Goto, Views, Handler, NeedsFriend, Self, FriendFound, Cookie
<1>8. CASE Respond(w)
  BY <1>a, <1>8 DEF Respond, Goto, EntitledInv
<1>9. CASE FindById(w) \/ FindByIdFails(w) \/ FindUser(w) \/ UpdateUser(w) \/ DeleteUser(w) \/ Signin(w) \/ Signup(w) \/ Commit(w) \/ CommitLost(w) \/ CreateFlight(w) \/ DeleteFlights(w)
  <2>1. ~ Views(req[w])
    BY <1>b, <1>9 DEF FindById, FindByIdFails, FindUser, UpdateUser, DeleteUser, Signin, Signup, Commit, CommitLost, CreateFlight, DeleteFlights, Statement, WorkerInv
  <2>2. UNCHANGED req
    BY <1>9 DEF FindById, FindByIdFails, FindUser, UpdateUser, DeleteUser, Signin, Signup, Commit, CommitLost, CreateFlight, DeleteFlights
  <2> QED
    BY <2>1, <2>2 DEF EntitledInv, Views, Handler
<1> QED
  BY <1>1, <1>2, <1>3, <1>4, <1>5, <1>6, <1>7, <1>8, <1>9 DEF Acts

LEMMA DrawnStep ==
  ASSUME TypeOK, Inv, NEW w \in Workers, Acts(w)
  PROVE  DrawnInv'
<1>1. drawn \subseteq drawn'
  BY FrameHolds DEF Inv, Frame
<1>2. ASSUME NEW a \in Accounts, Exists(a)'
      PROVE  Exists(a) \/ (a = user[w].id /\ pc[w] = "commit")
  <2>1. UNCHANGED users \/ UpdateUser(w) \/ DeleteUser(w) \/ Commit(w)
    BY DEF Acts, Route, FindByName, FindFriend, FindFriendFails, List, ListFails, FindById, FindByIdFails, FindUser,
           Signin, Signup, CommitLost, CreateFlight, DeleteFlights, StatementFails, Respond, dbVars
  <2>2. CASE UpdateUser(w)
    <3>1. users' = users \/ (Exists(Cookie(w)) /\ \A b \in Accounts \ {Cookie(w)} : users'[b] = users[b])
      BY <2>2 DEF UpdateUser, TypeOK
    <3> QED
      BY <1>2, <3>1 DEF Exists
  <2>3. CASE DeleteUser(w)
    BY <1>2, <2>3 DEF DeleteUser, Exists, TypeOK
  <2>4. CASE Commit(w)
    BY <1>2, <2>4 DEF Commit, Statement, Exists, TypeOK
  <2> QED
    BY <1>2, <2>1, <2>2, <2>3, <2>4 DEF Exists
<1> QED
  BY <1>1, <1>2 DEF Inv, DrawnInv, WorkerInv

LEMMA InitInv == Init => Inv
  BY ApiAssumption DEF Init, Inv, DrawnInv, WorkerInv, EntitledInv, Exists

LEMMA InvStep ==
  ASSUME TypeOK, Inv, [Next]_vars
  PROVE  TypeOK' /\ Inv'
<1>1. CASE Next
  <2>1. PICK w \in Workers : Acts(w)
    BY <1>1, OneActs
  <2>2. TypeOK' /\ DrawnInv' /\ WorkerInv(w)' /\ EntitledInv(w)'
    BY <2>1, TypeStep, DrawnStep, OwnWorkerInv, OwnEntitledInv
  <2>3. Frame(w)
    BY <2>1, FrameHolds DEF Inv
  <2>4. ASSUME NEW v \in Workers \ {w} PROVE WorkerInv(v)' /\ EntitledInv(v)'
    BY <2>2, <2>3, <2>4, OthersKeep
  <2> QED
    BY <2>2, <2>4 DEF Inv
<1>2. CASE UNCHANGED vars
  BY <1>2 DEF vars, TypeOK, Inv, DrawnInv, WorkerInv, EntitledInv, Exists, HandsOut, Cookie, NeedsFriend, FriendFound, Self
<1> QED
  BY <1>1, <1>2

LEMMA Invariance == Spec => [](TypeOK /\ Inv)
<1>1. Init => TypeOK /\ Inv
  BY InitType, InitInv
<1>2. TypeOK /\ Inv /\ [Next]_vars => (TypeOK /\ Inv)'
  BY InvStep
<1> QED
  BY <1>1, <1>2, PTL DEF Spec

(* The variables keep their types, and a bwt is only handed out for an id the
   database has drawn, for any number of workers and accounts. *)
THEOREM TypeCorrect == Spec => []TypeOK
  BY Invariance, PTL

(* Whoever is shown the flights of an account was allowed to view its profile
   at some moment of his request: what a worker read in an earlier statement
   and acts on now was true then. *)
THEOREM ShownOnlyToEntitled == Spec => []ShownToEntitled
<1>1. TypeOK /\ Inv => ShownToEntitled
  BY DEF Inv, EntitledInv, ShownToEntitled
<1> QED
  BY <1>1, Invariance, PTL

-----------------------------------------------------------------------------
(* What belongs to an account. *)

LEMMA AccountStep ==
  ASSUME TypeOK, TypeOK', Inv, NothingWithoutAccount, [Next]_vars
  PROVE  NothingWithoutAccount'
<1> USE DEF NothingWithoutAccount, Exists
<1>1. CASE UNCHANGED <<users, friends, owner>>
  BY <1>1
<1>2. ASSUME NEW w \in Workers, UpdateUser(w) PROVE NothingWithoutAccount'
  <2>1. UNCHANGED <<friends, owner>>
    BY <1>2 DEF UpdateUser
  <2>2. \A a \in Accounts : users[a] # None => users'[a] # None
    <3>1. \A a \in Accounts : users[a] # None => [users[a] EXCEPT !.visibility = req[w].visibility] \in Account
      <4>1. req[w].visibility \in Visibilities
        BY RequestType DEF TypeOK, Request
      <4>2. \A a \in Accounts : users[a] # None => users[a] \in [name : Names, visibility : Visibilities]
        BY DEF TypeOK, Account
      <4> QED
        BY <4>1, <4>2 DEF Account
    <3>2. CASE Exists(Cookie(w)) /\ users' = [users EXCEPT ![Cookie(w)].visibility = req[w].visibility]
      <4>1. users' = [a \in Accounts |-> IF a = Cookie(w) THEN [users[a] EXCEPT !.visibility = req[w].visibility]
                                        ELSE users[a]]
        BY <3>2, ZenonT(60) DEF TypeOK
      <4> QED
        BY <3>1, <4>1, ApiAssumption
    <3> QED
      BY <1>2, <3>2 DEF UpdateUser
  <2> QED
    BY <2>1, <2>2 DEF TypeOK
<1>3. ASSUME NEW w \in Workers, DeleteUser(w) PROVE NothingWithoutAccount'
  BY <1>3, <1>1 DEF DeleteUser, Cascade, TypeOK
<1>4. ASSUME NEW w \in Workers, Commit(w) PROVE NothingWithoutAccount'
  <2>1. [name |-> req[w].name, visibility |-> user[w].visibility] \in Account
    BY RequestType DEF TypeOK, Request, Account
  <2>2. UNCHANGED <<friends, owner>>
    BY <1>4 DEF Commit
  <2>3. \A a \in Accounts : users[a] # None => users'[a] # None
    BY <1>4, <2>1, ApiAssumption DEF Commit, TypeOK
  <2> QED
    BY <2>2, <2>3 DEF TypeOK
<1>5. ASSUME NEW w \in Workers, CreateFlight(w) PROVE NothingWithoutAccount'
  BY <1>5 DEF CreateFlight, TypeOK
<1>6. ASSUME NEW w \in Workers, DeleteFlights(w) PROVE NothingWithoutAccount'
  BY <1>6 DEF DeleteFlights, Purge, TypeOK
<1>7. \/ UNCHANGED <<users, friends, owner>>
      \/ \E w \in Workers : UpdateUser(w) \/ DeleteUser(w) \/ Commit(w) \/ CreateFlight(w) \/ DeleteFlights(w)
  BY DEF Next, vars, Route, FindByName, FindFriend, FindFriendFails, List, ListFails, FindById, FindByIdFails, FindUser,
         Signin, Signup, CommitLost, StatementFails, Respond, dbVars
<1> QED
  BY <1>1, <1>2, <1>3, <1>4, <1>5, <1>6, <1>7

(* Flights and friendships belong to accounts that exist, whatever clients do
   with the bwt of a deleted account. *)
THEOREM NothingWithoutItsAccount == Spec => []NothingWithoutAccount
<1>1. Init => NothingWithoutAccount
  <2>1. SUFFICES ASSUME Init PROVE NothingWithoutAccount
    OBVIOUS
  <2>2. ASSUME NEW a \in Existing PROVE Exists(a)
    <3>1. [name |-> FirstName[a], visibility |-> "private"] \in Account
      BY ApiAssumption DEF Account, Visibilities
    <3>2. users[a] = [name |-> FirstName[a], visibility |-> "private"]
      BY <2>1, ApiAssumption DEF Init
    <3> QED
      BY <3>1, <3>2, ApiAssumption DEF Exists
  <2>3. friends \subseteq Existing \X Existing
    BY <2>1, ApiAssumption DEF Init
  <2>4. \A f \in Flights : owner[f] # None => owner[f] \in Existing
    BY <2>1 DEF Init
  <2> QED
    BY <2>2, <2>3, <2>4 DEF NothingWithoutAccount
<1>2. TypeOK /\ Inv /\ (TypeOK /\ Inv)' /\ NothingWithoutAccount /\ [Next]_vars => NothingWithoutAccount'
  BY AccountStep
<1> QED
  BY <1>1, <1>2, Invariance, PTL DEF Spec
-----------------------------------------------------------------------------
(* Nobody's data changes in another's request. *)

LEMMA OwnStep ==
  ASSUME TypeOK, Inv, Next, NEW a \in Accounts, Exists(a),
         users'[a] # users[a] \/ {f \in Flights : owner'[f] = a} # FlightsOf(a)
  PROVE  \E w \in Workers : pc[w] # "idle" /\ pc'[w] = "respond" /\ Cookie(w) = a
<1> USE DEF FlightsOf, Exists, Goto, Answer, Statement
<1>1. ASSUME NEW w \in Workers, UpdateUser(w)
      PROVE  pc[w] # "idle" /\ pc'[w] = "respond" /\ Cookie(w) = a
  BY <1>1 DEF UpdateUser, TypeOK
<1>2. ASSUME NEW w \in Workers, DeleteUser(w)
      PROVE  pc[w] # "idle" /\ pc'[w] = "respond" /\ Cookie(w) = a
  BY <1>2, ApiAssumption DEF DeleteUser, Cascade, TypeOK
<1>3. ASSUME NEW w \in Workers, Commit(w) PROVE FALSE
  BY <1>3 DEF Commit, TypeOK, Inv, WorkerInv
<1>4. ASSUME NEW w \in Workers, CreateFlight(w)
      PROVE  pc[w] # "idle" /\ pc'[w] = "respond" /\ Cookie(w) = a
  BY <1>4, ApiAssumption DEF CreateFlight, TypeOK
<1>5. ASSUME NEW w \in Workers, DeleteFlights(w)
      PROVE  pc[w] # "idle" /\ pc'[w] = "respond" /\ Cookie(w) = a
  BY <1>5, ApiAssumption DEF DeleteFlights, Purge, TypeOK
<1>6. \/ UNCHANGED <<users, owner>>
      \/ \E w \in Workers : UpdateUser(w) \/ DeleteUser(w) \/ Commit(w) \/ CreateFlight(w) \/ DeleteFlights(w)
  BY DEF Next, Route, FindByName, FindFriend, FindFriendFails, List, ListFails, FindById, FindByIdFails, FindUser,
         Signin, Signup, CommitLost, StatementFails, Respond, dbVars
<1> QED
  BY <1>1, <1>2, <1>3, <1>4, <1>5, <1>6

(* What belongs to an account changes only in a request with its own cookie;
   the bwt of a deleted account, or of one whose signup was lost, reaches
   nothing that is another's. *)
THEOREM OnlyOwnDataChanges == Spec => OnlyOwnData
<1>1. TypeOK /\ Inv /\ [Next]_vars =>
        [\A a \in Accounts :
           Exists(a) /\ (users'[a] # users[a] \/ {f \in Flights : owner'[f] = a} # FlightsOf(a))
           => \E w \in Workers : pc[w] # "idle" /\ pc'[w] = "respond" /\ Cookie(w) = a]_vars
  BY OwnStep
<1> QED
  BY <1>1, Invariance, PTL DEF Spec, OnlyOwnData

-----------------------------------------------------------------------------
(* A name leads to its owner's page.                                        *)

Committing(w) == pc[w] = "commit"

(* No name is taken twice or is a page's; the name of an insert that is     *)
(* about to be committed is still free, as it holds the write lock; and its *)
(* id is one that no client has a bwt of.                                   *)
NamesInv ==
  /\ \A a \in Accounts : Exists(a) => users[a].name \notin WordPaths
  /\ \A a, b \in Accounts : Exists(a) /\ Exists(b) /\ users[a].name = users[b].name => a = b
  /\ \A w \in Workers : pc[w] \in {"signup", "commit"} => req[w].name \notin WordPaths /\ TakesCredentials(req[w])
  /\ \A w \in Workers : Committing(w) => Named(req[w].name) = {}
  /\ \A w \in Workers : Committing(w) => user[w].id \notin issued
  /\ \A w, v \in Workers : Committing(w) /\ pc[v] = "respond" /\ HandsOut(v) => user[w].id # user[v].id
  /\ \A w \in Workers : pc[w] # "idle" /\ Cookie(w) \in Accounts => Cookie(w) \in issued

(* A worker that is asked for the page of the account whose bwt it was      *)
(* shown.                                                                   *)
AsksForOwn(w) ==
  /\ pc[w] # "idle" /\ Handler(req[w])[1] = "get"
  /\ Cookie(w) \in Accounts /\ Exists(Cookie(w)) /\ req[w].path = users[Cookie(w)].name

OwnPageInv == \A w \in Workers : AsksForOwn(w) =>
  /\ pc[w] \in {"findByName", "findFriend", "list", "respond"}
  /\ pc[w] \in {"findFriend", "list"} => user[w].id = Cookie(w)
  /\ pc[w] = "respond" => status[w] = 500 \/ page[w] = "self"

LEMMA NameIsNoPage ==
  ASSUME NEW n \in Names, n \notin WordPaths
  PROVE  n \notin Pages \cup Endpoints /\ \A h \in Handlers : h[2] # n
<1>1. n \notin Pages \cup Endpoints
  BY ApiAssumption
<1>2. \A h \in Handlers : h[2] \in Pages \cup Endpoints
  BY DEF Handlers, Pages, Endpoints
<1> QED
  BY <1>1, <1>2

(* What a step does to the accounts.                                        *)
LEMMA UsersStep ==
  ASSUME TypeOK, Inv, NEW w \in Workers, Acts(w)
  PROVE  \A a \in Accounts : Exists(a)' =>
           \/ Exists(a) /\ users'[a].name = users[a].name
           \/ Commit(w) /\ a = user[w].id /\ users'[a].name = req[w].name /\ ~Exists(a)
<1> SUFFICES ASSUME NEW a \in Accounts, Exists(a)'
             PROVE  \/ Exists(a) /\ users'[a].name = users[a].name
                    \/ Commit(w) /\ a = user[w].id /\ users'[a].name = req[w].name /\ ~Exists(a)
  OBVIOUS
<1>1. UNCHANGED users \/ UpdateUser(w) \/ DeleteUser(w) \/ Commit(w)
  BY DEF Acts, Route, FindByName, FindFriend, FindFriendFails, List, ListFails, FindById, FindByIdFails, FindUser,
         Signin, Signup, CommitLost, CreateFlight, DeleteFlights, StatementFails, Respond, dbVars
<1>2. CASE UpdateUser(w)
  <2>1. CASE UNCHANGED users
    BY <2>1 DEF Exists
  <2>2. CASE Exists(Cookie(w)) /\ users' = [users EXCEPT ![Cookie(w)].visibility = req[w].visibility]
    <3>1. users'[a] = IF a = Cookie(w) THEN [users[a] EXCEPT !.visibility = req[w].visibility] ELSE users[a]
      BY <2>2 DEF TypeOK
    <3>2. Exists(a) => users[a] \in [name : Names, visibility : Visibilities]
      BY DEF TypeOK, Exists, Account
    <3>3. Exists(a)
      BY <2>2, <3>1 DEF Exists
    <3> QED
      BY <3>1, <3>2, <3>3
  <2> QED
    BY <1>2, <2>1, <2>2 DEF UpdateUser
<1>3. CASE DeleteUser(w)
  BY <1>3 DEF DeleteUser, Exists, TypeOK
<1>4. CASE Commit(w)
  <2>1. users' = [users EXCEPT ![user[w].id] = [name |-> req[w].name, visibility |-> user[w].visibility]]
    BY <1>4 DEF Commit
  <2>2. CASE a = user[w].id
    <3>1. ~Exists(a)
      BY <1>4, <2>2 DEF Commit, Statement, Inv, WorkerInv
    <3>2. users'[a].name = req[w].name
      BY <2>1, <2>2 DEF TypeOK
    <3> QED
      BY <1>4, <2>2, <3>1, <3>2
  <2>3. CASE a # user[w].id
    BY <2>1, <2>3 DEF TypeOK, Exists
  <2> QED
    BY <2>2, <2>3
<1> QED
  BY <1>1, <1>2, <1>3, <1>4 DEF Exists

(* Who is about to hand out a bwt was told the id by a statement.           *)
LEMMA ToldBefore ==
  ASSUME TypeOK, Inv, NEW w \in Workers, Acts(w), pc'[w] = "respond", HandsOut(w)'
  PROVE  \/ UNCHANGED user /\ Committing(w)
         \/ \E a \in Accounts : user'[w].id = a /\ Exists(a) /\ UNCHANGED users
<1>a. /\ pc \in [Workers -> Pc] /\ status \in [Workers -> Codes] /\ req \in [Workers -> Requests]
      /\ DOMAIN user = Workers
  BY DEF TypeOK, Codes
<1>b. WorkerInv(w)
  BY DEF Inv
<1>1. CASE Route(w)
  <2>1. PICK r \in Requests :
          /\ req'[w] = r
          /\ \/ pc'[w] = "respond" /\ status'[w] \notin {200, 201, 206}
             \/ pc'[w] = "respond" /\ status'[w] = 200 /\ ~ Views(r)
             \/ Refusal(r) = 0 /\ pc'[w] = FirstStatement(r) /\ pc'[w] # "respond"
    BY <1>1, RouteFacts
  <2> QED
    BY <2>1 DEF HandsOut
<1>2. CASE Signin(w)
  <2>1. CASE Answer(w, 401)
    BY <1>a, <2>1 DEF HandsOut, Answer
  <2>2. ASSUME NEW a \in Named(req[w].name), user' = [user EXCEPT ![w] = [id |-> a, visibility |-> users[a].visibility]]
        PROVE  user'[w].id = a /\ a \in Accounts /\ Exists(a) /\ UNCHANGED users
    BY <1>a, <1>2, <2>2 DEF Named, Signin, dbVars
  <2> QED
    BY <1>2, <2>1, <2>2 DEF Signin
<1>3. CASE Signup(w)
  <2>1. pc'[w] = "commit" \/ status'[w] = 409
    BY <1>a, <1>3 DEF Signup, Answer, Goto
  <2> QED
    BY <2>1 DEF HandsOut
<1>4. CASE Commit(w) \/ CommitLost(w)
  BY <1>4 DEF Commit, CommitLost, Statement, Committing
<1>5. CASE CreateFlight(w)
  <2>1. req'[w].path = "api/flight"
    BY <1>b, <1>5 DEF CreateFlight, Statement, WorkerInv
  <2> QED
    BY <2>1 DEF HandsOut, TakesCredentials
<1>6. CASE Respond(w)
  BY <1>a, <1>6 DEF Respond, Goto
<1>7. CASE FindByName(w)
  <2>1. ASSUME Answer(w, 404) PROVE status'[w] = 404
    BY <1>a, <2>1 DEF Answer
  <2>2. ASSUME NEW u, Meet(w, u) PROVE status'[w] \in {401, 403, 307} \/ pc'[w] \in {"list", "findFriend"}
    BY <2>2, MeetFacts
  <2>3. Answer(w, 404) \/ \E u : Meet(w, u)
    BY <1>7, Zenon DEF FindByName
  <2>4. status'[w] = 201 /\ pc'[w] = "respond"
    BY DEF HandsOut
  <2> QED
    BY <2>1, <2>2, <2>3, <2>4
<1>8. CASE FindFriend(w) \/ FindFriendFails(w)
  <2>1. pc'[w] = "list" \/ status'[w] \in {403, 500}
    BY <1>a, <1>8 DEF FindFriend, FindFriendFails, Answer, Goto
  <2> QED
    BY <2>1 DEF HandsOut
<1>9. CASE List(w)
  <2>1. status'[w] \in {200, 206}
    BY <1>a, <1>9 DEF List, Answer
  <2> QED
    BY <2>1 DEF HandsOut
<1>10. CASE FindById(w) \/ FindByIdFails(w)
  <2>1. status'[w] \in {200, 307}
    BY <1>a, <1>10 DEF FindById, FindByIdFails, Answer
  <2> QED
    BY <2>1 DEF HandsOut
<1>11. CASE FindUser(w) \/ UpdateUser(w) \/ DeleteUser(w) \/ DeleteFlights(w) \/ StatementFails(w) \/ ListFails(w)
  <2>1. status'[w] \in {200, 500}
    BY <1>a, <1>11 DEF FindUser, UpdateUser, DeleteUser, DeleteFlights, StatementFails, ListFails, Answer
  <2> QED
    BY <2>1 DEF HandsOut
<1> QED
  BY <1>1, <1>2, <1>3, <1>4, <1>5, <1>6, <1>7, <1>8, <1>9, <1>10, <1>11 DEF Acts

(* How a worker comes to commit, and what it is asked for.                  *)
LEMMA CommitsAfter ==
  ASSUME TypeOK, Inv, NEW w \in Workers, Acts(w)
  PROVE  /\ Committing(w)' =>
              /\ pc[w] = "signup" /\ UNCHANGED <<req, users, issued>>
              /\ Named(req[w].name) = {} /\ user'[w].id \notin drawn
         /\ pc'[w] = "signup" => FirstStatement(req'[w]) = "signup" /\ Refusal(req'[w]) = 0
         /\ issued' \in {issued, issued \cup {user[w].id}}
         /\ issued' # issued => pc[w] = "respond" /\ HandsOut(w) /\ pc'[w] = "idle"
         /\ UNCHANGED req \/ pc'[w] = "idle"
              \/ /\ pc[w] = "idle" /\ req'[w] \in Requests
                 /\ req'[w].cookie \in issued \cup {NoCookie, BadCookie}
<1>a. /\ pc \in [Workers -> Pc] /\ status \in [Workers -> Codes] /\ req \in [Workers -> Requests]
      /\ DOMAIN user = Workers
  BY DEF TypeOK, Codes
<1>1. CASE Route(w)
  <2>1. PICK r \in Requests :
          /\ r.cookie \in issued \cup {NoCookie, BadCookie}
          /\ req' = [req EXCEPT ![w] = r] /\ Dispatch(w, r)
    BY <1>1 DEF Route
  <2>2. req'[w] = r /\ issued' = issued /\ pc[w] = "idle"
    BY <1>a, <1>1, <2>1 DEF Route
  <2>3. pc'[w] = "respond" \/ (Refusal(r) = 0 /\ pc'[w] = FirstStatement(r))
    <3>1. pc' = [pc EXCEPT ![w] = "respond"] \/ (Refusal(r) = 0 /\ pc' = [pc EXCEPT ![w] = FirstStatement(r)])
      BY <2>1, Zenon DEF Dispatch, Answer, Goto
    <3> QED
      BY <1>a, <3>1
  <2>4. pc'[w] # "commit"
    BY <2>3, FirstStatementFacts
  <2> QED
    BY <2>1, <2>2, <2>3, <2>4 DEF Committing
<1>2. CASE FindByName(w)
  <2>1. UNCHANGED <<req, issued>>
    BY <1>2 DEF FindByName
  <2>2. pc'[w] \in {"respond", "list", "findFriend"}
    <3>1. CASE Answer(w, 404)
      BY <1>a, <3>1 DEF Answer, Goto
    <3>2. ASSUME NEW u, Meet(w, u) PROVE pc'[w] \in {"respond", "list", "findFriend"}
      BY <3>2, MeetFacts
    <3> QED
      BY <1>2, <3>1, <3>2, Zenon DEF FindByName
  <2> QED
    BY <2>1, <2>2 DEF Committing
<1>3. CASE Signup(w)
  <2>1. pc[w] = "signup" /\ UNCHANGED <<req, users, issued>>
    BY <1>3 DEF Signup, Statement
  <2>2. CASE Answer(w, 409)
    <3>1. pc'[w] = "respond"
      BY <1>a, <2>2 DEF Answer, Goto
    <3> QED
      BY <2>1, <3>1 DEF Committing
  <2>3. CASE Goto(w, "commit")
    <3>1. pc'[w] = "commit"
      BY <1>a, <2>3 DEF Goto
    <3>2. Named(req[w].name) = {} /\ user'[w].id \notin drawn
      BY <1>a, <1>3, <3>1 DEF Signup, Answer, Goto
    <3> QED
      BY <2>1, <3>1, <3>2
  <2> QED
    BY <1>3, <2>2, <2>3 DEF Signup
<1>4. CASE Respond(w)
  BY <1>a, <1>4 DEF Respond, Goto, Committing
<1>5. CASE FindFriend(w) \/ FindFriendFails(w) \/ List(w) \/ ListFails(w) \/ FindById(w) \/ FindByIdFails(w)
           \/ FindUser(w) \/ UpdateUser(w) \/ DeleteUser(w) \/ Signin(w) \/ Commit(w) \/ CommitLost(w)
           \/ CreateFlight(w) \/ DeleteFlights(w) \/ StatementFails(w)
  <2>1. UNCHANGED <<req, issued>>
    BY <1>5 DEF FindFriend, FindFriendFails, List, ListFails, FindById, FindByIdFails, FindUser, UpdateUser,
                DeleteUser, Signin, Commit, CommitLost, CreateFlight, DeleteFlights, StatementFails
  <2>2. pc' = [pc EXCEPT ![w] = "respond"] \/ pc' = [pc EXCEPT ![w] = "list"]
    BY <1>5 DEF FindFriend, FindFriendFails, List, ListFails, FindById, FindByIdFails, FindUser, UpdateUser,
                DeleteUser, Signin, Commit, CommitLost, CreateFlight, DeleteFlights, StatementFails, Answer, Goto
  <2>3. pc'[w] \in {"respond", "list"}
    BY <1>a, <2>2
  <2> QED
    BY <2>1, <2>3 DEF Committing
<1> QED
  BY <1>1, <1>2, <1>3, <1>4, <1>5 DEF Acts

(* Who signs up has given a name that no page has.                          *)
LEMMA SignupName ==
  ASSUME NEW r \in Requests, FirstStatement(r) = "signup", Refusal(r) = 0
  PROVE  TakesCredentials(r) /\ r.name \notin WordPaths
<1>1. Handler(r) = <<"post", "api/signup">>
  BY RequestType DEF FirstStatement
<1> QED
  BY <1>1, RequestType DEF Refusal, Handler, NeedsBody, BodyOK, TakesCredentials, Reserved, WordPaths, IsProfile, Request

LEMMA NamesStep ==
  ASSUME TypeOK, TypeOK', Inv, Inv', NamesInv, NEW w \in Workers, Acts(w)
  PROVE  NamesInv'
<1>a. Frame(w) /\ WorkerInv(w)
  BY FrameHolds DEF Inv
<1>b. /\ \A a \in Accounts : Exists(a)' =>
           \/ Exists(a) /\ users'[a].name = users[a].name
           \/ Commit(w) /\ a = user[w].id /\ users'[a].name = req[w].name /\ ~Exists(a)
  BY UsersStep
<1>c. Commit(w) => Committing(w)
  BY DEF Commit, Committing, Statement
<1>d. \A v \in Workers : Committing(v) => writer = v /\ user[v].id \in drawn /\ ~Exists(user[v].id)
  BY DEF Inv, WorkerInv, Committing
<1>e. issued \subseteq issued' /\ issued \subseteq drawn /\ issued \subseteq Accounts
  <2>1. issued' \in {issued, issued \cup {user[w].id}}
    BY CommitsAfter
  <2>2. issued \subseteq drawn /\ drawn \subseteq Accounts
    BY DEF TypeOK
  <2> QED
    BY <2>1, <2>2
<1>1. ASSUME NEW a \in Accounts, Exists(a)' PROVE users'[a].name \notin WordPaths
  BY <1>b, <1>c, <1>1 DEF NamesInv, Committing
<1>2. ASSUME NEW a \in Accounts, NEW b \in Accounts, Exists(a)', Exists(b)', users'[a].name = users'[b].name
      PROVE  a = b
  <2>1. CASE Commit(w)
    <3>1. \A c \in Accounts : Exists(c) => users[c].name # req[w].name
      BY <1>c, <2>1 DEF NamesInv, Named
    <3> QED
      BY <1>b, <1>2, <3>1 DEF NamesInv
  <2>2. CASE ~Commit(w)
    BY <1>b, <1>2, <2>2 DEF NamesInv
  <2> QED
    BY <2>1, <2>2
<1>3. ASSUME NEW v \in Workers, pc'[v] \in {"signup", "commit"}
      PROVE  req'[v].name \notin WordPaths /\ TakesCredentials(req'[v])
  <2>1. CASE v = w
    <3>1. CASE pc'[w] = "signup"
      <4>1. req'[w] \in Requests
        BY DEF TypeOK
      <4>2. FirstStatement(req'[w]) = "signup" /\ Refusal(req'[w]) = 0
        BY <3>1, CommitsAfter
      <4>3. PICK r \in Requests : r = req'[w]
        BY <4>1
      <4> QED
        BY <2>1, <4>2, <4>3, SignupName
    <3>2. CASE pc'[w] = "commit"
      <4>1. pc[w] = "signup" /\ req'[w] = req[w]
        BY <3>2, CommitsAfter DEF Committing
      <4> QED
        BY <2>1, <4>1 DEF NamesInv
    <3> QED
      BY <1>3, <2>1, <3>1, <3>2
  <2>2. CASE v # w
    <3>1. pc'[v] = pc[v] /\ req'[v] = req[v]
      BY <1>a, <2>2 DEF Frame
    <3> QED
      BY <1>3, <3>1 DEF NamesInv
  <2> QED
    BY <2>1, <2>2
<1>4. ASSUME NEW v \in Workers, Committing(v)' PROVE Named(req[v].name)' = {}
  <2>1. UNCHANGED users /\ req'[v] = req[v] /\ Named(req[v].name) = {}
    <3>1. CASE v = w
      BY <1>4, <3>1, CommitsAfter
    <3>2. CASE v # w
      <4>1. pc'[v] = pc[v] /\ req'[v] = req[v]
        BY <1>a, <3>2 DEF Frame
      <4>2. writer = v
        BY <1>4, <1>d, <4>1 DEF Committing
      <4>3. writer \notin {None, w}
        BY <3>2, <4>2, ApiAssumption
      <4> QED
        BY <1>4, <1>a, <4>1, <4>3 DEF Frame, NamesInv, Committing
    <3> QED
      BY <3>1, <3>2
  <2> QED
    BY <2>1 DEF Named, Exists
<1>5. ASSUME NEW v \in Workers, Committing(v)' PROVE user'[v].id \notin issued'
  <2>1. CASE v = w
    <3>1. user'[w].id \notin drawn /\ pc'[w] # "idle"
      BY <1>5, <2>1, CommitsAfter DEF Committing
    <3>2. issued' = issued
      BY <3>1, CommitsAfter
    <3> QED
      BY <1>e, <2>1, <3>1, <3>2
  <2>2. CASE v # w
    <3>1. pc'[v] = pc[v] /\ user'[v] = user[v] /\ Committing(v)
      BY <1>5, <1>a, <2>2 DEF Frame, Committing
    <3>2. user[v].id \notin issued
      BY <3>1 DEF NamesInv
    <3>3. CASE issued' = issued
      BY <3>1, <3>2, <3>3
    <3>4. CASE issued' # issued
      <4>1. pc[w] = "respond" /\ HandsOut(w) /\ issued' = issued \cup {user[w].id}
        BY <3>4, CommitsAfter
      <4>2. user[v].id # user[w].id
        BY <3>1, <4>1 DEF NamesInv
      <4> QED
        BY <3>1, <3>2, <4>1, <4>2
    <3> QED
      BY <3>3, <3>4
  <2> QED
    BY <2>1, <2>2
<1>6. ASSUME NEW u \in Workers, NEW v \in Workers, Committing(u)', pc'[v] = "respond", HandsOut(v)'
      PROVE  user'[u].id # user'[v].id
  <2>1. u # v
    BY <1>6 DEF Committing
  <2>2. CASE u = w
    <3>1. user'[w].id \notin drawn
      BY <1>6, <2>2, CommitsAfter
    <3>2. pc'[v] = pc[v] /\ user'[v] = user[v] /\ req'[v] = req[v] /\ status'[v] = status[v]
      BY <1>a, <2>1, <2>2 DEF Frame
    <3>3. HandsOut(v)
      BY <1>6, <3>2 DEF HandsOut, TakesCredentials
    <3>4. user[v].id \in drawn
      BY <1>6, <3>2, <3>3 DEF Inv, WorkerInv
    <3> QED
      BY <2>2, <3>1, <3>2, <3>4
  <2>3. CASE u # w
    <3>1. pc'[u] = pc[u] /\ user'[u] = user[u] /\ Committing(u)
      BY <1>6, <1>a, <2>3 DEF Frame, Committing
    <3>2. CASE v = w
      <4>1. CASE Committing(w)
        BY <1>d, <2>3, <3>1, <4>1
      <4>2. CASE ~Committing(w)
        <5>1. PICK a \in Accounts : user'[w].id = a /\ Exists(a)
          BY <1>6, <3>2, <4>2, ToldBefore
        <5> QED
          BY <1>d, <3>1, <3>2, <5>1
      <4> QED
        BY <4>1, <4>2
    <3>3. CASE v # w
      <4>1. pc'[v] = pc[v] /\ user'[v] = user[v] /\ req'[v] = req[v] /\ status'[v] = status[v]
        BY <1>a, <3>3 DEF Frame
      <4>2. HandsOut(v)
        BY <1>6, <4>1 DEF HandsOut, TakesCredentials
      <4> QED
        BY <1>6, <3>1, <4>1, <4>2 DEF NamesInv
    <3> QED
      BY <3>2, <3>3
  <2> QED
    BY <2>2, <2>3
<1>7. ASSUME NEW v \in Workers, pc'[v] # "idle", req'[v].cookie \in Accounts
      PROVE  req'[v].cookie \in issued'
  <2>1. CASE v = w
    <3>1. CASE UNCHANGED req /\ pc[w] # "idle"
      BY <1>7, <1>e, <2>1, <3>1 DEF NamesInv, Cookie
    <3>2. CASE req'[w].cookie \in issued \cup {NoCookie, BadCookie}
      BY <1>7, <1>e, <2>1, <3>2, ApiAssumption
    <3>3. pc[w] = "idle" => Route(w)
      BY DEF Acts, Statement, FindByName, FindFriend, FindFriendFails, List, ListFails, FindById, FindByIdFails,
             FindUser, UpdateUser, DeleteUser, Signin, Signup, Commit, CommitLost, CreateFlight, DeleteFlights,
             StatementFails, Respond
    <3>4. Route(w) => req'[w].cookie \in issued \cup {NoCookie, BadCookie}
      BY DEF Route, TypeOK
    <3>5. UNCHANGED req \/ pc[w] = "idle"
      BY <1>7, <2>1, CommitsAfter
    <3> QED
      BY <3>1, <3>2, <3>3, <3>4, <3>5
  <2>2. CASE v # w
    <3>1. pc'[v] = pc[v] /\ req'[v] = req[v]
      BY <1>a, <2>2 DEF Frame
    <3> QED
      BY <1>7, <1>e, <3>1 DEF NamesInv, Cookie
  <2> QED
    BY <2>1, <2>2
<1> QED
  BY <1>1, <1>2, <1>3, <1>4, <1>5, <1>6, <1>7 DEF NamesInv, Cookie

LEMMA ProfileFirst ==
  ASSUME NEW r \in Requests, IsProfile(r)
  PROVE  Refusal(r) = 0 /\ FirstStatement(r) = "findByName"
<1>1. Refusal(r) = 0
  BY DEF Refusal
<1>2. \A h \in Handlers : Handler(r)[2] # h[2]
  BY DEF IsProfile, PathFound, Handler
<1>3. Handler(r) \notin Handlers
  BY <1>2
<1>4. FirstStatement(r) = "findByName"
  BY <1>3 DEF FirstStatement, Handlers, Pages
<1> QED
  BY <1>1, <1>4

(* A path that is an account's name is that of its profile.                 *)
LEMMA ProfileOf ==
  ASSUME TypeOK, NamesInv, NEW a \in Accounts, Exists(a),
         NEW r \in Requests, Handler(r)[1] = "get", r.path = users[a].name
  PROVE  IsProfile(r) /\ ~Views(r)
<1>1. users[a].name \in Names /\ users[a].name \notin WordPaths
  BY DEF TypeOK, Exists, Account, NamesInv
<1>2. r.path \notin Pages \cup Endpoints /\ \A h \in Handlers : h[2] # r.path
  BY <1>1, NameIsNoPage
<1> QED
  BY <1>1, <1>2 DEF IsProfile, PathFound, Views, Handler, Endpoints

(* Who is asked for his own page was so before, if not only now.            *)
LEMMA AskedBefore ==
  ASSUME TypeOK, Inv, NamesInv, NEW w \in Workers, Acts(w), NEW v \in Workers,
         AsksForOwn(v)', req'[v] = req[v], pc[v] # "idle"
  PROVE  AsksForOwn(v)
<1>1. Cookie(v) \in issued /\ Cookie(v) \in Accounts /\ Exists(Cookie(v))'
  BY DEF AsksForOwn, NamesInv, Cookie, Exists
<1>2. Exists(Cookie(v)) /\ users'[Cookie(v)].name = users[Cookie(v)].name
  <2>1. ~(Commit(w) /\ Cookie(v) = user[w].id)
    BY <1>1 DEF NamesInv, Commit, Committing, Statement
  <2>2. PICK a \in Accounts : a = Cookie(v)
    BY <1>1
  <2>3. Exists(a)'
    BY <2>2 DEF AsksForOwn, Cookie, Exists
  <2> QED
    BY <2>1, <2>2, <2>3, UsersStep
<1> QED
  BY <1>2 DEF AsksForOwn, Cookie, Handler

(* No step changes the page of another worker.                              *)
LEMMA PageFrame ==
  ASSUME TypeOK, NEW w \in Workers, Acts(w), NEW v \in Workers \ {w}
  PROVE  page'[v] = page[v]
<1>1. UNCHANGED page \/ \E x : page' = [page EXCEPT ![w] = x]
  <2>1. CASE Route(w)
    <3>1. PICK r : Dispatch(w, r)
      BY <2>1 DEF Route
    <3> QED
      BY <3>1, Zenon DEF Dispatch
  <2>2. CASE ~Route(w)
    BY <2>2, Zenon
    DEF Acts, FindByName, FindFriend, FindFriendFails, List, ListFails, FindById, FindByIdFails,
        FindUser, UpdateUser, DeleteUser, Signin, Signup, Commit, CommitLost, CreateFlight, DeleteFlights,
        StatementFails, Respond, answerVars
  <2> QED
    BY <2>1, <2>2
<1> QED
  BY <1>1 DEF TypeOK

LEMMA OwnPageStep ==
  ASSUME TypeOK, TypeOK', Inv, NamesInv, NamesInv', OwnPageInv, NEW w \in Workers, Acts(w)
  PROVE  OwnPageInv'
<1> DEFINE Right(v) == /\ pc[v] \in {"findByName", "findFriend", "list", "respond"}
                       /\ pc[v] \in {"findFriend", "list"} => user[v].id = Cookie(v)
                       /\ pc[v] = "respond" => status[v] = 500 \/ page[v] = "self"
<1>a. /\ pc \in [Workers -> Pc] /\ status \in [Workers -> Codes] /\ req \in [Workers -> Requests]
      /\ DOMAIN user = Workers /\ DOMAIN page = Workers
  BY DEF TypeOK, Codes
<1> SUFFICES ASSUME NEW v \in Workers, AsksForOwn(v)' PROVE Right(v)'
  BY DEF OwnPageInv
<1>1. CASE v # w
  <2>1. /\ pc'[v] = pc[v] /\ req'[v] = req[v] /\ user'[v] = user[v] /\ status'[v] = status[v]
        /\ page'[v] = page[v]
    <3>1. Frame(w)
      BY FrameHolds DEF Inv
    <3> QED
      BY <1>1, <3>1, PageFrame DEF Frame
  <2>2. AsksForOwn(v)
    BY <2>1, AskedBefore DEF AsksForOwn
  <2> QED
    BY <2>1, <2>2 DEF OwnPageInv, Cookie
<1>2. CASE v = w /\ pc[w] = "idle"
  <2>1. Route(w)
    BY <1>2 DEF Acts, Statement, FindByName, FindFriend, FindFriendFails, List, ListFails, FindById, FindByIdFails,
                FindUser, UpdateUser, DeleteUser, Signin, Signup, Commit, CommitLost, CreateFlight, DeleteFlights,
                StatementFails, Respond
  <2>2. PICK r \in Requests : req' = [req EXCEPT ![w] = r] /\ Dispatch(w, r)
    BY <2>1 DEF Route
  <2>3. req'[w] = r /\ UNCHANGED users
    BY <1>a, <2>1, <2>2 DEF Route, dbVars
  <2>4. IsProfile(r)
    <3>1. r.cookie \in Accounts /\ Exists(r.cookie) /\ Handler(r)[1] = "get" /\ r.path = users[r.cookie].name
      BY <1>2, <2>3 DEF AsksForOwn, Cookie, Exists, Handler
    <3> QED
      BY <3>1, ProfileOf
  <2>5. pc' = [pc EXCEPT ![w] = "findByName"]
    BY <2>2, <2>4, ProfileFirst, Zenon DEF Dispatch, Goto
  <2>6. pc'[w] = "findByName"
    BY <1>a, <2>5
  <2> QED
    BY <1>2, <2>6
<1>3. CASE v = w /\ pc[w] # "idle"
  <2>1. req'[w] = req[w]
    <3>1. pc'[w] # "idle"
      BY <1>3 DEF AsksForOwn
    <3> QED
      BY <1>3, <3>1, CommitsAfter
  <2>2. AsksForOwn(w) /\ Right(w)
    BY <1>3, <2>1, AskedBefore DEF OwnPageInv
  <2>3. IsProfile(req[w]) /\ ~Views(req[w]) /\ Self(w) = (user[w].id = Cookie(w))
    <3>1. req[w] \in Requests
      BY <1>a
    <3> QED
      BY <2>2, <3>1, ProfileOf DEF AsksForOwn, Self
  <2>4. CASE FindByName(w)
    <3>1. CASE Answer(w, 404) /\ Found(w) = {}
      <4>1. Cookie(w) \in Found(w)
        BY <2>2, <2>3 DEF Found, NameAsked, Named, AsksForOwn
      <4> QED
        BY <3>1, <4>1
    <3>2. ASSUME NEW a \in Found(w), Meet(w, [id |-> a, visibility |-> users[a].visibility])
          PROVE  Right(w)'
      <4>1. a = Cookie(w)
        BY <2>2, <2>3, <3>2 DEF Found, NameAsked, Named, AsksForOwn, NamesInv
      <4>2. Allowed(w, [id |-> a, visibility |-> users[a].visibility]) = "findFriend"
        <5>1. Cookie(w) # NoCookie /\ Cookie(w) # BadCookie
          BY <2>2, ApiAssumption DEF AsksForOwn
        <5> QED
          BY <2>3, <4>1, <5>1 DEF Allowed
      <4>3. Goto(w, "findFriend") /\ user' = [user EXCEPT ![w] = [id |-> a, visibility |-> users[a].visibility]]
        BY <3>2, <4>2, Zenon DEF Meet
      <4>4. pc'[w] = "findFriend" /\ user'[w].id = a
        BY <1>a, <4>3 DEF Goto
      <4> QED
        BY <2>1, <4>1, <4>4 DEF Cookie
    <3> QED
      BY <1>3, <2>4, <3>1, <3>2, Zenon DEF FindByName
  <2>5. CASE FindFriend(w) \/ FindFriendFails(w)
    <3>1. pc[w] = "findFriend" /\ ~NeedsFriend(w) /\ UNCHANGED user
      BY <2>2, <2>3, <2>5 DEF FindFriend, FindFriendFails, Statement, NeedsFriend
    <3>2. pc'[w] = "list"
      BY <1>a, <2>5, <3>1 DEF FindFriend, FindFriendFails, Goto
    <3> QED
      BY <1>3, <2>1, <2>2, <3>1, <3>2 DEF Cookie
  <2>6. CASE List(w)
    <3>1. page' = [page EXCEPT ![w] = IF Self(w) THEN "self" ELSE "other"] /\ Answer(w, 200) /\ Self(w)
      BY <2>2, <2>3, <2>6 DEF List, Statement
    <3>2. pc'[w] = "respond" /\ page'[w] = "self"
      BY <1>a, <3>1 DEF Answer, Goto
    <3> QED
      BY <1>3, <3>2
  <2>7. CASE StatementFails(w)
    <3>1. pc'[w] = "respond" /\ status'[w] = 500
      BY <1>a, <2>7 DEF StatementFails, Answer, Goto
    <3> QED
      BY <1>3, <3>1
  <2>8. FindByName(w) \/ FindFriend(w) \/ FindFriendFails(w) \/ List(w) \/ StatementFails(w)
    <3>1. pc[w] \in {"findByName", "findFriend", "list", "respond"}
      BY <2>2
    <3>2. ~Respond(w)
      BY <1>a, <1>3 DEF Respond, Goto, AsksForOwn
    <3>3. ~ListFails(w)
      BY <2>3 DEF ListFails
    <3> QED
      BY <1>3, <3>1, <3>2, <3>3 DEF Acts, Statement, Route, FindById, FindByIdFails, FindUser, UpdateUser, DeleteUser,
          Signin, Signup, Commit, CommitLost, CreateFlight, DeleteFlights
  <2> QED
    BY <2>4, <2>5, <2>6, <2>7, <2>8
<1> QED
  BY <1>1, <1>2, <1>3

(* Whoever has an account gets his own page under his name: no path of a    *)
(* page hides it, no other account has it, also while it is being deleted   *)
(* and taken by a signup, and no step of another request makes the worker   *)
(* take the page of a stranger for it (router.c:409-466, parse.c:64-68).    *)
THEOREM OwnPageIsServed == Spec => []OwnPageServed
<1>1. Init => NamesInv /\ OwnPageInv
  <2> SUFFICES ASSUME Init PROVE NamesInv /\ OwnPageInv
    OBVIOUS
  <2>1. \A a \in Accounts : Exists(a) => a \in Existing /\ users[a].name = FirstName[a]
    BY DEF Init, Exists
  <2>2. \A w \in Workers : pc[w] = "idle"
    BY DEF Init
  <2> QED
    BY <2>1, <2>2, ApiAssumption DEF NamesInv, OwnPageInv, AsksForOwn, Committing
<1>2. TypeOK /\ Inv /\ (TypeOK /\ Inv)' /\ NamesInv /\ OwnPageInv /\ [Next]_vars => (NamesInv /\ OwnPageInv)'
  <2> SUFFICES ASSUME TypeOK, Inv, TypeOK', Inv', NamesInv, OwnPageInv, [Next]_vars
               PROVE  NamesInv' /\ OwnPageInv'
    OBVIOUS
  <2>1. CASE Next
    <3>1. PICK w \in Workers : Acts(w)
      BY <2>1, OneActs
    <3>2. NamesInv'
      BY <3>1, NamesStep
    <3> QED
      BY <3>1, <3>2, OwnPageStep
  <2>2. CASE UNCHANGED vars
    BY <2>2 DEF vars, NamesInv, OwnPageInv, AsksForOwn, Committing, Exists, Named, HandsOut, Cookie, Handler,
                TakesCredentials
  <2> QED
    BY <2>1, <2>2
<1>3. NamesInv /\ OwnPageInv => OwnPageServed
  BY DEF OwnPageInv, OwnPageServed, AsksForOwn
<1> QED
  BY <1>1, <1>2, <1>3, Invariance, PTL DEF Spec
=============================================================================
