-------------------------------- MODULE Api --------------------------------
(***************************************************************************)
(* route() of src/api/router.c and the handlers under src/api: several     *)
(* workers answer requests, each over a connection of its own to one       *)
(* SQLite database.  There are no transactions in the code: every          *)
(* statement commits by itself, and a request that needs two or three of   *)
(* them acts in the later ones on what it read in the earlier ones.        *)
(*                                                                         *)
(* One action is one statement with the decisions that follow it.  An      *)
(* account is its id, drawn by randomblob(16) and never drawn again; a     *)
(* flight is its hash; a cookie is the account whose bwt it carries.       *)
(***************************************************************************)
EXTENDS Naturals, FiniteSets

CONSTANTS
  Workers,    (* requests answered at a time                              *)
  Accounts,   (* ids                                                      *)
  Existing,   (* accounts in the database when the server starts          *)
  FirstName,  (* their usernames                                          *)
  Friendships,(* rows the friend table may have; no statement writes any  *)
  Names,      (* usernames                                                *)
  Flights,    (* hashes of flights                                        *)
  Requests,   (* what clients ask, see Request                            *)
  Fit,        (* flights that fit into an answer                          *)
  CommitFails,(* a signup's commit may fail                               *)
  None, NoCookie,
  BadCookie   (* one bwt_verify() refuses: no bwt, forged or expired      *)

Visibilities == {"private", "friends", "public"}
Pages == {"home", "robots", "security", "signin", "signup", "settings"}
Endpoints == {"api/me", "api/signin", "api/signup", "api/year", "api/flight"}

Request == [method : {"get", "head", "patch", "post", "delete"},
            path : Pages \cup Endpoints \cup Names \cup {"elsewhere"},
            search : {"none", "user", "userYear", "other"},
            cookie : Accounts \cup {NoCookie, BadCookie},
            name : Names,                (* in the search or the body     *)
            password : BOOLEAN,          (* the one of the account's owner *)
            visibility : Visibilities,
            flight : Flights,
            valid : BOOLEAN]             (* the body parses and validates *)

Account == [name : Names, visibility : Visibilities]

(* The paths of pages that are words, as usernames are. *)
WordPaths == {"signin", "signup", "settings"}

ASSUME ApiAssumption ==
  /\ Existing \subseteq Accounts
  /\ FirstName \in [Existing -> Names]
  /\ \A a, b \in Existing : FirstName[a] = FirstName[b] => a = b
  /\ Friendships \subseteq {p \in Existing \X Existing : p[1] # p[2]}
  /\ Names \cap (Pages \cup Endpoints) \subseteq WordPaths
  /\ \A a \in Existing : FirstName[a] \notin WordPaths
  /\ Requests \subseteq Request /\ Requests # {}
  /\ Fit \in Nat
  /\ CommitFails \in BOOLEAN
  /\ {None, NoCookie, BadCookie} \cap Accounts = {} /\ None \notin Account /\ None \notin Workers

VARIABLES
  users,     (* table user: the row of each id, or None                   *)
  friends,   (* table friend: pairs of id and user_id                     *)
  owner,     (* table flight: the user_id of each hash, or None           *)
  drawn,     (* ids used so far                                           *)
  issued,    (* accounts whose clients hold a bwt                         *)
  writer,    (* the worker whose statement holds the write lock, or None  *)
  pc,        (* what each worker does next                                *)
  req,       (* the request it answers                                    *)
  user,      (* the struct user_t it has read, or the id it has made      *)
  status,    (* response->status                                          *)
  shown,     (* flights in the response                                   *)
  page,      (* the page in the response                                  *)
  entitled,  (* history: accounts whose profile the caller was allowed to
                view at some moment since the request began               *)
  exposed    (* history: flights that were there while their owner's
                profile was not private                                   *)

dbVars == <<users, friends, owner, drawn>>
answerVars == <<status, shown, page>>
historyVars == <<entitled, exposed>>
vars == <<users, friends, owner, drawn, issued, writer, pc, req, user, status, shown, page, entitled, exposed>>

Pc == {"idle", "findById", "findByName", "findFriend", "list", "findUser", "updateUser", "deleteUser",
       "signin", "signup", "commit", "createFlight", "deleteFlights", "respond"}

-----------------------------------------------------------------------------
(* The database. *)

Exists(a) == users[a] # None
Named(n) == {a \in Accounts : Exists(a) /\ users[a].name = n}
FlightsOf(a) == {f \in Flights : owner[f] = a}
WriteLockFree == writer = None

Open(a) == Exists(a) /\ users[a].visibility # "private"

(* Whether a caller may view an account's profile now. *)
MayView(cookie, a) ==
  /\ Exists(a)
  /\ \/ users[a].visibility = "public"
     \/ cookie = a
     \/ users[a].visibility = "friends" /\ <<cookie, a>> \in friends

(* match(): a handler for get answers head too. *)
Handler(r) == <<IF r.method = "head" THEN "get" ELSE r.method, r.path>>
Views(r) == Handler(r) \in {<<"get", "api/year">>, <<"get", "api/flight">>}
Viewable(w) == IF pc[w] # "idle" /\ Views(req[w]) THEN {a \in Accounts : MayView(req[w].cookie, a)} ELSE {}

(* What the histories add in every step. *)
Remember ==
  /\ entitled' = [w \in Workers |-> IF pc'[w] = "idle" THEN {} ELSE entitled[w] \cup Viewable(w)']
  /\ exposed' = {f \in Flights : owner'[f] # None
                                  /\ (Open(owner[f])' \/ (f \in exposed /\ owner'[f] = owner[f]))}

NoRequest == CHOOSE r \in Requests : TRUE
NoUser == [id |-> None, visibility |-> "private"]

(* An account is private until its owner opens it. *)
Init ==
  /\ users = [a \in Accounts |-> IF a \in Existing THEN [name |-> FirstName[a], visibility |-> "private"] ELSE None]
  /\ friends \in SUBSET Friendships
  /\ owner \in [Flights -> Existing \cup {None}]
  /\ drawn = Existing
  /\ issued = Existing
  /\ writer = None
  /\ pc = [w \in Workers |-> "idle"]
  /\ req = [w \in Workers |-> NoRequest]
  /\ user = [w \in Workers |-> NoUser]
  /\ status = [w \in Workers |-> 0]
  /\ shown = [w \in Workers |-> {}]
  /\ page = [w \in Workers |-> None]
  /\ entitled = [w \in Workers |-> {}]
  /\ exposed = {f \in Flights : owner[f] # None /\ Open(owner[f])}

-----------------------------------------------------------------------------
(* route(): what is decided before the database is asked. *)

Handlers ==
  ({"get"} \X (Pages \cup {"api/me", "api/year", "api/flight"}))
    \cup {<<"patch", "api/me">>, <<"delete", "api/me">>, <<"post", "api/signin">>, <<"post", "api/signup">>,
          <<"post", "api/flight">>, <<"delete", "api/flight">>}

PathFound(r) == \E h \in Handlers : h[2] = r.path
(* A path of letters that no handler has is taken for a username. *)
IsProfile(r) == ~ PathFound(r) /\ r.path \in Names /\ Handler(r)[1] = "get"
Handled(r) == Handler(r) \in Handlers

NeedsCookie(r) == Handler(r) \in {<<"get", "settings">>, <<"get", "api/me">>, <<"patch", "api/me">>,
                                  <<"delete", "api/me">>, <<"post", "api/flight">>, <<"delete", "api/flight">>}
NeedsBody(r) == r.method \in {"patch", "post"}
TakesCredentials(r) == r.path \in {"api/signin", "api/signup"}

ReservedNone == {}
(* validate_credentials() refuses the names that are paths, and "demo". *)
Reserved == {"signin", "signup", "settings"}
BodyOK(r) == r.valid /\ (TakesCredentials(r) => r.name \notin Reserved)

SearchOK(r) ==
  CASE Handler(r) = <<"get", "api/year">> -> r.search \in {"user", "userYear"}
    [] Handler(r) = <<"get", "api/flight">> -> r.search = "userYear"
    [] OTHER -> r.search = "none"

(* The status of a request that is not looked up, 0 for any other. *)
Refusal(r) ==
  IF IsProfile(r) THEN 0
  ELSE IF ~ PathFound(r) THEN IF r.path \in Names THEN 405 ELSE 404
  ELSE IF ~ Handled(r) THEN 405
  ELSE IF ~ SearchOK(r) THEN 400
  ELSE IF NeedsCookie(r) /\ r.cookie = NoCookie THEN IF r.path = "settings" THEN 307 ELSE 401
  ELSE IF NeedsCookie(r) /\ r.cookie = BadCookie THEN 401
  ELSE IF NeedsBody(r) /\ ~ BodyOK(r) THEN 400
  ELSE 0

(* The first statement of a request that is not refused; a page needs none. *)
FirstStatement(r) ==
  CASE IsProfile(r) \/ Views(r) -> "findByName"
    [] Handler(r) = <<"get", "home">> /\ r.cookie \in Accounts -> "findById"
    [] Handler(r) = <<"get", "api/me">> -> "findUser"
    [] Handler(r) = <<"patch", "api/me">> -> "updateUser"
    [] Handler(r) = <<"delete", "api/me">> -> "deleteUser"
    [] Handler(r) = <<"post", "api/signin">> -> "signin"
    [] Handler(r) = <<"post", "api/signup">> -> "signup"
    [] Handler(r) = <<"post", "api/flight">> -> "createFlight"
    [] Handler(r) = <<"delete", "api/flight">> -> "deleteFlights"
    [] OTHER -> "respond"

Goto(w, p) == pc' = [pc EXCEPT ![w] = p]
Answer(w, s) == Goto(w, "respond") /\ status' = [status EXCEPT ![w] = s]

Dispatch(w, r) ==
  \/ Refusal(r) # 0 /\ Answer(w, Refusal(r)) /\ UNCHANGED page
  \/ /\ Refusal(r) = 0 /\ FirstStatement(r) = "respond"
     /\ Answer(w, 200) /\ page' = [page EXCEPT ![w] = r.path]
  \/ /\ Refusal(r) = 0 /\ FirstStatement(r) # "respond"
     /\ Goto(w, FirstStatement(r)) /\ UNCHANGED <<status, page>>

(* A client holds its own bwt or none that is good. *)
Route(w) ==
  /\ pc[w] = "idle"
  /\ \E r \in Requests :
       /\ r.cookie \in issued \cup {NoCookie, BadCookie}
       /\ req' = [req EXCEPT ![w] = r]
       /\ Dispatch(w, r)
  /\ UNCHANGED <<dbVars, issued, writer, user, shown>>
  /\ Remember

-----------------------------------------------------------------------------
(* One statement each.  Any of them may fail: the database is busy for
   longer than database_timeout, or worse. *)

Statement(w, p) == pc[w] = p
Cookie(w) == req[w].cookie
Self(w) == Cookie(w) = user[w].id

NeedsFriendToSelf(w) == user[w].visibility = "friends" /\ Self(w)
(* Without the need, the friendship found or not is of no matter. *)
NeedsFriend(w) == user[w].visibility = "friends" /\ ~ Self(w)

(* The name in the search ends at the next parameter for a flight; for a year
   the rest of the search is a part of it, which names nobody. *)
NameAsked(w) ==
  IF IsProfile(req[w]) THEN {req[w].path}
  ELSE IF req[w].path = "api/year" /\ req[w].search = "userYear" THEN {} ELSE {req[w].name}

Allowed(w, u) ==
  IF u.visibility = "public" /\ (Views(req[w]) \/ Cookie(w) = NoCookie) THEN "list"
  ELSE IF Cookie(w) = NoCookie THEN IF IsProfile(req[w]) THEN "signin first" ELSE "unauthorized"
  ELSE IF Cookie(w) = BadCookie THEN "unauthorized"
  ELSE IF u.visibility = "private" /\ Cookie(w) # u.id THEN "forbidden"
  ELSE "findFriend"

Found(w) == UNION {Named(n) : n \in NameAsked(w)}

(* What follows once an account is read. *)
Meet(w, u) ==
  /\ user' = [user EXCEPT ![w] = u]
  /\ \/ Allowed(w, u) \in {"list", "findFriend"} /\ Goto(w, Allowed(w, u)) /\ UNCHANGED status
     \/ Allowed(w, u) = "unauthorized" /\ Answer(w, 401)
     \/ Allowed(w, u) = "forbidden" /\ Answer(w, 403)
     \/ Allowed(w, u) = "signin first" /\ Answer(w, 307)

FindByName(w) ==
  /\ Statement(w, "findByName")
  /\ \/ Found(w) = {} /\ Answer(w, 404) /\ UNCHANGED user
     \/ \E a \in Found(w) : Meet(w, [id |-> a, visibility |-> users[a].visibility])
  /\ UNCHANGED <<dbVars, issued, writer, req, shown, page>>
  /\ Remember

FriendFound(w) == <<Cookie(w), user[w].id>> \in friends

FindFriend(w) ==
  /\ Statement(w, "findFriend")
  /\ \/ NeedsFriend(w) /\ ~ FriendFound(w) /\ Answer(w, 403)
     \/ (NeedsFriend(w) => FriendFound(w)) /\ Goto(w, "list") /\ UNCHANGED status
  /\ UNCHANGED <<dbVars, issued, writer, req, user, shown, page>>
  /\ Remember

(* A failing statement is of no matter to whom is let in without it. *)
FindFriendFails(w) ==
  /\ Statement(w, "findFriend")
  /\ \/ NeedsFriend(w) /\ Answer(w, 500)
     \/ ~ NeedsFriend(w) /\ Goto(w, "list") /\ UNCHANGED status
  /\ UNCHANGED <<dbVars, issued, writer, req, user, shown, page>>
  /\ Remember

Smaller(a, b) == IF a < b THEN a ELSE b

(* find_years() and find_flights(): as many rows as fit.  The page of a
   profile asks the database for nothing more. *)
List(w) ==
  /\ Statement(w, "list")
  /\ \/ /\ IsProfile(req[w])
        /\ page' = [page EXCEPT ![w] = IF Self(w) THEN "self" ELSE "other"]
        /\ Answer(w, 200) /\ UNCHANGED shown
     \/ /\ ~ IsProfile(req[w])
        /\ \E rows \in SUBSET FlightsOf(user[w].id) :
             /\ Cardinality(rows) = Smaller(Fit, Cardinality(FlightsOf(user[w].id)))
             /\ shown' = [shown EXCEPT ![w] = rows]
             /\ Answer(w, IF rows = FlightsOf(user[w].id) THEN 200 ELSE 206)
        /\ UNCHANGED page
  /\ UNCHANGED <<dbVars, issued, writer, req, user>>
  /\ Remember

(* The rows written before the failure stay in the body. *)
ListFails(w) ==
  /\ Statement(w, "list") /\ ~ IsProfile(req[w])
  /\ \E rows \in SUBSET FlightsOf(user[w].id) :
       /\ Cardinality(rows) <= Fit
       /\ shown' = [shown EXCEPT ![w] = rows]
  /\ Answer(w, 500)
  /\ UNCHANGED <<dbVars, issued, writer, req, user, page>>
  /\ Remember

(* get / with a cookie: to the profile when there is one. *)
FindById(w) ==
  /\ Statement(w, "findById")
  /\ \/ Exists(Cookie(w)) /\ Answer(w, 307) /\ UNCHANGED page
     \/ ~ Exists(Cookie(w)) /\ Answer(w, 200) /\ page' = [page EXCEPT ![w] = "home"]
  /\ UNCHANGED <<dbVars, issued, writer, req, user, shown>>
  /\ Remember

FindByIdFails(w) ==
  /\ Statement(w, "findById")
  /\ Answer(w, 200) /\ page' = [page EXCEPT ![w] = "home"]
  /\ UNCHANGED <<dbVars, issued, writer, req, user, shown>>
  /\ Remember

FindUser(w) ==
  /\ Statement(w, "findUser")
  /\ Answer(w, IF Exists(Cookie(w)) THEN 200 ELSE 500)
  /\ UNCHANGED <<dbVars, issued, writer, req, user, shown, page>>
  /\ Remember

UpdateUser(w) ==
  /\ Statement(w, "updateUser") /\ WriteLockFree
  /\ \/ /\ Exists(Cookie(w))
        /\ users' = [users EXCEPT ![Cookie(w)].visibility = req[w].visibility]
        /\ Answer(w, 200)
     \/ ~ Exists(Cookie(w)) /\ Answer(w, 500) /\ UNCHANGED users
  /\ UNCHANGED <<friends, owner, drawn, issued, writer, req, user, shown, page>>
  /\ Remember

CascadeOff(a) == UNCHANGED <<friends, owner>>
(* "pragma foreign_keys = on" of every connection: "on delete cascade". *)
Cascade(a) ==
  /\ friends' = {p \in friends : a \notin {p[1], p[2]}}
  /\ owner' = [f \in Flights |-> IF owner[f] = a THEN None ELSE owner[f]]

DeleteUser(w) ==
  /\ Statement(w, "deleteUser") /\ WriteLockFree
  /\ \/ /\ Exists(Cookie(w))
        /\ users' = [users EXCEPT ![Cookie(w)] = None]
        /\ Cascade(Cookie(w))
        /\ Answer(w, 200)
     \/ ~ Exists(Cookie(w)) /\ Answer(w, 500) /\ UNCHANGED <<users, friends, owner>>
  /\ UNCHANGED <<drawn, issued, writer, req, user, shown, page>>
  /\ Remember

(* create_signin(): the account with the name and the password. *)
Signin(w) ==
  /\ Statement(w, "signin")
  /\ LET found == IF req[w].password THEN Named(req[w].name) ELSE {} IN
     \/ found = {} /\ Answer(w, 401) /\ UNCHANGED user
     \/ \E a \in found :
          /\ user' = [user EXCEPT ![w] = [id |-> a, visibility |-> users[a].visibility]]
          /\ Answer(w, 201)
  /\ UNCHANGED <<dbVars, issued, writer, req, shown, page>>
  /\ Remember

(* create_signup(): the insert returns the id before it is committed, and the
   answer is made from it. *)
Signup(w) ==
  /\ Statement(w, "signup") /\ WriteLockFree
  /\ \/ /\ Named(req[w].name) = {}
        /\ \E a \in Accounts \ drawn :
             /\ user' = [user EXCEPT ![w] = [id |-> a, visibility |-> "private"]]
             /\ drawn' = drawn \cup {a}
        /\ writer' = w
        /\ Goto(w, "commit") /\ status' = [status EXCEPT ![w] = 201]
     \/ Named(req[w].name) # {} /\ Answer(w, 409) /\ UNCHANGED <<drawn, user, writer>>
  /\ UNCHANGED <<users, friends, owner, issued, req, shown, page>>
  /\ Remember

(* sqlite3_finalize() ends the statement and with it the transaction; what
   it returns is not looked at. *)
Commit(w) ==
  /\ Statement(w, "commit")
  /\ users' = [users EXCEPT ![user[w].id] = [name |-> req[w].name, visibility |-> user[w].visibility]]
  /\ writer' = None
  /\ Goto(w, "respond")
  /\ UNCHANGED <<friends, owner, drawn, issued, req, user, answerVars>>
  /\ Remember

CommitLost(w) ==
  /\ Statement(w, "commit") /\ CommitFails
  /\ writer' = None
  /\ Goto(w, "respond")
  /\ UNCHANGED <<dbVars, issued, req, user, answerVars>>
  /\ Remember

(* A flight that is there already and an owner that is not there any more are
   the same constraint to create_flight(). *)
CreateFlight(w) ==
  /\ Statement(w, "createFlight") /\ WriteLockFree
  /\ \/ /\ owner[req[w].flight] = None /\ Exists(Cookie(w))
        /\ owner' = [owner EXCEPT ![req[w].flight] = Cookie(w)]
        /\ Answer(w, 201)
     \/ /\ owner[req[w].flight] # None \/ ~ Exists(Cookie(w))
        /\ Answer(w, 409) /\ UNCHANGED owner
  /\ UNCHANGED <<users, friends, drawn, issued, writer, req, user, shown, page>>
  /\ Remember

PurgeAll(a) == [f \in Flights |-> None]
Purge(a) == [f \in Flights |-> IF owner[f] = a THEN None ELSE owner[f]]

DeleteFlights(w) ==
  /\ Statement(w, "deleteFlights") /\ WriteLockFree
  /\ owner' = Purge(Cookie(w))
  /\ Answer(w, 200)
  /\ UNCHANGED <<users, friends, drawn, issued, writer, req, user, shown, page>>
  /\ Remember

StatementFails(w) ==
  /\ pc[w] \in {"findByName", "findUser", "updateUser", "deleteUser", "signin", "signup",
                "createFlight", "deleteFlights"}
  /\ Answer(w, 500)
  /\ UNCHANGED <<dbVars, issued, writer, req, user, shown, page>>
  /\ Remember

HandsOutAnyway(w) == TakesCredentials(req[w])
HandsOut(w) == TakesCredentials(req[w]) /\ status[w] = 201

(* The answer goes out; a signin or signup hands out a bwt. *)
Respond(w) ==
  /\ pc[w] = "respond"
  /\ Goto(w, "idle")
  /\ issued' = IF HandsOut(w) THEN issued \cup {user[w].id} ELSE issued
  /\ req' = [req EXCEPT ![w] = NoRequest]
  /\ user' = [user EXCEPT ![w] = NoUser]
  /\ status' = [status EXCEPT ![w] = 0]
  /\ shown' = [shown EXCEPT ![w] = {}]
  /\ page' = [page EXCEPT ![w] = None]
  /\ UNCHANGED <<dbVars, writer>>
  /\ Remember

Next == \E w \in Workers :
  \/ Route(w)
  \/ FindByName(w) \/ FindFriend(w) \/ FindFriendFails(w) \/ List(w) \/ ListFails(w)
  \/ FindById(w) \/ FindByIdFails(w)
  \/ FindUser(w) \/ UpdateUser(w) \/ DeleteUser(w)
  \/ Signin(w) \/ Signup(w) \/ Commit(w) \/ CommitLost(w)
  \/ CreateFlight(w) \/ DeleteFlights(w)
  \/ StatementFails(w) \/ Respond(w)

Spec == Init /\ [][Next]_vars

-----------------------------------------------------------------------------
(* Properties. *)

(* Every variable keeps its type, and a bwt is only handed out for an id that
   the database has drawn. *)
TypeOK ==
  /\ users \in [Accounts -> Account \cup {None}]
  /\ friends \subseteq Accounts \X Accounts
  /\ owner \in [Flights -> Accounts \cup {None}]
  /\ drawn \subseteq Accounts /\ issued \subseteq drawn
  /\ writer \in Workers \cup {None}
  /\ pc \in [Workers -> Pc]
  /\ req \in [Workers -> Requests]
  /\ user \in [Workers -> [id : Accounts \cup {None}, visibility : Visibilities]]
  /\ status \in [Workers -> {0, 200, 201, 206, 307, 400, 401, 403, 404, 405, 409, 500}]
  /\ shown \in [Workers -> SUBSET Flights]
  /\ page \in [Workers -> Pages \cup {None, "self", "other"}]
  /\ entitled \in [Workers -> SUBSET Accounts]
  /\ exposed \subseteq Flights

Answered(w, s) == pc[w] = "respond" /\ status[w] = s

(* Whoever is shown the flights of an account, empty or not, was allowed to
   view its profile at some moment between request and answer, whatever its
   owner did meanwhile in other requests (router.c:265-299, 317-351). *)
ShownToEntitled ==
  \A w \in Workers : pc[w] = "respond" /\ Views(req[w]) /\ (status[w] \in {200, 206} \/ shown[w] # {}) => user[w].id \in entitled[w]

(* Flights and friendships belong to accounts that exist, also when a client
   posts with the bwt of an account that is being deleted (thread.c:38,
   init.c:87-91, 127-144). *)
NothingWithoutAccount ==
  /\ \A f \in Flights : owner[f] # None => Exists(owner[f])
  /\ \A p \in friends : Exists(p[1]) /\ Exists(p[2])

(* No two accounts have a name, and the bwt of a deleted account is not one
   of the account that has its name now: what belongs to an account changes
   only in a request with its own cookie (user.c:154-221, flight.c:221-302). *)
OnlyOwnData ==
  [][\A a \in Accounts :
       Exists(a) /\ (users'[a] # users[a] \/ {f \in Flights : owner'[f] = a} # FlightsOf(a))
       => \E w \in Workers : pc[w] # "idle" /\ pc'[w] = "respond" /\ Cookie(w) = a]_vars

(* Whoever has an account gets his own page under his name: no path of a
   page hides it and no other account has it (router.c:409-466,
   parse.c:64-68). *)
OwnPageServed ==
  \A w \in Workers :
    pc[w] = "respond" /\ status[w] # 500 /\ Handler(req[w])[1] = "get"
      /\ Cookie(w) \in Accounts /\ Exists(Cookie(w)) /\ req[w].path = users[Cookie(w)].name
    => page[w] = "self"

(* settings.html:58: "A private profile can only be viewed by yourself."  No
   other is shown a flight that has never been there but while its owner's
   profile was private. *)
PrivateStaysPrivate ==
  [][\A w \in Workers : shown'[w] # shown[w] /\ ~ Self(w) => shown'[w] \subseteq exposed]_vars
=============================================================================
