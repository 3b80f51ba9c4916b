-------------------------------- MODULE MCApi --------------------------------
(***************************************************************************)
(* Api with two accounts at the start, one id left for a signup, and the   *)
(* requests that make them meet.                                           *)
(***************************************************************************)
EXTENDS Api, TLC

CONSTANTS ann, bob, new, f1, f2

MCAccounts == {ann, bob, new}
MCExisting == {ann, bob}
MCFirstName == ann :> "ann" @@ bob :> "bob"
MCFriendships == {<<bob, ann>>}
MCNames == {"ann", "bob", "settings"}
MCFlights == {f1, f2}

(* A request that asks for nothing but its path. *)
Asks(method, path, cookie) ==
  [method |-> method, path |-> path, search |-> "none", cookie |-> cookie, name |-> "ann",
   password |-> TRUE, visibility |-> "private", flight |-> f1, valid |-> TRUE]

(* The owner's side: changing, deleting and making accounts and flights. *)
Owners ==
  {[Asks("patch", "api/me", ann) EXCEPT !.visibility = v] : v \in Visibilities}
    \cup {Asks("delete", "api/me", a) : a \in {ann, new}}
    \cup {Asks("post", "api/flight", a) : a \in {ann, bob, new}}
    \cup {[Asks("post", "api/flight", ann) EXCEPT !.flight = f2]}
    \cup {Asks("delete", "api/flight", ann)}
    \cup {[Asks("post", "api/signup", NoCookie) EXCEPT !.name = n] : n \in {"ann", "settings"}}
    \cup {[Asks("post", "api/signin", NoCookie) EXCEPT !.password = p] : p \in BOOLEAN}

(* The reader's side. *)
Readers ==
  {[Asks("get", "api/flight", c) EXCEPT !.search = "userYear"] : c \in {NoCookie, ann, bob}}
    \cup {Asks("get", "ann", c) : c \in {NoCookie, ann, bob, new}}
    \cup {Asks("get", "home", ann), Asks("get", "api/me", ann)}

(* What is refused, or answered without a look at the database. *)
Others ==
  {Asks("get", "settings", c) : c \in {NoCookie, BadCookie, new}}
    \cup {Asks("delete", "api/me", NoCookie), Asks("get", "elsewhere", NoCookie), Asks("post", "home", NoCookie)}
    \cup {[Asks("head", "api/year", BadCookie) EXCEPT !.search = s] : s \in {"user", "userYear", "other"}}

MCRequests == Owners \cup Readers \cup Others

Symmetry == Permutations(Workers)
=============================================================================
