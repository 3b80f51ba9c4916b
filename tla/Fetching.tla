------------------------------ MODULE Fetching ------------------------------
(***************************************************************************)
(* How a page loads what it shows (src/app/scripts/fetching.js and         *)
(* fetcher.js), as the flight page uses it for the flights of a year       *)
(* (src/app/pages/flight.html): load() aborts the request before it, an    *)
(* error is shown and tried again after a pause, at most MaxRetries times  *)
(* in a row.                                                               *)
(*                                                                         *)
(* The browser runs one callback at a time: a stretch between two awaits   *)
(* is one action.  Frames are drawn in the order they are asked for, so    *)
(* screen is what the last one shows.  No page sets context.reload, so the *)
(* silent reload never runs.  Pauses have no length here: any pending      *)
(* timer may fire.                                                         *)
(***************************************************************************)
EXTENDS Integers, FiniteSets

CONSTANTS
  Years,        (* what a reader may choose                               *)
  Changes,      (* bound: changes of the flights of one year              *)
  MaxRetries,   (* 8                                                      *)
  Clicks,       (* bound: choices of a year                               *)
  Posts         (* bound: flights uploaded                                *)

ASSUME FetchingAssumption ==
  Changes \in Nat /\ MaxRetries \in Nat /\ Clicks \in Nat /\ Posts \in Nat

VARIABLES
  year,         (* getYear()                                              *)
  content,      (* the server's flights of each year, by their changes    *)
  known,        (* the changes the reader was told of                     *)
  screen,       (* what is shown                                          *)
  develop,      (* localStorage has "develop": requests are held back and *)
                (* some are made to fail                                  *)
  retries,      (* context.retries                                        *)
  timeout,      (* context.timeout, 0 for null                            *)
  timers,       (* the timers that are pending                            *)
  controller,   (* context.controller: the load it belongs to             *)
  loads,        (* the loads that have not ended                          *)
  posts,        (* the upload that has no answer yet: year and change     *)
  clicks,       (* choices made                                           *)
  uploads,      (* uploads made                                           *)
  failures      (* history: errors shown since the last success           *)

vars == <<year, content, known, screen, develop, retries, timeout, timers,
          controller, loads, posts, clicks, uploads, failures>>

Loading == [is |-> "loading"]
Error == [is |-> "error"]
Flights(y, k) == [is |-> "flights", year |-> y, changes |-> k]

(* A load is at its pause (develop only), on its way to the server,         *)
(* answered with the flights as they were, or its body is being read.       *)
Stages == {"pause", "sent", "answered", "body"}

(* The number of a load or a timer: only whether two are the same matters.  *)
Fresh(used) == CHOOSE n \in 1 .. Cardinality(used) + 1 : n \notin used

Numbers == {l.nr : l \in loads} \cup {controller}

Init ==
  /\ year \in Years
  /\ content = [y \in Years |-> 0]
  /\ known = content
  /\ screen = Loading
  /\ develop \in BOOLEAN
  /\ retries = 0
  /\ timeout = 0
  /\ timers = {}
  /\ controller = 1
  /\ loads = {[nr |-> 1, year |-> year, stage |-> IF develop THEN "pause" ELSE "sent",
               aborted |-> FALSE, changes |-> 0]}
  /\ posts = {}
  /\ clicks = 0
  /\ uploads = 0
  /\ failures = 0

(* What is left of the loads when the controller is aborted: one that       *)
(* fetches ends with an AbortError; one at its pause goes on to the fetch.  *)
Aborted(l) == l.nr = controller
AfterNoAbort == loads   (* a mutant: the request before goes on *)
AfterAbort ==
  {l \in loads : ~Aborted(l)}
    \cup {[l EXCEPT !.aborted = TRUE] : l \in {m \in loads : Aborted(m) /\ m.stage = "pause"}}

(* A mutant: clearTimeout is forgotten. *)
LoadBesideTimer(y, gone) ==
  /\ timers' = timers \ gone
  /\ timeout' = 0
  /\ controller' = Fresh(Numbers)
  /\ loads' = AfterAbort \cup
       {[nr |-> Fresh(Numbers), year |-> y, stage |-> IF develop THEN "pause" ELSE "sent",
         aborted |-> FALSE, changes |-> 0]}
  /\ screen' = Loading

(* load() for the year y, after the timers of gone have fired. *)
Load(y, gone) ==
  /\ timers' = timers \ (gone \cup {timeout})
  /\ timeout' = 0
  /\ controller' = Fresh(Numbers)
  /\ loads' = AfterAbort \cup
       {[nr |-> Fresh(Numbers), year |-> y, stage |-> IF develop THEN "pause" ELSE "sent",
         aborted |-> FALSE, changes |-> 0]}
  /\ screen' = Loading

(* The reader chooses a year. *)
Click ==
  /\ clicks < Clicks
  /\ clicks' = clicks + 1
  /\ year' \in Years
  /\ Load(year', {})
  /\ UNCHANGED <<content, known, develop, retries, posts, uploads, failures>>

(* postFlight(): the server has stored the flight.  One file is uploaded    *)
(* after the other.                                                         *)
Store ==
  /\ uploads < Posts /\ posts = {}
  /\ \E y \in Years :
       /\ content[y] < Changes
       /\ content' = [content EXCEPT ![y] = @ + 1]
       /\ posts' = posts \cup {[year |-> y, change |-> content[y] + 1]}
  /\ uploads' = uploads + 1
  /\ UNCHANGED <<year, known, screen, develop, retries, timeout, timers, controller, loads, clicks, failures>>

(* postFlight() goes on behind its await. *)
Confirm(p) ==
  /\ posts' = posts \ {p}
  /\ known' = [known EXCEPT ![p.year] = p.change]
  /\ IF p.year = year
     THEN Load(year, {})
     ELSE UNCHANGED <<screen, timeout, timers, controller, loads>>
  /\ UNCHANGED <<year, content, develop, retries, clicks, uploads, failures>>

(* The answer is lost: an error is reported, the flights are not loaded.    *)
ConfirmLost ==
  /\ posts # {}
  /\ posts' = {}
  /\ UNCHANGED <<year, content, known, screen, develop, retries, timeout, timers, controller,
                 loads, clicks, uploads, failures>>

(* The catch of load() for an error that is not an AbortError.  It does not *)
(* ask whether the load is still the one of the context.                    *)
MayAlwaysRetry == TRUE                     (* mutants: retries without end, *)
MayRetryLess == retries + 1 < MaxRetries   (* and one too few               *)
MayRetry == retries < MaxRetries
Pending == timers \cup {timeout}
Caught(l) ==
  /\ loads' = loads \ {l}
  /\ screen' = Error
  /\ failures' = IF failures > MaxRetries THEN failures ELSE failures + 1
  /\ IF MayRetry
     THEN timeout' = Fresh(Pending) /\ timers' = timers \cup {Fresh(Pending)}
     ELSE UNCHANGED <<timeout, timers>>
  /\ UNCHANGED <<year, content, known, develop, retries, controller, posts, clicks, uploads>>

(* The develop pause is over; the request is sent with the signal of the    *)
(* controller it began with, or made to fail before that.                   *)
PauseEnds(l) ==
  /\ l.stage = "pause"
  /\ loads' = (loads \ {l}) \cup (IF l.aborted THEN {} ELSE {[l EXCEPT !.stage = "sent"]})
  /\ UNCHANGED <<year, content, known, screen, develop, retries, timeout, timers, controller,
                 posts, clicks, uploads, failures>>

PauseThrows(l) == l.stage = "pause" /\ Caught(l)

(* The server reads the flights. *)
Serve(l) ==
  /\ l.stage = "sent"
  /\ loads' = (loads \ {l}) \cup {[l EXCEPT !.stage = "answered", !.changes = content[l.year]]}
  /\ UNCHANGED <<year, content, known, screen, develop, retries, timeout, timers, controller,
                 posts, clicks, uploads, failures>>

(* The connection is lost, or the answer is no success. *)
Refuse(l) == l.stage \in {"sent", "answered"} /\ Caught(l)

Respond(l) ==
  /\ l.stage = "answered"
  /\ loads' = (loads \ {l}) \cup {[l EXCEPT !.stage = "body"]}
  /\ UNCHANGED <<year, content, known, screen, develop, retries, timeout, timers, controller,
                 posts, clicks, uploads, failures>>

(* parse() has all of the body: the flights are painted. *)
Paint(l) ==
  /\ l.stage = "body"
  /\ loads' = loads \ {l}
  /\ retries' = 0
  /\ failures' = 0
  /\ screen' = Flights(l.year, l.changes)
  /\ UNCHANGED <<year, content, known, develop, timeout, timers, controller, posts, clicks, uploads>>

BodyLost(l) == l.stage = "body" /\ Caught(l)

(* A mutant: the retry is not counted. *)
RetryUncounted(t) ==
  /\ Load(year, {t})
  /\ UNCHANGED <<year, content, known, develop, retries, posts, clicks, uploads, failures>>

(* The callback of a timer. *)
Retry(t) ==
  /\ retries' = retries + 1
  /\ Load(year, {t})
  /\ UNCHANGED <<year, content, known, develop, posts, clicks, uploads, failures>>

Browse == \E l \in loads :
  \/ PauseEnds(l) \/ PauseThrows(l) \/ Serve(l) \/ Refuse(l) \/ Respond(l) \/ Paint(l) \/ BodyLost(l)

Fire == \E t \in timers : Retry(t)

Next ==
  \/ Click \/ Store \/ Browse \/ Fire
  \/ \E p \in posts : Confirm(p)
  \/ ConfirmLost

(* The browser and the server go on with every load, and timers fire.  The  *)
(* reader owes nothing.                                                     *)
Spec == Init /\ [][Next]_vars /\ WF_vars(Browse) /\ WF_vars(Fire)

------------------------------------------------------------------------------
(* Type invariant. *)
TypeOK ==
  /\ year \in Years /\ develop \in BOOLEAN
  /\ content \in [Years -> 0 .. Changes] /\ known \in [Years -> 0 .. Changes]
  /\ screen.is \in {"loading", "error", "flights"}
  /\ retries \in 0 .. MaxRetries + Clicks + Posts
  /\ timers \subseteq Nat /\ timeout \in Nat /\ controller \in Nat
  /\ \A l \in loads : l.year \in Years /\ l.stage \in Stages /\ l.changes \in 0 .. Changes
  /\ failures \in 0 .. MaxRetries + 1

Current == {l \in loads : l.nr = controller}

(* One thing at a time: a page has at most one request on its way or one    *)
(* timer that runs, never both, and none that its context does not know of  *)
(* (fetching.js:3-10, 21-30).  In develop mode a load that was aborted at   *)
(* its pause may still fail and set a timer that its context forgets: one   *)
(* attempt more for each choice or upload, and never more than that.        *)
OneAttempt ==
  /\ Cardinality(timers) + Cardinality(loads) <= 1 + clicks + uploads
  /\ ~develop =>
    /\ loads = Current
    /\ Cardinality(timers) + Cardinality(loads) <= 1
    /\ timers \subseteq {timeout}

(* A page that has given up says so, after its last retry, and only after   *)
(* MaxRetries + 1 tries have failed in a row, however often the reader      *)
(* chose another year meanwhile (fetching.js:21-30).  In develop mode a     *)
(* timer of an aborted load may use up one of the retries.                  *)
GivesUpLate ==
  loads = {} /\ timers = {} =>
    \/ screen.is = "flights"
    \/ /\ screen.is = "error"
       /\ retries >= MaxRetries
       /\ ~develop => failures = MaxRetries + 1

Shown == INSTANCE ShownYear

(* What is shown is never of another year than the chosen one, nor older    *)
(* than an upload that was confirmed: a request that is overtaken never     *)
(* paints (fetching.js:7-10, flight.html:813-818 and 1377-1388).            *)
ImplementsShownYear == Shown!Spec

(* Every load ends, with the flights or with an error after the last try.   *)
AlwaysAnswered ==
  []<>(screen.is = "flights" \/ (screen.is = "error" /\ retries >= MaxRetries))
==============================================================================
