--------------------------- MODULE FetchingProofs ---------------------------
(***************************************************************************)
(* Theorems about Fetching for any years, numbers of retries, choices and  *)
(* uploads.                                                                *)
(***************************************************************************)
EXTENDS Fetching, FiniteSetTheorems, TLAPS

LoadRecord ==
  [nr : Nat, year : Years, stage : Stages, aborted : BOOLEAN, changes : 0 .. Changes]
PostRecord == [year : Years, change : 0 .. Changes]

(* The plain types, without the bounds that take an argument. *)
Types ==
  /\ year \in Years /\ develop \in BOOLEAN
  /\ content \in [Years -> 0 .. Changes] /\ known \in [Years -> 0 .. Changes]
  /\ screen.is \in {"loading", "error", "flights"}
  /\ retries \in Nat /\ clicks \in 0 .. Clicks /\ uploads \in 0 .. Posts
  /\ timers \subseteq Nat /\ timeout \in Nat /\ controller \in Nat
  /\ loads \subseteq LoadRecord /\ posts \subseteq PostRecord
  /\ failures \in 0 .. MaxRetries + 1
  /\ IsFiniteSet(timers) /\ IsFiniteSet(loads) /\ IsFiniteSet(posts)

(* What a load knows.  Only one that is at its pause may be aborted, and    *)
(* the one that is not belongs to the controller and to the chosen year.    *)
OneLoad(l) ==
  /\ l.aborted <=> l.nr # controller
  /\ l.stage # "pause" => l.nr = controller
  /\ l.nr = controller => l.year = year
  /\ l.stage = "pause" => develop
  /\ l.stage \in {"answered", "body"} => known[l.year] <= l.changes /\ l.changes <= content[l.year]

LoadsInv ==
  /\ \A l \in loads : OneLoad(l)
  /\ \A l, m \in loads : l.nr = m.nr => l = m

(* An upload that has no answer yet is newer than what the reader knows.    *)
PostsInv ==
  /\ \A y \in Years : known[y] <= content[y]
  /\ \A p \in posts : known[p.year] <= p.change /\ p.change <= content[p.year]
  /\ \A p, q \in posts : p = q

(* Every attempt is paid for: by the page's beginning, by a choice or by an *)
(* upload, whose own share is held by its post until it is confirmed.  A    *)
(* timer that is pending has its retry reserved.                            *)
CountInv ==
  /\ Cardinality(timers) + Cardinality(loads) + Cardinality(posts) <= 1 + clicks + uploads
  /\ retries + Cardinality(timers) <= MaxRetries + clicks + uploads

(* Without a load of its own and without a timer the page has an answer.    *)
SettledInv ==
  Current = {} /\ timers = {} =>
    screen.is = "flights" \/ (screen.is = "error" /\ retries >= MaxRetries)

(* Without the develop mode no load is aborted and still there, and every   *)
(* failure has been counted before the retry it leads to.                   *)
PlainInv ==
  ~develop =>
    /\ loads = {} \/ timers = {}
    /\ timers \subseteq {timeout}
    /\ retries <= MaxRetries /\ retries <= failures
    /\ timers # {} => retries < MaxRetries /\ retries < failures
    /\ loads = {} /\ timers = {} => screen.is = "flights" \/ failures = MaxRetries + 1

Inv == Types /\ LoadsInv /\ PostsInv /\ CountInv /\ SettledInv /\ PlainInv

-----------------------------------------------------------------------------
(* A number that is fresh is a number and is not in use. *)
LEMMA FreshIsFresh ==
  ASSUME NEW used, IsFiniteSet(used)
  PROVE  Fresh(used) \in Nat \ {0} /\ Fresh(used) \notin used
<1> DEFINE k == Cardinality(used)
<1>1. k \in Nat
  BY FS_CardinalityType
<1>2. \E n \in 1 .. k + 1 : n \notin used
  <2> SUFFICES ASSUME 1 .. k + 1 \subseteq used
               PROVE  FALSE
    OBVIOUS
  <2>1. Cardinality(1 .. k + 1) <= k
    BY FS_Subset
  <2>2. Cardinality(1 .. k + 1) = k + 1
    BY <1>1, FS_Interval
  <2> QED
    BY <1>1, <2>1, <2>2
<1>3. Fresh(used) \in 1 .. k + 1 /\ Fresh(used) \notin used
  BY <1>2 DEF Fresh
<1> QED
  BY <1>1, <1>3

(* The numbers in use are finitely many. *)
LEMMA NumbersFinite ==
  ASSUME IsFiniteSet(loads)
  PROVE  IsFiniteSet(Numbers)
<1> DEFINE S == {l.nr : l \in loads}
           f == [l \in loads |-> l.nr]
<1>1. f \in Surjection(loads, S)
  BY DEF Surjection
<1>2. IsFiniteSet(S)
  BY <1>1, FS_Surjection
<1>3. IsFiniteSet(S \cup {controller})
  BY <1>2, FS_AddElement
<1> QED
  BY <1>3 DEF Numbers

(* Aborting a request leaves no load that was not there. *)
LEMMA AbortCount ==
  ASSUME IsFiniteSet(loads)
  PROVE  IsFiniteSet(AfterAbort) /\ Cardinality(AfterAbort) <= Cardinality(loads)
<1> DEFINE f == [l \in loads |-> IF Aborted(l) THEN [l EXCEPT !.aborted = TRUE] ELSE l]
           T == {f[l] : l \in loads}
<1>1. f \in Surjection(loads, T)
  BY DEF Surjection
<1>2. IsFiniteSet(T) /\ Cardinality(T) <= Cardinality(loads)
  BY <1>1, FS_Surjection
<1>3. AfterAbort \in SUBSET T
  <2> SUFFICES ASSUME NEW l \in AfterAbort
               PROVE  l \in T
    OBVIOUS
  <2>1. CASE l \in loads /\ ~Aborted(l)
    <3>1. f[l] = l
      BY <2>1
    <3> QED
      BY <2>1, <3>1
  <2>2. ASSUME NEW m \in loads, Aborted(m), l = [m EXCEPT !.aborted = TRUE]
        PROVE  l \in T
    <3>1. f[m] = l
      BY <2>2
    <3> QED
      BY <3>1
  <2> QED
    BY <2>1, <2>2 DEF AfterAbort
<1>4. IsFiniteSet(AfterAbort) /\ Cardinality(AfterAbort) <= Cardinality(T)
  BY <1>2, <1>3, FS_Subset
<1>5. Cardinality(AfterAbort) \in Nat /\ Cardinality(T) \in Nat /\ Cardinality(loads) \in Nat
  BY <1>2, <1>4, FS_CardinalityType
<1> QED
  BY <1>2, <1>4, <1>5

(* What is left after an abort: loads at their pause, which know that they  *)
(* are aborted, and in the develop mode only.                               *)
LEMMA AbortLeaves ==
  ASSUME Types, LoadsInv, NEW l \in AfterAbort
  PROVE  /\ l \in LoadRecord /\ l.stage = "pause" /\ l.aborted /\ develop
         /\ l.nr \in Numbers
         /\ \E m \in loads : m.nr = l.nr /\ l = [m EXCEPT !.aborted = TRUE]
<1>1. CASE l \in loads /\ ~Aborted(l)
  <2>1. l \in LoadRecord /\ OneLoad(l)
    BY <1>1 DEF Types, LoadsInv
  <2>2. l.stage = "pause" /\ l.aborted /\ develop
    BY <1>1, <2>1 DEF OneLoad, Aborted
  <2>3. l = [l EXCEPT !.aborted = TRUE]
    BY <2>1, <2>2 DEF LoadRecord
  <2> QED
    BY <1>1, <2>1, <2>2, <2>3 DEF Numbers
<1>2. ASSUME NEW m \in loads, Aborted(m), m.stage = "pause", l = [m EXCEPT !.aborted = TRUE]
      PROVE  /\ l \in LoadRecord /\ l.stage = "pause" /\ l.aborted /\ develop
             /\ l.nr \in Numbers
             /\ m.nr = l.nr
  <2>1. m \in LoadRecord /\ OneLoad(m)
    BY <1>2 DEF Types, LoadsInv
  <2>2. l \in LoadRecord /\ l.stage = "pause" /\ l.aborted /\ m.nr = l.nr
    BY <1>2, <2>1 DEF LoadRecord
  <2>3. develop
    BY <1>2, <2>1 DEF OneLoad
  <2> QED
    BY <2>2, <2>3 DEF Numbers
<1> QED
  BY <1>1, <1>2 DEF AfterAbort

-----------------------------------------------------------------------------
(* load(), called for the year that is chosen from then on.  gone are the   *)
(* timers that called it. *)

(* The load that is new. *)
Begun(y) == [nr |-> Fresh(Numbers), year |-> y, stage |-> IF develop THEN "pause" ELSE "sent",
             aborted |-> FALSE, changes |-> 0]

LEMMA LoadShape ==
  ASSUME Types, LoadsInv, NEW y \in Years, NEW gone, Load(y, gone)
  PROVE  /\ loads' = AfterAbort \cup {Begun(y)}
         /\ Begun(y) \in LoadRecord
         /\ controller' = Begun(y).nr /\ controller' \in Nat /\ controller' \notin Numbers
         /\ timers' \subseteq timers \ gone /\ timeout' = 0
         /\ screen' = Loading
<1>1. IsFiniteSet(Numbers)
  BY NumbersFinite DEF Types
<1>2. Fresh(Numbers) \in Nat /\ Fresh(Numbers) \notin Numbers
  BY <1>1, FreshIsFresh
<1>3. 0 \in 0 .. Changes
  BY FetchingAssumption
<1>4. Begun(y) \in LoadRecord /\ Begun(y).nr = Fresh(Numbers)
  BY <1>2, <1>3 DEF Begun, LoadRecord, Stages, Types
<1> QED
  BY <1>2, <1>4 DEF Load, Begun

LEMMA LoadTypes ==
  ASSUME Types, LoadsInv, NEW y \in Years, NEW gone, Load(y, gone)
  PROVE  /\ loads' \subseteq LoadRecord /\ IsFiniteSet(loads')
         /\ timers' \subseteq Nat /\ IsFiniteSet(timers')
         /\ timeout' \in Nat /\ controller' \in Nat
         /\ screen'.is = "loading"
<1>1. /\ loads' = AfterAbort \cup {Begun(y)} /\ Begun(y) \in LoadRecord
      /\ timers' \subseteq timers /\ timeout' = 0 /\ controller' \in Nat
      /\ screen' = Loading
  BY LoadShape
<1>2. AfterAbort \subseteq LoadRecord
  BY AbortLeaves
<1>3. IsFiniteSet(loads')
  BY <1>1, AbortCount, FS_AddElement DEF Types
<1>4. IsFiniteSet(timers')
  BY <1>1, FS_Subset DEF Types
<1> QED
  BY <1>1, <1>2, <1>3, <1>4 DEF Types, Loading

LEMMA LoadLoads ==
  ASSUME Types, LoadsInv, year' \in Years, NEW gone, Load(year', gone), develop' = develop
  PROVE  LoadsInv'
<1> DEFINE new == Begun(year')
<1>1. /\ loads' = AfterAbort \cup {new}
      /\ controller' = new.nr /\ controller' \notin Numbers
  BY LoadShape
<1>2. /\ new.year = year' /\ new.aborted = FALSE /\ new.stage \in {"pause", "sent"}
      /\ new.stage = "pause" => develop
  BY DEF Begun
<1>3. ASSUME NEW l, l = new
      PROVE  OneLoad(l)'
  BY <1>1, <1>2, <1>3 DEF OneLoad
<1>4. ASSUME NEW l \in AfterAbort
      PROVE  OneLoad(l)'
  BY <1>1, AbortLeaves DEF OneLoad
<1>5. ASSUME NEW l \in AfterAbort
      PROVE  l.nr # new.nr
  BY <1>1, AbortLeaves
<1>6. ASSUME NEW l \in AfterAbort, NEW m \in AfterAbort, l.nr = m.nr
      PROVE  l = m
  <2>1. PICK a \in loads : a.nr = l.nr /\ l = [a EXCEPT !.aborted = TRUE]
    BY AbortLeaves
  <2>2. PICK b \in loads : b.nr = m.nr /\ m = [b EXCEPT !.aborted = TRUE]
    BY AbortLeaves
  <2>3. a = b
    BY <1>6, <2>1, <2>2 DEF LoadsInv
  <2> QED
    BY <2>1, <2>2, <2>3
<1>7. \A l \in loads' : OneLoad(l)'
  BY <1>1, <1>3, <1>4
<1>8. \A l, m \in loads' : l.nr = m.nr => l = m
  BY <1>1, <1>5, <1>6
<1> QED
  BY <1>7, <1>8 DEF LoadsInv

(* A load more at most, and a timer less when it is a timer's. *)
LEMMA LoadCount ==
  ASSUME Types, LoadsInv, NEW y \in Years, NEW gone, Load(y, gone)
  PROVE  /\ Cardinality(loads') <= Cardinality(loads) + 1
         /\ Cardinality(timers') <= Cardinality(timers)
         /\ gone \cap timers # {} => Cardinality(timers') + 1 <= Cardinality(timers)
<1>1. loads' = AfterAbort \cup {Begun(y)} /\ timers' \subseteq timers \ gone
  BY LoadShape
<1>2. IsFiniteSet(AfterAbort) /\ Cardinality(AfterAbort) <= Cardinality(loads)
  BY AbortCount DEF Types
<1>3. /\ Cardinality(AfterAbort) \in Nat /\ Cardinality(loads) \in Nat
      /\ Cardinality(loads') <= Cardinality(AfterAbort) + 1
      /\ Cardinality(loads') \in Nat
  <2>1. /\ IsFiniteSet(loads')
        /\ Cardinality(loads') = IF Begun(y) \in AfterAbort THEN Cardinality(AfterAbort)
                                                          ELSE Cardinality(AfterAbort) + 1
    BY <1>1, <1>2, FS_AddElement
  <2>2. /\ Cardinality(AfterAbort) \in Nat /\ Cardinality(loads) \in Nat
        /\ Cardinality(loads') \in Nat
    BY <1>2, <2>1, FS_CardinalityType DEF Types
  <2> QED
    BY <2>1, <2>2
<1>4. /\ Cardinality(timers') <= Cardinality(timers)
      /\ Cardinality(timers') \in Nat /\ Cardinality(timers) \in Nat
  BY <1>1, FS_Subset, FS_CardinalityType DEF Types
<1>5. ASSUME NEW t \in gone \cap timers
      PROVE  Cardinality(timers') + 1 <= Cardinality(timers)
  <2>1. IsFiniteSet(timers \ {t}) /\ Cardinality(timers \ {t}) = Cardinality(timers) - 1
    BY FS_RemoveElement DEF Types
  <2>2. Cardinality(timers') <= Cardinality(timers \ {t})
    BY <1>1, <2>1, FS_Subset
  <2> QED
    BY <1>4, <2>1, <2>2
<1> QED
  BY <1>2, <1>3, <1>4, <1>5

LEMMA LoadSettled ==
  ASSUME Types, LoadsInv, NEW y \in Years, NEW gone, Load(y, gone)
  PROVE  SettledInv'
<1>1. loads' = AfterAbort \cup {Begun(y)} /\ controller' = Begun(y).nr
  BY LoadShape
<1> QED
  BY <1>1 DEF SettledInv, Current

(* Without the develop mode nothing is left beside the load that is new. *)
LEMMA LoadPlain ==
  ASSUME Types, LoadsInv, PlainInv, ~develop, NEW y \in Years, NEW gone, Load(y, gone)
  PROVE  timers' = {} /\ loads' = {Begun(y)}
<1>1. AfterAbort = {}
  BY AbortLeaves
<1>2. timers \subseteq {timeout}
  BY DEF PlainInv
<1> QED
  BY <1>1, <1>2, LoadShape DEF Load

LEMMA Counted ==
  ASSUME Types
  PROVE  /\ Cardinality(timers) \in Nat /\ Cardinality(loads) \in Nat /\ Cardinality(posts) \in Nat
         /\ Clicks \in Nat /\ Posts \in Nat /\ MaxRetries \in Nat /\ Changes \in Nat
         /\ clicks \in Nat /\ uploads \in Nat /\ retries \in Nat /\ failures \in Nat
  BY FS_CardinalityType, FetchingAssumption DEF Types

-----------------------------------------------------------------------------
(* The reader's own steps. *)

LEMMA ClickInv ==
  ASSUME Inv, Click
  PROVE  Inv'
<1>1. /\ Types /\ LoadsInv /\ PostsInv /\ CountInv /\ PlainInv
      /\ year' \in Years /\ Load(year', {}) /\ clicks < Clicks /\ clicks' = clicks + 1
      /\ UNCHANGED <<content, known, develop, retries, posts, uploads, failures>>
  BY DEF Inv, Click
<1>2. Types'
  BY <1>1, LoadTypes, Counted DEF Types
<1>3. LoadsInv'
  BY <1>1, LoadLoads
<1>4. PostsInv'
  BY <1>1 DEF PostsInv
<1>5. CountInv'
  <2>1. Cardinality(loads') \in Nat /\ Cardinality(timers') \in Nat
    BY <1>2, FS_CardinalityType DEF Types
  <2>2. /\ Cardinality(loads') <= Cardinality(loads) + 1
        /\ Cardinality(timers') <= Cardinality(timers)
    BY <1>1, LoadCount
  <2> QED
    BY <1>1, <2>1, <2>2, Counted DEF CountInv
<1>6. SettledInv'
  BY <1>1, LoadSettled
<1>7. PlainInv'
  <2>1. SUFFICES ASSUME ~develop
                 PROVE  PlainInv'
    BY <1>1 DEF PlainInv
  <2>2. timers' = {} /\ loads' = {Begun(year')}
    BY <1>1, <2>1, LoadPlain
  <2> QED
    BY <1>1, <2>1, <2>2 DEF PlainInv
<1> QED
  BY <1>2, <1>3, <1>4, <1>5, <1>6, <1>7 DEF Inv

LEMMA StoreInv ==
  ASSUME Inv, Store
  PROVE  Inv'
<1>1. /\ Types /\ LoadsInv /\ PostsInv /\ CountInv /\ SettledInv /\ PlainInv
      /\ uploads < Posts /\ posts = {} /\ uploads' = uploads + 1
      /\ UNCHANGED <<year, known, screen, develop, retries, timeout, timers, controller,
                     loads, clicks, failures>>
  BY DEF Inv, Store
<1>2. PICK y \in Years :
        /\ content[y] < Changes
        /\ content' = [content EXCEPT ![y] = @ + 1]
        /\ posts' = {[year |-> y, change |-> content[y] + 1]}
  BY <1>1 DEF Store
<1>3. /\ content' \in [Years -> 0 .. Changes]
      /\ \A z \in Years : content'[z] = IF z = y THEN content[y] + 1 ELSE content[z]
      /\ \A z \in Years : content[z] \in 0 .. Changes /\ known[z] \in 0 .. Changes
  BY <1>1, <1>2, Counted DEF Types
<1>4. content[y] + 1 \in 0 .. Changes
  BY <1>2, <1>3, Counted, <1>1
<1>5. Types'
  <2>1. posts' \subseteq PostRecord
    BY <1>2, <1>4 DEF PostRecord
  <2>2. IsFiniteSet(posts')
    BY <1>2, FS_Singleton
  <2>3. uploads' \in 0 .. Posts
    BY <1>1, Counted
  <2> QED
    BY <1>1, <1>3, <2>1, <2>2, <2>3 DEF Types
<1>6. LoadsInv'
  <2>1. ASSUME NEW l \in loads
        PROVE  OneLoad(l)'
    <3>1. OneLoad(l) /\ l.year \in Years /\ l.changes \in 0 .. Changes
      BY <1>1 DEF LoadsInv, Types, LoadRecord
    <3> QED
      BY <1>1, <1>3, <3>1, Counted DEF OneLoad
  <2> QED
    BY <1>1, <2>1 DEF LoadsInv
<1>7. PostsInv'
  <2>1. \A z \in Years : known'[z] <= content'[z]
    BY <1>1, <1>3, Counted DEF PostsInv
  <2>2. \A p \in posts' : known'[p.year] <= p.change /\ p.change <= content'[p.year]
    BY <1>1, <1>2, <1>3, <1>4, Counted DEF PostsInv
  <2> QED
    BY <1>2, <2>1, <2>2 DEF PostsInv
<1>8. CountInv'
  <2>1. Cardinality(posts) = 0 /\ Cardinality(posts') = 1
    BY <1>1, <1>2, FS_EmptySet, FS_Singleton
  <2> QED
    BY <1>1, <2>1, Counted DEF CountInv
<1>9. SettledInv' /\ PlainInv'
  BY <1>1 DEF SettledInv, PlainInv, Current
<1> QED
  BY <1>5, <1>6, <1>7, <1>8, <1>9 DEF Inv

LEMMA ConfirmInv ==
  ASSUME Inv, NEW p \in posts, Confirm(p)
  PROVE  Inv'
<1>1. /\ Types /\ LoadsInv /\ PostsInv /\ CountInv /\ SettledInv /\ PlainInv
      /\ posts' = posts \ {p}
      /\ known' = [known EXCEPT ![p.year] = p.change]
      /\ UNCHANGED <<year, content, develop, retries, clicks, uploads, failures>>
  BY DEF Inv, Confirm
<1>2. p.year \in Years /\ p.change \in 0 .. Changes
  BY <1>1 DEF Types, PostRecord
<1>3. /\ known' \in [Years -> 0 .. Changes]
      /\ \A z \in Years : known'[z] = IF z = p.year THEN p.change ELSE known[z]
  BY <1>1, <1>2 DEF Types
<1>4. /\ posts' = {} /\ IsFiniteSet(posts')
      /\ Cardinality(posts') = 0 /\ Cardinality(posts) = 1
  <2>1. posts' = {} /\ posts = {p}
    BY <1>1 DEF PostsInv
  <2> QED
    BY <2>1, FS_EmptySet, FS_Singleton
<1>5. PostsInv'
  BY <1>1, <1>2, <1>3, <1>4 DEF PostsInv
<1>6. CASE p.year = year
  <2>1. Load(year', {}) /\ year' \in Years /\ year' = year
    BY <1>1, <1>6 DEF Confirm, Types
  <2>2. Types'
    BY <1>1, <1>3, <1>4, <2>1, LoadTypes, Counted DEF Types
  <2>3. LoadsInv'
    BY <1>1, <2>1, LoadLoads
  <2>4. CountInv'
    <3>1. Cardinality(loads') \in Nat /\ Cardinality(timers') \in Nat
      BY <2>2, FS_CardinalityType DEF Types
    <3>2. /\ Cardinality(loads') <= Cardinality(loads) + 1
          /\ Cardinality(timers') <= Cardinality(timers)
      BY <1>1, <2>1, LoadCount
    <3> QED
      BY <1>1, <1>4, <3>1, <3>2, Counted DEF CountInv
  <2>5. SettledInv'
    BY <1>1, <2>1, LoadSettled
  <2>6. PlainInv'
    <3>1. SUFFICES ASSUME ~develop
                   PROVE  PlainInv'
      BY <1>1 DEF PlainInv
    <3>2. timers' = {} /\ loads' = {Begun(year')}
      BY <1>1, <2>1, <3>1, LoadPlain
    <3> QED
      BY <1>1, <3>1, <3>2 DEF PlainInv
  <2> QED
    BY <1>5, <2>2, <2>3, <2>4, <2>5, <2>6 DEF Inv
<1>7. CASE p.year # year
  <2>1. UNCHANGED <<screen, timeout, timers, controller, loads>>
    BY <1>7 DEF Confirm
  <2>2. Types'
    BY <1>1, <1>3, <1>4, <2>1 DEF Types
  <2>3. LoadsInv'
    <3>1. ASSUME NEW l \in loads
          PROVE  OneLoad(l)'
      <4>1. OneLoad(l) /\ l.year \in Years
        BY <1>1 DEF LoadsInv, Types, LoadRecord
      <4> QED
        BY <1>1, <1>3, <1>7, <2>1, <4>1 DEF OneLoad
    <3> QED
      BY <1>1, <2>1, <3>1 DEF LoadsInv
  <2>4. CountInv'
    BY <1>1, <1>4, <2>1, Counted DEF CountInv
  <2>5. SettledInv' /\ PlainInv'
    BY <1>1, <2>1 DEF SettledInv, PlainInv, Current
  <2> QED
    BY <1>5, <2>2, <2>3, <2>4, <2>5 DEF Inv
<1> QED
  BY <1>6, <1>7

LEMMA ConfirmLostInv ==
  ASSUME Inv, ConfirmLost
  PROVE  Inv'
<1>1. /\ Types /\ LoadsInv /\ PostsInv /\ CountInv /\ SettledInv /\ PlainInv
      /\ posts' = {}
      /\ UNCHANGED <<year, content, known, screen, develop, retries, timeout, timers, controller,
                     loads, clicks, uploads, failures>>
  BY DEF Inv, ConfirmLost
<1>2. IsFiniteSet(posts') /\ Cardinality(posts') = 0
  BY <1>1, FS_EmptySet
<1>3. CountInv'
  BY <1>1, <1>2, Counted DEF CountInv
<1>4. LoadsInv'
  BY <1>1 DEF LoadsInv, OneLoad
<1> QED
  BY <1>1, <1>2, <1>3, <1>4 DEF Inv, Types, PostsInv, SettledInv, PlainInv, Current

-----------------------------------------------------------------------------
(* The browser's steps. *)

(* A load goes on as m, to the next of its stages. *)
LEMMA GoesOnInv ==
  ASSUME Inv, NEW l \in loads, NEW m \in LoadRecord,
         m.nr = l.nr, m.aborted = l.aborted, ~l.aborted, OneLoad(m),
         loads' = (loads \ {l}) \cup {m},
         UNCHANGED <<year, content, known, screen, develop, retries, timeout, timers, controller,
                     posts, clicks, uploads, failures>>
  PROVE  Inv'
<1>1. Types /\ LoadsInv /\ PostsInv /\ CountInv /\ SettledInv /\ PlainInv
  BY DEF Inv
<1>2. IsFiniteSet(loads \ {l}) /\ Cardinality(loads \ {l}) = Cardinality(loads) - 1
  BY <1>1, FS_RemoveElement DEF Types
<1>3. /\ IsFiniteSet(loads')
      /\ Cardinality(loads') = IF m \in loads \ {l} THEN Cardinality(loads \ {l})
                                                    ELSE Cardinality(loads \ {l}) + 1
  BY <1>2, FS_AddElement
<1>4. Cardinality(loads') \in Nat /\ Cardinality(loads') <= Cardinality(loads)
  <2>1. Cardinality(loads) \in Nat /\ Cardinality(loads') \in Nat
    BY <1>1, <1>3, FS_CardinalityType, Counted
  <2> QED
    BY <1>2, <1>3, <2>1
<1>5. Types'
  BY <1>1, <1>3 DEF Types
<1>6. LoadsInv'
  <2>1. \A k \in loads' : OneLoad(k)'
    BY <1>1 DEF LoadsInv, OneLoad
  <2>2. \A j, k \in loads' : j.nr = k.nr => j = k
    BY <1>1 DEF LoadsInv
  <2> QED
    BY <2>1, <2>2 DEF LoadsInv
<1>7. PostsInv'
  BY <1>1 DEF PostsInv
<1>8. CountInv'
  BY <1>1, <1>4, Counted DEF CountInv
<1>9. SettledInv'
  <2>1. m.nr = controller
    BY DEF OneLoad
  <2> QED
    BY <2>1 DEF SettledInv, Current
<1>10. PlainInv'
  BY <1>1 DEF PlainInv
<1> QED
  BY <1>5, <1>6, <1>7, <1>8, <1>9, <1>10 DEF Inv

LEMMA PauseEndsInv ==
  ASSUME Inv, NEW l \in loads, PauseEnds(l)
  PROVE  Inv'
<1>1. /\ Types /\ LoadsInv /\ PostsInv /\ CountInv /\ SettledInv /\ PlainInv
      /\ l \in LoadRecord /\ OneLoad(l) /\ l.stage = "pause"
      /\ UNCHANGED <<year, content, known, screen, develop, retries, timeout, timers, controller,
                     posts, clicks, uploads, failures>>
  BY DEF Inv, PauseEnds, Types, LoadsInv
<1>2. CASE ~l.aborted
  <2> DEFINE m == [l EXCEPT !.stage = "sent"]
  <2>1. m \in LoadRecord /\ m.nr = l.nr /\ m.aborted = l.aborted /\ m.year = l.year /\ m.stage = "sent"
    BY <1>1 DEF LoadRecord, Stages
  <2>2. OneLoad(m)
    BY <1>1, <1>2, <2>1 DEF OneLoad
  <2>3. loads' = (loads \ {l}) \cup {m}
    BY <1>2 DEF PauseEnds
  <2> HIDE DEF m
  <2> QED
    BY <1>1, <1>2, <2>1, <2>2, <2>3, GoesOnInv
<1>3. CASE l.aborted
  <2>1. loads' = loads \ {l}
    BY <1>3 DEF PauseEnds
  <2>2. IsFiniteSet(loads') /\ Cardinality(loads') = Cardinality(loads) - 1
    BY <1>1, <2>1, FS_RemoveElement DEF Types
  <2>3. l.nr # controller /\ develop
    BY <1>1, <1>3 DEF OneLoad
  <2>4. Types'
    BY <1>1, <2>1, <2>2 DEF Types
  <2>5. LoadsInv'
    BY <1>1, <2>1 DEF LoadsInv, OneLoad
  <2>6. CountInv'
    BY <1>1, <2>2, Counted DEF CountInv
  <2>7. SettledInv' /\ PlainInv' /\ PostsInv'
    BY <1>1, <2>1, <2>3 DEF SettledInv, Current, PlainInv, PostsInv
  <2> QED
    BY <2>4, <2>5, <2>6, <2>7 DEF Inv
<1> QED
  BY <1>2, <1>3

LEMMA ServeInv ==
  ASSUME Inv, NEW l \in loads, Serve(l)
  PROVE  Inv'
<1> DEFINE m == [l EXCEPT !.stage = "answered", !.changes = content[l.year]]
<1>1. /\ Types /\ PostsInv /\ l \in LoadRecord /\ OneLoad(l) /\ l.stage = "sent"
      /\ loads' = (loads \ {l}) \cup {m}
      /\ UNCHANGED <<year, content, known, screen, develop, retries, timeout, timers, controller,
                     posts, clicks, uploads, failures>>
  BY DEF Inv, Serve, Types, LoadsInv
<1>2. l.year \in Years /\ content[l.year] \in 0 .. Changes /\ known[l.year] \in 0 .. Changes
  BY <1>1 DEF Types, LoadRecord
<1>3. /\ m \in LoadRecord /\ m.nr = l.nr /\ m.aborted = l.aborted /\ m.year = l.year
      /\ m.stage = "answered" /\ m.changes = content[l.year]
  BY <1>1, <1>2 DEF LoadRecord, Stages
<1>4. ~l.aborted
  BY <1>1 DEF OneLoad
<1>5. OneLoad(m)
  BY <1>1, <1>2, <1>3, Counted DEF OneLoad, PostsInv
<1> HIDE DEF m
<1> QED
  BY <1>1, <1>3, <1>4, <1>5, GoesOnInv

LEMMA RespondInv ==
  ASSUME Inv, NEW l \in loads, Respond(l)
  PROVE  Inv'
<1> DEFINE m == [l EXCEPT !.stage = "body"]
<1>1. /\ l \in LoadRecord /\ OneLoad(l) /\ l.stage = "answered"
      /\ loads' = (loads \ {l}) \cup {m}
      /\ UNCHANGED <<year, content, known, screen, develop, retries, timeout, timers, controller,
                     posts, clicks, uploads, failures>>
  BY DEF Inv, Respond, Types, LoadsInv
<1>2. /\ m \in LoadRecord /\ m.nr = l.nr /\ m.aborted = l.aborted /\ m.year = l.year
      /\ m.stage = "body" /\ m.changes = l.changes
  BY <1>1 DEF LoadRecord, Stages
<1>3. OneLoad(m) /\ ~l.aborted
  BY <1>1, <1>2 DEF OneLoad
<1> HIDE DEF m
<1> QED
  BY <1>1, <1>2, <1>3, GoesOnInv

LEMMA PaintInv ==
  ASSUME Inv, NEW l \in loads, Paint(l)
  PROVE  Inv'
<1>1. /\ Types /\ LoadsInv /\ PostsInv /\ CountInv /\ PlainInv
      /\ loads' = loads \ {l} /\ retries' = 0 /\ failures' = 0
      /\ screen'.is = "flights"
      /\ UNCHANGED <<year, content, known, develop, timeout, timers, controller, posts, clicks, uploads>>
  BY DEF Inv, Paint, Flights
<1>2. IsFiniteSet(loads') /\ Cardinality(loads') = Cardinality(loads) - 1
  BY <1>1, FS_RemoveElement DEF Types
<1>3. Types'
  BY <1>1, <1>2, Counted DEF Types
<1>4. LoadsInv' /\ PostsInv'
  BY <1>1 DEF LoadsInv, OneLoad, PostsInv
<1>5. CountInv'
  BY <1>1, <1>2, Counted DEF CountInv
<1>6. SettledInv'
  BY <1>1 DEF SettledInv
<1>7. PlainInv'
  BY <1>1, Counted DEF PlainInv
<1> QED
  BY <1>3, <1>4, <1>5, <1>6, <1>7 DEF Inv

LEMMA CaughtInv ==
  ASSUME Inv, NEW l \in loads, Caught(l)
  PROVE  Inv'
<1> DEFINE t == Fresh(Pending)
<1>1. /\ Types /\ LoadsInv /\ PostsInv /\ CountInv /\ PlainInv
      /\ loads' = loads \ {l} /\ screen'.is = "error"
      /\ failures' = IF failures > MaxRetries THEN failures ELSE failures + 1
      /\ UNCHANGED <<year, content, known, develop, retries, controller, posts, clicks, uploads>>
  BY DEF Inv, Caught, Error
<1>2. IsFiniteSet(loads') /\ Cardinality(loads') = Cardinality(loads) - 1
  BY <1>1, FS_RemoveElement DEF Types
<1>3. failures' \in 0 .. MaxRetries + 1
  BY <1>1, Counted DEF Types
<1>4. LoadsInv' /\ PostsInv'
  BY <1>1 DEF LoadsInv, OneLoad, PostsInv
<1>5. ASSUME ~develop
      PROVE  timers = {} /\ loads' = {} /\ retries <= MaxRetries /\ retries <= failures
  <2>1. loads = {l}
    BY <1>1, <1>5 DEF LoadsInv, OneLoad
  <2> QED
    BY <1>1, <1>5, <2>1 DEF PlainInv
<1>6. CASE retries < MaxRetries
  <2>1. timeout' = t /\ timers' = timers \cup {t}
    BY <1>6 DEF Caught, MayRetry
  <2>2. IsFiniteSet(Pending)
    BY <1>1, FS_AddElement DEF Types, Pending
  <2>3. t \in Nat
    BY <2>2, FreshIsFresh
  <2>4. /\ IsFiniteSet(timers')
        /\ Cardinality(timers') = IF t \in timers THEN Cardinality(timers) ELSE Cardinality(timers) + 1
    BY <1>1, <2>1, FS_AddElement DEF Types
  <2>5. Types'
    BY <1>1, <1>2, <1>3, <2>1, <2>3, <2>4 DEF Types
  <2>6. CountInv'
    <3>1. /\ Cardinality(timers') <= Cardinality(timers) + 1 /\ Cardinality(timers') \in Nat
          /\ Cardinality(loads') + 1 = Cardinality(loads) /\ Cardinality(loads') \in Nat
      BY <1>1, <1>2, <2>4, Counted, FS_CardinalityType
    <3> QED
      BY <1>1, <1>6, <3>1, Counted DEF CountInv
  <2>7. SettledInv'
    BY <2>1 DEF SettledInv
  <2>8. PlainInv'
    <3>1. SUFFICES ASSUME ~develop
                   PROVE  PlainInv'
      BY <1>1 DEF PlainInv
    <3>2. timers' = {t} /\ loads' = {} /\ timeout' = t
      BY <1>5, <2>1, <3>1
    <3>3. retries' = retries /\ retries < failures' /\ retries <= failures'
      BY <1>1, <1>5, <1>6, <3>1, Counted
    <3> HIDE DEF t
    <3> QED
      BY <1>1, <1>6, <3>2, <3>3, Counted DEF PlainInv
  <2> QED
    BY <1>4, <2>5, <2>6, <2>7, <2>8 DEF Inv
<1>7. CASE ~(retries < MaxRetries)
  <2>1. UNCHANGED <<timeout, timers>>
    BY <1>7 DEF Caught, MayRetry
  <2>2. Types'
    BY <1>1, <1>2, <1>3, <2>1 DEF Types
  <2>3. CountInv'
    BY <1>1, <1>2, <2>1, Counted DEF CountInv
  <2>4. SettledInv'
    BY <1>1, <1>7, Counted DEF SettledInv
  <2>5. PlainInv'
    <3>1. SUFFICES ASSUME ~develop
                   PROVE  PlainInv'
      BY <1>1 DEF PlainInv
    <3>2. timers' = {} /\ loads' = {}
      BY <1>5, <2>1, <3>1
    <3>3. failures' = MaxRetries + 1 /\ retries' <= MaxRetries /\ retries' <= failures'
      BY <1>1, <1>5, <1>7, <3>1, Counted DEF Types
    <3> QED
      BY <3>2, <3>3 DEF PlainInv
  <2> QED
    BY <1>4, <2>2, <2>3, <2>4, <2>5 DEF Inv
<1> QED
  BY <1>6, <1>7

LEMMA RetryInv ==
  ASSUME Inv, NEW t \in timers, Retry(t)
  PROVE  Inv'
<1>1. /\ Types /\ LoadsInv /\ PostsInv /\ CountInv /\ PlainInv
      /\ retries' = retries + 1 /\ year' \in Years /\ year' = year
      /\ Load(year', {t})
      /\ UNCHANGED <<content, known, develop, posts, clicks, uploads, failures>>
  BY DEF Inv, Retry, Types
<1>2. Types'
  BY <1>1, LoadTypes, Counted DEF Types
<1>3. LoadsInv' /\ SettledInv'
  BY <1>1, LoadLoads, LoadSettled
<1>4. PostsInv'
  BY <1>1 DEF PostsInv
<1>5. CountInv'
  <2>1. Cardinality(loads') \in Nat /\ Cardinality(timers') \in Nat
    BY <1>2, FS_CardinalityType DEF Types
  <2>2. /\ Cardinality(loads') <= Cardinality(loads) + 1
        /\ Cardinality(timers') + 1 <= Cardinality(timers)
    BY <1>1, LoadCount
  <2> QED
    BY <1>1, <2>1, <2>2, Counted DEF CountInv
<1>6. PlainInv'
  <2>1. SUFFICES ASSUME ~develop
                 PROVE  PlainInv'
    BY <1>1 DEF PlainInv
  <2>2. timers' = {} /\ loads' = {Begun(year')}
    BY <1>1, <2>1, LoadPlain
  <2>3. retries < MaxRetries /\ retries < failures
    BY <1>1, <2>1 DEF PlainInv
  <2> QED
    BY <1>1, <2>1, <2>2, <2>3, Counted DEF PlainInv
<1> QED
  BY <1>2, <1>3, <1>4, <1>5, <1>6 DEF Inv

-----------------------------------------------------------------------------
LEMMA InitInv ==
  ASSUME Init
  PROVE  Inv
<1> DEFINE l == [nr |-> 1, year |-> year, stage |-> IF develop THEN "pause" ELSE "sent",
                 aborted |-> FALSE, changes |-> 0]
<1>1. /\ 0 \in 0 .. Changes /\ 0 \in 0 .. Clicks /\ 0 \in 0 .. Posts /\ 0 \in 0 .. MaxRetries + 1
      /\ MaxRetries \in Nat
  BY FetchingAssumption
<1>2. loads = {l} /\ timers = {} /\ posts = {} /\ year \in Years /\ develop \in BOOLEAN
      /\ controller = 1 /\ screen = [is |-> "loading"]
  BY DEF Init, Loading
<1>3. l \in LoadRecord /\ l.nr = 1 /\ l.year = year
  BY <1>1, <1>2 DEF LoadRecord, Stages
<1>4. /\ IsFiniteSet(loads) /\ IsFiniteSet(timers) /\ IsFiniteSet(posts)
      /\ Cardinality(loads) = 1 /\ Cardinality(timers) = 0 /\ Cardinality(posts) = 0
  BY <1>2, FS_EmptySet, FS_Singleton
<1>5. Types
  BY <1>1, <1>2, <1>3, <1>4 DEF Types, Init
<1>6. LoadsInv
  BY <1>2, <1>3 DEF LoadsInv, OneLoad
<1>7. PostsInv
  BY <1>2 DEF PostsInv, Init
<1>8. CountInv
  BY <1>1, <1>4 DEF CountInv, Init
<1>9. SettledInv
  BY <1>2, <1>3 DEF SettledInv, Current
<1>10. PlainInv
  <2>1. retries = 0 /\ failures = 0 /\ loads # {} /\ timers = {}
    BY <1>2 DEF Init
  <2> QED
    BY <1>1, <2>1 DEF PlainInv
<1> QED
  BY <1>5, <1>6, <1>7, <1>8, <1>9, <1>10 DEF Inv

(* What a step of the browser is. *)
LEMMA BrowseSteps ==
  ASSUME NEW l \in loads,
         \/ PauseEnds(l) \/ PauseThrows(l) \/ Serve(l) \/ Refuse(l) \/ Respond(l) \/ Paint(l)
         \/ BodyLost(l)
  PROVE  PauseEnds(l) \/ Serve(l) \/ Respond(l) \/ Paint(l) \/ Caught(l)
  BY DEF PauseThrows, Refuse, BodyLost

LEMMA StepInv ==
  ASSUME Inv, [Next]_vars
  PROVE  Inv'
<1>1. ASSUME NEW l \in loads,
             \/ PauseEnds(l) \/ PauseThrows(l) \/ Serve(l) \/ Refuse(l) \/ Respond(l) \/ Paint(l)
             \/ BodyLost(l)
      PROVE  Inv'
  BY <1>1, BrowseSteps, PauseEndsInv, ServeInv, RespondInv, PaintInv, CaughtInv
<1>2. CASE Click
  BY <1>2, ClickInv
<1>3. CASE Store
  BY <1>3, StoreInv
<1>4. CASE Browse
  BY <1>1, <1>4 DEF Browse
<1>5. CASE Fire
  BY <1>5, RetryInv DEF Fire
<1>6. ASSUME NEW p \in posts, Confirm(p)
      PROVE  Inv'
  BY <1>6, ConfirmInv
<1>7. CASE ConfirmLost
  BY <1>7, ConfirmLostInv
<1>8. CASE UNCHANGED vars
  <2>1. /\ Types' /\ LoadsInv' /\ PostsInv' /\ CountInv'
    BY <1>8 DEF vars, Inv, Types, LoadsInv, OneLoad, PostsInv, CountInv
  <2>2. SettledInv' /\ PlainInv'
    BY <1>8 DEF vars, Inv, SettledInv, Current, PlainInv
  <2> QED
    BY <2>1, <2>2 DEF Inv
<1> QED
  BY <1>2, <1>3, <1>4, <1>5, <1>6, <1>7, <1>8 DEF Next

LEMMA Invariance == Spec => []Inv
<1>1. Init => Inv
  BY InitInv
<1>2. Inv /\ [Next]_vars => Inv'
  BY StepInv
<1> QED
  BY <1>1, <1>2, PTL DEF Spec

-----------------------------------------------------------------------------
(* The retries stay within the bound that the choices and the uploads give. *)
THEOREM Typed == Spec => []TypeOK
<1>1. Inv => TypeOK
  <2> SUFFICES ASSUME Inv
               PROVE  TypeOK
    OBVIOUS
  <2>1. Types /\ CountInv
    BY DEF Inv
  <2>2. retries \in 0 .. MaxRetries + Clicks + Posts
    <3>1. retries <= MaxRetries + clicks + uploads
      BY <2>1, Counted DEF CountInv
    <3>2. clicks <= Clicks /\ uploads <= Posts
      BY <2>1 DEF Types
    <3> QED
      BY <2>1, <3>1, <3>2, Counted
  <2>3. \A l \in loads : l.year \in Years /\ l.stage \in Stages /\ l.changes \in 0 .. Changes
    BY <2>1 DEF Types, LoadRecord
  <2> QED
    BY <2>1, <2>2, <2>3 DEF TypeOK, Types
<1> QED
  BY <1>1, Invariance, PTL

(* A page has one request on its way or one timer that runs; the develop    *)
(* mode adds one attempt at most for each choice and each upload.           *)
THEOREM OneAtATime == Spec => []OneAttempt
<1>1. Inv => OneAttempt
  <2> SUFFICES ASSUME Inv
               PROVE  OneAttempt
    OBVIOUS
  <2>1. Types /\ LoadsInv /\ CountInv /\ PlainInv
    BY DEF Inv
  <2>2. Cardinality(timers) + Cardinality(loads) <= 1 + clicks + uploads
    BY <2>1, Counted DEF CountInv
  <2>3. ASSUME ~develop
        PROVE  /\ loads = Current
               /\ Cardinality(timers) + Cardinality(loads) <= 1
               /\ timers \subseteq {timeout}
    <3>1. \A l \in loads : l.nr = controller
      BY <2>1, <2>3 DEF LoadsInv, OneLoad
    <3>2. loads = Current
      BY <3>1 DEF Current
    <3>3. /\ loads = {} \/ timers = {}
          /\ timers = {} \/ timers = {timeout}
      BY <2>1, <2>3 DEF PlainInv
    <3>4. loads = {} \/ \E l : loads = {l}
      BY <2>1, <3>1 DEF LoadsInv
    <3>5. /\ loads = {} => Cardinality(loads) = 0
          /\ loads # {} => Cardinality(loads) = 1
          /\ timers = {} => Cardinality(timers) = 0
          /\ timers # {} => Cardinality(timers) = 1
      BY <3>3, <3>4, FS_EmptySet, FS_Singleton
    <3> QED
      BY <3>2, <3>3, <3>5
  <2> QED
    BY <2>2, <2>3 DEF OneAttempt
<1> QED
  BY <1>1, Invariance, PTL

(* A page gives up with an error on the screen, after its last retry.       *)
THEOREM GivesUpInTheEnd == Spec => []GivesUpLate
<1>1. Inv => GivesUpLate
  BY DEF Inv, SettledInv, PlainInv, Current, GivesUpLate
<1> QED
  BY <1>1, Invariance, PTL

-----------------------------------------------------------------------------
(* The steps of Fetching as steps of ShownYear. *)

LEMMA ShownInit ==
  ASSUME Init
  PROVE  Shown!Init
  BY DEF Init, Loading, Shown!Init

LEMMA ShownClick ==
  ASSUME Click
  PROVE  Shown!Choose
  BY DEF Click, Load, Loading, Shown!Choose

LEMMA ShownStore ==
  ASSUME Store
  PROVE  Shown!Change
  BY DEF Store, Shown!Change

LEMMA ShownConfirm ==
  ASSUME Inv, NEW p \in posts, Confirm(p)
  PROVE  Shown!Confirm
<1>1. p.year \in Years /\ p.change \in 0 .. Changes
  BY DEF Inv, Types, PostRecord
<1>2. known[p.year] <= p.change /\ p.change <= content[p.year]
  BY DEF Inv, PostsInv
<1>3. /\ known' = [known EXCEPT ![p.year] = p.change]
      /\ screen' = IF p.year = year THEN [is |-> "loading"] ELSE screen
      /\ UNCHANGED <<year, content>>
  BY DEF Confirm, Load, Loading
<1> QED
  BY <1>1, <1>2, <1>3 DEF Shown!Confirm

LEMMA ShownPaint ==
  ASSUME Inv, NEW l \in loads, Paint(l)
  PROVE  Shown!Show
<1>1. Types /\ l \in LoadRecord /\ OneLoad(l) /\ l.stage = "body"
  BY DEF Inv, Types, LoadsInv, Paint
<1>2. l.year = year
  BY <1>1 DEF OneLoad
<1>3. known[year] <= l.changes /\ l.changes <= content[year]
  BY <1>1, <1>2 DEF OneLoad
<1>4. l.changes \in known[year] .. content[year]
  BY <1>1, <1>3, FetchingAssumption DEF Types, LoadRecord
<1>5. /\ screen' = [is |-> "flights", year |-> year, changes |-> l.changes]
      /\ UNCHANGED <<year, content, known>>
  BY <1>2 DEF Paint, Flights
<1> QED
  BY <1>4, <1>5 DEF Shown!Show

LEMMA ShownStep ==
  ASSUME Inv, [Next]_vars
  PROVE  [Shown!Next]_Shown!shownVars
<1>1. ASSUME NEW l \in loads,
             \/ PauseEnds(l) \/ PauseThrows(l) \/ Serve(l) \/ Refuse(l) \/ Respond(l) \/ Paint(l)
             \/ BodyLost(l)
      PROVE  [Shown!Next]_Shown!shownVars
  <2>1. CASE PauseEnds(l) \/ Serve(l) \/ Respond(l)
    BY <2>1 DEF PauseEnds, Serve, Respond, Shown!shownVars
  <2>2. CASE Paint(l)
    BY <2>2, ShownPaint DEF Shown!Next
  <2>3. CASE Caught(l)
    BY <2>3 DEF Caught, Error, Shown!ShowError, Shown!Next
  <2> QED
    BY <1>1, <2>1, <2>2, <2>3, BrowseSteps
<1>2. CASE Click
  BY <1>2, ShownClick DEF Shown!Next
<1>3. CASE Store
  BY <1>3, ShownStore DEF Shown!Next
<1>4. CASE Browse
  BY <1>1, <1>4 DEF Browse
<1>5. CASE Fire
  BY <1>5 DEF Fire, Retry, Load, Loading, Shown!LoadAgain, Shown!Next
<1>6. ASSUME NEW p \in posts, Confirm(p)
      PROVE  [Shown!Next]_Shown!shownVars
  BY <1>6, ShownConfirm DEF Shown!Next
<1>7. CASE ConfirmLost
  BY <1>7 DEF ConfirmLost, Shown!shownVars
<1>8. CASE UNCHANGED vars
  BY <1>8 DEF vars, Shown!shownVars
<1> QED
  BY <1>2, <1>3, <1>4, <1>5, <1>6, <1>7, <1>8 DEF Next

(* Every behaviour of the page is one of ShownYear: the flights shown are   *)
(* of the year chosen last and at least as new as every upload the reader   *)
(* was told of.  That a choice is answered is left to the runs.             *)
THEOREM ShowsChosenYear == Spec => Shown!Init /\ [][Shown!Next]_Shown!shownVars
<1>1. Init => Shown!Init
  BY ShownInit
<1>2. Inv /\ [Next]_vars => [Shown!Next]_Shown!shownVars
  BY ShownStep
<1> QED
  BY <1>1, <1>2, Invariance, PTL DEF Spec
=============================================================================
