-------------------------- MODULE PageCacheProofs --------------------------
(***************************************************************************)
(* Theorems about PageCache for any number of workers, of versions of the  *)
(* page and of their sizes.                                                *)
(***************************************************************************)
EXTENDS PageCache, TLAPS

LEMMA VersionsAreNumbers ==
  /\ Len(Size) \in Nat \ {0} /\ Versions = 1 .. Len(Size) /\ 1 \in Versions
  /\ \A v \in Versions : Size[v] \in Nat \ {0}
  /\ Page \in Assets /\ ErrorPage \in Assets /\ Page # ErrorPage
<1>1. Size \in Seq(Nat \ {0}) /\ Size # <<>>
  BY CacheAssumption
<1>2. Len(Size) \in Nat \ {0} /\ DOMAIN Size = 1 .. Len(Size)
  BY <1>1
<1> QED
  BY <1>1, <1>2, CacheAssumption DEF Versions, Assets

-----------------------------------------------------------------------------
(* Type correctness. *)

LEMMA InitType == Init => TypeOK
  BY VersionsAreNumbers DEF Init, TypeOK, Pc

(* A step of serve() that fails, and one that goes on. *)
LEMMA FailsType ==
  ASSUME TypeOK, NEW t \in Threads, Fails(t)
  PROVE  /\ pc' \in [Threads -> Pc] /\ asset' \in [Threads -> Assets]
         /\ status' \in [Threads -> {0, 200, 500}] /\ alone' \in [Threads -> BOOLEAN]
         /\ body' = body /\ since' = since /\ stat' = stat
<1>1. pc' \in [Threads -> Pc]
  BY DEF Fails, TypeOK, Goto, Pc
<1>2. asset' \in [Threads -> Assets]
  <2>1. asset' = asset \/ asset' = [asset EXCEPT ![t] = ErrorPage]
    BY DEF Fails
  <2>2. asset \in [Threads -> Assets] /\ ErrorPage \in Assets
    BY VersionsAreNumbers DEF TypeOK
  <2> QED
    BY <2>1, <2>2
<1>3. status' \in [Threads -> {0, 200, 500}]
  BY DEF Fails, TypeOK
<1>4. alone' \in [Threads -> BOOLEAN]
  BY DEF Fails, TypeOK
<1> QED
  BY <1>1, <1>2, <1>3, <1>4 DEF Fails

LEMMA ProceedsType ==
  ASSUME TypeOK, NEW t \in Threads, NEW p \in Pc, Proceeds(t, p)
  PROVE  /\ pc' \in [Threads -> Pc]
         /\ UNCHANGED <<asset, status, body, since, alone>>
  BY DEF Proceeds, TypeOK, Goto, answerVars, historyVars

LEMMA StatType ==
  ASSUME TypeOK, NEW t \in Threads, Stat(t)
  PROVE  /\ pc' \in [Threads -> Pc] /\ asset' \in [Threads -> Assets]
         /\ status' \in [Threads -> {0, 200, 500}] /\ alone' \in [Threads -> BOOLEAN]
         /\ body' = body /\ since' = since /\ stat' \in [Threads -> Versions]
<1>1. CASE Fails(t)
  BY <1>1, FailsType DEF TypeOK
<1>2. ASSUME stat' = [stat EXCEPT ![t] = disk[asset[t]]],
             NEW p \in {"reload", "check"}, Proceeds(t, p)
      PROVE  /\ pc' \in [Threads -> Pc] /\ stat' \in [Threads -> Versions]
             /\ UNCHANGED <<asset, status, body, since, alone>>
  BY <1>2, ProceedsType DEF TypeOK, Pc
<1> QED
  BY <1>1, <1>2 DEF Stat, TypeOK

LEMMA AnswersType ==
  ASSUME TypeOK, NEW t \in Threads, Answers(t)
  PROVE  /\ pc' \in [Threads -> Pc] /\ asset' \in [Threads -> Assets]
         /\ status' \in [Threads -> {0, 200, 500}] /\ alone' \in [Threads -> BOOLEAN]
         /\ body' \in [Threads -> Bytes \cup {Null, Empty}] /\ since' = since /\ stat' = stat
<1>1. CASE Proceeds(t, "done") /\ UNCHANGED stat
  BY <1>1, ProceedsType DEF TypeOK, Pc
<1>2. CASE /\ status' = [status EXCEPT ![t] = IF @ = 0 THEN 200 ELSE @]
           /\ body' = [body EXCEPT ![t] = ptr[asset[t]]]
           /\ Goto(t, "done")
           /\ UNCHANGED <<asset, stat, historyVars>>
  BY <1>2 DEF TypeOK, Goto, Pc, historyVars
<1>3. CASE Fails(t)
  BY <1>3, FailsType DEF TypeOK
<1> QED
  BY <1>1, <1>2, <1>3 DEF Answers

LEMMA TypeStep == TypeOK /\ [Next]_vars => TypeOK'
<1> SUFFICES ASSUME TypeOK, [Next]_vars PROVE TypeOK'
  OBVIOUS
<1> USE DEF diskVars, cacheVars, answerVars, historyVars
<1>1. ASSUME NEW t \in Threads, Begin(t) PROVE TypeOK'
  BY <1>1, VersionsAreNumbers DEF Begin, TypeOK, Goto, Pc
<1>2. ASSUME NEW t \in Threads, Look(t) PROVE TypeOK'
  <2>1. CASE Stat(t)
    BY <1>2, <2>1, StatType DEF Look, TypeOK
  <2>2. CASE Proceeds(t, "open") /\ UNCHANGED stat
    BY <1>2, <2>2, ProceedsType DEF Look, TypeOK, Pc
  <2> QED
    BY <1>2, <2>1, <2>2 DEF Look
<1>3. ASSUME NEW t \in Threads, Open(t) PROVE TypeOK'
  <2>1. CASE Proceeds(t, "check") /\ UNCHANGED <<fd, stat>>
    BY <1>3, <2>1, ProceedsType DEF Open, TypeOK, Pc
  <2>2. CASE fd' = [fd EXCEPT ![asset[t]] = TRUE] /\ Stat(t)
    BY <1>3, <2>2, StatType DEF Open, TypeOK
  <2>3. CASE Fails(t) /\ UNCHANGED fd
    BY <1>3, <2>3, FailsType DEF Open, TypeOK
  <2> QED
    BY <1>3, <2>1, <2>2, <2>3 DEF Open
<1>4. ASSUME NEW t \in Threads, Reload(t) PROVE TypeOK'
  <2>0. asset[t] \in Assets /\ disk[asset[t]] \in Versions /\ stat[t] \in Versions
    BY DEF TypeOK
  <2>1. CASE Proceeds(t, "check") /\ UNCHANGED <<ptr, modified, hydrated, stat>>
    BY <1>4, <2>1, ProceedsType DEF Reload, TypeOK, Pc
  <2>2. CASE ReadAll(t)
    <3>1. ptr' \in [Assets -> Bytes \cup {Null, Empty}]
      <4>1. ASSUME NEW w \in BOOLEAN
            PROVE  RawBytes(disk[asset[t]], w) \in Bytes
        BY <2>0 DEF RawBytes, Bytes
      <4>2. PICK w \in BOOLEAN : w = (SizeOf(asset[t], disk[asset[t]]) = SizeOf(asset[t], stat[t]))
        OBVIOUS
      <4>3. PICK b \in Bytes : b = RawBytes(disk[asset[t]], w)
        BY <4>1
      <4>4. ptr' = [ptr EXCEPT ![asset[t]] = b]
        BY <2>2, <4>2, <4>3 DEF ReadAll
      <4> QED
        <5>1. ptr \in [Assets -> Bytes \cup {Null, Empty}]
          BY DEF TypeOK
        <5> QED
          BY <4>4, <5>1
    <3>2. /\ modified' \in [Assets -> Versions \cup {0}] /\ hydrated' \in [Assets -> BOOLEAN]
          /\ stat' = stat /\ Proceeds(t, "check")
      BY <2>0, <2>2 DEF ReadAll, ResetHydrated, Stamp, TypeOK
    <3> QED
      BY <1>4, <3>1, <3>2, ProceedsType DEF Reload, TypeOK, Pc
  <2>3. CASE ReadFails(t)
    <3>1. ptr' \in [Assets -> Bytes \cup {Null, Empty}]
      <4>1. ptr \in [Assets -> Bytes \cup {Null, Empty}]
        BY DEF TypeOK
      <4>2. ASSUME NEW v \in Versions PROVE TornBytes(v) \in Bytes
        BY DEF TornBytes, Bytes
      <4>3. ptr[asset[t]] \in Bytes => ptr[asset[t]].ver \in Versions
        BY DEF Bytes
      <4>4. PICK b \in Bytes \cup {Null} : ptr' = [ptr EXCEPT ![asset[t]] = b]
        BY <2>0, <2>3, <4>2, <4>3 DEF ReadFails
      <4> QED
        BY <4>1, <4>4
    <3>2. Fails(t) /\ UNCHANGED <<modified, hydrated>>
      BY <2>3 DEF ReadFails
    <3> QED
      BY <1>4, <3>1, <3>2, FailsType DEF Reload, TypeOK
  <2> QED
    BY <1>4, <2>1, <2>2, <2>3 DEF Reload
<1>5. ASSUME NEW t \in Threads, Check(t) PROVE TypeOK'
  <2>1. CASE Answers(t)
    BY <1>5, <2>1, AnswersType DEF Check, TypeOK
  <2>2. CASE Proceeds(t, "hydrate") /\ UNCHANGED stat
    BY <1>5, <2>2, ProceedsType DEF Check, TypeOK, Pc
  <2> QED
    BY <1>5, <2>1, <2>2 DEF Check
<1>6. ASSUME NEW t \in Threads, Hydrate(t) PROVE TypeOK'
  <2> DEFINE a == asset[t]
  <2>0. a \in Assets
    BY DEF TypeOK
  <2>1. CASE Proceeds(t, "done") /\ UNCHANGED <<up, ptr, hydrated, stat>>
    BY <1>6, <2>1, ProceedsType DEF Hydrate, TypeOK, Pc
  <2>2. CASE up' = FALSE /\ UNCHANGED <<ptr, hydrated, stat, pc, asset, answerVars, historyVars>>
    BY <1>6, <2>2 DEF Hydrate, TypeOK
  <2>3. CASE /\ ptr' = [ptr EXCEPT ![a] = IF @ \in {Null, Empty} THEN Empty ELSE [@ EXCEPT !.form = "page"]]
             /\ hydrated' = [hydrated EXCEPT ![a] = TRUE]
             /\ Proceeds(t, "send")
             /\ UNCHANGED <<up, stat>>
    <3>1. ptr[a] \in Bytes => [ptr[a] EXCEPT !.form = "page"] \in Bytes
      BY DEF Bytes
    <3>2. ptr' \in [Assets -> Bytes \cup {Null, Empty}]
      BY <2>0, <2>3, <3>1 DEF TypeOK
    <3> QED
      BY <1>6, <2>3, <3>2, ProceedsType DEF Hydrate, TypeOK, Pc
  <2>4. CASE Fails(t) /\ UNCHANGED <<up, ptr, hydrated>>
    BY <1>6, <2>4, FailsType DEF Hydrate, TypeOK
  <2>5. CASE /\ ptr[a] \notin {Null, Empty}
             /\ ptr' = [ptr EXCEPT ![a].form = "assembled"]
             /\ Fails(t)
             /\ UNCHANGED <<up, hydrated>>
    <3>1. ptr[a] \in Bytes
      BY <2>0, <2>5 DEF TypeOK
    <3>2. [ptr[a] EXCEPT !.form = "assembled"] \in Bytes
      BY <3>1 DEF Bytes
    <3>3. ptr' \in [Assets -> Bytes \cup {Null, Empty}]
      BY <2>0, <2>5, <3>2 DEF TypeOK
    <3> QED
      BY <1>6, <2>5, <3>3, FailsType DEF Hydrate, TypeOK
  <2> QED
    BY <1>6, <2>1, <2>2, <2>3, <2>4, <2>5 DEF Hydrate
<1>7. ASSUME NEW t \in Threads, Send(t) PROVE TypeOK'
  BY <1>7, AnswersType DEF Send, TypeOK
<1>8. ASSUME NEW t \in Threads, Leave(t) PROVE TypeOK'
  BY <1>8, VersionsAreNumbers DEF Leave, TypeOK, Goto, Pc
<1>9. CASE Edit
  BY <1>9, VersionsAreNumbers DEF Edit, TypeOK
<1>10. CASE Crashed \/ UNCHANGED vars
  BY <1>10 DEF Crashed, vars, TypeOK
<1> QED
  BY <1>1, <1>2, <1>3, <1>4, <1>5, <1>6, <1>7, <1>8, <1>9, <1>10 DEF Next

(* Every variable of the cache and of its workers keeps its type. *)
THEOREM CacheTyped == Spec => []TypeOK
<1>1. Init => TypeOK
  BY InitType
<1>2. TypeOK /\ [Next]_vars => TypeOK'
  BY TypeStep
<1> QED
  BY <1>1, <1>2, PTL DEF Spec

-----------------------------------------------------------------------------
(* What is in memory of a file, and what a worker knows of it.              *)

Holds(a) == ptr[a] \in Bytes

File(a) ==
  /\ ~fd[a] => ptr[a] = Null
  /\ modified[a] <= disk[a]
  /\ Holds(a) => modified[a] <= ptr[a].ver /\ ptr[a].ver <= disk[a]

(* A worker that goes on without looking at the file again finds what was   *)
(* read since its request began; one that found no open file may do so as   *)
(* well, because nothing was read before.                                   *)
Worker(t) ==
  /\ since[t] <= disk[Page]
  /\ pc[t] \in {"reload", "check", "hydrate", "send"} => fd[asset[t]]
  /\ pc[t] = "reload" => stat[t] <= disk[asset[t]]
  /\ pc[t] = "reload" /\ asset[t] = Page => since[t] <= stat[t]
  /\ pc[t] \notin {"idle", "done"} => status[t] = IF asset[t] = Page THEN 0 ELSE 500
  /\ pc[t] \in {"open", "check", "hydrate", "send"} /\ asset[t] = Page /\ Holds(Page) =>
       since[t] <= ptr[Page].ver
  /\ pc[t] = "done" /\ status[t] = 200 /\ body[t] # Empty =>
       body[t] \in Bytes /\ since[t] <= body[t].ver

CacheInv == TypeOK /\ (\A a \in Assets : File(a)) /\ (\A t \in Threads : Worker(t))

(* Unless a reload failed after realloc(), what is in memory is all of the  *)
(* version it is stamped with, and the mark is right.                       *)
Sound(a) ==
  /\ hydrated[a] /\ Holds(a) => ptr[a].form = "page" \/ ptr[a].torn
  /\ ptr[a] = Empty => modified[a] = 0
  /\ Holds(a) /\ ptr[a].ver = modified[a] => ptr[a].whole \/ ptr[a].torn

(* The page in memory is the one on the disk, or torn under its time.       *)
UpToDate ==
  /\ Holds(Page) /\ modified[Page] = disk[Page]
  /\ ~ptr[Page].torn => ptr[Page].ver = disk[Page] /\ ptr[Page].whole

(* What is sent to a request that nothing disturbs.                         *)
Served(t) ==
  /\ body[t] \in Bytes
  /\ IF body[t].torn
       THEN modified[Page] = disk[Page]
       ELSE body[t].ver = disk[Page] /\ body[t].form = "page" /\ body[t].whole

Alone(t) ==
  alone[t] =>
    /\ \A u \in Threads \ {t} : pc[u] = "idle"
    /\ asset[t] = Page
    /\ pc[t] = "open" => ~fd[Page]
    /\ pc[t] = "reload" => stat[t] = disk[Page]
    /\ pc[t] \in {"check", "hydrate", "send"} => UpToDate
    /\ pc[t] = "hydrate" => ~hydrated[Page]
    /\ pc[t] = "send" => hydrated[Page]
    /\ pc[t] = "done" => status[t] = 200 /\ Served(t)

HealInv == CacheInv /\ (\A a \in Assets : Sound(a)) /\ (\A t \in Threads : Alone(t))

-----------------------------------------------------------------------------
(* What a step of the worker t does to the workers and to the files.        *)

(* Nothing that is the other workers' own. *)
Others(t) ==
  \A u \in Threads \ {t} :
    /\ pc'[u] = pc[u] /\ asset'[u] = asset[u] /\ stat'[u] = stat[u]
    /\ status'[u] = status[u] /\ body'[u] = body[u] /\ since'[u] = since[u]

(* A file is never closed; what is in memory changes to what is on the disk *)
(* or keeps its version.                                                    *)
Grows(a) ==
  /\ fd[a] => fd'[a]
  /\ disk[a] <= disk'[a]
  /\ ptr'[a] \in Bytes => \/ ptr[a] \in Bytes /\ ptr'[a].ver = ptr[a].ver
                          \/ ptr'[a].ver = disk'[a]

LEMMA ProceedsFrame ==
  ASSUME TypeOK, NEW t \in Threads, NEW p, Proceeds(t, p),
         \A u \in Threads \ {t} : stat'[u] = stat[u]
  PROVE  /\ Others(t) /\ pc'[t] = p
         /\ UNCHANGED <<asset, status, body, since, alone>>
  BY DEF Proceeds, Goto, TypeOK, Others, answerVars, historyVars

LEMMA FailsFrame ==
  ASSUME TypeOK, NEW t \in Threads, Fails(t)
  PROVE  /\ Others(t) /\ pc'[t] \in {"look", "done"}
         /\ asset'[t] = ErrorPage /\ status'[t] = 500 /\ since'[t] = since[t] /\ ~alone'[t]
<1>1. asset' = IF asset[t] = ErrorPage THEN asset ELSE [asset EXCEPT ![t] = ErrorPage]
  BY DEF Fails
<1>2. \E p \in {"look", "done"} : pc' = [pc EXCEPT ![t] = p]
  BY DEF Fails, Goto
<1>3. /\ status' = [status EXCEPT ![t] = 500]
      /\ alone' = [alone EXCEPT ![t] = FALSE]
      /\ UNCHANGED <<body, since, stat>>
  BY DEF Fails
<1>4. /\ pc \in [Threads -> Pc] /\ asset \in [Threads -> Assets]
      /\ status \in [Threads -> {0, 200, 500}] /\ alone \in [Threads -> BOOLEAN]
  BY DEF TypeOK
<1>5. ~alone'[t]
  BY <1>3, <1>4
<1>6. pc'[t] \in {"look", "done"} /\ \A u \in Threads \ {t} : pc'[u] = pc[u]
  BY <1>2, <1>4
<1>7. asset'[t] = ErrorPage /\ \A u \in Threads \ {t} : asset'[u] = asset[u]
  BY <1>1, <1>4
<1>8. status'[t] = 500 /\ \A u \in Threads \ {t} : status'[u] = status[u]
  BY <1>3, <1>4
<1> QED
  BY <1>3, <1>5, <1>6, <1>7, <1>8 DEF Others

(* The versions are numbers, wherever they are kept. *)
LEMMA VersionTypes ==
  ASSUME TypeOK
  PROVE  /\ \A a \in Assets : disk[a] \in Nat /\ modified[a] \in Nat
         /\ \A a \in Assets : ptr[a] \in Bytes => ptr[a].ver \in Nat
         /\ \A t \in Threads : since[t] \in Nat /\ stat[t] \in Nat /\ asset[t] \in Assets
  BY VersionsAreNumbers DEF TypeOK, Bytes

LEMMA NextVersionTypes ==
  ASSUME TypeOK'
  PROVE  /\ \A a \in Assets : disk'[a] \in Nat /\ modified'[a] \in Nat
         /\ \A a \in Assets : ptr'[a] \in Bytes => ptr'[a].ver \in Nat
         /\ \A t \in Threads : since'[t] \in Nat /\ stat'[t] \in Nat /\ asset'[t] \in Assets
  BY VersionsAreNumbers DEF TypeOK, Bytes

(* The other workers know what they knew. *)
LEMMA OthersKnow ==
  ASSUME CacheInv, TypeOK', NEW t \in Threads, Others(t), \A a \in Assets : Grows(a),
         NEW u \in Threads, u # t
  PROVE  Worker(u)'
<1>1. /\ pc'[u] = pc[u] /\ asset'[u] = asset[u] /\ stat'[u] = stat[u]
      /\ status'[u] = status[u] /\ body'[u] = body[u] /\ since'[u] = since[u]
  BY DEF Others
<1>2. /\ Worker(u) /\ asset[u] \in Assets
      /\ since[u] \in Nat /\ stat[u] \in Nat
      /\ \A a \in Assets : disk[a] \in Nat /\ disk'[a] \in Nat
      /\ \A a \in Assets : ptr[a] \in Bytes => ptr[a].ver \in Nat
      /\ \A a \in Assets : ptr'[a] \in Bytes => ptr'[a].ver \in Nat
  BY VersionTypes, NextVersionTypes DEF CacheInv
<1>3. Page \in Assets
  BY DEF Assets
<1>4. since'[u] <= disk'[Page]
  BY <1>1, <1>2, <1>3 DEF Worker, Grows
<1>5. pc'[u] \in {"reload", "check", "hydrate", "send"} => fd'[asset'[u]]
  BY <1>1, <1>2 DEF Worker, Grows
<1>6. pc'[u] = "reload" => stat'[u] <= disk'[asset'[u]]
  BY <1>1, <1>2 DEF Worker, Grows
<1>7. pc'[u] \in {"open", "check", "hydrate", "send"} /\ asset'[u] = Page /\ ptr'[Page] \in Bytes =>
        since'[u] <= ptr'[Page].ver
  BY <1>1, <1>2, <1>3, <1>4 DEF Worker, Grows, Holds
<1> QED
  BY <1>1, <1>2, <1>4, <1>5, <1>6, <1>7 DEF Worker, Holds

LEMMA FailsCache ==
  ASSUME CacheInv, TypeOK', NEW t \in Threads, Fails(t),
         \A a \in Assets : Grows(a), \A a \in Assets : File(a)'
  PROVE  CacheInv'
<1>1. /\ Others(t) /\ pc'[t] \in {"look", "done"}
      /\ asset'[t] = ErrorPage /\ status'[t] = 500 /\ since'[t] = since[t]
  BY FailsFrame DEF CacheInv
<1>2. since'[t] <= disk'[Page]
  <2>1. since[t] <= disk[Page] /\ disk[Page] <= disk'[Page]
    BY VersionsAreNumbers DEF CacheInv, Worker, Grows
  <2> QED
    BY <1>1, <2>1, VersionsAreNumbers, VersionTypes, NextVersionTypes DEF CacheInv
<1>3. Worker(t)'
  BY <1>1, <1>2, VersionsAreNumbers DEF Worker
<1> QED
  BY <1>1, <1>3, OthersKnow DEF CacheInv

LEMMA ProceedsCache ==
  ASSUME CacheInv, TypeOK', NEW t \in Threads, Others(t), Worker(t)',
         \A a \in Assets : Grows(a), \A a \in Assets : File(a)'
  PROVE  CacheInv'
  BY OthersKnow DEF CacheInv

(* Nothing happens to the files. *)
LEMMA FilesUntouched ==
  ASSUME CacheInv, UNCHANGED <<disk, ptr, modified>>, \A a \in Assets : fd[a] => fd'[a]
  PROVE  (\A a \in Assets : Grows(a)) /\ (\A a \in Assets : File(a)')
<1>1. \A a \in Assets : Grows(a)
  BY VersionTypes DEF Grows, CacheInv
<1>2. \A a \in Assets : File(a)'
  BY DEF CacheInv, File, Holds
<1> QED
  BY <1>1, <1>2

-----------------------------------------------------------------------------
(* Each action keeps the invariant. *)

LEMMA BeginCache ==
  ASSUME CacheInv, TypeOK', NEW t \in Threads, Begin(t)
  PROVE  CacheInv'
<1>1. TypeOK
  BY DEF CacheInv
<1>2. (\A a \in Assets : Grows(a)) /\ (\A a \in Assets : File(a)')
  BY FilesUntouched DEF Begin, diskVars, cacheVars
<1>3. /\ pc' = [pc EXCEPT ![t] = "look"] /\ asset' = [asset EXCEPT ![t] = Page]
      /\ status' = [status EXCEPT ![t] = 0] /\ body' = [body EXCEPT ![t] = Null]
      /\ since' = [since EXCEPT ![t] = disk[Page]]
      /\ UNCHANGED <<disk, stat>>
  BY DEF Begin, Goto, diskVars
<1>4. /\ pc \in [Threads -> Pc] /\ asset \in [Threads -> Assets]
      /\ status \in [Threads -> {0, 200, 500}] /\ body \in [Threads -> Bytes \cup {Null, Empty}]
      /\ since \in [Threads -> Versions]
  BY <1>1 DEF TypeOK
<1>5. Others(t)
  BY <1>3, <1>4 DEF Others
<1>6. pc'[t] = "look" /\ asset'[t] = Page /\ status'[t] = 0 /\ since'[t] = disk[Page]
  BY <1>3, <1>4
<1>7. Worker(t)'
  BY <1>1, <1>3, <1>6, VersionsAreNumbers, VersionTypes DEF Worker
<1> QED
  BY <1>2, <1>5, <1>7, ProceedsCache

LEMMA LeaveCache ==
  ASSUME CacheInv, TypeOK', NEW t \in Threads, Leave(t)
  PROVE  CacheInv'
<1>1. TypeOK
  BY DEF CacheInv
<1>2. (\A a \in Assets : Grows(a)) /\ (\A a \in Assets : File(a)')
  BY FilesUntouched DEF Leave, diskVars, cacheVars
<1>3. /\ pc' = [pc EXCEPT ![t] = "idle"] /\ stat' = [stat EXCEPT ![t] = 1]
      /\ UNCHANGED <<disk, asset, status, body, since>>
  BY DEF Leave, Goto, diskVars, answerVars, historyVars
<1>4. pc \in [Threads -> Pc] /\ stat \in [Threads -> Versions]
  BY <1>1 DEF TypeOK
<1>5. Others(t) /\ pc'[t] = "idle"
  BY <1>3, <1>4 DEF Others
<1>6. Worker(t)'
  BY <1>3, <1>5 DEF Worker, CacheInv
<1> QED
  BY <1>2, <1>5, <1>6, ProceedsCache

(* What the fstat saw is what is on the disk now. *)
LEMMA StatCache ==
  ASSUME CacheInv, TypeOK', NEW t \in Threads, pc[t] \in {"look", "open"}, Stat(t),
         fd'[asset[t]], \A a \in Assets : fd[a] => fd'[a],
         UNCHANGED <<disk, ptr, modified>>
  PROVE  CacheInv'
<1> DEFINE a == asset[t]
<1>1. /\ TypeOK /\ a \in Assets /\ Page \in Assets
      /\ \A b \in Assets : disk[b] \in Nat /\ modified[b] \in Nat
      /\ \A b \in Assets : ptr[b] \in Bytes => ptr[b].ver \in Nat
      /\ since[t] \in Nat /\ File(a) /\ Worker(t)
  BY VersionTypes, VersionsAreNumbers DEF CacheInv
<1>2. (\A b \in Assets : Grows(b)) /\ (\A b \in Assets : File(b)')
  BY FilesUntouched
<1>3. CASE Fails(t)
  BY <1>2, <1>3, FailsCache
<1>4. ASSUME NEW p \in {"reload", "check"}, Proceeds(t, p), stat' = [stat EXCEPT ![t] = disk[a]],
             p = "check" => modified[a] = disk[a]
      PROVE  CacheInv'
  <2>1. stat \in [Threads -> Versions]
    BY <1>1 DEF TypeOK
  <2>2. stat'[t] = disk[a] /\ \A u \in Threads \ {t} : stat'[u] = stat[u]
    BY <1>4, <2>1
  <2>3. /\ Others(t) /\ pc'[t] = p
        /\ UNCHANGED <<asset, status, body, since>>
    BY <1>1, <1>4, <2>2, ProceedsFrame
  <2>4. p = "check" /\ a = Page /\ Holds(Page) => since[t] <= ptr[Page].ver
    BY <1>1, <1>4 DEF File, Holds, Worker
  <2>5. since[t] <= disk[Page]
    BY <1>1 DEF Worker
  <2>6. status[t] = IF a = Page THEN 0 ELSE 500
    BY <1>1 DEF Worker
  <2>7. Worker(t)'
    BY <1>1, <1>4, <2>2, <2>3, <2>4, <2>5, <2>6 DEF Worker, Holds
  <2> QED
    BY <1>2, <2>3, <2>7, ProceedsCache
<1>5. CASE /\ stat' = [stat EXCEPT ![t] = disk[a]]
           /\ Proceeds(t, IF NeedsReload(t, disk[a]) THEN "reload" ELSE "check")
  BY <1>4, <1>5 DEF NeedsReload
<1> QED
  BY <1>3, <1>5 DEF Stat

LEMMA LookCache ==
  ASSUME CacheInv, TypeOK', NEW t \in Threads, Look(t)
  PROVE  CacheInv'
<1>1. pc[t] = "look" /\ UNCHANGED <<disk, fd, ptr, modified>>
  BY DEF Look, At, diskVars, cacheVars
<1>2. CASE fd[asset[t]]
  BY <1>1, <1>2, StatCache DEF Look
<1>3. CASE ~fd[asset[t]]
  <2>1. TypeOK /\ Worker(t) /\ File(asset[t]) /\ asset[t] \in Assets
    BY VersionTypes DEF CacheInv
  <2>2. Proceeds(t, "open") /\ UNCHANGED stat
    BY <1>3 DEF Look
  <2>3. /\ Others(t) /\ pc'[t] = "open"
        /\ UNCHANGED <<asset, status, body, since>>
    BY <2>1, <2>2, ProceedsFrame
  <2>4. (\A a \in Assets : Grows(a)) /\ (\A a \in Assets : File(a)')
    BY <1>1, FilesUntouched
  <2>5. ~Holds(asset[t])
    BY <1>3, <2>1, CacheAssumption DEF File, Holds
  <2>6. Worker(t)'
    BY <1>1, <2>1, <2>2, <2>3, <2>5 DEF Worker, Holds
  <2> QED
    BY <2>3, <2>4, <2>6, ProceedsCache
<1> QED
  BY <1>2, <1>3

LEMMA OpenCache ==
  ASSUME CacheInv, TypeOK', NEW t \in Threads, Open(t)
  PROVE  CacheInv'
<1>1. /\ pc[t] = "open" /\ UNCHANGED <<disk, ptr, modified>>
      /\ TypeOK /\ Worker(t) /\ asset[t] \in Assets
  BY VersionTypes DEF Open, At, diskVars, CacheInv
<1>2. fd \in [Assets -> BOOLEAN]
  BY <1>1 DEF TypeOK
<1>3. CASE fd[asset[t]] /\ Proceeds(t, "check") /\ UNCHANGED <<fd, stat>>
  <2>1. /\ Others(t) /\ pc'[t] = "check"
        /\ UNCHANGED <<asset, status, body, since>>
    BY <1>1, <1>3, ProceedsFrame
  <2>2. (\A a \in Assets : Grows(a)) /\ (\A a \in Assets : File(a)')
    BY <1>1, <1>3, FilesUntouched
  <2>3. Worker(t)'
    BY <1>1, <1>3, <2>1 DEF Worker, Holds
  <2> QED
    BY <2>1, <2>2, <2>3, ProceedsCache
<1>4. CASE fd' = [fd EXCEPT ![asset[t]] = TRUE] /\ Stat(t)
  <2>1. fd'[asset[t]] /\ \A a \in Assets : fd[a] => fd'[a]
    BY <1>1, <1>2, <1>4
  <2> QED
    BY <1>1, <1>4, <2>1, StatCache
<1>5. CASE Fails(t) /\ UNCHANGED fd
  BY <1>1, <1>5, FilesUntouched, FailsCache
<1> QED
  BY <1>3, <1>4, <1>5 DEF Open

LEMMA AnswersCache ==
  ASSUME CacheInv, TypeOK', NEW t \in Threads, pc[t] \in {"check", "send"}, Answers(t),
         UNCHANGED <<disk, fd, ptr, modified>>
  PROVE  CacheInv'
<1> DEFINE b == asset[t]
<1>1. /\ TypeOK /\ Worker(t) /\ b \in Assets /\ ptr[b] \in Bytes \cup {Null, Empty}
  BY VersionTypes DEF CacheInv, TypeOK
<1>2. (\A a \in Assets : Grows(a)) /\ (\A a \in Assets : File(a)')
  BY <1>1, FilesUntouched
<1>3. CASE Proceeds(t, "done") /\ UNCHANGED stat
  <2>1. Others(t) /\ pc'[t] = "done" /\ UNCHANGED <<asset, status, body, since>>
    BY <1>1, <1>3, ProceedsFrame
  <2>2. status[t] \in {0, 500}
    BY <1>1 DEF Worker
  <2>3. Worker(t)'
    BY <1>1, <1>3, <2>1, <2>2 DEF Worker, Holds
  <2> QED
    BY <1>2, <2>1, <2>3, ProceedsCache
<1>4. CASE /\ ptr[b] # Null
           /\ status' = [status EXCEPT ![t] = IF @ = 0 THEN 200 ELSE @]
           /\ body' = [body EXCEPT ![t] = ptr[b]]
           /\ Goto(t, "done")
           /\ UNCHANGED <<asset, stat, historyVars>>
  <2>1. /\ pc \in [Threads -> Pc] /\ status \in [Threads -> {0, 200, 500}]
        /\ body \in [Threads -> Bytes \cup {Null, Empty}]
    BY <1>1 DEF TypeOK
  <2>2. pc'[t] = "done" /\ \A u \in Threads \ {t} : pc'[u] = pc[u]
    BY <1>4, <2>1 DEF Goto
  <2>3. status'[t] = (IF status[t] = 0 THEN 200 ELSE status[t]) /\ \A u \in Threads \ {t} : status'[u] = status[u]
    BY <1>4, <2>1
  <2>4. body'[t] = ptr[b] /\ \A u \in Threads \ {t} : body'[u] = body[u]
    BY <1>4, <2>1
  <2>5. UNCHANGED <<asset, stat, since>>
    BY <1>4 DEF historyVars
  <2>6. Others(t)
    BY <2>2, <2>3, <2>4, <2>5 DEF Others
  <2>7. status[t] = IF b = Page THEN 0 ELSE 500
    BY <1>1 DEF Worker
  <2>8. status'[t] = 200 /\ body'[t] # Empty => body'[t] \in Bytes /\ since'[t] <= body'[t].ver
    BY <1>1, <1>4, <2>3, <2>4, <2>5, <2>7 DEF Worker, Holds
  <2>9. Worker(t)'
    BY <1>1, <2>2, <2>5, <2>8 DEF Worker
  <2> QED
    BY <1>2, <2>6, <2>9, ProceedsCache
<1>5. CASE Fails(t)
  BY <1>2, <1>5, FailsCache
<1> QED
  BY <1>3, <1>4, <1>5 DEF Answers

LEMMA CheckCache ==
  ASSUME CacheInv, TypeOK', NEW t \in Threads, Check(t)
  PROVE  CacheInv'
<1>1. /\ pc[t] = "check" /\ UNCHANGED <<disk, fd, ptr, modified>>
      /\ TypeOK /\ Worker(t) /\ asset[t] \in Assets
  BY VersionTypes DEF Check, At, diskVars, cacheVars, CacheInv
<1>2. CASE Answers(t)
  BY <1>1, <1>2, AnswersCache
<1>3. CASE Proceeds(t, "hydrate") /\ UNCHANGED stat
  <2>1. Others(t) /\ pc'[t] = "hydrate" /\ UNCHANGED <<asset, status, body, since>>
    BY <1>1, <1>3, ProceedsFrame
  <2>2. (\A a \in Assets : Grows(a)) /\ (\A a \in Assets : File(a)')
    BY <1>1, FilesUntouched
  <2>3. Worker(t)'
    BY <1>1, <1>3, <2>1 DEF Worker, Holds
  <2> QED
    BY <2>1, <2>2, <2>3, ProceedsCache
<1> QED
  BY <1>2, <1>3 DEF Check

LEMMA SendCache ==
  ASSUME CacheInv, TypeOK', NEW t \in Threads, Send(t)
  PROVE  CacheInv'
  BY AnswersCache DEF Send, At, diskVars, cacheVars

(* The bytes of one file change, to what is on the disk or in their form.   *)
LEMMA OneFileChanges ==
  ASSUME CacheInv, TypeOK', NEW b \in Assets, fd[b], UNCHANGED <<disk, fd>>,
         \A a \in Assets \ {b} : ptr'[a] = ptr[a] /\ modified'[a] = modified[a],
         modified'[b] <= disk[b],
         ptr'[b] \in Bytes =>
           \/ ptr'[b].ver = disk[b]
           \/ ptr[b] \in Bytes /\ ptr'[b].ver = ptr[b].ver /\ modified'[b] = modified[b]
  PROVE  (\A a \in Assets : Grows(a)) /\ (\A a \in Assets : File(a)')
<1>1. /\ \A a \in Assets : disk[a] \in Nat /\ modified[a] \in Nat /\ modified'[a] \in Nat
      /\ \A a \in Assets : ptr[a] \in Bytes => ptr[a].ver \in Nat
      /\ \A a \in Assets : ptr'[a] \in Bytes => ptr'[a].ver \in Nat
      /\ \A a \in Assets : File(a)
  BY VersionTypes, NextVersionTypes DEF CacheInv
<1>2. \A a \in Assets : Grows(a)
  BY <1>1 DEF Grows
<1>3. ASSUME NEW a \in Assets, a # b PROVE File(a)'
  BY <1>1, <1>3 DEF File, Holds
<1>4. File(b)'
  BY <1>1 DEF File, Holds
<1> QED
  BY <1>2, <1>3, <1>4

LEMMA ReloadCache ==
  ASSUME CacheInv, TypeOK', NEW t \in Threads, Reload(t)
  PROVE  CacheInv'
<1> DEFINE b == asset[t]
<1>1. /\ pc[t] = "reload" /\ UNCHANGED <<disk, fd>>
      /\ TypeOK /\ Worker(t) /\ b \in Assets /\ File(b)
      /\ fd[b] /\ stat[t] <= disk[b] /\ (b = Page => since[t] <= stat[t])
  BY VersionTypes DEF Reload, At, diskVars, CacheInv, Worker
<1>2. /\ disk[b] \in Nat /\ modified[b] \in Nat /\ since[t] \in Nat /\ stat[t] \in Nat
      /\ (ptr[b] \in Bytes => ptr[b].ver \in Nat)
  BY <1>1, VersionTypes
<1>3. CASE AlreadyLoaded(t) /\ Proceeds(t, "check") /\ UNCHANGED <<ptr, modified, hydrated, stat>>
  <2>1. Others(t) /\ pc'[t] = "check" /\ UNCHANGED <<asset, status, body, since>>
    BY <1>1, <1>3, ProceedsFrame
  <2>2. (\A a \in Assets : Grows(a)) /\ (\A a \in Assets : File(a)')
    BY <1>1, <1>3, FilesUntouched
  <2>3. b = Page /\ Holds(Page) => since[t] <= ptr[Page].ver
    BY <1>1, <1>2, <1>3 DEF AlreadyLoaded, File, Holds
  <2>4. Worker(t)'
    BY <1>1, <1>3, <2>1, <2>3 DEF Worker, Holds
  <2> QED
    BY <2>1, <2>2, <2>4, ProceedsCache
<1>4. CASE ReadAll(t)
  <2>1. /\ Proceeds(t, "check") /\ UNCHANGED stat
        /\ \E w : ptr' = [ptr EXCEPT ![b] =
                           [ver |-> disk[b], form |-> "raw", whole |-> w, torn |-> FALSE]]
        /\ modified' = [modified EXCEPT ![b] = stat[t]]
    BY <1>4 DEF ReadAll, RawBytes, Stamp
  <2>2. Others(t) /\ pc'[t] = "check" /\ UNCHANGED <<asset, status, body, since>>
    BY <1>1, <2>1, ProceedsFrame
  <2>3. ptr \in [Assets -> Bytes \cup {Null, Empty}] /\ modified \in [Assets -> Versions \cup {0}]
    BY <1>1 DEF TypeOK
  <2>4. /\ ptr'[b].ver = disk[b] /\ \A a \in Assets \ {b} : ptr'[a] = ptr[a]
    BY <1>1, <2>1, <2>3
  <2>5. modified'[b] = stat[t] /\ \A a \in Assets \ {b} : modified'[a] = modified[a]
    BY <1>1, <2>1, <2>3
  <2>6. (\A a \in Assets : Grows(a)) /\ (\A a \in Assets : File(a)')
    BY <1>1, <2>4, <2>5, OneFileChanges
  <2>7. Worker(t)'
    BY <1>1, <1>2, <2>1, <2>2, <2>4 DEF Worker, Holds
  <2> QED
    BY <2>2, <2>6, <2>7, ProceedsCache
<1>5. CASE ReadFails(t)
  <2>1. Fails(t) /\ UNCHANGED <<modified, hydrated>>
    BY <1>5 DEF ReadFails
  <2>2. PICK x : /\ ptr' = [ptr EXCEPT ![b] = x]
                 /\ x = Null \/ x.ver = disk[b] \/ (ptr[b] \in Bytes /\ x.ver = ptr[b].ver)
    BY <1>5 DEF ReadFails, TornBytes
  <2>3. ptr \in [Assets -> Bytes \cup {Null, Empty}]
    BY <1>1 DEF TypeOK
  <2>4. ptr'[b] = x /\ \A a \in Assets \ {b} : ptr'[a] = ptr[a]
    BY <1>1, <2>2, <2>3
  <2>5. modified'[b] <= disk[b]
    BY <1>1, <2>1 DEF File
  <2>6. (\A a \in Assets : Grows(a)) /\ (\A a \in Assets : File(a)')
    BY <1>1, <2>1, <2>2, <2>4, <2>5, CacheAssumption, OneFileChanges
  <2> QED
    BY <2>1, <2>6, FailsCache
<1> QED
  BY <1>3, <1>4, <1>5 DEF Reload

LEMMA HydrateCache ==
  ASSUME CacheInv, TypeOK', NEW t \in Threads, Hydrate(t)
  PROVE  CacheInv'
<1> DEFINE b == asset[t]
<1>1. /\ pc[t] = "hydrate" /\ UNCHANGED <<disk, fd, modified>>
      /\ TypeOK /\ Worker(t) /\ b \in Assets /\ File(b) /\ fd[b]
  BY VersionTypes DEF Hydrate, At, CacheInv, Worker
<1>2. CASE Proceeds(t, "done") /\ UNCHANGED <<up, ptr, hydrated, stat>>
  <2>1. Others(t) /\ pc'[t] = "done" /\ UNCHANGED <<asset, status, body, since>>
    BY <1>1, <1>2, ProceedsFrame
  <2>2. (\A a \in Assets : Grows(a)) /\ (\A a \in Assets : File(a)')
    BY <1>1, <1>2, FilesUntouched
  <2>3. status[t] \in {0, 500}
    BY <1>1 DEF Worker
  <2>4. Worker(t)'
    BY <1>1, <1>2, <2>1, <2>3 DEF Worker, Holds
  <2> QED
    BY <2>1, <2>2, <2>4, ProceedsCache
<1>3. CASE UNCHANGED <<ptr, hydrated, stat, pc, asset, answerVars, historyVars>>
  <2>1. UNCHANGED <<status, body, since, alone>>
    BY <1>3 DEF answerVars, historyVars
  <2>2. (\A a \in Assets : Grows(a)) /\ (\A a \in Assets : File(a)')
    BY <1>1, <1>3, FilesUntouched
  <2>3. Others(t)
    BY <1>3, <2>1 DEF Others
  <2>4. Worker(t)'
    BY <1>1, <1>3, <2>1 DEF Worker, Holds
  <2> QED
    BY <2>2, <2>3, <2>4, ProceedsCache
<1>4. ASSUME NEW x, ptr' = [ptr EXCEPT ![b] = x],
             x \in Bytes => ptr[b] \in Bytes /\ x.ver = ptr[b].ver
      PROVE  /\ (\A a \in Assets : Grows(a)) /\ (\A a \in Assets : File(a)')
             /\ ptr'[b] = x
  <2>1. ptr \in [Assets -> Bytes \cup {Null, Empty}]
    BY <1>1 DEF TypeOK
  <2>2. ptr'[b] = x /\ \A a \in Assets \ {b} : ptr'[a] = ptr[a]
    BY <1>1, <1>4, <2>1
  <2>3. modified'[b] <= disk[b]
    BY <1>1 DEF File
  <2> QED
    BY <1>1, <1>4, <2>2, <2>3, OneFileChanges
<1>5. ptr[b] \in Bytes \cup {Null, Empty}
  BY <1>1 DEF TypeOK
<1>6. CASE /\ ptr' = [ptr EXCEPT ![b] = IF @ \in {Null, Empty} THEN Empty ELSE [@ EXCEPT !.form = "page"]]
           /\ Proceeds(t, "send") /\ UNCHANGED stat
  <2>1. PICK x : x = IF ptr[b] \in {Null, Empty} THEN Empty ELSE [ptr[b] EXCEPT !.form = "page"]
    OBVIOUS
  <2>2. x \in Bytes => ptr[b] \in Bytes /\ x.ver = ptr[b].ver
    BY <1>5, <2>1, CacheAssumption DEF Bytes
  <2>3. ptr' = [ptr EXCEPT ![b] = x]
    BY <1>6, <2>1
  <2>4. (\A a \in Assets : Grows(a)) /\ (\A a \in Assets : File(a)') /\ ptr'[b] = x
    BY <1>4, <2>2, <2>3
  <2>5. Others(t) /\ pc'[t] = "send" /\ UNCHANGED <<asset, status, body, since>>
    BY <1>1, <1>6, ProceedsFrame
  <2>6. Worker(t)'
    BY <1>1, <1>6, <2>2, <2>4, <2>5 DEF Worker, Holds
  <2> QED
    BY <2>4, <2>5, <2>6, ProceedsCache
<1>7. CASE Fails(t) /\ UNCHANGED <<up, ptr, hydrated>>
  BY <1>1, <1>7, FilesUntouched, FailsCache
<1>8. CASE ptr[b] \notin {Null, Empty} /\ ptr' = [ptr EXCEPT ![b].form = "assembled"] /\ Fails(t)
  <2>1. PICK x : x = [ptr[b] EXCEPT !.form = "assembled"]
    OBVIOUS
  <2>2. ptr[b] \in Bytes /\ x.ver = ptr[b].ver
    BY <1>5, <1>8, <2>1 DEF Bytes
  <2>3. ptr' = [ptr EXCEPT ![b] = x]
    BY <1>8, <2>1
  <2> QED
    BY <1>4, <1>8, <2>2, <2>3, FailsCache
<1> QED
  BY <1>2, <1>3, <1>6, <1>7, <1>8 DEF Hydrate

LEMMA EditCache ==
  ASSUME CacheInv, TypeOK', Edit
  PROVE  CacheInv'
<1>1. /\ disk' = [disk EXCEPT ![Page] = @ + 1]
      /\ UNCHANGED <<fd, ptr, modified, pc, asset, stat, status, body, since>>
  BY DEF Edit, cacheVars, answerVars
<1>2. TypeOK /\ disk \in [Assets -> Versions]
  BY DEF CacheInv, TypeOK
<1>3. /\ \A a \in Assets : disk[a] \in Nat /\ modified[a] \in Nat
      /\ \A a \in Assets : ptr[a] \in Bytes => ptr[a].ver \in Nat
      /\ \A t \in Threads : since[t] \in Nat /\ stat[t] \in Nat /\ asset[t] \in Assets
  BY <1>2, VersionTypes
<1>4. \A a \in Assets : disk[a] <= disk'[a] /\ disk'[a] \in Nat
  BY <1>1, <1>2, <1>3
<1>5. ASSUME NEW a \in Assets PROVE File(a)'
  BY <1>1, <1>3, <1>4 DEF CacheInv, File, Holds
<1>6. ASSUME NEW t \in Threads PROVE Worker(t)'
  BY <1>1, <1>3, <1>4, VersionsAreNumbers DEF CacheInv, Worker, Holds
<1> QED
  BY <1>5, <1>6 DEF CacheInv

LEMMA CacheStep == CacheInv /\ [Next]_vars => CacheInv'
<1> SUFFICES ASSUME CacheInv, [Next]_vars PROVE CacheInv'
  OBVIOUS
<1>1. TypeOK'
  BY TypeStep DEF CacheInv
<1>2. CASE Crashed \/ UNCHANGED vars
  BY <1>1, <1>2 DEF Crashed, vars, CacheInv, File, Worker, Holds
<1> QED
  BY <1>1, <1>2, BeginCache, LookCache, OpenCache, ReloadCache, CheckCache, HydrateCache,
     SendCache, LeaveCache, EditCache DEF Next

LEMMA InitCache == Init => CacheInv
<1> SUFFICES ASSUME Init PROVE CacheInv
  OBVIOUS
<1>1. TypeOK
  BY InitType
<1>2. ASSUME NEW a \in Assets PROVE File(a)
  BY CacheAssumption, VersionsAreNumbers DEF Init, File, Holds
<1>3. ASSUME NEW t \in Threads PROVE Worker(t)
  BY VersionsAreNumbers DEF Init, Worker
<1> QED
  BY <1>1, <1>2, <1>3 DEF CacheInv

LEMMA CacheAlways == Spec => []CacheInv
  BY InitCache, CacheStep, PTL DEF Spec

(* Whatever fails, whoever loaded the page and however the workers and the  *)
(* writes to the file interleave, no answer with 200 carries a page older   *)
(* than the one on the disk when its request began: what file() leaves in   *)
(* memory under one lock is never older than what it saw under the other    *)
(* (file.c:61-103, serve.c:10-60).                                          *)
THEOREM AnswersAreFresh == Spec => []NeverStale
<1>1. CacheInv => NeverStale
  BY VersionTypes DEF CacheInv, Worker, NeverStale, Sent, Bytes
<1> QED
  BY <1>1, CacheAlways, PTL

-----------------------------------------------------------------------------
(* What a failed reload leaves behind, and what the next request makes of it. *)

LEMMA SoundUntouched ==
  ASSUME HealInv, UNCHANGED <<ptr, modified, hydrated>>
  PROVE  \A a \in Assets : Sound(a)'
  BY DEF HealInv, Sound, Holds

(* A file whose time is the disk's is up to date.                           *)
LEMMA SameTimeIsUpToDate ==
  ASSUME HealInv, ptr[Page] # Null, modified[Page] = disk[Page]
  PROVE  UpToDate
<1>1. /\ TypeOK /\ Page \in Assets /\ File(Page) /\ Sound(Page)
      /\ ptr[Page] \in Bytes \cup {Null, Empty} /\ disk[Page] \in Versions
  BY VersionsAreNumbers DEF HealInv, CacheInv, TypeOK
<1>2. disk[Page] \in Nat \ {0}
  BY <1>1, VersionsAreNumbers
<1>3. ptr[Page] \in Bytes /\ ptr[Page].ver \in Nat
  BY <1>1, <1>2, VersionTypes DEF Sound
<1>4. modified[Page] <= ptr[Page].ver /\ ptr[Page].ver <= disk[Page]
  BY <1>1, <1>3 DEF File, Holds
<1>5. ptr[Page].ver = disk[Page]
  BY <1>2, <1>3, <1>4
<1> QED
  BY <1>1, <1>3, <1>5 DEF Sound, Holds, UpToDate

(* A worker that is not idle leaves nobody else alone.                      *)
LEMMA NobodyElseAlone ==
  ASSUME HealInv, CacheInv', NEW t \in Threads, pc[t] # "idle",
         \A u \in Threads \ {t} : alone'[u] = alone[u],
         Alone(t)', \A a \in Assets : Sound(a)'
  PROVE  HealInv'
<1>1. ASSUME NEW u \in Threads, u # t PROVE Alone(u)'
  <2>1. ~alone[u]
    BY <1>1 DEF HealInv, Alone
  <2>2. ~alone'[u]
    BY <1>1, <2>1
  <2> QED
    BY <2>2 DEF Alone
<1> QED
  BY <1>1 DEF HealInv

LEMMA FailsHeal ==
  ASSUME HealInv, CacheInv', NEW t \in Threads, pc[t] # "idle", Fails(t),
         \A a \in Assets : Sound(a)'
  PROVE  HealInv'
<1>1. TypeOK
  BY DEF HealInv, CacheInv
<1>2. ~alone'[t]
  BY <1>1, FailsFrame
<1>3. \A u \in Threads \ {t} : alone'[u] = alone[u]
  BY <1>1 DEF Fails, TypeOK
<1>4. Alone(t)'
  BY <1>2 DEF Alone
<1> QED
  BY <1>3, <1>4, NobodyElseAlone

LEMMA StatHeal ==
  ASSUME HealInv, CacheInv', NEW t \in Threads, pc[t] # "idle", Stat(t),
         UNCHANGED <<disk, ptr, modified, hydrated>>
  PROVE  HealInv'
<1>1. TypeOK /\ (\A a \in Assets : Sound(a)') /\ Alone(t)
  BY SoundUntouched DEF HealInv, CacheInv
<1>2. CASE Fails(t)
  BY <1>1, <1>2, FailsHeal
<1>3. ASSUME NEW p \in {"reload", "check"}, Proceeds(t, p),
             stat' = [stat EXCEPT ![t] = disk[asset[t]]],
             p = "check" => ptr[asset[t]] # Null /\ modified[asset[t]] = disk[asset[t]]
      PROVE  HealInv'
  <2>1. stat \in [Threads -> Versions]
    BY <1>1 DEF TypeOK
  <2>2. stat'[t] = disk[asset[t]] /\ \A u \in Threads \ {t} : stat'[u] = stat[u]
    BY <1>3, <2>1
  <2>3. Others(t) /\ pc'[t] = p /\ UNCHANGED <<asset, status, body, since, alone>>
    BY <1>1, <1>3, <2>2, ProceedsFrame
  <2>4. asset[t] = Page /\ p = "check" => UpToDate
    BY <1>3, SameTimeIsUpToDate
  <2>5. Alone(t)'
    BY <1>1, <1>3, <2>2, <2>3, <2>4 DEF Alone, Others, UpToDate, Holds
  <2> QED
    BY <1>1, <2>3, <2>5, NobodyElseAlone
<1>4. CASE /\ stat' = [stat EXCEPT ![t] = disk[asset[t]]]
           /\ Proceeds(t, IF NeedsReload(t, disk[asset[t]]) THEN "reload" ELSE "check")
  BY <1>3, <1>4 DEF NeedsReload
<1> QED
  BY <1>2, <1>4 DEF Stat

LEMMA BeginHeal ==
  ASSUME HealInv, CacheInv', NEW t \in Threads, Begin(t)
  PROVE  HealInv'
<1>1. \A a \in Assets : Sound(a)'
  BY SoundUntouched DEF Begin, cacheVars
<1>2. /\ pc' = [pc EXCEPT ![t] = "look"] /\ asset' = [asset EXCEPT ![t] = Page]
      /\ alone' = [u \in Threads |-> u = t /\ \A v \in Threads \ {t} : pc[v] = "idle"]
  BY DEF Begin, Goto
<1>3. pc \in [Threads -> Pc] /\ asset \in [Threads -> Assets]
  BY DEF HealInv, CacheInv, TypeOK
<1>4. pc'[t] = "look" /\ asset'[t] = Page /\ \A u \in Threads \ {t} : pc'[u] = pc[u]
  BY <1>2, <1>3
<1>5. alone'[t] => \A u \in Threads \ {t} : pc[u] = "idle"
  BY <1>2
<1>6. \A u \in Threads \ {t} : ~alone'[u]
  BY <1>2
<1>7. Alone(t)'
  BY <1>4, <1>5 DEF Alone
<1>8. \A u \in Threads \ {t} : Alone(u)'
  BY <1>6 DEF Alone
<1> QED
  BY <1>1, <1>7, <1>8 DEF HealInv

LEMMA LookHeal ==
  ASSUME HealInv, CacheInv', NEW t \in Threads, Look(t)
  PROVE  HealInv'
<1>1. pc[t] = "look" /\ UNCHANGED <<disk, fd, ptr, modified, hydrated>>
  BY DEF Look, At, diskVars, cacheVars
<1>2. CASE Stat(t)
  BY <1>1, <1>2, StatHeal
<1>3. CASE ~fd[asset[t]] /\ Proceeds(t, "open") /\ UNCHANGED stat
  <2>1. TypeOK /\ Alone(t) /\ \A a \in Assets : Sound(a)'
    BY <1>1, SoundUntouched DEF HealInv, CacheInv
  <2>2. Others(t) /\ pc'[t] = "open" /\ UNCHANGED <<asset, status, body, since, alone>>
    BY <1>3, <2>1, ProceedsFrame
  <2>3. Alone(t)'
    BY <1>1, <1>3, <2>1, <2>2 DEF Alone, Others
  <2> QED
    BY <1>1, <2>1, <2>2, <2>3, NobodyElseAlone
<1> QED
  BY <1>2, <1>3 DEF Look

LEMMA OpenHeal ==
  ASSUME HealInv, CacheInv', NEW t \in Threads, Open(t)
  PROVE  HealInv'
<1>1. pc[t] = "open" /\ UNCHANGED <<disk, ptr, modified, hydrated>>
  BY DEF Open, At, diskVars
<1>2. TypeOK /\ Alone(t) /\ \A a \in Assets : Sound(a)'
  BY <1>1, SoundUntouched DEF HealInv, CacheInv
<1>3. CASE fd[asset[t]] /\ Proceeds(t, "check") /\ UNCHANGED <<fd, stat>>
  <2>1. Others(t) /\ pc'[t] = "check" /\ UNCHANGED <<asset, status, body, since, alone>>
    BY <1>2, <1>3, ProceedsFrame
  <2>2. ~alone[t]
    BY <1>1, <1>2, <1>3 DEF Alone
  <2>3. Alone(t)'
    BY <2>1, <2>2 DEF Alone
  <2> QED
    BY <1>1, <1>2, <2>1, <2>3, NobodyElseAlone
<1>4. CASE Stat(t)
  BY <1>1, <1>4, StatHeal
<1>5. CASE Fails(t)
  BY <1>1, <1>2, <1>5, FailsHeal
<1> QED
  BY <1>3, <1>4, <1>5 DEF Open

LEMMA ReloadHeal ==
  ASSUME HealInv, CacheInv', NEW t \in Threads, Reload(t)
  PROVE  HealInv'
<1> SUFFICES ASSUME NEW b, b = asset[t] PROVE HealInv'
  OBVIOUS
<1>1. /\ pc[t] = "reload" /\ UNCHANGED <<disk, fd>>
      /\ TypeOK /\ Worker(t) /\ b \in Assets /\ Alone(t) /\ \A a \in Assets : Sound(a)
      /\ stat[t] <= disk[b]
  BY VersionTypes DEF Reload, At, diskVars, CacheInv, HealInv, Worker
<1>2. disk[b] \in Versions /\ stat[t] \in Versions
  BY <1>1 DEF TypeOK
<1>3. /\ ptr \in [Assets -> Bytes \cup {Null, Empty}] /\ modified \in [Assets -> Versions \cup {0}]
      /\ hydrated \in [Assets -> BOOLEAN]
  BY <1>1 DEF TypeOK
<1>4. CASE AlreadyLoaded(t) /\ Proceeds(t, "check") /\ UNCHANGED <<ptr, modified, hydrated, stat>>
  <2>1. Others(t) /\ pc'[t] = "check" /\ UNCHANGED <<asset, status, body, since, alone>>
    BY <1>1, <1>4, ProceedsFrame
  <2>2. alone[t] => UpToDate
    BY <1>1, <1>4, SameTimeIsUpToDate DEF AlreadyLoaded, Alone
  <2>3. Alone(t)'
    BY <1>1, <1>4, <2>1, <2>2 DEF Alone, Others, UpToDate, Holds
  <2> QED
    BY <1>1, <1>4, <2>1, <2>3, SoundUntouched, NobodyElseAlone
<1>5. CASE ReadAll(t)
  <2>1. PICK w \in BOOLEAN : w = (SizeOf(b, disk[b]) = SizeOf(b, stat[t]))
    OBVIOUS
  <2>2. PICK x : x = [ver |-> disk[b], form |-> "raw", whole |-> w, torn |-> FALSE]
    OBVIOUS
  <2>3. /\ Proceeds(t, "check") /\ UNCHANGED stat
        /\ ptr' = [ptr EXCEPT ![b] = x]
        /\ modified' = [modified EXCEPT ![b] = stat[t]]
        /\ hydrated' = [hydrated EXCEPT ![b] = FALSE]
    BY <1>5, <2>1, <2>2 DEF ReadAll, RawBytes, Stamp, ResetHydrated
  <2>4. Others(t) /\ pc'[t] = "check" /\ UNCHANGED <<asset, status, body, since, alone>>
    BY <1>1, <2>3, ProceedsFrame
  <2>5. /\ ptr'[b] = x /\ modified'[b] = stat[t] /\ ~hydrated'[b]
        /\ \A a \in Assets \ {b} : ptr'[a] = ptr[a] /\ modified'[a] = modified[a] /\ hydrated'[a] = hydrated[a]
    BY <1>1, <1>3, <2>3
  <2>6. x.ver = disk[b] /\ x.whole = w /\ ~x.torn /\ x \in Bytes
    BY <1>2, <2>2 DEF Bytes
  <2>7. Sound(b)'
    <3>1. disk[b] = stat[t] => w
      BY <2>1
    <3> QED
      BY <2>5, <2>6, <3>1, CacheAssumption DEF Sound, Holds
  <2>8. \A a \in Assets \ {b} : Sound(a)'
    BY <1>1, <2>5 DEF Sound, Holds
  <2>9. alone[t] => b = Page /\ w /\ \A u \in Threads \ {t} : pc'[u] = "idle"
    <3>1. alone[t] => b = Page /\ disk[b] = stat[t] /\ \A u \in Threads \ {t} : pc[u] = "idle"
      BY <1>1 DEF Alone
    <3>2. disk[b] = stat[t] => w
      BY <2>1
    <3> QED
      BY <2>4, <3>1, <3>2 DEF Others
  <2>10. Alone(t)'
    BY <1>1, <2>4, <2>5, <2>6, <2>9 DEF Alone, UpToDate, Holds
  <2> QED
    BY <1>1, <2>4, <2>7, <2>8, <2>10, NobodyElseAlone
<1>6. CASE ReadFails(t)
  <2>1. Fails(t) /\ UNCHANGED <<modified, hydrated>>
    BY <1>6 DEF ReadFails
  <2>2. PICK x : /\ ptr' = [ptr EXCEPT ![b] = x]
                 /\ x = Null \/ (x \in Bytes /\ x.torn)
    <3>1. ASSUME NEW v \in Versions PROVE TornBytes(v) \in Bytes /\ TornBytes(v).torn
      BY DEF TornBytes, Bytes
    <3>2. ptr[b] \in Bytes => ptr[b].ver \in Versions
      BY DEF Bytes
    <3> QED
      BY <1>2, <1>6, <3>1, <3>2 DEF ReadFails
  <2>3. ptr'[b] = x /\ \A a \in Assets \ {b} : ptr'[a] = ptr[a]
    BY <1>1, <1>3, <2>2
  <2>4. Sound(b)'
    BY <2>2, <2>3, CacheAssumption DEF Sound, Holds
  <2>5. \A a \in Assets \ {b} : Sound(a)'
    BY <1>1, <2>1, <2>3 DEF Sound, Holds
  <2> QED
    BY <1>1, <2>1, <2>4, <2>5, FailsHeal
<1> QED
  BY <1>4, <1>5, <1>6 DEF Reload

LEMMA AnswersHeal ==
  ASSUME HealInv, CacheInv', NEW t \in Threads, pc[t] \in {"check", "send"}, Answers(t),
         pc[t] = "check" => hydrated[asset[t]],
         UNCHANGED <<disk, fd, ptr, modified, hydrated>>
  PROVE  HealInv'
<1>1. /\ TypeOK /\ Worker(t) /\ Alone(t) /\ Sound(Page)
      /\ \A a \in Assets : Sound(a)'
  BY VersionsAreNumbers, SoundUntouched DEF CacheInv, HealInv
<1>2. alone[t] => /\ asset[t] = Page /\ UpToDate /\ hydrated[Page] /\ status[t] = 0
                  /\ \A u \in Threads \ {t} : pc[u] = "idle"
  BY <1>1 DEF Alone, Worker
<1>3. CASE ptr[asset[t]] = Null /\ Proceeds(t, "done") /\ UNCHANGED stat
  <2>1. Others(t) /\ UNCHANGED <<asset, status, body, since, alone>>
    BY <1>1, <1>3, ProceedsFrame
  <2>2. ~alone[t]
    BY <1>2, <1>3, CacheAssumption DEF UpToDate, Holds
  <2>3. Alone(t)'
    BY <2>1, <2>2 DEF Alone
  <2> QED
    BY <1>1, <2>1, <2>3, NobodyElseAlone
<1>4. CASE /\ status' = [status EXCEPT ![t] = IF @ = 0 THEN 200 ELSE @]
           /\ body' = [body EXCEPT ![t] = ptr[asset[t]]]
           /\ Goto(t, "done")
           /\ UNCHANGED <<asset, stat, historyVars>>
  <2>1. /\ pc \in [Threads -> Pc] /\ status \in [Threads -> {0, 200, 500}]
        /\ body \in [Threads -> Bytes \cup {Null, Empty}]
    BY <1>1 DEF TypeOK
  <2>2. pc'[t] = "done" /\ \A u \in Threads \ {t} : pc'[u] = pc[u]
    BY <1>4, <2>1 DEF Goto
  <2>3. body'[t] = ptr[asset[t]]
    BY <1>4, <2>1
  <2>4. status[t] = 0 => status'[t] = 200
    BY <1>4, <2>1
  <2>5. UNCHANGED <<asset, since, alone>>
    BY <1>4 DEF historyVars
  <2>6. alone[t] => Served(t)'
    BY <1>1, <1>2, <2>3 DEF UpToDate, Sound, Holds, Served
  <2>7. Alone(t)'
    BY <1>1, <1>2, <2>2, <2>3, <2>4, <2>5, <2>6 DEF Alone
  <2> QED
    BY <1>1, <2>5, <2>7, NobodyElseAlone
<1>5. CASE Fails(t)
  BY <1>1, <1>5, FailsHeal
<1> QED
  BY <1>3, <1>4, <1>5 DEF Answers

LEMMA CheckHeal ==
  ASSUME HealInv, CacheInv', NEW t \in Threads, Check(t)
  PROVE  HealInv'
<1>1. /\ pc[t] = "check" /\ UNCHANGED <<disk, fd, ptr, modified, hydrated>>
      /\ TypeOK /\ Alone(t) /\ \A a \in Assets : Sound(a)'
  BY SoundUntouched DEF Check, At, diskVars, cacheVars, CacheInv, HealInv
<1>2. CASE hydrated[asset[t]] /\ Answers(t)
  BY <1>1, <1>2, AnswersHeal
<1>3. CASE ~hydrated[asset[t]] /\ Proceeds(t, "hydrate") /\ UNCHANGED stat
  <2>1. Others(t) /\ pc'[t] = "hydrate" /\ UNCHANGED <<asset, status, body, since, alone>>
    BY <1>1, <1>3, ProceedsFrame
  <2>2. Alone(t)'
    BY <1>1, <1>3, <2>1 DEF Alone, Others, UpToDate, Holds
  <2> QED
    BY <1>1, <2>1, <2>2, NobodyElseAlone
<1> QED
  BY <1>2, <1>3 DEF Check

LEMMA SendHeal ==
  ASSUME HealInv, CacheInv', NEW t \in Threads, Send(t)
  PROVE  HealInv'
  BY AnswersHeal DEF Send, At, diskVars, cacheVars

LEMMA HydrateHeal ==
  ASSUME HealInv, CacheInv', NEW t \in Threads, Hydrate(t)
  PROVE  HealInv'
<1> SUFFICES ASSUME NEW b, b = asset[t] PROVE HealInv'
  OBVIOUS
<1>1. /\ pc[t] = "hydrate" /\ UNCHANGED <<disk, fd, modified>>
      /\ TypeOK /\ b \in Assets /\ Alone(t) /\ \A a \in Assets : Sound(a)
  BY VersionTypes DEF Hydrate, At, CacheInv, HealInv
<1>2. /\ ptr \in [Assets -> Bytes \cup {Null, Empty}] /\ hydrated \in [Assets -> BOOLEAN]
      /\ ptr[b] \in Bytes \cup {Null, Empty}
  BY <1>1 DEF TypeOK
<1>3. alone[t] => b = Page /\ UpToDate /\ ~hydrated[b] /\ \A u \in Threads \ {t} : pc[u] = "idle"
  BY <1>1 DEF Alone
<1>4. CASE hydrated[b] /\ Proceeds(t, "done") /\ UNCHANGED <<up, ptr, hydrated, stat>>
  <2>1. Others(t) /\ UNCHANGED <<asset, status, body, since, alone>>
    BY <1>1, <1>4, ProceedsFrame
  <2>2. Alone(t)'
    BY <1>3, <1>4, <2>1 DEF Alone
  <2> QED
    BY <1>1, <1>4, <2>1, <2>2, SoundUntouched, NobodyElseAlone
<1>5. CASE /\ ptr[b] = Null
           /\ UNCHANGED <<ptr, hydrated, stat, pc, asset, answerVars, historyVars>>
  <2>1. UNCHANGED <<status, body, since, alone>>
    BY <1>5 DEF answerVars, historyVars
  <2>2. Alone(t)'
    BY <1>1, <1>5, <2>1 DEF Alone, UpToDate, Holds
  <2> QED
    BY <1>1, <1>5, <2>1, <2>2, SoundUntouched, NobodyElseAlone
<1>6. CASE /\ ptr[b] = Null => modified[b] = 0
           /\ ptr' = [ptr EXCEPT ![b] = IF @ \in {Null, Empty} THEN Empty ELSE [@ EXCEPT !.form = "page"]]
           /\ hydrated' = [hydrated EXCEPT ![b] = TRUE]
           /\ Proceeds(t, "send") /\ UNCHANGED stat
  <2>1. PICK x : x = IF ptr[b] \in {Null, Empty} THEN Empty ELSE [ptr[b] EXCEPT !.form = "page"]
    OBVIOUS
  <2>2. ptr' = [ptr EXCEPT ![b] = x]
    BY <1>6, <2>1
  <2>3. /\ ptr'[b] = x /\ hydrated'[b]
        /\ \A a \in Assets \ {b} : ptr'[a] = ptr[a] /\ hydrated'[a] = hydrated[a]
    BY <1>1, <1>2, <1>6, <2>2
  <2>4. x \in Bytes => /\ ptr[b] \in Bytes /\ x.ver = ptr[b].ver /\ x.whole = ptr[b].whole
                       /\ x.torn = ptr[b].torn /\ x.form = "page"
    BY <1>2, <2>1, CacheAssumption DEF Bytes
  <2>5. Sound(b)'
    <3>1. x = Empty => modified[b] = 0
      <4>1. ptr[b] \in Bytes => x # Empty
        <5>1. ptr[b] \in Bytes => [ptr[b] EXCEPT !.form = "page"] \in Bytes
          BY DEF Bytes
        <5> QED
          BY <2>1, <5>1, CacheAssumption
      <4> QED
        BY <1>1, <1>2, <1>6, <4>1 DEF Sound
    <3> QED
      BY <1>1, <2>3, <2>4, <3>1 DEF Sound, Holds
  <2>6. \A a \in Assets \ {b} : Sound(a)'
    BY <1>1, <2>3 DEF Sound, Holds
  <2>7. Others(t) /\ pc'[t] = "send" /\ UNCHANGED <<asset, status, body, since, alone>>
    BY <1>1, <1>6, ProceedsFrame
  <2>8. ptr[b] \in Bytes => /\ x \in Bytes /\ x.ver = ptr[b].ver /\ x.whole = ptr[b].whole
                       /\ x.torn = ptr[b].torn
    BY <2>1, CacheAssumption DEF Bytes
  <2>9. Alone(t)'
    BY <1>1, <1>3, <2>3, <2>7, <2>8 DEF Alone, UpToDate, Holds, Others
  <2> QED
    BY <1>1, <2>5, <2>6, <2>7, <2>9, NobodyElseAlone
<1>7. CASE Fails(t) /\ UNCHANGED <<up, ptr, hydrated>>
  BY <1>1, <1>7, SoundUntouched, FailsHeal
<1>8. CASE ~hydrated[b] /\ ptr[b] \notin {Null, Empty} /\ ptr' = [ptr EXCEPT ![b].form = "assembled"] /\ Fails(t)
           /\ UNCHANGED <<up, hydrated>>
  <2>1. PICK x : x = [ptr[b] EXCEPT !.form = "assembled"]
    OBVIOUS
  <2>2. /\ ptr[b] \in Bytes /\ x \in Bytes /\ x.ver = ptr[b].ver /\ x.whole = ptr[b].whole
        /\ x.torn = ptr[b].torn
    BY <1>2, <1>8, <2>1 DEF Bytes
  <2>3. ptr' = [ptr EXCEPT ![b] = x]
    BY <1>8, <2>1
  <2>4. ptr'[b] = x /\ \A a \in Assets \ {b} : ptr'[a] = ptr[a]
    BY <1>1, <1>2, <2>3
  <2>5. Sound(b)'
    BY <1>1, <1>8, <2>2, <2>4, CacheAssumption DEF Sound, Holds
  <2>6. \A a \in Assets \ {b} : Sound(a)'
    BY <1>1, <1>8, <2>4 DEF Sound, Holds
  <2> QED
    BY <1>1, <1>8, <2>5, <2>6, FailsHeal
<1> QED
  BY <1>4, <1>5, <1>6, <1>7, <1>8 DEF Hydrate

LEMMA LeaveHeal ==
  ASSUME HealInv, CacheInv', NEW t \in Threads, Leave(t)
  PROVE  HealInv'
<1>1. /\ pc[t] = "done" /\ UNCHANGED <<disk, fd, ptr, modified, hydrated, asset, alone>>
      /\ pc' = [pc EXCEPT ![t] = "idle"]
      /\ pc \in [Threads -> Pc] /\ Alone(t) /\ \A a \in Assets : Sound(a)'
  BY SoundUntouched DEF Leave, At, Goto, CacheInv, HealInv, TypeOK, diskVars, cacheVars, historyVars
<1>2. pc'[t] = "idle" /\ \A u \in Threads \ {t} : pc'[u] = pc[u]
  BY <1>1
<1>3. Alone(t)'
  BY <1>1, <1>2 DEF Alone
<1> QED
  BY <1>1, <1>3, NobodyElseAlone

LEMMA HealStep == HealInv /\ [Next]_vars => HealInv'
<1> SUFFICES ASSUME HealInv, [Next]_vars PROVE HealInv'
  OBVIOUS
<1>1. CacheInv'
  BY CacheStep DEF HealInv
<1>2. CASE Crashed \/ UNCHANGED vars
  <2>1. UNCHANGED vars
    BY <1>2 DEF Crashed
  <2>2. UNCHANGED <<disk, fd, ptr, modified, hydrated, pc, asset, stat, status, body, alone>>
    BY <2>1 DEF vars
  <2>3. UpToDate' <=> UpToDate
    BY <2>2 DEF UpToDate, Holds
  <2>4. ASSUME NEW t \in Threads PROVE Alone(t)'
    <3>1. Alone(t)
      BY DEF HealInv
    <3> QED
      BY <2>2, <2>3, <3>1 DEF Alone, Served
  <2> QED
    BY <1>1, <2>2, <2>1, <2>4, SoundUntouched DEF vars, HealInv
<1>3. CASE Edit
  <2>1. alone' = [t \in Threads |-> FALSE] /\ UNCHANGED <<ptr, modified, hydrated>>
    BY <1>3 DEF Edit, cacheVars
  <2>2. \A t \in Threads : Alone(t)'
    BY <2>1 DEF Alone
  <2> QED
    BY <1>1, <2>1, <2>2, SoundUntouched DEF HealInv
<1> QED
  BY <1>1, <1>2, <1>3, BeginHeal, LookHeal, OpenHeal, ReloadHeal, CheckHeal, HydrateHeal,
     SendHeal, LeaveHeal DEF Next

LEMMA HealAlways == Spec => []HealInv
<1>1. Init => HealInv
  <2> SUFFICES ASSUME Init PROVE HealInv
    OBVIOUS
  <2>1. \A a \in Assets : Sound(a)
    BY CacheAssumption DEF Init, Sound, Holds
  <2>2. \A t \in Threads : Alone(t)
    BY DEF Init, Alone
  <2> QED
    BY <2>1, <2>2, InitCache DEF HealInv
<1>2. HealInv /\ [Next]_vars => HealInv'
  BY HealStep
<1> QED
  BY <1>1, <1>2, PTL DEF Spec

(* For any files, sizes and faults, a file marked as hydrated holds a page  *)
(* unless its last reload failed after realloc(): who reloads takes the     *)
(* mark away under the same lock, and who fails after assemble() has not    *)
(* set it (file.c:78-100, serve.c:20-44).                                   *)
THEOREM MarkIsRight == Spec => []HydratedIsPage
<1>1. HealInv => HydratedIsPage
  BY DEF HealInv, Sound, Holds, HydratedIsPage
<1> QED
  BY <1>1, HealAlways, PTL

(* For any files, sizes and faults, a request that nothing disturbs is      *)
(* answered with 200 and the whole page as it is on the disk, whatever the  *)
(* failures and the races before it left in memory; the one exception is    *)
(* what a reload left that failed after realloc() and whose file still has  *)
(* the time of the version loaded before (file.c:68, 91-96).                *)
THEOREM CacheHeals == Spec => []LoneRequestServed
<1>1. HealInv => LoneRequestServed
  BY DEF HealInv, Alone, Served, LoneRequestServed
<1> QED
  BY <1>1, HealAlways, PTL
=============================================================================
