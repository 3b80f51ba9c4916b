------------------------------ MODULE PageCache ------------------------------
(***************************************************************************)
(* The pages the server keeps in memory: file() and serve()                *)
(* (src/app/file.c, src/app/serve.c), called by route() on many worker     *)
(* threads for the same file_t, while the files change on the disk.        *)
(*                                                                         *)
(* A file_t has a read-write lock.  Both functions look at it with the     *)
(* read lock, give the lock up and take the write lock to change it: what  *)
(* they saw may no longer hold.  A stretch under one lock is one action    *)
(* here, because nobody else can write meanwhile; between two of them      *)
(* every thread may run and the file may change.                           *)
(*                                                                         *)
(* A version of a file is known by its modification time; two writes in    *)
(* the same second are one version.  Of its bytes only four things are     *)
(* kept: the version they are from, whether they are all of it, whether    *)
(* they have been turned into the page to send (the components put in by   *)
(* assemble(), the styles by hydrate()), and whether they are what a       *)
(* reload left that failed after realloc().                                *)
(***************************************************************************)
EXTENDS Naturals, Sequences

CONSTANTS
  Threads,   (* workers that answer a request                             *)
  Page,      (* the page they are asked for                               *)
  ErrorPage, (* page_internal_server_error                                *)
  Null,      (* no memory, no body                                        *)
  Empty,     (* zero bytes                                                *)
  Size,      (* bytes of each version of Page, a sequence                 *)
  Faults     (* what may fail: "open", "stat", "alloc", "read", "assemble",
                "hydrate", "cap"                                          *)

Assets == {Page, ErrorPage}
Versions == DOMAIN Size
Bytes == [ver : Versions, form : {"raw", "assembled", "page"}, whole : BOOLEAN, torn : BOOLEAN]

ASSUME CacheAssumption ==
  /\ Page # ErrorPage
  /\ Null # Empty /\ Null \notin Bytes /\ Empty \notin Bytes
  /\ Size \in Seq(Nat \ {0}) /\ Size # <<>>  (* Page is written Len(Size) - 1 times at most *)
  /\ Faults \subseteq {"open", "stat", "alloc", "read", "assemble", "hydrate", "cap"}

VARIABLES
  up,        (* the process has not crashed                               *)
  disk,      (* the version of each file on the disk                      *)
  fd,        (* file->fd # -1                                             *)
  ptr,       (* what file->ptr points to                                  *)
  modified,  (* file->modified, 0 when nothing was ever loaded            *)
  hydrated,  (* file->hydrated                                            *)
  pc,        (* where each worker is                                      *)
  asset,     (* the file_t it serves                                      *)
  stat,      (* the version its fstat saw                                 *)
  status,    (* response->status                                          *)
  body,      (* what was written to the response                          *)
  since,     (* history: the version of Page when the request began       *)
  alone      (* history: nothing else happened since the request began    *)

diskVars  == <<up, disk>>
cacheVars == <<fd, ptr, modified, hydrated>>
answerVars == <<status, body>>
historyVars == <<since, alone>>
vars == <<up, disk, fd, ptr, modified, hydrated, pc, asset, stat, status, body, since, alone>>

Pc == {"idle", "look", "open", "reload", "check", "hydrate", "send", "done"}

Init ==
  /\ up = TRUE
  /\ disk = [a \in Assets |-> 1]
  (* page_init() *)
  /\ fd = [a \in Assets |-> FALSE]
  /\ ptr = [a \in Assets |-> Null]
  /\ modified = [a \in Assets |-> 0]
  /\ hydrated = [a \in Assets |-> FALSE]
  /\ pc = [t \in Threads |-> "idle"]
  /\ asset = [t \in Threads |-> Page]
  /\ stat = [t \in Threads |-> 1]
  /\ status = [t \in Threads |-> 0]
  /\ body = [t \in Threads |-> Null]
  /\ since = [t \in Threads |-> 1]
  /\ alone = [t \in Threads |-> FALSE]

At(t, p) == up /\ pc[t] = p
Goto(t, p) == pc' = [pc EXCEPT ![t] = p]

-----------------------------------------------------------------------------
(* Requests and writes to the file. *)

Begin(t) ==
  /\ At(t, "idle")
  /\ Goto(t, "look")
  /\ asset' = [asset EXCEPT ![t] = Page]
  /\ status' = [status EXCEPT ![t] = 0]
  /\ body' = [body EXCEPT ![t] = Null]
  /\ since' = [since EXCEPT ![t] = disk[Page]]
  /\ alone' = [u \in Threads |-> u = t /\ \A v \in Threads \ {t} : pc[v] = "idle"]
  /\ UNCHANGED <<diskVars, cacheVars, stat>>

(* the answer is sent and the worker free for the next request *)
Leave(t) ==
  /\ At(t, "done")
  /\ Goto(t, "idle")
  /\ stat' = [stat EXCEPT ![t] = 1]
  /\ UNCHANGED <<diskVars, cacheVars, asset, answerVars, historyVars>>

Edit ==
  /\ up
  /\ disk[Page] + 1 \in Versions
  /\ disk' = [disk EXCEPT ![Page] = @ + 1]
  /\ alone' = [t \in Threads |-> FALSE]
  /\ UNCHANGED <<up, cacheVars, pc, asset, stat, answerVars, since>>

-----------------------------------------------------------------------------
(***************************************************************************)
(* A failed step of serve() answers 500, and route() then serves the page  *)
(* that says so; when that fails too the answer has no body.               *)
(***************************************************************************)
Fails(t) ==
  /\ status' = [status EXCEPT ![t] = 500]
  /\ IF asset[t] = ErrorPage
       THEN Goto(t, "done") /\ UNCHANGED asset
       ELSE Goto(t, "look") /\ asset' = [asset EXCEPT ![t] = ErrorPage]
  /\ alone' = [alone EXCEPT ![t] = FALSE]
  /\ UNCHANGED <<body, since, stat>>

Proceeds(t, p) ==
  /\ Goto(t, p)
  /\ UNCHANGED <<asset, answerVars, historyVars>>

UntouchedReload(t, now) == ptr[asset[t]] = Null  (* mutant: loaded once, kept for good *)
NeedsReload(t, now) == ptr[asset[t]] = Null \/ modified[asset[t]] # now

(* fstat, and whether the file has to be read *)
Stat(t) ==
  \/ /\ stat' = [stat EXCEPT ![t] = disk[asset[t]]]
     /\ Proceeds(t, IF NeedsReload(t, disk[asset[t]]) THEN "reload" ELSE "check")
  \/ "stat" \in Faults /\ Fails(t)

(* file() with the read lock *)
Look(t) ==
  /\ At(t, "look")
  /\ IF fd[asset[t]]
       THEN Stat(t)
       ELSE Proceeds(t, "open") /\ UNCHANGED stat
  /\ UNCHANGED <<diskVars, cacheVars>>

(* file() with the write lock to open the file, unless another did *)
Open(t) ==
  /\ At(t, "open")
  /\ \/ /\ fd[asset[t]]
        /\ Proceeds(t, "check")
        /\ UNCHANGED <<fd, stat>>
     \/ /\ ~fd[asset[t]]
        /\ fd' = [fd EXCEPT ![asset[t]] = TRUE]
        /\ Stat(t)
     \/ /\ ~fd[asset[t]] /\ "open" \in Faults
        /\ Fails(t)
        /\ UNCHANGED fd
  /\ UNCHANGED <<diskVars, ptr, modified, hydrated>>

-----------------------------------------------------------------------------
(***************************************************************************)
(* file() with the write lock to read the file: as many bytes as the       *)
(* fstat saw, of the version that is there now.  A failure after realloc() *)
(* leaves the new buffer, whatever is in it, with the old length, time and *)
(* mark: such bytes are torn.                                              *)
(***************************************************************************)
SizeOf(a, v) == IF a = Page THEN Size[v] ELSE 1

RawBytes(v, whole) == [ver |-> v, form |-> "raw", whole |-> whole, torn |-> FALSE]
TornBytes(v) == [ver |-> v, form |-> "raw", whole |-> FALSE, torn |-> TRUE]

AnyLoaded(t) == ptr[asset[t]] # Null  (* mutant: the time is not compared again *)
AlreadyLoaded(t) == ptr[asset[t]] # Null /\ modified[asset[t]] = stat[t]

StillHydrated(t) == UNCHANGED hydrated  (* mutant: the mark is not reset *)
ResetHydrated(t) == hydrated' = [hydrated EXCEPT ![asset[t]] = FALSE]

StampLate(t) == stat[t] + 1  (* mutant: one too many *)
Stamp(t) == stat[t]

ReadAll(t) ==
  LET a == asset[t]
  IN /\ SizeOf(a, disk[a]) >= SizeOf(a, stat[t])
     /\ ptr' = [ptr EXCEPT ![a] =
                  RawBytes(disk[a], SizeOf(a, disk[a]) = SizeOf(a, stat[t]))]
     /\ modified' = [modified EXCEPT ![a] = Stamp(t)]
     /\ ResetHydrated(t)
     /\ Proceeds(t, "check")
     /\ UNCHANGED stat

ReadFails(t) ==
  LET a == asset[t]
  IN \/ /\ "alloc" \in Faults
        /\ ptr' = [ptr EXCEPT ![a] = Null]
        /\ Fails(t)
        /\ UNCHANGED <<modified, hydrated>>
     \/ (* the file is shorter than the fstat said, or read() stops early *)
        /\ "read" \in Faults \/ SizeOf(a, disk[a]) < SizeOf(a, stat[t])
        /\ ptr' = [ptr EXCEPT ![a] = TornBytes(disk[a])]
        /\ Fails(t)
        /\ UNCHANGED <<modified, hydrated>>
     \/ (* read() fails at once: what was there is cut to the new size *)
        /\ "read" \in Faults /\ ptr[a] \in Bytes
        /\ ptr' = [ptr EXCEPT ![a] = TornBytes(@.ver)]
        /\ Fails(t)
        /\ UNCHANGED <<modified, hydrated>>

Reload(t) ==
  /\ At(t, "reload")
  /\ \/ /\ AlreadyLoaded(t)
        /\ Proceeds(t, "check")
        /\ UNCHANGED <<ptr, modified, hydrated, stat>>
     \/ ~AlreadyLoaded(t) /\ (ReadAll(t) \/ ReadFails(t))
  /\ UNCHANGED <<diskVars, fd>>

-----------------------------------------------------------------------------
(* what is in memory is sent, with the read lock *)
Answers(t) ==
  LET a == asset[t]
  IN \/ /\ ptr[a] = Null
        /\ Proceeds(t, "done")
        /\ UNCHANGED stat
     \/ /\ ptr[a] # Null
        /\ status' = [status EXCEPT ![t] = IF @ = 0 THEN 200 ELSE @]
        /\ body' = [body EXCEPT ![t] = ptr[a]]
        /\ Goto(t, "done")
        /\ UNCHANGED <<asset, stat, historyVars>>
     \/ (* the page exceeds the send buffer *)
        /\ ptr[a] # Null /\ "cap" \in Faults
        /\ Fails(t)

(* serve() with the read lock: a page that is ready is sent before the lock is given up *)
Check(t) ==
  /\ At(t, "check")
  /\ \/ hydrated[asset[t]] /\ Answers(t)
     \/ ~hydrated[asset[t]] /\ Proceeds(t, "hydrate") /\ UNCHANGED stat
  /\ UNCHANGED <<diskVars, cacheVars>>

(***************************************************************************)
(* serve() with the write lock: makes the page, unless another thread did. *)
(* No memory and no length make a page of zero bytes; no memory and a      *)
(* length left from before make assemble() read through a null pointer.    *)
(***************************************************************************)
Hydrate(t) ==
  LET a == asset[t]
  IN
  /\ At(t, "hydrate")
  /\ \/ /\ hydrated[a]  (* goto cleanup: neither a status nor a body is written *)
        /\ Proceeds(t, "done")
        /\ UNCHANGED <<up, ptr, hydrated, stat>>
     \/ /\ ~hydrated[a] /\ ptr[a] = Null /\ modified[a] # 0
        /\ up' = FALSE
        /\ UNCHANGED <<ptr, hydrated, stat, pc, asset, answerVars, historyVars>>
     \/ /\ ~hydrated[a] /\ (ptr[a] = Null => modified[a] = 0)
        /\ ptr' = [ptr EXCEPT ![a] = IF @ \in {Null, Empty} THEN Empty ELSE [@ EXCEPT !.form = "page"]]
        /\ hydrated' = [hydrated EXCEPT ![a] = TRUE]
        /\ Proceeds(t, "send")
        /\ UNCHANGED <<up, stat>>
     \/ (* assemble() fails: a component cannot be read *)
        /\ ~hydrated[a] /\ ptr[a] \notin {Null, Empty} /\ "assemble" \in Faults
        /\ Fails(t)
        /\ UNCHANGED <<up, ptr, hydrated>>
     \/ (* extract() or hydrate() fails after assemble() *)
        /\ ~hydrated[a] /\ ptr[a] \notin {Null, Empty}
        /\ "hydrate" \in Faults \/ ~ptr[a].whole
        /\ ptr' = [ptr EXCEPT ![a].form = "assembled"]
        /\ Fails(t)
        /\ UNCHANGED <<up, hydrated>>
  /\ UNCHANGED <<disk, fd, modified>>

(* serve() with the read lock again after hydrate(): whatever is there now *)
Send(t) ==
  /\ At(t, "send")
  /\ Answers(t)
  /\ UNCHANGED <<diskVars, cacheVars>>

Crashed == ~up /\ UNCHANGED vars

Next ==
  \/ \E t \in Threads :
       Begin(t) \/ Look(t) \/ Open(t) \/ Reload(t) \/ Check(t) \/ Hydrate(t) \/ Send(t) \/ Leave(t)
  \/ Edit
  \/ Crashed

Spec == Init /\ [][Next]_vars

-----------------------------------------------------------------------------
TypeOK ==
  /\ up \in BOOLEAN
  /\ disk \in [Assets -> Versions]
  /\ fd \in [Assets -> BOOLEAN] /\ hydrated \in [Assets -> BOOLEAN]
  /\ ptr \in [Assets -> Bytes \cup {Null, Empty}]
  /\ modified \in [Assets -> Versions \cup {0}]
  /\ pc \in [Threads -> Pc]
  /\ asset \in [Threads -> Assets]
  /\ stat \in [Threads -> Versions]
  /\ status \in [Threads -> {0, 200, 500}]
  /\ body \in [Threads -> Bytes \cup {Null, Empty}]
  /\ since \in [Threads -> Versions]
  /\ alone \in [Threads -> BOOLEAN]

(***************************************************************************)
(* A file marked as hydrated holds a page, whoever reloaded it meanwhile   *)
(* and whatever failed, with one exception: a reload that fails after      *)
(* realloc() leaves its bytes under the old mark (file.c:91-96), until     *)
(* they are read whole.                                                    *)
(***************************************************************************)
HydratedIsPage ==
  \A a \in Assets : hydrated[a] /\ ptr[a] \in Bytes => ptr[a].form = "page" \/ ptr[a].torn

(***************************************************************************)
(* No answer carries a page older than the one on the disk when its        *)
(* request began, whichever thread loaded it (file.c:61-75).               *)
(***************************************************************************)
Sent(t) == pc[t] = "done" /\ status[t] = 200

NeverStale == \A t \in Threads : Sent(t) /\ body[t] # Empty => body[t].ver >= since[t]

(***************************************************************************)
(* Whatever races and failures came before, a request that no other        *)
(* request, write or failure disturbs is answered with 200 and the whole   *)
(* page as it is on the disk (test.sh:79: get / is answered with 200 and   *)
(* text/html).  One thing is not made good: torn bytes under the time of   *)
(* the disk's version are not read again, and sent (file.c:68).            *)
(***************************************************************************)
LoneRequestServed ==
  \A t \in Threads : pc[t] = "done" /\ alone[t] =>
    /\ status[t] = 200
    /\ body[t] \in Bytes
    /\ IF body[t].torn
         THEN modified[Page] = disk[Page]
         ELSE body[t].ver = disk[Page] /\ body[t].form = "page" /\ body[t].whole

(***************************************************************************)
(* Every answer has a status: test.sh:79 expects 200 of "get /", with no   *)
(* other request excluded.                                                 *)
(***************************************************************************)
EveryAnswerHasStatus == \A t \in Threads : pc[t] = "done" => status[t] # 0
=============================================================================
