# Verification of flua

flua is a web server in C that shows paragliding flights: a pool of POSIX
threads answers HTTP/1.1 over plain sockets, pages are kept in memory, accounts
and flights in one SQLite database. This directory holds TLA+ modules that model
the server and the part of its pages that talks to it, TLC configurations that
check them on small instances, and theorems about them with proofs checked by TLAPS.

File names without a directory are unique in the repository: `main.c:28` is line
28 of `src/main.c`, `app.c` is `src/lib/app.c`, `router.c` is `src/api/router.c`,
`file.c`, `serve.c`, `cull.c`, `assemble.c`, `hydrate.c` and `utility.c` are under
`src/app`, `flight.html` under `src/app/pages`, `fetching.js` under `src/app/scripts`.

1. [Inventory](#inventory)
2. [Modules](#modules)
3. [Runs](#runs)
4. [Disagreements found](#disagreements-found)
5. [Fairness](#fairness)
6. [Proofs](#proofs)
7. [What is not modelled](#what-is-not-modelled)
8. [Plan](#plan)

## Inventory

| component | source | state | operations |
|---|---|---|---|
| process and thread pool | `main.c`, `thread.c` | the ring `queue` (tasks, head, tail, size, lock, conditions `filled` and `available`), `thread_pool` (workers, size, load, lock, condition `available`) | boot, `spawn()`, accept loop of `main()`, `thread()`, signal handler `stop()` |
| connection | `app.c`, `response.c` | received and sent bytes and packets, the two buffers of the worker | `handle()`, `response_init()`, `response()` |
| request parser | `request.c`, `strn.c` | stage, index, the five parts of a head | `request()`, `strncasestrn()` |
| router and sessions | `router.c`, `auth.c`, `parse.c`, `bwt.c` | the request's `user_t`, `response->status` | `route()`, signin, signup, `bwt_sign()`, `bwt_verify()` |
| users, friends, flights | `user.c`, `friend.c`, `flight.c`, `init.c` | tables user, friend, flight | the statements |
| page cache | `file.c`, `serve.c`, `page.c` | one `file_t` per page: descriptor, buffer, length, time of modification, mark `hydrated`, read-write lock | `page_init()`, `file()`, `serve()`, `page_close()`, `page_free()` |
| flight codec | `flight.c`, `parse.c`, `utils.c`, `flight.html` | the bytes of a request, of a row and of an answer, the reader's offset | `postFlight()`, `parse_flight()`, `validate_flight()`, `find_flights()`, `parseFlights()` |
| page transforms | `cull.c`, `assemble.c`, `hydrate.c`, `utility.c` | the page's bytes, the array of classes, the buffer of each block of rules | `cull_flight()`, `assemble()`, `extract()`, `hydrate()`, fifteen functions that look a class up |
| configuration | `config.c` | the options | `configure()` |
| encodings and hashes | `base16.c`, `base32.c`, `sha256.c`, `endian.c` | none | pure functions |
| logging, errors, formats | `logger.c`, `error.c`, `format.c`, `status.c` | none | wording |
| browser side | `fetching.js`, `fetcher.js`, `formik.js`, pages | per page: the year chosen, the context of a load (controller, timer, retries), what is shown | load, retry, abort, choose a year, upload, forms |

How they interact. `main()` accepts a client and pushes it into the ring; a worker
takes it, counts itself in the load and calls `handle()` with the database handle
and the two buffers of its own `worker_t`. `handle()` receives, calls `request()`,
then `route()`, then `response()`, and sends. `route()` either calls a handler
that runs SQLite statements on the worker's own connection to the one database
file, or `serve()` on a `file_t` that all workers share. A worker that is done
signals `main()` (room in the queue) and `stop()` (load gone down), and leaves the
pool when at most half of the workers are busy and it is the last of them. `stop()` runs on whatever thread
the kernel chose, waits for the load to be 0 and releases what the others use.

A page goes through three passes while its `file_t` is locked for writing: `file()`
culls it when another pilot asks for a profile, `serve()` puts components and
scripts in, takes the classes out of the tags and scripts and writes their rules
behind `<style>`. In the browser the flight page loads the flights of a year, reads
them with a decoder of its own and posts what it took from a file; it loads again
after each choice, each upload and, for a while, each failure.

What is hard about it, and what makes each part right:

* **Pool.** Two mutexes, four conditions, three kinds of threads, with the lock
  given up between the look for room and the push, and between taking a client
  and counting it. Right: no client lost, served twice or overtaken; room that
  was seen is kept; the load is exact; every worker has a `worker_t` of its own
  with live resources; nobody sleeps for ever; a shutdown waits for the clients
  at work, and ends.
* **Page cache.** Looks with the read lock, changes with the write lock, and the
  file changes meanwhile; any call may fail half way. Right: nothing raw is sent
  as a page, nothing older than the request, and nothing wrong stays.
* **Connection and parser.** TCP cuts the request anywhere; calls time out; the
  end of the head is found twice by two algorithms. Right: only whole heads are
  routed, with the parts where they are; the body is waited for; the answer
  leaves in order; the worker is always released.
* **API.** A request is up to three statements without a transaction, beside the
  requests of others. Right: flights are shown to whom they may be shown;
  nothing outlives its account; nobody changes what is another's; pages do not
  hide profiles.
* **Flight codec.** A row is written in as few bytes as its numbers need, in C, and
  read in JavaScript by the lengths ahead of it; the answer has room for a part of the
  flights. Right: each number arrives with its flight and field; a part is
  marked as one; a flight that makes no sense is refused although numbers wrap.
* **Page transforms.** Loops over bytes with flags, one of them in place, one that
  skips ahead; a request that fails half way leaves its work to the next. Right: the
  page is the file with its parts in place and nothing else changed; a class
  has its rule in the block of its prefix and nowhere else.
* **Browser side.** Choices, uploads, timers and answers meet in any order. Right: what is
  shown is of the year chosen last and not older than what the reader was told;
  one attempt at a time; an end to the retries, and not too early.

`PROJECT.json` lists the hazards one by one, each at its line.

## Modules

| module | models | abstracts |
|---|---|---|
| `ThreadPool` | `main.c`, `thread.c` | a client to a value, `handle()` to a span, the number of values of a `uint8_t` to `Byte` |
| `ClientService` | what the pool promises a client: first come, first served, closed once | |
| `PageCache` | `file.c`, `serve.c` | bytes to their version, form, completeness and whether a failed read left them |
| `RequestParser` | `request.c`, `strncasestrn()` | bytes to seven classes |
| `Connection` | `app.c`, `response.c`; extends `RequestParser` | the response buffer to its addresses |
| `Api` | `router.c` and the handlers under `src/api` | ids, names, hashes, bodies to values |
| `PageText` | the loops' common state: letters, index, flags | a byte the code looks at, or a run of bytes it takes as a whole, to a letter |
| `Cull`, `Assemble`, `Hydrate` | `cull.c`, `assemble.c`, `hydrate.c` | a rule to its prefix, class and number of bytes |
| `Utility` | `utility.c` | the tables to parameters |
| `PageTransforms` | the three passes as `file()` and `serve()` run them, again after a failure; extends `Cull`, `Assemble`, `Hydrate` | who runs them and when, which is `PageCache` |
| `FlightCodec` | the codec in C and in JavaScript | who may post and see a flight, which is `Api` |
| `Fetching` | `fetching.js`, `fetcher.js` and their use in `flight.html`, beside the server | a year's flights to how often they changed |
| `ShownYear` | what the flight page promises its reader: the year chosen last, nothing older than a confirmed upload, always an answer | |
| `MC...` | constants and inputs of the runs | |
| `ThreadPoolProofs`, `PageCacheProofs`, `ConnectionProofs` (with `RequestParser`), `ApiProofs`, `PageTransformsProofs`, `FlightCodecProofs`, `FetchingProofs` | theorems about the module of that name | |
| `DataInduction` | least numbers, induction up to a bound, the states an automaton goes through | |

### ThreadPool

Variables are those of the code (`tasks`, `head`, `tail`, `qsize` for `queue.size`,
`size`, `load`, the holders `qlock` and `plock` of the two mutexes) and a program
counter for `main()` (`mpc`), each worker (`wpc`) and the handler (`hpc`). `slots`
is what a `worker_t` holds: empty, live, torn (half set up, or given back) or freed.

A critical section is two actions: `LockX` takes the mutex, `X` runs the section
and gives it back. Nobody else sees the section half done, so its statements can
be one action; the state in between is needed because a signal may arrive in it
and find its own thread holding the lock `stop()` wants. `pthread_cond_wait` gives
the mutex back and sleeps in one step, and the woken thread takes the mutex again
and tests again, as the `while` loops do. A signal of a condition wakes one of
those that sleep, any one; `SpuriousWakeup` wakes without a signal. `Interrupt(t)`
is a signal's arrival on thread `t`, after which `t` takes no step of its own.

`ServesClients` is the refinement: `Service == INSTANCE ClientService` with the ring
from head to tail, and the client in main's hands behind it, as the queue of
pending clients, and the workers' tasks as the clients being served.

### PageCache

One action is one stretch under one lock, because nobody writes meanwhile: `Look`
(the read lock of `file()`), `Open` (its write lock), `Stat`, `Reload` (write lock, with
`ReadAll` and, in `ReadFails`, the failures of realloc, of a read half way and of one
that fails at once), `Check`, `Hydrate` and `Send` of `serve()`; `Check` sends a page that is
ready before it gives the read lock up, `Send` is what a thread that made the page does with
the lock it takes again. A failed read leaves *torn* bytes: those of the new buffer, under the
length, time and mark of the old one. `Edit` is the file's owner writing a new version between any two of
them. An answer of 500 is the error page, which goes through the same cache. Two
history variables serve the properties: `since`, the version on the disk when the
request began, and `alone`, whether nothing else happened since.

### RequestParser and Connection

A request is a sequence of classes of bytes: space, question mark, carriage
return, line feed, another control character, any other byte (`word`), and
`length`, which stands for the text of a content-length header. `Parse` runs
`request()` as one step per byte, a function over the buffer's prefixes, with the stages and the
capacities as the code has them; `BodyIndex` is the search of `strncasestrn()` for the empty
line. `Request` is an independent definition of which byte sequences are requests
and where their parts lie, not translated from the code; `ParserMeetsGrammar`
compares the two on every request that `handle()` passes on.

`Connection` is `handle()`: each `recv()` and `send()` takes any number of bytes up to its
limit, fails or times out. The content length is taken modulo `Word`, the
number of values of a `size_t`. `route()` is a choice among `Answers`. The
response is the sequence of addresses of the response buffer that have been sent.

### Api

One action is one SQL statement with the decisions that follow it in C: `Route` is
`match()` and the checks before the first statement, then `FindByName`, `FindFriend`,
`List`, `FindById`, `FindUser`, `UpdateUser`, `DeleteUser`, `Signin`, `Signup`, `CreateFlight`,
`DeleteFlights`, each with its failure, and `Respond`. Between two of them any
other worker may run. `Signup` keeps SQLite's write lock (`writer`) until
`sqlite3_finalize()` commits it (`Commit`, `CommitLost`), because `insert ... returning`
is stepped once. Friendships are read and, by the foreign key, removed with
their accounts; no statement of the code adds one, so they are chosen at the start.
`entitled` and `exposed` are history variables: which profiles a request's caller
was allowed to view at some moment of it, and which flights were ever there while
their owner's profile was open.

### PageText, Cull, Assemble, Utility, Hydrate, PageTransforms

One action is one turn of a loop of the code: it looks at the letter at `index`, and
at those behind or before it where the code compares more (one more behind a word than the
word has, as every test of the code wants). `pc` names the loop:
`cull`; `assemble` up to `</body>` and `imports` behind it; `body`, `tags` and `script` for
`extract()`; `hydrate` for each class and the writing. `tag`, `quote` and `class` are the
flags of the loops, and are handed from one to the next where the code declares
them once.

`Cull` overwrites `file` in place, `writeIndex` behind `index`. `CulledText` is what a reader of the list of
fragments expects, written without the loop: `Scan` goes from fragment to fragment by the first place of its
start and of its end. `Tidy` says of a text where the loop sees both: neither follows a beginning of
itself, no letter is missing behind a start, and no end begins before its start is over. `flight.html` is
tidy; a text that is not may be culled otherwise, and the property says nothing of it. `Assemble` has
`stale` for the one byte that the search for the beginning of a component's tag reads before
anything was written there (assemble.c:71), `allocated` for the memory it has and `overran` for a value
that was written past it (assemble.c:86), where the letters may be kept or turn into anything. `Utility` has the lookups with the first
match of the code, over tables that are parameters. `Hydrate` collects classes
into an array with one place left over, stamps each into the buffers of the blocks
its prefix and name belong to, and writes the blocks behind a `<style>`, which is looked for from the
fifteenth byte on. A buffer is its rules and their bytes: a rule is stamped when fewer than `Room` bytes are
in it (8192 - 64), however long it is. The block of the prefix `xs` takes its bytes from another buffer
(hydrate.c:345), as many as its own has. Memory can be refused in each of the passes; `WriteNoMemory` is the case in
which the page is put together and found again so by the next request (hydrate.c:314).

A page in `PageTransforms` is a sequence of parts, each with the letters of the file, those it is
meant to become, and the classes it names; the properties compare the page that is sent
with the parts.

### FlightCodec

The same numbers in five forms: as a pilot's file has them (`Flown`), on the wire
(`Posted`), in the row (`Parsed`: a number by its bytes, a bin by its bytes in memory), in
the answer (`RowBytes`) and in the page (`flights`). Bytes are numbers below 256, and every
offset and length is the code's. `Significant` counts the bytes that the host sees, so that
the order in which a bin lies in memory matters. `WriteRow`, `NoRoom`, `Done` and `StepFails` are
the steps of the statement, `ReadFlight` one turn of the loop of `parseFlights()`.

### Fetching and ShownYear

The browser runs one callback at a time: what stands between two `await`s is one
action. A load is a record with its number, year, stage and whether its controller
was aborted; timers are numbers. `Load` is the part of `load()` before its first `await`: abort,
clear the timer, take a new controller, show that it loads. `Caught` is the
`catch`, which an aborted request passes without effect. With `develop` a load waits before it
fetches (fetcher.js:3), where an abort is not felt until the pause is over.

`Shown == INSTANCE ShownYear` maps nothing: the four variables have the same names, and the rest
of `Fetching` is the machinery that `ShownYear` does not know.

## Runs

Sizes are distinct states. Every property of a passing run is also shown to
depend on the code: `PROJECT.json` has, for each, a plausible bug in one mapped
definition that makes TLC find it violated.

| run | instance | states |
|---|---|---|
| `pool_scale` | 4 threads, 4 clients, queue 2, workers 1 to 3, `spawn()` may fail, no signal | 244 000 |
| `pool_fair` | 2 threads, 2 clients, queue 1, workers 1 to 2, a signal on any thread | 159 000 |
| `page_cache` | 2 workers, page edited twice, to a shorter and then a longer one, seven kinds of failure | 1 387 000 |
| `connection` | one connection, 254 requests, 3 packets each way, buffer 17 | 268 000 |
| `api` | 2 workers, 2 accounts and one to be made, 3 names, 2 flights, 32 requests | 801 000 |
| `page_transforms` | 3 300 pages, each for its owner and a guest, one request that begins again, memory refused anywhere, room for 5 classes and 3 bytes of rules a block | 1 158 000 |
| `fetching` | 2 years, 2 retries, 3 choices, 1 upload, with and without the develop mode | 511 000 |
| `flight_codec` | 6 flights, answers with room of 36, 50, 84 and 400 bytes | 4 700 |

`pool_scale`. No client is lost, doubled or overtaken (`EachClientOnce`,
`ServesClients`), the ring keeps the room that was seen (`RingConsistent`), the load
is exact, the workers own the slots below `size`, one each, through growth,
failed growth and shrinking (`OneWorkerPerSlot`, `PoolBounded`), and no client is
handled on a slot without resources. Two places in the ring make its indexes wrap at
different times; three workers let one that is not the last finish first; four
threads allow a thread that is leaving beside a full pool; four clients are one
more than the workers. Threads and clients are interchangeable, hence the symmetry.

`pool_fair`. Every accepted client is served unless the server is stopped, which
is false if one wakeup can be lost; `stop()` passes its wait only when no worker is
inside `handle()`, and a shutdown ends when the signal did not find its thread
holding the pool's lock or counted in the load. One place in the ring makes `main()` wait for room. Deadlock
is not an error in this run: a signal at the wrong moment does stop everything
(`stop_self_deadlock`).

`page_cache`. A page that is marked as hydrated is one; nothing is sent that is
older than the request; whatever races and failures came before, a request that
nothing disturbs is answered with the page on the disk. The file becomes shorter and then longer, and
every call may fail, also `read()`, so that a reload finds fewer bytes than its `fstat` said.
What such a reload leaves is the exception of two properties: the mark of torn bytes may be wrong
(`HydratedIsPage`), and they are sent for as long as the file has the time of the version loaded before
(`LoneRequestServed`), as [below](#disagreements-found). Two edits allow a version between the
one that was looked at and the one that is loaded. A raw page that is sent between the making and the sending
of another thread is no error of this run: the properties speak of the mark and of the next undisturbed request.

`connection`. Over all ways to cut the bytes into packets: heads whose parts are missing, of one byte, at
their capacity or past it; header lines up to and past theirs with each kind of
line end; a posted request with each single byte of its head replaced; bodies
shorter, equal and longer than announced, announced lengths of -1, 0 and past
the buffer. The two searches for the end of the head agree, only well-formed
heads are routed, and a request with less of a body than announced has met a
limit; the answer leaves in order and whole, or without its body when `route()` wrote past the send
buffer (`Beyond`, 1 here, at most 41 in the code); the worker is released. The last
three do not need long answers: offsets into head, header and body are each
taken with every split. A client sends nothing after its request and the run ends when
its connection is closed, so a state without a successor is no error.

`api`. An owner, a friend, a stranger and a newcomer: flights are shown only
to callers that were entitled at some moment of their request, in answers of 500
with part of the rows too; nothing belongs to an account that is gone, whatever
its bwt is still used for; an account's rows change only with its own cookie; who
has an account finds his own page under his name. Two workers are
enough for every pair of statements to meet in every order, and no property
relates three requests in flight; a third acts like one of the two that came
before, because nothing but the database is shared.

`page_transforms`. Pages with one class of every kind of name under every prefix; all pages of up to
two parts in the body and two in the script, among a component, a value, an
import, a call that adds classes, and fragments for the owner only; pages without a
style or a body, with a style that begins too early, with a fragment missing or one behind its own first letter; and all texts of up to four
scraps of fragments (beginnings, wholes, ends), in any order.
Every file that is read may fail and every request for memory be refused, before and after the page was put together, and
a request begins again where it stopped: on the file, or on the page that is put together already. Culling in place leaves exactly what
the list says; the page is the file with its parts in place; each class has
its rule in the block of its prefix, and no rule is anywhere else (`StyledAsMeant`). `ServesWhatItTook` says so of what
the array of classes holds, instead of what the page's parts say, and that a request fails only for one of three causes. Small arrays are enough: five classes fill `MaxClasses` of 6; rules of one and two bytes (`Longest`) fill a `Room` of 3 exactly, end one
byte behind it and meet a full buffer; with a `Chunk` of 12 letters a value is written within what is allocated and past it. The run ends when the page is sent or given up, so a state without a
successor is no error.

`fetching`. The page implements `ShownYear`: a request that was overtaken never paints, and after an
upload is confirmed its year never shows less. There is one request or one
timer and never both (with the develop mode one more for each load that was
aborted); the page gives up only after the last retry; every load is answered.
Two years suffice, as a load is compared with the year chosen last only. Three
choices let a choice meet each of the loads and timers of two others; two retries have a first, a
last and a reset between; one upload is confirmed in any of these, or its answer is lost. A reader who
has no choices left stops, so a state without a successor is no error.

`flight_codec`. From numbers that need no byte to numbers that need all of theirs, and beyond their
field; bins that are multiples of 256; a flight that is too short, and
one that is refused only because its highest altitude wraps. Each number that is shown is the
one that was posted for its flight and field, and the flight makes sense;
a part of the flights has status 206, and one that ends early only for want of room; the page reads
each answer to its end. The rooms go from the least that lets a row be
written to one for all flights. Flights do not meet but by the
length of those before, so that the orders of six flights are plenty.

## Disagreements found

Each is a run that is expected to end with a violation, of one property that
states what a text of the repository says.

* `stop_frees_in_use`: `stop()` can see a load of 0 while a worker has taken a client
  and not counted itself, and frees the buffers and closes the database it then uses.
* `stop_self_deadlock`: a signal on a thread that holds the pool's lock makes
  `stop()` wait for that lock for ever; likewise on a thread in the load it waits for.
* `page_blank_answer`: of two first requests for a page, the one that loses the
  race for the write lock answers with status 0 and no body.
* `private_leak`: visibility is read in one statement and the flights in a later
  one; made private in between, a flight added after that is shown to a stranger.

Others were met while the models were written. No run is about them; where a property would fail, its
statement or its instance names the exception.

* With `most_workers` 255 the new size wraps to 0 and passes its test (main.c:187);
  `least_workers` above `most_workers` is accepted and overruns the array (main.c:132).
* A reload that reads fewer bytes than its `fstat` saw, because the file became shorter or `read()` stopped, fails after
  it has overwritten the buffer and leaves length, time and mark as they were (file.c:91). When the
  page was hydrated and the file has the time of the version loaded before, every later request
  is sent what the failed one left: `torn` in `HydratedIsPage` and `LoneRequestServed`.
* The commit's failure at the end of a signup is ignored and 201 is answered for an
  account that is not there (auth.c:116); `CommitLost` is an action of `Api`.
* A bin that is a multiple of 256 counts as no byte, because its bytes are
  counted in the host's order (utils.c:3), and is shown as 0: `Kept` of `FlightCodec`.
* The room for a row is tested as 36 bytes of up to 77 (flight.c:124): a last row may end up
  to 41 bytes behind the room, which is the end of the send buffer (response.c:26);
  `TypeOK` of `FlightCodec` states this bound and no less, and `Connection` takes such answers from `route()` (`Beyond`).
* A color of shade 500 has the name of shade 50 as its beginning and is never given a rule
  (utility.c:787): `Hidden` of `PageTransforms`.
* The rules of the prefix `xs` are copied from the buffer of `sm` (hydrate.c:345): the
  block `tiny` is left out of `StyledAsMeant`.
* `stamp()` asks for 64 bytes of room (utility.c:8) and some rules are longer: the last may end behind the buffer;
  `TypeOK` of `PageTransforms` bounds the buffers by the longest rule, and no less.
* `{version}` and `{commit}` are replaced without a look at the memory left (assemble.c:86, 93): when the letters before have
  just filled what is allocated, the value is written past it. `overran` of `Assemble`; `Tame` excepts such pages.
* The search for the `<` of a component's tag starts at a byte that was not written
  (assemble.c:71), and a component with no tag behind it takes `</body>` with it: `Tame`.
* In the tables of `utility.c`, `text-left` has an empty value, `font-bold` and `font-black` a
  key longer than their names, `border-double` and `justify-normal` a value longer than its text, and
  `cursor-none` one that is no declaration. No page uses these classes; the tables are data and parameters here.
* In the develop mode a load that is aborted at its pause may still fail there,
  show an error and set a timer that nothing clears (fetcher.js:4, fetching.js:25):
  `OneAttempt` and `GivesUpLate` say what is left.

## Fairness

`ThreadPool!Fairness` is strong for each thread's steps. Where a step needs no
mutex this is no more than weak fairness, as a thread that can run stays able
to. Where it takes one, another thread may hold it whenever the first is looked
at: that the waiting thread gets it in the end is what an operating system's
mutex gives in practice and what any statement about progress needs here, as
several threads use both locks over and over. `handle()` ends because its calls
have timeouts and their number is limited (that is `ConnectionEnds`). Not fair are clients
(`Accept`), failures, signals and spurious wakeups: nothing makes them happen.
`Connection` has weak fairness of its next step, for the same timeouts; a
failing call is one of its steps, so that a silent client is a timeout.
`Fetching` has weak fairness of `Browse` and `Fire`: a browser goes on with each request,
pause and answer, or ends it as failed, and a timer that is not cleared fires.
The reader owes nothing, nor does the answer to an upload. A load that ends is
what `ShownYear` asks for as weak fairness of its `Answer`.
`PageCache`, `Api`, `PageTransforms` and `FlightCodec` have safety properties only and no
fairness; loops over a page end because `index` grows.

## Proofs

`tlapm` checks every leaf; nothing is assumed but the named assumptions on the constants and,
where a theorem says so, a named hypothesis. Every theorem holds for all values of the constants: any
number of threads, clients, places, accounts, requests, versions, years, any buffer and any text.
Each inductive invariant also holds on the instance of its module's run: a module that EXTENDS the `MC...`
and the `...Proofs` module lets TLC check it (of `PageInv` all but the costly `page \in Pages`).

| module | theorems | hypotheses |
|---|---|---|
| `ThreadPoolProofs` | `TypeCorrect`, `RingAlwaysConsistent`, `LoadIsExact`, `StopAwaitsAllHandlers`, `ClientsOnce`, `ImplementsService` | none |
| | `SlotsOwned`, `SizeBounded` | `ConfigSane`; `pthread_detach` does not fail |
| | `HandlersHaveResources` | those, and no signal |
| `PageCacheProofs` | `CacheTyped`, `AnswersAreFresh`, `MarkIsRight`, `CacheHeals` | none |
| `ConnectionProofs` | `ParseType`, `BodyIndexStays`; `HeadEndsAgree`, `ParserIsGrammar` | none; lines that end as they should |
| | `ConnectionTyped`, `SameBodyStart`, `WholeBody`, `RoutesRequests` | none |
| | `SendsInOrder`, `SendsWhole` | `~ShortFirst` |
| `ApiProofs` | `TypeCorrect`, `ShownOnlyToEntitled`, `NothingWithoutItsAccount`, `OnlyOwnDataChanges`, `OwnPageIsServed` | none |
| `PageTransformsProofs` | `TransformsTyped`, `CullsAsListed`, `ServesAsTaken` | none |
| `FlightCodecProofs` | `CodecTyped`, `ShowsWhatWasPosted`, `WholeOrMarkedAlways` | none |
| `FetchingProofs` | `Typed`, `OneAtATime`, `GivesUpInTheEnd`, `ShowsChosenYear` | none |

The hypotheses are where the code itself needs them:

* `ConfigSane`, what `configure()` does not enforce: `least_workers <= most_workers < 255`. Without it the
  new size wraps or the array is overrun. When `pthread_detach` fails, `spawn()` returns -1 although the
  thread runs, and the next one gets the same slot. With a signal, `stop_frees_in_use` is the counterexample.
* `~ShortFirst`: the first `send()` takes head and header whole, at most 2176 bytes (response.c:15-22) for
  an empty socket buffer. When it takes less, the next is given an address before the body's (app.c:152).

Where the code breaks what one would like to say, the properties name the exception, and the theorems prove no
more than the properties. `MarkIsRight` and `CacheHeals` except the torn bytes of a failed reload. `SameBodyStart`, `WholeBody` and
`RoutesRequests` speak of heads whose lines end with carriage return and line feed; a head with bare line feeds may be
acted on without its body. `RoutesRequests` says which heads are routed, and of the others only that they get some status.
`ConnectionTyped` lets a `send()` go up to `Beyond` bytes behind the send buffer, where flight.c:124 may have written. `TransformsTyped` says that a
rule begins within the first `Room` bytes of its buffer, not that it ends in the buffer: it does when no rule
is longer than 64 bytes, which nothing checks. `ServesAsTaken` leaves out a block whose buffer is filled up to its last 64 bytes.

The assumptions on the constants: `PoolAssumption` is what `configure()` enforces. `ConnectionAssumption`:
the buffers are the program's, an answer is at most `Beyond` bytes longer than its part of the send buffer, a `size_t` counts
more than a buffer holds. `ApiAssumption`: accounts at the start have different names (the unique column), none has one of
the three names of paths that a signup refuses (parse.c:64-68), no other page's path has the form of a name,
nobody is his own friend. `CullsAssumption`: the list of fragments is of texts that are not empty.
`FlightCodecAssumption`: times and distances are below 2^31, since `readBits()` shifts into a signed number
(the times then end in 2038). `TransformsAssumption` and the rest say of what kind the data are.

**ThreadPool**

* `TypeCorrect`. `TypeOK` is inductive.
* `SlotsOwned`. `SlotInv` says of the working threads one by one that their slots are distinct, are
  below `size` and fill it, and adds `PoolBounded`, without which a new size could wrap. Growth adds slot `size`; shrinking removes `size - 1`, which is the leaver's own by
  the test `arg->id + 1 == thread_pool.size`, so that what remains is again an initial segment.
* `RingAlwaysConsistent`. `RingInv`: the push happens only where room was seen, only
  `main()` pushes, and takes make more room; the rest is arithmetic modulo `queue_size`.
* `LoadIsExact`. `LoadInv`: each step moves one thread in or out of `CountedBusy`, or none.
* `StopAwaitsAllHandlers`. From exactness: load 0 means that nobody is counted, and
  whoever is inside `handle()` is.
* `HandlersHaveResources`. `LiveInv` adds to `SlotInv` that the slot of every working thread is live.
* `ClientsOnce` and `ImplementsService`, from `ServiceInv`: to `RingInv` it adds who holds a client when
  (`HandsInv`) and that the clients in the ring, in main's hands and with the workers are the open ones, each
  once (`ClientsInv`). The ring as a sequence (`Ring`, from head to tail) loses its first element
  in `Take` and gets one in `Push`, which is where the indexes wrap; every other action leaves the two variables
  of `ClientService` alone. Each step of `ThreadPool` is thus one of `ClientService` or none.

**PageCache**

* `AnswersAreFresh`. `CacheInv` says of each file that its version is no newer than the disk's and that an open
  file has been stamped, and of each worker, at each point between its locks, that what it has read of the
  file or of its `fstat` is not older than its request. The write lock is not enough for that: between `Stat` and
  `Reload` others may reload, and what counts is that they cannot bring back an older version.
* `MarkIsRight` and `CacheHeals`. `HealInv` adds that bytes that are not torn are whole when they are stamped with the version of the disk,
  and that their mark is right (`Sound`), and that a request that nothing disturbs finds at each point what the last one left (`Alone`):
  torn bytes under an older time are read again, those under the time of the disk's version are not.

**RequestParser and Connection**

* `ParserIsGrammar`. `Parse` is a function over the prefixes of the buffer, and `Request` says where the parts
  of a whole request lie. The bridge is an invariant of the prefixes: what stage the parser is in and how long
  each part is so far says which marks (first space, question mark, second space, ends of lines) the prefix
  has and where (`SoFar`, `Clip`). It holds of the empty prefix and is kept by every byte in every
  stage; at the end of the buffer it is the grammar's definition.
* `HeadEndsAgree`. The four bytes that end a head are found first by the search when the parser's last stage sees them.
* `RoutesRequests`, `SameBodyStart`, `WholeBody`. `Measured` ties `handle()` to a prefix of what was received: the
  length it waits for was computed from that prefix, and the parser gets all of it. What the first packet
  says of the head's end remains so for every longer buffer (`BodyIndexStays`).
* `SendsInOrder`, `SendsWhole`. `Ordered`: the n-th byte that was sent is the n-th of head, header and body;
  `Ended`: a connection without a failed call is not closed before, unless the answer is longer than the send buffer
  (app.c:147), when head and header are all that is sent.

**Api**

* `TypeCorrect`, with: a bwt is only handed out for an id that was drawn.
* `ShownOnlyToEntitled`. The invariant `EntitledInv` says it of each stage of a request. The
  hard step is `FindFriend`: visibility `friends` was read earlier, the friendship
  only now, and the caller must have been entitled at one moment. He was when
  visibility was read, because friendships are never added: one found now was
  there then.
* `NothingWithoutItsAccount`. A post meets the foreign key, a deletion takes its rows
  with it, and an account's row appears only under an id never drawn before.
* `OnlyOwnDataChanges`. `WorkerInv`: a worker at a statement that writes has a valid
  cookie; and a signup's id was not there before.
* `OwnPageIsServed`. `NamesInv`: names stay unique and none is a page's, through the span in which a
  signup has inserted its row and not committed it, which the write lock makes safe; and
  nobody has a cookie for an id that is still to be committed. `OwnPageInv` follows the request: who asks for the
  path of his own name finds no page of that path, then himself.

**PageTransforms**

* `TransformsTyped`. `PageInv`, of the locals of all loops; the array of classes is tested before it grows, and the length of a
  block before a rule is put behind it, to which the rule adds at most `Longest`.
* `CullsAsListed`. While a text is culled, what is written is a copy of what is kept so far and of the letters since
  (`Filled`), all of what is unread is still the file's (`Unread`), and the two counters of matched
  letters are those of a search that has seen no whole start, or within a fragment no whole end (`Before`, `Within`,
  `Beyond`). `Reading` is the part that holds for every text, `Finding` the part for tidy ones.
* `ServesAsTaken`. Each class of the array is there once, so that a full array is full of different ones
  (`OnceInv`). While the rules are stamped, a buffer holds rules of the classes gone through so far and, as long as it
  is not full, those of all of them (`Buffered`, in `BufferInv`): once full it stays so. Before, the buffers are empty, also after a request that failed half way. What failed is in
  `FailedInv`. How the classes come into the array from the letters of a page is not part of the theorem.

**FlightCodec**

* One row. The digits of a number give the number again (`NumberOfColumn`), leading zeros may be left out
  (`DropZeros`), and what is left out of a bin, whose bytes lie the other way round, is 0 only for the multiples of 256
  (`WrittenShown`). A length fits the bits it has (`Lens`), so that seven bytes give the 29 lengths back (`LengthsBack`).
  The fields of the wire neither overlap nor leave a gap (`PlacesApart`, `PlacesTouch`), and each field begins where the
  lengths before it end, for the writer, who puts the parts one behind the other, and for the reader, who adds up
  (`FlattenIs`, `StartsIs`; both by `Ends`). `RowIsRead` puts these together: wherever the bytes of a row lie in an
  answer, the loop reads the numbers from them and comes to the byte behind.
* The answer. `CodecInv` says that the table and the statement hold what the posted numbers make (`Stored`, `Yielded`), that the written rows
  lie one behind the other in the body (`LaidOut`), that the page has read a number of whole rows and stands at the
  end of the last (`ReadBack`, `Progress`), and what each status says of the rows (`Answered`). `ShownAsPosted` alone is not inductive: a
  reader that stands anywhere else would read other numbers. No row is empty, so that a reader at the end of the body has read all rows.
* `CodecTyped`. A row has 7 to 77 bytes (`RowBytesAre`) and one is begun only while 36 are left.
* `WholeOrMarkedAlways`. From `Answered`, and because a row that was begun is never cut the reader never fails.

**Fetching**

* `OneAtATime`. Attempts are paid for: the first by the page's beginning, each further one by a choice or an
  upload, whose share its own post holds until it is answered (`CountInv`). Without the develop mode a load and a timer exclude
  each other (`PlainInv`).
* `GivesUpInTheEnd`. Whoever has neither load nor timer has an answer (`SettledInv`), and a
  failure is counted before the retry it leads to.
* `ShowsChosenYear`. Only the load of the current controller paints, its year is the one chosen last, and what it
  brings is not older than what the reader knew when the server answered, or than an upload confirmed since,
  because the confirmation aborts it (`OneLoad`). This is the safety part of `ImplementsShownYear`.

**Found on the way.** Where a proof did not go through, the model was wrong in two places and the data
too narrow in one. The first definition of the text a list of fragments leaves was false for texts
that none of the pages had: a start at the very end of the text, `\t<` directly before `\t<a`, an end that overlaps its start;
`Tidy` now says so, and `page_transforms` has the scraps of fragments that tell it from the older one.
Two operators (`Refusal` and `Allowed` of `Api`) and a stage of the parser were written as a CASE with overlapping conditions, where
TLA+ takes any that holds, and the C code the first; they are `IF ... ELSE` now. And that no page's path is an
account's name was a fact about the instance, not an assumption.

**Recursion.** A function defined over the prefixes of a buffer is not unfolded by the provers.
`DataInduction` shows by its least counterexample that a property of 0 which n hands to n + 1 holds up to a bound, and
by this that the run of an automaton exists; `ParserRunExists`, `ScanIs`, `InBaseIs` and `StartsIs` derive from it what the recursive
functions compute, for every length.

**Left to TLC**

* Liveness, which needs fairness and ENABLED: `ServedUnlessStopped`, `StopEnds`, `ConnectionEnds`, `AlwaysAnswered`, and the
  fairness of `ImplementsShownYear`.
* `AssembledAsMeant`, `StyledAsMeant`: they compare a page with what its parts say of themselves
  (the classes they use, what they become). That the parts say so truly is a fact about the instance's
  data, and a theorem for all of them would have to assume what it says. `ServesAsTaken` is what of the second
  starts at the array of classes.

## What is not modelled

* Pool: `--help`, `--version`, `--init`; a second signal, which ends the process by
  default or, when it is the other of the two, runs `stop()` once more; clients in the ring at a
  stop, which are reset and of which no text promises more.
* Page cache: two edits within one second, which are one version to the code;
  edits of a page's components, which the cache never notices; `page_close()` and
  `page_free()`, which run when `stop()` has freed the workers' buffers already, so that
  whatever is still at work then has failed in `stop_frees_in_use`.
* Connection: letters' case; `header_find()`, `param_find()` and the number parsers, which only
  read; lines that end with bare line feeds are parsed, and the
  properties say nothing of them; what is written behind the send buffer, beyond that it is sent; a first `send()` that takes less than
  head and header (`ShortFirst` is FALSE in the run); the client's reset; the
  comparison of a path whose pointer was never set is `RouteCrashes` or any answer.
* Api: expiry of a bwt, one more bad cookie; the length of a name, so not that
  `/api/year` takes the first 16 letters of a longer one; a deleted account's post
  answered 409, as the code does.
* Flight codec: a big-endian host; the two bytes of each year of `find_years()`; how a
  pilot's file becomes numbers; numbers from 2^31 on, more than TLC's integers hold.
* Page transforms: the text of a rule; what a rule or a value overwrites behind its buffer; parts of a page that end in the
  middle of a letter. A page that is left without memory is a case of `PageCache`.
* Browser side: the list of years, a second context of the same functions; the
  silent reload, which no page asks for (`context.reload`); the length of pauses;
  forms, notifications and drawing, whose state is the page's own.
* Configuration: ranges and parsing of options. What it does not exclude is named in the
  hypotheses of the theorems. Encodings, hashes, logging, errors and formats: pure
  functions without state, for which known answers are the better test.

## Plan

Done first were the pool, because everything runs on it; then the cache, which all
workers share; then the connection; then the requests; then what the server does to
a page, what a flight's numbers go through, and how the page loads them. Next, in
this order:

1. models: the list of years beside the flights of a year; a second signal;
2. proofs: for pages whose parts are elements without quotes in their letters, that `extract()` takes the classes
   between the quotes and no other, which `ServesAsTaken` leaves open.
