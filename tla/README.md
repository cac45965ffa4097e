# A verification of libsagui

libsagui is a C library on top of libmicrohttpd: an HTTP server, and the containers, strings, routes
and expressions that its applications use.  These modules model its logic.  Where the order of events
of several threads decides (isolated requests, the server that is stopped while they run, uploads that
are saved to one directory, routes that are dispatched by two threads) the actions are the steps that
can interleave; where a long sequence of calls or a failure in the middle decides (bodies and limits,
response handles, maps, entry-points, compressed streams, the expression parser) they are the calls
with their error paths.  TLC checks the modules on small instances; TLAPS proves the most important
properties for every value of the constants.

Sources are named as in the repository: `sg_httpsrv.c` stands for `src/src/sg_httpsrv.c`, `sagui.h`
for `src/include/sagui.h`.  `PROJECT.json` maps every definition to its lines.

## Inventory

| Component | State | Operations | Interacts with | Hard behaviours | Modules |
|---|---|---|---|---|---|
| Request isolation (`sg_httpreq.c`) | `req->isolated`, nodes, `srv->isolated_list`, `srv->mutex` | `sg_httpreq_isolate`, the thread function `sg__httpreq_isolate_cb` | called from `req_cb` inside the handler; suspends and resumes connections of libmicrohttpd | loops and threads on one list; node freed after the resume; failed thread creation | `HttpIsolate`, `HttpExchange` |
| Server life cycle (`sg_httpsrv.c`) | `srv->handle`, settings, connections | new, setters, listen, shutdown, free, `sg__httpsrv_ncc` | joins isolated threads, starts and stops the daemon | stop while requests are served; join against mutex; second listen | `HttpSrvFree`, `HttpSrvLife` |
| Handler (`sg__httpsrv_ahc`, `sg__httpsrv_rcc`) | one `sg_httpreq` per request | first call, calls with the body, last call, completion | calls authentication, body processing, `req_cb`, response dispatch | protocol of repeated calls | `HttpIsolate`, `HttpAccess`, `HttpMsg` |
| Authentication (`sg_httpauth.c`) | `canceled`, realm, response | deny, cancel, dispatch | decides what the handler does | any combination of deny, cancel and grant | `HttpAccess`, `HttpMsg` |
| Body (`sg_httpuplds.c`) | fields, payload, uploads, three size counters, post-processor | `sg__httpuplds_process`, `_iter`, `_cleanup` | upload callbacks | limits over pieces; errors between linking and opening an upload | `HttpAccess` |
| Upload files (`sg_httpuplds.c`) | temporary file, descriptor | mkstemp, write, save, save_as, free | file system shared by all requests | check-then-rename; failed saves | `HttpUpldSave` |
| Response (`sg_httpres.c`) | `res->handle`, headers, files, buffers, streams | send*, reset, clear, dispatch, free | libmicrohttpd holds the response too | ownership on error paths, two owners | `HttpMsg` |
| Compressed bodies (`sg_httpres.c`, `sg_extra.c`) | the holder: status, offsets, buffer | `zread_cb`, `gzread_cb`, `sg__zcompress` | libmicrohttpd calls, zlib | blocks larger than the buffer; end of the source; size limit | `HttpResStream`, `ZCompress` |
| Entry-points (`sg_entrypoints.c`) | sorted array | add, rm, find, iter, clear, free | applications with several routers | empty and one-element arrays, failed realloc | `Entrypoints`, `EntryMap` |
| Routes, router (`sg_routes.c`, `sg_router.c`) | list of routes with match state | add, rm, cleanup, dispatch, segments, variables | requests on several threads; PCRE2 | shared match state, patterns that are prefixes | `UtList`, `Routes`, `Router`, `RouteMatch` |
| String maps (`sg_strmap.c`, `uthash.h`) | hash table with two orders | new, add, set, find, get, rm, iter, sort, cleanup | headers, cookies, fields | duplicate keys, expansion and its rollback, deletion of ends | `UtHash`, `StrMap`, `PairList` |
| Expressions (`sg_expr.c`, `expr.h`) | compiled tree, variables, error | new, compile, clear, calc, eval, var, err, strerror, free | `sg_math_set` | precedence, calls, macros, line ends, variables freed with the tree | `Expr` |
| Strings (`sg_str.c`, `utstring.h`) | growing buffer | write, printf, clear | everywhere | growth at the exact size | `Str` |
| Utilities (`sg_utils.c`, `sg_extra.c`) | memory manager, math functions | paths, names, cookies, entry-points, addresses, error texts | everywhere | ends of buffers, empty names, separators | `Utils`, `Memory` |

The event loops of libmicrohttpd, isolated threads and the application's main thread run at the same
time.  They share `srv->isolated_list` (under `srv->mutex`), the connections (suspended or not), the
uploads directory, and a router with its routes if the application dispatches from several requests.
Everything else belongs to one request or one caller; what is hard there is the sequence of calls and
what is left when one of several steps fails.  What makes each component correct is stated below with
its module.

## Modules

### HttpIsolate, HttpExchange

`HttpIsolate` models the handler together with isolation.  Per request it keeps the location of the
handler (`st`), of the isolated thread (`tpc`), the memory of the `sg_httpreq` and of its node
(`none`, `live`, `freed`), and libmicrohttpd's view of the connection (`suspended`, `resuming`).
Shared are `mutex` and `list`.  The actions follow the code from lock to lock:
`AhcFirst`/`AhcCall`/`AhcReply`/`Rcc` are `sg__httpsrv_ahc` and `sg__httpsrv_rcc`; `IsolateCall`,
`IsolateLock`, `IsolateAlready`/`IsolateNoMem`/`IsolateSpawn`/`IsolateSpawnFail`, `IsolateUnlock` are
`sg_httpreq_isolate`; `ThreadReturn` ... `ThreadFree` are the thread function.  An update of the list
uses the list that was read when the mutex was taken (`walk`, `twalk`), so that code without the
mutex loses updates in the model as it would in C.  `LL_APPEND` and `LL_DELETE` are the macros of
`utlist.h`.  libmicrohttpd (`ProcessResume`, `Completed`, `ClientGone`) and the callbacks of the
application are external and modelled from how the code uses them.

`HttpExchange` says what one request looks like from outside: accepted or rejected, handled once,
answered after its callback ended if it set a response, dropped otherwise, over.  `HttpIsolate`
implements it (`ImplementsExchange`): isolation changes nothing a client can see.

Properties: `ThreadTouchesLive` (the thread uses no freed memory), `ListExact` (the list is exactly
the threads that have not unlinked themselves), `SuspendedHasResumer` (no lost wake-up),
`ResponseAfterThread`, and the liveness properties `EventuallyOver` and `NodeReclaimed`.

### HttpSrvFree, HttpSrvFree_proofs

`sg_httpsrv_shutdown` and `sg_httpsrv_free` composed with `HttpIsolate`: the two loops over the list,
with `el` and `tmp` as in `LL_FOREACH_SAFE`, the joins outside the mutex, and the stop of the daemon,
which a shutdown may have done before.  Called by an application that first waits for its requests
(`orderly`) they never abort and leave nothing; called at any time they end (`FreeReturns`, no
deadlock) but can abort the process or resume a request whose callback still runs (runs `free_panic`,
`free_early`).

### HttpSrvLife

The same server as the application drives it, without the threads: made, configured, listening, shut
down, listening again, freed, while connections start, send requests and end.  `Started`/`Ended` are
`sg__httpsrv_ncc`, which tells `cli_cb` and may refuse; `Listen` is `sg__httpsrv_listen2` once its
arguments were taken, the array of options left out.  `DaemonStopped` relates the handle with the daemons that run,
`RefusedNotServed` a refusal with every later request of the connection.  The values that the setters
store are not modelled: they are handed to libmicrohttpd.

### HttpAccess, HttpAccess_proofs

One request from its headers to its completion, every outcome of `auth_cb`, and a body cut into
pieces by libmicrohttpd: `Raw`, `Field`, `UploadStart`, `UploadMore` and the error paths are the
branches of `sg__httpuplds_process` and `sg__httpuplds_iter`; `Cleanup` is `sg__httpuplds_cleanup`.
Contents are their sizes.  An upload is `live` or freed, with or without a stream (`open`), and has
the size that is reported and the bytes that were stored.

### HttpUpldSave, HttpUpldSave_proofs

The default upload callbacks on the file system.  A path holds an upload, a file of the application
or nothing.  One action is one system call, so two requests interleave between `access` and `rename`.
`saves` and `failed` keep what the application was told; `LossReported` says that a file that is gone
from its path is one that a save was told to overwrite, which still runs or told of its failure.

### HttpResStream, HttpResStream_proofs

`sg__httpres_zread_cb` and `sg__httpres_gzread_cb` (`kind`), called with buffers of any size.  Bytes
are positions in the source; deflate keeps bytes back and gives any portion of them later; the final
block, the gzip header and trailer are one unit each.  `InOrder` is the invariant that relates what
was sent, the rest of `buf_out` and what deflate holds.

### HttpMsg

What one request owns: its parts (`sg__httpreq_new`, `sg__httpreq_free`), its maps, and the files,
buffers and streams that the `sg_httpres_send...` calls take.  A resource is `open` until it is
released; a response that was queued is held by libmicrohttpd too (`mhd`), which ends the transfer
before or after the request ends.  Every error path of the send calls is an outcome.  `ResourcesOwned`
says that nothing is left behind; that nothing is released twice is the theorem `NeverTwice`.

### ZCompress

The loop of `sg__zcompress`, which feeds zlib with pieces of at most `UIntMax` bytes.

### Entrypoints, EntryMap, Maps_proofs

The sorted array of entry-points with its copies of names, through failed allocations, as an
implementation of a map (`ImplementsMap`).  `mem` says what the handle's pointer is worth: after a
failed `realloc` it is `freed` (in an addition) or `lost` (in a removal).

### UtList, Routes, Router, RouteMatch, Router_proofs

`UtList` has the macros of `utlist.h` as the pointer assignments they are; `Routes` the list with its
owner, patterns as sequences of signs, and the prefix comparison of the code; `Router` the dispatches
of several threads, while the application adds and removes routes.  `pc` is where a thread is: it
`look`s at a route and calls `dispatch_cb`, is inside `pcre2_match` (`match`), which writes the match
data of the route from its begin to its end, has the answer (`found`) but has not stored it in `rc`
(`store`), tests `rc` (`test`), has stored the path but not the user data (`user`), or is in the
callbacks (`served`).  Other threads run between any two of these steps.  Two threads that are inside
`pcre2_match` with the match data of one route race: each is answered, and leaves there, anything
(`Matched` without `Alone`).  `raced` marks every thread that works on a route, from `match` to
`served`, when another one writes to it, and one that enters `pcre2_match` while another is inside.
`RouteMatch` computes segments and variables from the offsets of one match.

### UtHash, StrMap, PairList, Maps_proofs

`UtHash` is the part of `uthash.h` that the library uses: the list of items in the order of addition,
the buckets, expansion, the rollback of an item for which there is no memory, deletion and the merge
sort.  `StrMap` is `sg_strmap.c` over it.  `PairList` is what a program is promised, a list of pairs,
and `ImplementsPairs` says that it is kept.

### Str, Utils, Memory

`Str` is the growing buffer of `utstring.h` under `sg_str_write` and `sg_str_printf`, with its cells.
`Utils` has the functions on texts as operators, checked against what they are for over all paths and
names up to a length.  `Memory` follows each block to the allocator that made it, under a memory
manager that the program may replace (`sg_mm_set`).

### Expr

The parser of `expr.h` as it reads one lexeme after the other, with its three stacks and its macros,
against a grammar that is written top down (`Meaning`); the tree is then evaluated, by
`sg_expr_calc` as well.

### Objects, Objects_proofs

The components that share no state, side by side: `part` says which one a behaviour uses.  It is there
to check them in one run, each with its own Init, Next and properties.  Properties that speak of one
component are checked as one conjunction of their named parts:

| Checked | Conjunction of |
|---|---|
| `TableIntact` | `HashIntact` (links, counts and buckets agree), `PairsLive`, `FoundIfThere` |
| `Dispatched` | `FirstMatchServed`, `OwnMatch` |
| `RoutesKept` | `TriedInOrder`, `PartsOwned`, `PatternsOnce`, `PatternTold`, `TouchesLiveRoutes`, `VarsAreSegments` |
| `TextsKept` | `StrHolds` and the six properties of `Utils` |
| `BlocksKept` | `FreedAsMade`, `BlocksWhole` |
| `ParsedAsWritten` (`Expr`) | `AsGrammar`, `PopsWhatWasPushed`, `ErrorsTold` |

The type invariants, and consequences such as `ReqCbOnce`, `EntriesSorted` or `AnsweredOnce`, are not
part of the runs where they are proved for every value of the constants; those of `Router` and `Expr`
are parts of `RoutesKept` and `ParsedAsWritten`.

## Runs

| Run | Instance | Shows |
|---|---|---|
| `isolate_threads` | two requests, a thread per connection, two calls of isolate each | memory, order, the list, wake-ups, refinement; here a resumed connection can be served while its handler still returns |
| `isolate_live` | two requests on one loop, the callback of `r1` may never return | the other one still ends; nodes are reclaimed |
| `free` | two requests, one loop, shut down and freed by a patient or an impatient application | the first never aborts and leaves nothing, both return |
| `free_panic`, `free_early` | the same | violations, see below |
| `access` | limits of 3, four pieces of at most 2 bytes, with and without authentication, forms, failing allocations and short writes | every property of `HttpAccess` |
| `save_files` | two uploads, three paths (one taken, one free, one directory), two saves each, failing calls | nothing lost in silence or overwritten unasked |
| `save_race` | the same without overwriting | violation |
| `stream` | source of 7 bytes, buffers up to 3, no size or 3, 5, 9 | one stream in order, complete without a size, never longer than a size, and the reader ends |
| `stream_short` | size 3 | violation |
| `expr` | texts of up to five of eleven lexemes, after five beginnings (none, a macro that has the name of a function, an assignment of a call, an open macro, two operators) | the tree is what the grammar says, evaluation and errors agree |
| `objects` | five paths with four names; three names of pairs, two of them equal but for case, in a hash of 2 to 8 buckets; texts of up to 8; paths of 3 and names of 2 characters; four patterns, three routes, two threads, routes added and dispatches begun four together; 3 groups and 2 variables; sources of 5 with pieces of 2; two sends; two daemons, two connections | every property of the modules from `HttpSrvLife` to `Memory`, in each sequence of calls |

The bounds are above the point where something new happens.  Two requests give every race of two
actors, and a list of two nodes from which the head or the tail is deleted; `ListCorrect` is the
theorem for longer lists.  Limits of 3 with pieces of 1 or 2 make a total that hits, misses and
crosses the limit on different pieces.  A source longer than two buffers makes a held-back block that
needs several calls, ends with a full or a partial buffer, and may be the final one; sizes 3 and 5
fall inside blocks, 9 is past the end.  `MaxTries`, `MaxPieces` and `MaxCalls` bound counters of the
application.  In `objects`, two paths of one name, two keys in one bucket, a table that
expands again and again, also in the set of a name that is there twice, a pattern that another begins
with, and two threads over one route are each the smallest case of their kind; `MaxWork` allows one
dispatch over three routes, two at once over two of them, and three over a single one; four entry-points make a binary search that goes both ways; a buffer that
begins with 3 has to grow more than once for a text of 8; a source of 5 is fed in two full pieces and a
last one.  Its threads and its connections are interchangeable (`MCSymmetry`).  Five lexemes after a beginning are enough for two operators with operands, or one inside a
call.

Deadlock is not checked: every modelled system stops when its requests are over, when the last of the
bounded calls was made, or when a value that is only looked at has been computed.

### Fairness

`isolate_live` and `free` assume weak fairness of the loop's calls of the handler and of
libmicrohttpd's processing of resumed connections, of every step of `sg_httpreq_isolate`, and of the
isolated thread once its callback returned, and in `free` of `sg_httpsrv_shutdown` and
`sg_httpsrv_free`: these are steps of running operating system threads.
The request callback is assumed to return; isolated callbacks return except those in `Slow`.  The
mutex needs no strong fairness there: it is held for a few steps only, by threads that are scheduled,
and each of finitely many requests takes it a bounded number of times.  `stream` assumes that
libmicrohttpd calls the reader again (`WF` of the calls that do not fail), which it does while the client reads.

### Violations

Each of these runs checks one sentence of the documentation against what the code does.

* `free_panic`: a server that is freed while it runs "stops before being freed", but a connection can
  still be suspended then, which libmicrohttpd answers with an abort.
* `free_early`: a request is brought back "when the request finishes", but the second loop of
  `sg_httpsrv_free` resumes one that was isolated after the first loop.
* `save_race`: two saves without overwriting to one path both succeed.
* `stream_short`: a block that crosses `size` is dropped as a whole.  With a size the reader may also
  use deflate after its final block and end with an error.

Some properties carry a condition because the code breaks them without it: `UploadsFreedOnce` holds
while allocations succeed (after a failed `strdup` `sg__httpuplds_add` frees an upload that stays
listed), `UploadsComplete` while writes are not short (`sg__httpuplds_iter` counts a short write in
full), and `NoError` without a size.  Two smaller disagreements are not checked by a run: `sagui.h`
inverts the condition of `EEXIST` for `sg_httpupld_save_as`, and a save cannot be tried again after an
error, since the first one closed its descriptor.

The properties of `objects` and `expr` carry their conditions in the same way:

* `SetIsFound` is about calls that get their memory: `sg_strmap_set` removes the old pair first, and
  answers 0 even if the new one had no memory.  It leaves out a set that expands the table while the
  name is there more than once, since an expansion reverses the bucket, so that the duplicate that is
  left is found.  The run has a threshold of one item per bucket, where that happens early; with the
  threshold of ten it takes a table in which most buckets are full.
* `NamesOwned` excepts the removal whose smaller array could not be allocated.
* `ResourcesOwned` excepts a stream or buffer that no response could be made for (`lost`);
  `EncodingNamed` says that an encoded body is labelled, while a plain body after a reset may be
  labelled too.
* `PatternTold` and `PatternsOnce` describe the comparison as it is: a pattern that another one begins
  with is answered with `EALREADY`, where `sagui.h:2024` speaks of a route already added.
* `OwnMatch`, `FirstMatchServed` and `TouchesLiveRoutes` hold while no second thread works on the
  same route, inside `pcre2_match` included, and nobody removes routes meanwhile: a router is not made
  for that.
* `DaemonStopped` excepts a second listen, after which the first daemon runs on.
* No property is about the array of 14 options of `sg__httpsrv_listen2`: with a host, all limits and
  everything that TLS takes it would get 15 entries, and whether they fit depends on one call's
  arguments only.  A backlog without TLS is ignored (`sagui.h:1538` does not say so).
* `FreedAsMade` names the copies of `strdup`, the name and password of libmicrohttpd and the compressed
  body, which are freed by another allocator than made them when the program has one of its own.
* `AsGrammar` leaves out texts with an empty group: `2*f(-())` is compiled as `(-2)*f()`.
  `PopsWhatWasPushed` says that nothing else goes below the stack.  Without `sg_math_set` a power and a
  remainder are 0, although `sagui.h:253` names defaults.

## Proofs

Each module `X_proofs` proves theorems about `X`, `HttpSrvFree_proofs` about `HttpIsolate` as well, and
`Maps_proofs` about the two containers, `Entrypoints` and `StrMap`; `Induction_proofs` has the two forms
of induction they use.  They hold for every set, number and function the constants may be; the assumptions
are those of the modules (`...Assumption`), which TLC evaluates on every run.  They say what the code can
rely on: texts are sequences without the byte 0, capacities and the largest `uInt` are not 0, the pairs
are a finite set of addresses other than `NULL`, a table begins with a bucket, a pattern and a path are
sequences, and the name table of a pattern names groups the pattern has.
None of the properties is inductive by itself; the invariant of each module and why it is needed:

* `HttpSrvFree_proofs`, isolation: `TypeCorrect`, `MemorySafe`, `ResponseOrdered`, `CallbackOnce`, `ListCorrect`,
  `NoLostWakeup`, and `Refinement` of `HttpExchange`.  `IInv` adds the exclusion of the critical
  sections by the mutex (who is inside agrees with `mutex`, and whoever is inside has read the list as
  it is), the agreement of handler, thread, node and request locations (a thread before its resume
  implies a suspended connection, hence a request that cannot be completed), and the list as the set
  of started threads.  Two lemmas say what `LL_APPEND` and `LL_DELETE` do to a list without
  duplicates; one lemma per group of actions shows that `IInv` is kept.
* `HttpSrvFree_proofs`, the server: `OrderlyStops` and `AllGone`.  As long as the daemon is up the invariant is
  that of `HttpIsolate`, and from the call on every request is `Quiet`: no callback is to come, and a
  suspended connection was handed back already.  Then the list is empty, so that the second loop of
  `sg_httpsrv_free` changes nothing, and no connection makes `MHD_stop_daemon` abort.  Once the daemon
  is down every request is `Gone`, through the threads that still have to free their nodes.
* `HttpAccess_proofs`: `TypeCorrect`, `AccessControlled`, `NoStreamLeft`, `FreedOnce`,
  `CompleteWhenServed`, `LimitsKept`, `OverrunBounded`, for any limits and bodies and including the
  failing allocations and writes.
  The invariant says that an open request without a grant was canceled, that the streams are as many
  as the listed uploads with one, and that a form part is continued only where one was started.
  `UploadInv` adds what holds of the uploads as long as the request is open, which is all that a
  request that is served can have.
* `HttpUpldSave_proofs`: `TypeCorrect`, `OnePlaceAlways`, `LossAlwaysReported`, `OldFilesKept`.  The
  invariant says that an upload whose request lives is in its temporary file or was saved, that what
  was not saved is at no destination and what was is at one, and what each step of a save knows of its
  path: it removes only what it may overwrite, and renames only where no file of the application is.
* `HttpResStream_proofs`: `TypeCorrect`, `OneStream`, `TrailerRight`, `AllSent`, `WithinSize`,
  `NeverAfterFinal`.  The invariant relates the stages of the holder (header, body, final block,
  trailer) with the positions that were read, kept back and sent; lemmas about streams say how a prefix
  grows by the next portion.
* `Maps_proofs`, entry-points: `EntryTypeCorrect`, `ArraySorted`, `NamesAccounted`, and `EntriesAreMap`, the
  refinement of `EntryMap`.  Lemmas say what insertion at the place of a name and removal do to a
  sorted array without duplicates, as a sequence and as the map it stands for; every operation is then
  a step of the map or a stutter.
* `Maps_proofs`, string maps: `TablesStayIntact`, `SetsAreFound`, and `MapsImplementLists`, the refinement
  of `PairList`, for any hash function, any keys, any number of buckets and any threshold.  The invariant
  says that the table *stands for* a sequence of pairs (`Stands`): its order is a doubly linked list of
  them with its tail and its count, and every bucket is one of those that its index is the hash of, with
  its count; that sequence has the pairs that are live, but for those that were never added (`MapAt`).
  - Lemmas about linked lists say what `InOrder` and `InBucket` read, and what appending, pushing in front
    and unlinking (first, last, in between, only) do.
  - An expansion empties the buckets one by one into twice as many; its inner loop keeps that what was
    moved so far is whole in the new buckets and the rest is whole in the old ones, so that an expansion
    stands for the same sequence, as does an item that was put in and rolled back.
  - The merge of two sorted runs is described by how many items it took from the first; from that follow
    that it permutes, sorts and is stable.  A pass doubles the length of the sorted runs, and as many
    passes as there are items are enough.
  - An item that is pushed to the front of its bucket is the one that is found, which gives
    `SetsAreFound` when nothing expands; if the name is there once only, an expansion cannot hide it.

* `Router_proofs`: `FirstRouteServed`, `RoutesInOrder`, `VariablesAreSegments`, for any patterns, any
  number of routes, any threads and any offsets of a match.  The list is a chain of links that stands
  for a sequence of routes in which a later one has a greater number; from that follow what
  `LL_APPEND`, `LL_DELETE` and the loops of `LL_FOREACH` do to it, by induction over the numbers.  The
  invariant of a dispatch says for every thread what it has compared already and, unless another one
  came between, what it wrote to its route at every step (`Wrote`), and that two threads inside
  `pcre2_match` with the same match data are both marked (`Apart`), from which follows that an unmarked
  one is alone there; a route that a thread holds is listed or was removed since.  The bound `MaxWork`
  is any number.
* `Objects_proofs` has the other parts:
  - `HttpSrvLife`: `LifeTypeCorrect`, `NoDaemonLeft`, `NeverServed`.  The invariant
    says that the handle is that of the only daemon that runs, that a server that is not live has none,
    and how often `cli_cb` was told of a connection that has not begun, is open or has ended; only one
    that has begun was refused or served.
  - `HttpMsg`: `MsgTypeCorrect`, `NothingLeaks`, `NeverTwice`, `NoPartLeft`, `HeaderTold`, `OneAnswer`.
    Before its answer a request has queued nothing, and after it libmicrohttpd has at most one response,
    that of the request; resources are numbered by the call that took them, so that those of a response
    are not those another call forgot; and a response that is encoded has its header.
  - `ZCompress`: `WholeOrNoRoom`.  What zlib took, was given and was not given yet are the source, and
    the same for the destination, whatever zlib does with each piece.
  - `Memory`: `BlocksAlwaysKept`.  The invariant tells from what a block is for which allocators may
    have made it; a block that another one frees is one of those the property names.
  - `Str`: `StringHoldsText`.  The first cells of the buffer are the text, the next one is 0, and there
    is always room for it; lemmas say what storing bytes and growing do to cells.
  - `Utils`: the functions on texts for any path and name (part of `TextsAlwaysKept`), from lemmas about
    putting texts together and taking them apart: a join is what it was given with at most one slash, an
    entry-point is told by where the slashes of a path begin and end, a text in a buffer ends at its
    first nul.
  - `Objects`: a behaviour of the parts side by side is one of each part (`EachIsUsed`), which gives the
    conjunctions that the run `objects` checks: `DispatchedAlways`, `RoutesAlwaysKept`, `PartsKept`,
    `TextsAlwaysKept`.

Induction over data is done on numbers: `LeastNumber` and `InductionOnNat` follow from the library's
well-foundedness of `<` on `Nat`, with a set in place of a predicate, so that what a recursive function
(`LL_Nodes`, `Moved`, `Merge`, `RoutesCleanup`, the totals of `HttpAccess`) computes can be proved for
every length.

Only model-checked are the liveness properties (`EventuallyOver`, `NodeReclaimed`, `FreeReturns`,
`EventuallyEnds`), since the prover has no rule for fairness and `ENABLED`, and expressions
(`ParsedAsWritten`, `CalcAgrees`, `HandleVarsLive`), whose parser and reference grammar are recursive
operators over trees and lexemes, which the provers cannot reason about.

## Not modelled

* zlib, libmicrohttpd and PCRE2 are external; what the code needs of them is part of the models.  Of
  `uthash.h`, `utlist.h` and `utstring.h` the macros are modelled that the library uses.
* Getters and setters that assign or return one member (headers, cookies and parameters of a request,
  its TLS session and user data, the limits of a server and what else becomes an option of its
  daemon) are left out.  So are a server that listens
  again while isolated threads of its last daemon run, upload callbacks that are replaced while an
  upload is open, and limits that change during a request.
* Isolation from `auth_cb`: what libmicrohttpd does with a suspended connection that is answered or
  closed at once cannot be read from this repository.
* Resources of the threads library (isolated threads that end by themselves are neither joined nor
  detached), descriptors reused after a failed `close`, names that `mkstemp` gives out twice, and reads
  of freed memory that have no outcome a property could name.
* `sg_expr_near`, the versions, `sg_is_post` and the code for other platforms than Linux; the character
  classes of the lexer; the texts of messages; which error a text gets that is only `==`.  Of
  `sg__basename` the library's own version is modelled, while with glibc it is the C library's
  (`sg_utils.h:75`).
* Build files, documentation and examples have no logic of the library.
