# borgo in TLA+

borgo is a web framework in two processes: a Go server (the *front*, module
`github.com/LuigiDavideMicca/borgo`) that owns the public port, the api, the
static files, the websockets and the cached pages, and a TypeScript *render
service* (`packages/borgo`) that renders React pages for it. A third program,
the runtime that `packages/borgo/src/runtime.ts` compiles into every page, runs
in the browser; a fourth, the `borgo` command, builds, serves, exports and
supervises them in development.

This directory models the parts of it where several actors meet or where a step
may fail: what is shared between requests, goroutines, processes, commands or
event handlers, and what must be right in every order of their steps. TLC checks
each module on a small instance; TLAPS proves most of the safety properties for
every value of the constants: those of the page cache, the cached pages and their
files, the streams, the hub, the policies and the compressed documents, the relay
and the sockets, the start, the locks, the assets, the doors of the render
service, the calls to the go half with their cookies and the navigations of a reader.

```
tlc   -config MCIsr.cfg MCIsr.tla      # one of the runs
tlapm IsrProofs.tla                    # the proofs of one module
```

`PROJECT.json` lists the components, the runs, the source lines behind each
definition, for each property a slip in the code that breaks it, the hazards and
the findings.

## The system and its parts

### The front (Go)

| part | code | state | operations | what is hard about it | module |
|---|---|---|---|---|---|
| page cache | `isr.go` 251-352 | copies, order of use, tag index | get, store, remove, invalidate by path and tag | three structures that must agree at the capacity | `PageCache` |
| cached pages | `isr.go` 484-944 | cache, refusals, renders in flight | handle, regenerate, Revalidate, RevalidateTag | an invalidation between any two steps of a render | `Isr` |
| their persistence | `isr.go` 946-1232 | files, save generations, queue of removals | saveEntry, forgetSaved, drain, loadSaved | files written outside the lock, a crash between two renames | `IsrDisk` |
| page policies | `isr_front.go` | the table, the boot it is of, the fetch in flight | table, sawBoot | restarts of the render service, late answers | `PolicySource` |
| websocket | `websocket_conn.go` | queue, ending, deadlines | send, write loop, read loop, finish, shutdown | four goroutines, a peer that does not read or answer | `WsSocket` |
| topic relay | `ws_relay.go` | subscribers, changed topics, the count window | join, leave, publish, sendCounts | sockets that end at any step of their registration | `WsRelay` |
| event stream | `sse.go` 20-290 | one connection, its latch | Send, Ping, Close, watch | Close against a writer, a watcher nobody wakes | `SseStream` |
| event hub | `sse.go` 292-423 | subscribers and their slots | Publish, Close, ServeHTTP | late requests, slow clients | `SseHub` |
| process | `borgo.go`, `watchdog_*.go` | signals, the drain, the parent's pid | Serve, shutdown, watchParent | a second signal, a parent that dies | `Launch` (partly) |
| shutdown latch, health probe, dev channel, front server, sessions and sign-in, response writers, uploads | `sse.go` 44-88, `health.go`, `dev_channel.go`, `front*.go`, `session*.go`, `csrf.go`, `auth.go`, `gzip.go`, `uploads.go` | | | see the plan | planned |

### The render service, its files and its documents (TypeScript)

| part | code | state | operations | what is hard about it | module |
|---|---|---|---|---|---|
| doors and guard | `server.ts` 570-780, `util.ts` 940-1309, `page-middleware.ts` | none between requests; the cookies, the guard's word and the answer of one | the page, its props, an enhanced form, the pages of errors | one guard on every door and spelling; cookies of a call that then throws | `RenderService` over `PagePaths` |
| calls to the api | `api.ts`, `go-call.ts`, `util.ts` 170-250 | attempt, deadline, jar | dial, retry, read | what may be sent again, and until when | `ApiCall` |
| compressed documents | `compress.ts` 590-787 | the pool, each stream's listeners and input | pump, take, cancel | a client that stalls or goes at any await | `DocumentPump` |
| assets | `compress.ts` 60-583, `build.ts` 1214 | a file, its siblings, the index of a boot | build, replace, boot, ask | files replaced one at a time under an index | `AssetServing` |
| redaction | `server.ts` 120-280 | the bytes held back | hand, scrub, end | a needle over a seam | `Redaction` |

### The browser

| part | code | state | operations | what is hard about it | module |
|---|---|---|---|---|---|
| navigation | `runtime.ts` 289-720 | history, entry key, page on screen, positions | navigate, runSubmit, popstate, hashchange | every await lets another navigation in | `Navigation` |
| prefetched props | `runtime.ts` 237-287, 333-567 | responses by page, the post in flight | prefetch, take, drop | a hover during a post, a body nobody reads | `PropsCache` |

### The commands

| part | code | state | operations | what is hard about it | module |
|---|---|---|---|---|---|
| typed environment | `env.ts`, `env-app.ts`, `env-go.ts` | env.ts, the bundle, the go half, the service | build, start, dev's rebuilds | one contract read three times, at different moments | `AppEnv` |
| start | `cli.ts` 103-248, `util.ts`, `borgo.go` | three processes, ports, signals | boot, stop, ctrl-c, watch | who hears which signal, who outlives whom | `Launch` |
| build lock | `build.ts` 1390-1528, `parent-watch.ts` | the lock, its guard, the processes | create, judge, take over, drop | a holder that died, waiters that judge it at once | `BuildLock` |
| app directory | `build.ts`, `cli.ts`, `export.ts` | output, inventory, stamp, mark, site | build, dev's build, start, export | a command killed between two writes | `Workspace` |
| dev session | `dev.ts`, `serve-entry.ts` | jobs, timers, two children, tabs | hear, batch, rebuild, swap, tell | saves while a rebuild runs, children that die | `DevSession` |
| dev lock | `dev.ts` 143-272 | the lock, the ports | read, write, ask, drop | a pid that was reused | `DevLock` |
| source scanning | `build.ts` 130-430, 1680-1980 | none | scanCode, codeMask, repairs | code that looks like text and text that looks like code | `CodeScan` |
| source checks | `build.ts` 250-700 | tree, output, mark | build, start | names that only a folding machine resolves | `SourceChecks` |
| static export | `export.ts` | stage, site, the api | plan, list, render, publish | any step may fail | `StaticExport` |
| create-borgo | `create-borgo/src/cli.ts` | the repository on disk, what was reported | git under a bound, install, summary | a command that was killed did part of its work | `Scaffold` |

How they meet: the front asks `PolicySource` for the policy of a path, `Isr` for
a copy of the page, and the render service for what neither has (`RenderService`
checks that a copy goes around no guard). A Go handler that writes data calls
`Revalidate`, publishes to `SseHub` or pushes to `WsRelay`; the relay hands
frames to `WsSocket`s through the promise `WsChannel`. A page's loader or action
calls go by `ApiCall`; its document leaves through `Redaction` and
`DocumentPump`, its files by `AssetServing`. The browser meets the service in
`Navigation` and `PropsCache`. `Launch` starts and ends the two processes of
production, `DevSession` those of development; both build by way of `BuildLock`
into the directory of `Workspace`, of which `SourceChecks`, `CodeScan` and
`AppEnv` are steps seen from near, and `StaticExport` is the export command.

## The modules

**`PageCache`** defines the LRU cache as a record and its operations as
operators. The Go list is the strict order `older` (front to back): `Touch` is
`MoveToBack`, `Store` links, evicts the front over `MaxCachedPages` and indexes
the tags, `Remove` unlinks from all three structures. **`PageCacheSpec`** makes
a machine of it, every operation in every order.

**`Isr`** is the cache in use. Each action is one critical section of the isr
mutex: `Arrive*` is `handle` (refused, hit, stale, miss), `Regenerate` its join
of a running render or the launch of one, `Render*` and `FlightEnds` the
goroutine, `InvalidatePath` and `InvalidateTag` the two exported calls. A page
is abstracted to the version of the data it shows: `Write` changes the data
behind a key, `RenderReads` reads it at some moment of the render, and `floor`
remembers the version at the latest invalidation. Time is two choices (`Ages`,
`RefusalLapses`). **`SharedPages`** says what a request may rely on, with no
render in it: an answer is the page made for this request, or a shared page no
older than the last invalidation before the request arrived. `Isr` implements it
(`KeepsPromise`), the renders hidden.

**`IsrDisk`** extends `Isr` with the files: what each step of `Isr` queues for
removal, the saves (`SaveWrites`, then `SaveLands` with the two renames under the
lock if the generation is still the key's), the drains, and `Restart`, which
loses everything in memory, may leave one rename of a pair done, and loads what
the json vouches for. `promised` is history: the floor of every invalidation
whose caller has returned and whose pair no drain has yet to remove; `lent` is the
floor of those whose pair another goroutine's drain still has.

**`PolicySource`** is `table` and `sawBoot`. A table is the boot that declared
it; the service starts and stops, and its answers carry stamps that may arrive
long after (`stamps`).

**`WsSocket`** has one variable per program counter: the sender, the write loop
(`top`, `selecting`, `bursting`, `counting`, `farewell`, `cutting`), the reader
with the handler it calls. The queue's lock is one action, the token left after
it is released another. **`WsChannel`** is the promise to the relay: a bounded
channel that delivers in order and loses nothing, unless it ends. **`WsRelay`**
takes that promise for its sockets (`got` is what a socket accepted) and models
the relay's own lock.

**`SseStream`** and **`SseHub`** are the two halves of `sse.go`. The first is one
stream with its mutex and its `done` channel; the second sees a stream as done
or not.

**`Navigation`** is one document in the browser. An action is a handler up to
its next `await`; `nav[n]` is the navigation numbered `n`, and `Newest(n)` the
check `seq === navSeq` that follows every await; `crossed` is history: a back or
forward came to the page on screen with another on its way. The session history is the
browser's: entries with their page and key, and the one the address shows. A
scroll position is the page on which the reader took it. The document ends
(`left`) when the runtime hands over to the browser. **`PropsCache`** is the same
tab seen from its requests: which response was asked for when (`asked`, with the
number of posts sent before it), who will read its body, and what an action in
between did to it.

**`PagePaths`** says how a path is spelled, canonicalised, matched to a page and
to an entry of middleware.ts. **`RenderService`** takes one request through
`serve()`: `Arrive` to a door, the decision of the guard, the page, its props or
its action, with `ran` the page's code that ran, `cookies` what the api set on
the way, and `answer` what the browser got. Every door is an action of its own,
and so is every way code of the app may go (return, redirect, throw).

**`ApiCall`** is several calls of one request over one jar: `Begins`, the refused
connections that are tried again, the answer whose cookies are collected, the
deadline that may pass in the head, the body or the body of an error. `reached`
counts how often go was given a call.

**`DocumentPump`** is `gzipStream` between its awaits: a pump reads, deflates,
parks when zlib or the queue is full and is woken by a drain; `zlib` is each
stream with its listeners and its input, `pool` those that wait for a document.
**`Redaction`** runs the redaction over every document of a few bytes in which no
needle stands against another, cut in every way. **`AssetServing`** is one file
with its `.br` and `.gz`, the index a boot took of them (`Found` asks of the file's
text for each of the two ways an answer is found, `Pinned` its length), and a
client that comes back with the validator it was given.

**`Launch`** is `borgo start`: what was given (`launch`), the process that runs
itself again (`parent`), the one that renders (`start`) and the front it spawns,
each with the signals sent to it and not yet handled; what a text of the
environment means is decided by the operators `EnvBool`, `EnvInt`, `CspSetting`.

**`BuildLock`** has an action for each call of the file system: a lock is created
exclusively, then written; a waiter reads it, judges its holder by pid, state and
start, and takes it over under a guard file that may be stale itself. `mistaken` is
history: a takeover judged by age what was somebody's still.
**`Workspace`** is the directory: every file a command writes and another reads,
a `shell` per command with where it stands, an edit of the source, a `Crash`
between any two writes. **`DevSession`** follows a save from the event to the
tab: the batcher's windows, the dedup by content, the queue of jobs, the two
children, a service that dies or is late while it boots as well, and what is said of
them when they fail. Two histories remember what it cannot promise: `untold`, files
whose change may have missed the tabs, and `ahead`, files that a build read before
their save was heard. **`DevLock`** is the lock of a session over its directory and
ports; `met` is history: two sessions looked for a lock before either wrote its own.

**`AppEnv`** evaluates `defineEnv` over what `env.ts` may declare and a machine
may hold, and follows it into the service's boot, the bundle and the go half.
**`CodeScan`** writes programs a token at a time, so that what each character is
is known from how it was written (`kind`), and compares it with what `scanCode`
and `codeMask` find. **`SourceChecks`** builds small trees of names in two cases
and compares what the checks report with what resolves. **`StaticExport`** and
**`Scaffold`** are the two long commands, a step at a time, each of which may fail.

**`PageRequest`** puts `Navigation`, `RenderService`, `ApiCall` and `Redaction` side
by side, for what two of them promise the reader together: `LoginsReachTheReader`
is of the cookies of the request (`LoginsAreKept`) and of the jar of its calls
(`JarsAgree`).

The `MC*` modules declare model values and the constants that are functions, and
put parts that share a run side by side: the variable `part` says which of them
moves, and the others stand still in one state, so that the states of a run are
the sum of its parts and not their product.

Operators whose comment begins with `slip:` are plausible mistakes in the code;
no specification uses them, and each breaks a property of its run.

## The runs

| run | what it shows | states |
|---|---|---|
| `isr` | two pages of one tag over a capacity of one, two requests, two renders: copies are fresh, one render per key, nobody waits for a render that is over, refusals are fresh, and `SharedPages` is implemented | 349 000 |
| `isr_disk` | two pages over a capacity of one, two saves, one drain, restarts anywhere: pairs are whole, files follow the memory, no invalidated copy comes back | 830 000 |
| `services` | the page cache over a capacity of two (copies, order and tags agree); three writers and two `Close` calls on a stream; a hub with two clients and three frames; the policies over three boots; two documents over a pool of one: nothing follows a close, who counts is served, one fetch, documents are whole, and nobody is left waiting | 166 000 |
| `front` | one socket with four frames over a queue of two frames and four bytes; a relay of two sockets and two topics; seventeen launches with two gestures and one death: bounded backlogs, true topics, one order, settings read alike, drained stops, no orphan | 267 000 |
| `pages` | three navigations over two pages and a form; every page and matcher of two segments asked for by seven spellings; three calls at once; every document of five bytes without two needles side by side: the screen matches the history, the guard is on every door, logins reach the reader, calls end once, cuts do not show | 879 000 |
| `toolchain` | three builds after one lock; two shells with three commands over five kinds of page; a session with two saves of five files and one process that dies or boots late; a file written twice under a running service: builds take turns, outputs are whole, the session is current, a url has one status and one pin in every coding, work goes on | 592 000 |
| `authoring` | an env.ts saved twice; three sessions over two directories; programs of four tokens; trees of two files; a tab with one post; an export over an earlier site; create-borgo in every surrounding: one meaning of the environment, sessions apart, code told from text, right refusals, sound prefetches, whole exports, a true summary | 1 089 000 |
| `isr_disk_drain` | *violation:* with two drains a `Revalidate` returns before its files are gone | |
| `navigation_back` | *violation:* back and forward that overtake a navigation leave the page and the address apart | |
| `answers_end` | *violation:* a render that fails mid-stream leaves a compressed answer open | |
| `start_ctrl_c` | *violation:* one ctrl-c cuts the drain | |
| `props_after_action` | *violation:* a hover during a post shows the page without what the action did | |

Each listed property is a conjunction of named parts, one per thing it says; the
comment above a part names the lines of code and quotes what they claim.

**Bounds.** Each is the smallest at which the case it is there for happens. A
capacity of one over two pages makes every store an eviction; in `services` a
capacity of two over three keys leaves an order to get wrong. Two renders let a
doomed render and its successor run at once; two requests, that one waits for
each. One write of the data gives an old and a new version, which is all that
freshness tells apart (`MaxVersion`). Two saves of one key race each other;
`MaxGen` bounds the generations of one life of the process. The queue of a socket
meets its frame bound and its byte bound each with the other to spare; two slots
of a hub are overrun by three frames. A document of four chunks is longer than
what zlib (two) and its queue hold together, and two documents over a pool of one
make one stream be reused and one be discarded. Three navigations let an
overtaken one answer after two newer ones; three keys are the document's, a
fragment's or an arrival's, and a push's. Two path segments and two entries are
what tells a parameter, a name and a rest apart. One retry (`Retries`) has a
first, a middle and a last attempt. Three builders: a dead holder, the one that
takes over and the one that judged the same lock. Three commands: one that
crashes, one that finds what it left, one that finds what the second made of it
(`MaxCommands`, `MaxEdits`); two saves, the second while the rebuild of the first
runs (`MaxSaves`), and one process that dies on its own or is not up in time
(`MaxTroubles`). An echo of an undone save (`ahead`) takes three saves of one file:
the run does not meet it, the theorem covers it. Two
writes over a file give a build, a replacement under the index, and a boot
between. Four tokens reach a literal behind each kind of predecessor, inside a
bracket (`MaxTokens`); a tree of two files and one reference has each pair of
spellings (`MaxFiles`, `MaxRefs`). A limit of one prefetch over two pages evicts
(`PropsMax`), three requests are one before, one during and one after a post
(`MaxAsked`, `MaxPosts`). Two gestures are the first and the operator insisting
(`MaxGestures`). Symmetry is used only in `isr` and the disk runs, over requests,
renders, saves and drains, which are interchangeable, and in no run with a
liveness property.

**Assumptions of the runs,** each a constant: `ReadErrors = FALSE` in `isr_disk`, and
`Alone = TRUE` in `toolchain` (no command starts in a directory where one runs:
`BuildLock` is about those that do). The findings below tell what the other value
shows.

**What the code does not promise** is a step of the models like any other, and a
history variable remembers that it was taken; a property that the step undoes says
so: `crossed` in `Navigation`, `mistaken` in `BuildLock`, `met` in `DevLock`, `lent`
in `IsrDisk`, `untold` and `ahead` in `DevSession`. `isr_disk` has one drain (two are
`isr_disk_drain`); the theorem is of any number.

**Deadlock** is checked in the cache runs. The others switch it off: a socket
that has left, a handler that has returned, a command that has ended really stops.

## Fairness

A liveness property carries the fairness it needs (`Fairness => ...`), so that a
run of several parts assumes nothing of the others; `PumpSpec` states its own.

- Writes to a websocket or a stream end: `wsWriteTimeout` and `sseWriteTimeout`
  are deadlines on the connection. Reads end by the read deadline, or by the
  short one the writer sets after a close (`wsCloseGrace`).
- Of the ready cases of a Go `select` one is taken at random, so a case that is
  ready again and again is taken in the end: strong fairness of
  `WriterTakes`, `WriterHearsShutdown` and the hub's `LoopLeaves`. The peer is
  never assumed to read, send or answer, nor the relay to send.
- A check of the app (`CanPublish`) that waits on its socket's context is let go
  when the socket ends; before that it may block for ever.
- The policy fetch has a timeout (`policyFetchWait`). `TableCatchesUp` assumes
  that the service that stays up goes on answering some requests, for it is
  their stamp that tells the front.
- A goroutine or a callback that can run is run (Go's scheduler, the event loop):
  the pumps and zlib in `DocumentPump`, the retries and deadlines of `ApiCall`
  (timers fire; go itself is never assumed to answer), the polls of a waiting
  build in `BuildLock` (`Bun.sleep` returns), the watcher, the jobs and the exit
  handlers of `DevSession`, the boot, the handlers and the two watches of
  `Launch` (a poll every two seconds). A client takes its document only where a
  property says that it must (`Take` in `PumpFairness`: a client that does not
  read is one that cancels in the end).

## What is proved

`PageCacheLemmas` holds the facts about the operators, for any finite set of
keys: unlinking, pushing at the back and taking the front keep a strict linear
order (`Linear`), the front exists while the cache is not empty, `Store` and
`Remove` keep `Sound` (types, exact index, linear order on exactly the cached
keys, capacity). `FrontProofs` concludes that `PageCacheSpec` is sound for
every set of keys and every capacity, and the named invariants with it.

`FoldLemmas` holds what the proofs about sequences share: induction over a set of
naturals and over a set of sequences, one element longer at a time (the library's
takes an operator, which no prover here can instantiate), and what a fold from the
left computes. `RowOfAFold` gives, of a fold of a step over a
sequence, the row of its values, each made of the one before and of an element; what
follows of the fold is then an induction over the row.

`IsrProofs` proves the properties of `Isr` for any keys, tags, policies,
requests and renders. Freshness of the copies is not inductive: it needs that a
render which is not doomed has read data no older than the floor of its key,
which needs that an invalidation finds every such render, which needs that the
render registered in `inflight` is the only one of its key that is not doomed.
`IInv` is that chain: types, a sound cache whose copies carry the tags of their
policy and lie between floor and version, true flights, single flight, waiters
on a running render of their own page, answers no older than their request's
floor, and refusals that are fresh and exclude a copy. There is one lemma per
action. `IsrImplementsSharedPages` follows: under `IInv` each step of `Isr` is a
step of `SharedPages` or invisible.

It goes on to the files, in three invariants, one over the other.
`DiskBase` (with `IInv`): no file and no save is ahead of the data, pairs are
whole. `DiskFollows`, where reads succeed: a pair on disk is on its way out, or
no newer than its key's copy and no older than its last invalidation, for a save
that may still land is of the copy its key has. `DiskPromises`, with any number of
drains: what a drain is about to promise is removed before it promises, or another
drain has it and the promise is kept back (`lent`).

`ServicesProofs` has the services of a run. A stream: whatever bars a writer has
stored the close before, so that a barred writer is never let through. A hub:
what a client got, what waits in its slots and what it missed are together the
frames published since it joined, in rising order. The policies: the fetch in
flight is the one caller that fetches, and whoever waits, waits for it. Documents:
a zlib stream in use has one user, who alone listens to it and whose input it
holds; a pooled one has none; and each chunk read is in one place.

`FrontProofs` has the relay (the count window is one flag and one timer that
agree, a topic that changed has a window open, a socket has no history before it
joined), the socket (the byte count is the sum over the frames that wait, with
the facts about sums proved by induction over finite sets, so that both bounds
hold), the refinement of `WsChannel`, step by step, and the start: the launch
settles before anything is read from it, the front takes what its start resolved,
and one stop is one signal, wherever it has got to.

`ToolchainProofs` has the lock of a build (a lock is its creator's until dropped
or its creator is dead; one process is behind the guard; what was judged stale
has a dead owner) and the answers over an asset (the lengths a build recorded,
and what a client holds, are of what the name and the etag say). `DirInv` says
what a directory is worth between two writes: without the mark it is the whole
output of its last build, with the mark it vouches for nothing, and what a build
has made is told by where the build stands (`Built`); the files an export copies
are there from the names it rendered to the rename (`Started`); and a server
still has what it serves, or a build has told it that it may not (`Serves`).
`SessionIsCurrent` is about a dev session at rest, and its invariant about one
that is not: a save is heard, or waits in the watcher, in the batch of a side, in
the chain or in the rebuild that runs (`Due`, `Listed`), so that the binary, the
service and the tabs are of what was heard but for what is on its way, what a
build read unheard (`ahead`), and what nobody told the tabs (`untold`); and what
the terminal says of a process that is down holds of the saves that follow. It is
proved for any sources, several styles among them, which is why it says of a style
that is out of date only that some style does not compile.

`AppProofs` has the render service, whose invariant says of every step of a
request which door it came in by and what ran before the guard. That a matcher
which covers a path is seen to guard the page that answers it
(`CopiesNeedNoGuard`) is proved segment by segment over any path, pattern and
entry. It has the calls and the navigations. `LoginsReachTheReader` needs what a jar
is after any number of answers. `PlacedWhereItStood` says of one cookie that the
others stay as they were, in their order, and that it stands between those before
the first of its name and the rest; of all of them, an induction over the row of
`FreshCookieHeader` says that each name go set has the last value it was given and
that what is left without those names is what the browser sent (`JarHasTaken`).
`ScreenMatchesHistory` says what holds at rest and is not inductive: while back,
forward or a refresh is on its way the address is ahead of the screen, by exactly
the navigation that loads (`ScreenFollowsAddress`), until a back or a forward comes to the page on screen while another page is on its
way, or the reader goes on from a screen the address has left (`crossed`).

`AuthoringProofs` has an app from its first day to its export. The summary: what
each step of create-borgo finds on the disk is what the steps before it did, or
half of what a killed one did (`DiskByStep`). The environment: what is kept of a
read is a function of what it was read from, the package of a build in progress is
of the read that is remembered, and the go half of a session that owes no rebuild
is what env.ts generates now (`SessionsCatchUp`). The lock of a dev session. The
prefetches: what is kept was asked for since the last post, one for a page, and
nobody has taken it or let it go.

The refusals: what is unmarked, or served, was built without a fault
(`RefusalsInv`). What is reported is read off the row of the walk: for as long as a
part of a specifier has one name in its directory the walk stays on the target
(`OnTarget`), it is over at the first part that is spelled otherwise, and then the
hit is that part (`Verdict`), so that an import is reported exactly where folding
finds an entry its own spelling does not. The export: until its end it has changed
its stage alone, and the port a push would reach is none of its own (`KeepsInv`).
Its files are another invariant (`FilesInv`): a path in the queue is one that a page
was listed for, no guard covers it and the router answers it with that page
(`QueueIsFair`), every path listed is a file of the stage or in the queue
(`QueueIsWhole`), and a file of the stage is the render of the page its own path is
answered by, for a path of proper names is found where it says
(`ProperPathStays`).

| module | theorems |
|---|---|
| `IsrProofs` | fresh copies and answers, one render per key, waiters, refusals, tags, the refinement of `SharedPages`; `WholeCopies`, `FilesFollowMemory`, `NothingComesBack` |
| `ServicesProofs` | `ClosedIsSilent`, `SubscribersAreTold`, `PumpsAreSafe`, one fetch at a time |
| `FrontProofs` | the cache: index, order, capacity, what is invalidated, what is evicted last (`CacheIsExact`); `TopicsAreTrue`, `SlowPeersAreBounded`, `KeepsOrder` (the refinement of `WsChannel`), `SettingsMeanOneThing`, `StopsAreOrderly` |
| `ToolchainProofs` | `BuildsTakeTurns`, `OutputsAreWhole`, `SessionIsCurrent`, `AnswersAgree` and `OneStatusPerUrl`, `PinnedIsTheName` |
| `AppProofs` | `DoorsHold`, `LoginsReachTheReader`, the safety half of `CallsEndOnce`, `ScreenMatchesHistory` |
| `AuthoringProofs` | `SummaryIsTrue`, `EnvMeansOneThing`, `SessionsKeepApart`, `PrefetchesAreSound`, `RefusalsAreRight`, `ExportsAreWhole` |

**Assumptions.** Those of the constants are the named `ASSUME`s of the modules: a
positive capacity, at least one key, sets and functions into the declared sets,
marks that are distinct from what they mark. Key sets and the set of sockets are
taken finite. `NoneIsNoRecord` says of the
environment's mark what TLC takes of every model value. Three theorems have a
hypothesis, which holds in the runs too. Two are needed: reads of files succeed
(`~ReadErrors`) for the files of the cache, whatever the number of drains; `Alone`
for the directory of an app, for a build beside an export takes what its pages name.
The third, `SpecsClimbFirst` for the reports of a build, is of the proof: a specifier
climbs (`..`) before it names a directory, as those an editor writes do. The walk
takes `./lib/../app` too, which is outside the theorem and the run.

The locks, the drains, the navigations and the dev session are proved without one:
what their code does not promise is in the invariant as the history of it
(`mistaken`, `met`, `lent`, `crossed`, `untold`, `ahead`). The first two and
`crossed` stay for good; `lent` ends with the removal, `ahead` with the next build,
`untold` with the next word to the tabs.

**Only model-checked:** every liveness property (fairness and `ENABLED` are out
of the provers' reach); `Redaction` and `CodeScan`, which say what a scan computes
over any text and would need an induction over the scan of each, which is no fold.
Both are compared with a reference definition over all small instances.

## Findings

1. **A removal that is not over when `Revalidate` returns** (`isr_disk_drain`).
   Another goroutine's drain may hold the key the caller queued; a crash before
   it removed the files restores the invalidated copy.
2. **Back onto the page still on screen** (`navigation_back`). The popstate
   handler returns without a new navigation when the address is again that of
   the page on screen (`runtime.ts` 707), though "every url-changing navigation
   bumps navSeq" (498). A page that was on its way then renders under the other
   page's address. Back, and forward before the props arrive, is enough.
3. **A render that fails mid-stream under compression** (`answers_end`). The
   pump destroys the zlib stream with the error and takes its listener off before
   the error is told (`compress.ts` 752-754): the answer is never ended.
4. **One ctrl-c counts twice** (`start_ctrl_c`). The terminal signals the whole
   group and the start passes its own signal on, so that the front, and a start
   that was re-exec'd, take one gesture for "the operator insisting".
5. **A hover during a post** (`props_after_action`). Prefetched props are dropped
   before the action runs and not again after it (`runtime.ts` 474).

What the models also show, with another value of a constant or by a definition
no run lists:

- *Pages.* With `ReadErrors`, a pair one boot could not read is out of reach of
  every invalidation and served by a boot that can read it. A link to the page
  that a back is on its way to rewrites that entry under the key of the
  entry on screen (`KeysAreTheirOwn`). `PositionIsOfThePage`: `keepScroll` is
  handed on along a refreshed loader's redirects, to a page the position is not
  of. `CookiesRideOut`: the cookies given to a loader that throws are lost. A
  navigation that was overtaken leaves the body of its response uncancelled.
- *Environment.* `UnsetAgrees`: an optional variable of the client that is unset
  reads as undefined on the server and throws in the browser.
  `HalvesAlwaysAgree`: a file that env.ts imports, saved alone, does not bring
  the go half up to date.
- *Documents.* Where one spelling of the root stands against another, a document
  and the json beside it can disagree, against `server.ts` 194 ("a document and the
  json beside it cannot disagree about what the root is"). With the needles `fs` and
  `f/s`, `f/sfs` in one piece becomes `##`: the second needle is replaced where the
  first has just left a boundary. In the chunks `f/sf` and `s` it becomes `f/s#`: the
  first three bytes were already scrubbed, with a name behind them. The documents of
  the `pages` run leave such neighbours out (`Glued` in `MCPages`).
- *Dev session.* A service that dies or is replaced before it is up takes the list of
  files it was started for with it (`dev.ts` 430-455). A page is saved, the service
  given that page dies booting (`serve-entry.ts` 73), another page is saved and the next service is given
  that one alone: a tab on the first is told to skip (`runtime.ts` 125-134) and stays
  old, though "the last file alone would silently drop a Save All" (`dev.ts` 21) and a
  browser that is not told the whole set "applies nothing" (`server.ts` 792). `TabsCatchUp`
  excepts those
  files (`untold`), a style poked to a service that did not answer, and what a build
  read before the watcher heard of it. The last is the dedup's: a save that a build
  reads, undone before its event is handled, is an echo to it, and the build stays
  (`ahead`). An env.ts that borgogen refuses leaves the go env package as it was
  (`dev.ts` 325-331), and the go half is built with that.
- *Builds.* A lock whose holder died before it wrote its text
  is judged by its age alone and may be taken from a slow writer. And
  two waiters have looked at the guard of a
  dead one, the first removes it and takes its own, the second removes that
  (`build.ts` 1451), and of two behind one guard the slower removes the lock the
  other has just created (1456), so that two build in one directory, which the
  comments call the expensive mistake (1408, 1438): `mistaken` is either.
  Two dev sessions that look in the same moment both read no lock and both write
  theirs (`dev.ts` 218 and 232), or both find their ports free (259): `met`.
  `FrontIndexedWhatIsServed`: `borgo start` asks the stamp alone, and a tree
  that lacks a file is rebuilt by the service's boot, behind a front that has
  indexed it. `StylesBringItBack`: the message of a render service that crashed
  promises that a saved style restarts it, and nothing starts it.
  `SiblingsAreSmaller`: a compressed sibling of an earlier content stays when the
  new content would not shrink.
- *Sources.* `AllToldApart`: `scanCode` misreads three forms (a template inside an
  interpolation, a division after `)` or `}` or an increment, a regex after one).
  An import of `./lib` where `lib/` is a folder and `Lib.ts` a file is not
  reported, and `./Lib/../x` is reported though it resolves.
- *Export and scaffold.* `prerenderPaths` may name the path of a static sibling
  that was skipped and so publish it, or render a page twice and count it twice;
  parameters that differ only in case collide on a folding disk; a file
  `public/x/index.html` overwrites a page; a page's fetch has no timeout. A git
  that times out while it is asked for its template counts as having none.

## What is left out, and why

- Bytes, headers and wording everywhere: the websocket codec, gzip, the request a
  shared render sends, the text of generated files. The models take their
  outcomes. `pathMatchesKey` is a constant of the cache (`Names`, `TagsOf`).
- In `IsrDisk` a removal always succeeds, and one process owns the directory. In
  `WsRelay` an overflow inside one count window ends the socket with none of that
  window's counts.
- In `Navigation`: hydration, the dev channel and entries of other documents. In
  `RenderService`: the header block a guard adds, the document's shell.
- In `DocumentPump`: zlib's own error under a parked pump. In `AssetServing`: the
  search for a file and systems that fold case; a file that changes between the
  stat of an answer and its bytes, which the code declares.
- In `DevSession`: events the system loses while a rebuild runs (`dev.ts` 498
  drops them), a save during the very first boot, a poke to a service that is on
  its way out, an api that is not up thirty seconds after its start (`dev.ts` 290),
  of which the tabs are not told. In `Launch`: a `BORGO_SHUTDOWN_TIMEOUT` of 0, a
  `BORGO_SUPERVISOR_PID` that was inherited; a signal before the handlers is
  code 143.
- In `AppEnv`: a rebuild inside `serve()`, types the schema does not know,
  defaults that are lone surrogates or that their own validator refuses.
- In `CodeScan`: a tag's end read as a regex, the swap of the renamed refresh
  globals. In `Scaffold`: a hook that outlives its git; a command has done its
  work exactly when its status is 0.
- Not modelled at all: deploy and doctor (files in, files out), borgogen (go
  source in, TypeScript out), frames, uploads, benchmarks and documentation.

## Plan

1. *Prove.* The scans (`Redaction`, `CodeScan`), by induction over the row of what
   they have read, as the walk of a specifier and the jar of a request are.
2. *Extend.* `StreamLatch`, `RenderProbe`, `DevChannel` with the browser's stamp,
   `HashSlots` and the order of `Signup`, `ResponseWriter` (gzip's states),
   `FrontServer` (doors, proxy, deadlines) composed with `PolicySource` and `Isr`.

Modules that are proved about use no `RECURSIVE` operator; sequences are handled
by the operators of the standard and community modules.
