# Verification of incus-demo-server

This directory specifies the server and the page of this repository in TLA+. The
server creates a short-lived Incus instance for every visitor; the page starts a
session, follows its creation and holds a terminal on it. What is hard about
them is not any single function but the order in which goroutines, timers,
restarts, browser callbacks and the Incus daemon touch the same sessions. The
modules model that, TLC checks them on small instances, and TLAPS proves the
main invariants for every value of the constants.

Contents: [the system](#the-system), [modules](#modules),
[model and code](#model-and-code), [properties](#properties), [runs](#runs),
[fairness](#fairness), [proofs](#proofs), [disagreements](#disagreements-found),
[limits](#what-the-model-leaves-out), [plan](#plan).

## The system

One Go process (`src/cmd/incus-demo-server`), one SQLite file, one Incus daemon
reached over its API, and a page (`src/static`) that talks to the process.

| Component | State it keeps | Operations | Talks to |
|---|---|---|---|
| session table (`db.go`) | rows: status active/expired/allocated, `request_ip`, `instance_expiry` | `dbNew`, `dbGetAllocated` (a SELECT, then an UPDATE), `dbExpire`, `dbDelete`, `dbShouldExist`, `dbIsAllocated`, the counts and lists | every other component |
| instance creation and start (`session.go`, `utils.go`) | `muCreate`; the instances, which live in Incus | `instanceCreate`, `instanceStart`, `incusForceDelete` | Incus |
| pre-allocation pool (`session.go`) | allocated rows, one timer each | `instancePreAllocate`, its timer | table, creation |
| resync (`session.go`) | the write side of `muCreate` | `instanceResync` | table, Incus |
| start handler (`api_session.go`) | one goroutine per request | `/1.0/start` | table, pool, creation, session timers |
| session information | none | `/1.0/info` | table, Incus |
| startup and recovery (`main.go`) | `incusDaemon`, the goroutine of `run()` | connect, restore the timers, purge the former pool, first resync, hourly loop, fill the pool | all of the above |
| console (`api_session.go`, `rwc.go`) | a websocket, two pipes, four copying goroutines, the `err` of the handler | `/1.0/console` | Incus, the page |
| feedback (`api_feedback.go`, `db.go`) | the rows of `feedback` | `/1.0/feedback`, the mail | table, the page |
| status, terms, statistics | none | `/1.0`, `/1.0/terms`, `/1.0/statistics` | table, configuration |
| configuration (`config.go`, `main.go`) | the global `config`, the terms and their hash | load, reload by the file watcher | read by everybody |
| TLS proxy (`proxy.go`) | one connection pair | accept, copy both ways | the API listener |
| browser client (`static/js/tryit.js`) | the panels shown, the session of the address, the terms accepted, a clock, the globals `term` and `sock` | status, terms, start, session, console, feedback | the handlers |
| navigation menus (`static/js/navigation-2.js`) | classes and attributes of the document | a click | nothing |

### Who runs concurrently

* one goroutine per HTTP request, from the moment `incusDaemon` is set;
* the goroutine of `run()` that connects and then recovers; requests are already
  served while it does;
* the hourly loop, started by the former after its own resync;
* one `time.AfterFunc` goroutine per session and per pooled instance;
* `go instancePreAllocate()` for every claim, and a call of it by every pool
  timer that fired;
* four goroutines and a control handler per console;
* the file watcher, which rewrites `config` in place;
* in a browser, one callback at a time, in any order the network and the visitor
  make.

`muCreate` is the only lock. Creations hold it for reading, the resync for
writing. The table has no transaction that spans two statements.

### What is hard, and what must hold

* *Checks far from the writes they guard.* The limits are read up to a minute
  before the row is written; a pooled row is selected in one statement and
  claimed in another; the expiry of a claim is computed before either, and its
  timer armed long after; the pool timer tests, stops and deletes the instance and
  deletes the row in four calls. Must hold: the overshoot is bounded by the number
  of handlers, whatever the race no row is left without somebody to end it, and
  no timer ends a session before the expiry of its row.
* *Restarts.* Timers die with the process. Must hold: every session that
  survives in the table is ended, and without a pool not before its expiry.
* *The lock.* A waiting writer stops new readers. Must hold: creation and resync
  exclude each other, and neither waits for ever.
* *Partial failure.* Nobody reads the error of `incusForceDelete`; an error of
  `dbExpire` or `dbDelete` is dropped with the only caller that would have
  retried. Must hold: orphaned instances are collected by the resync, and rows are
  forgotten only where the code returns early.
* *Progress.* Requests are answered, the pool is refilled, a full server has
  room again.
* *Globals of the page.* The callbacks of a socket use `term` and `sock` as they
  are when they run. Must hold: a callback acts on its own terminal, nothing is
  typed twice, and there is always a console or a button to get one.
* *A streamed answer.* The page parses the last piece of a stream of documents.
  Must hold: what it shows as a session is one, and it stays at the spinner only
  for a cause that can be named.
* *Two clocks and two versions.* The browser compares the expiry with its own
  clock; the terms may change between their display and their acceptance. Must
  hold: the page is off by no more than the clock is, and nobody is held to terms
  newer than those shown.
* *Pipes without a buffer.* Must hold: input and output keep their order, the
  handler returns, nobody stays behind at a pipe.

`PROJECT.json` lists every such place with its line under "hazards", those not
covered yet included.

## Modules

| Module | What it is |
|---|---|
| `SessionTable` | the `sessions` table: one operator per SQL statement, pure |
| `RWLock` | `sync.RWMutex` as `muCreate` uses it |
| `DemoServer` | the life cycle of sessions: composes the table and the lock with all the goroutines above, Incus and crashes |
| `SessionPromise` | the abstract promise of `src/README.md`: a session is opened, lives until its expiry, is then ended |
| `DemoServerProps` | the properties, the fairness and the refinement of `SessionPromise` |
| `MCDemoServer` | the symmetry used by the runs |
| `Console` | the terminals and sockets of one page |
| `TryItPage` | the page: extends `Console`, and composes it with the handlers, the sessions of `SessionPromise` (an `INSTANCE`) and the configuration |
| `MCTryItPage` | the addresses and clocks of its run |
| `ConsoleRelay` | the server's side of one console: websocket, pipes, goroutines, the end |
| `Feedback`, `MCFeedback` | overlapping submissions for one session, the rows and the mails; the symmetry of its run |
| `Navigation` | the dropdown menus |
| `DemoServerProofs` | type correctness; mutual exclusion of creation and resync |
| `DemoServerKeepProofs` | no row without a keeper; without a pool, the promise |
| `DemoServerLimitProofs` | the bounds of the overshoot |
| `ConsoleProofs` | the consoles of a page |
| `TryItPageProofs` | the page implements `ConsoleSpec`; its types, session, terms, clock and spinner |
| `ConsoleRelayProofs` | the order of input and output |
| `FeedbackProofs`, `NavigationProofs` | the invariants of these modules |

The page does not run against `DemoServer` itself but against the abstract
`SessionPromise`: a session is opened with a full life and ended when nothing of
it remains. A server without a pool implements it; the run `direct` shows it, and
`PromiseKept` proves it for safety. A server with a pool does not (see
[the promise](#proofs)), so what is said of the page is said of a page in front
of a server without one. The sessions of the page's model are those of
`SessionPromise` by construction: it changes them by no other steps.

## Model and code

### The server: `DemoServer`

**State.** `db` is the table. `inst` is what Incus has: an instance is absent,
being created, stopped or running. `muCreate` is the lock. `pc` and `my` are the
program counter of each goroutine and the instance it works on; `client` is the
address a handler serves, and `deadline` the expiry it has computed for a claim
it has not made yet (`api_session.go:100`). `timers` are the `AfterFunc`
callbacks, pending or half-way through (`stage`). `parting` are the instances that
a handler of `/1.0/info` has stopped and is about to delete. `spawned` counts goroutines that were started for
`instancePreAllocate` and have not run yet. `todo` is the list that a loop of
the recovery or of the resync still has to walk. `fill` is the number of
instances `main.go`'s last loop has still to allocate.

**Steps.** A call to the database, to Incus or to `muCreate` is one action, taken
by the goroutine that makes it, together with the local code up to the next such
call; the two calls of `incusForceDelete` are two actions. So the interleavings the
Go scheduler allows between two calls are there, and none inside one. Three kinds
of calls are merged. A call that fails and changes nothing is one step with the
call that follows it. The calls that configure and start a new instance are one
step (`StartInstance`): until its row is written nobody else touches it, but for
Incus. And an outage that makes `instanceStart` fail inside `instanceCreate` has one
pair of stop and delete, where the code calls `incusForceDelete` in both. A clock
is read in the step of the call that follows the reading.

| Code | Actions |
|---|---|
| `restStartHandler` | `Arrive`, `CheckTotal`, `CheckIP`, `SelectAllocated`, `ClaimAllocated`, `ClaimFails`, `ClaimedStopped`, `StartClaimed`, `ClaimedReady`, `ClaimedFails`, `RecordSession`, `RecordFails`, `Answer`, `Discard` |
| `instanceCreate`, `instanceStart` | `CreateInstance`, `CreateRefused`, `AwaitCreated`, `AwaitLost`, `StartInstance`, `InstanceReady`, `StartFails`, `UndoCreation` |
| `instancePreAllocate` | `WorkerStarts`, the creation actions with their retry, `RecordAllocated`, `RecordFails`, `Discard` |
| the callback of a session | `SessionTimerStops`, `SessionTimerDeletes`, `SessionTimerExpires` |
| the callback of a pooled instance | `PoolTimerChecks`, `PoolTimerStops`, `PoolTimerDeletes`, `PoolTimerReplaces` |
| `run()` | `Connect`, `LoadActive`, `RestoreActive`, `RestoreExpired`, `ExpireRow`, `LoadAllocated`, `PurgeAllocated`, `PurgeRow`, `RecoveryDeletes`, `PreAllocateNext` |
| `instanceResync` | `ResyncWaits`, `ResyncLocks`, `ListInstances`, `CheckInstance`, `DropStops`, `DropDeletes`, `ResyncEnds`, `ResyncFails` |
| `restInfoHandler` | `InfoFails`, `InfoDeletes` (its only effect on the state) |
| Incus, time, the process | `IncusCreates`, `PowerOff`, `Tick`, `Crash` |

**Choices.**

* *Time* is kept as the time that remains: `instance_expiry` and the delay of a
  timer are numbers that `Tick` lowers to 0, where they stay. No clock grows, so
  no horizon is needed and the liveness runs are complete. `Tick` may happen at
  any moment and any number of times; a timer may fire any time after it is due,
  as in Go.
* *Names.* An instance, its UUID, its row id and its Incus name are one model
  value: each row has its own random UUID, and `dbGetAllocated` returns the row
  it then updates. A new name is one nothing refers to (`Fresh`). To keep the
  names finite the row of an ended session is forgotten when its name is reused;
  no modelled statement reads ended rows.
* *Requests that are refused* for their method, address, terms, the blocklist or
  because the server is in maintenance change nothing and are not steps.
* *Failures* are steps guarded by `Fault(kind)`: a run says which kinds may
  happen (`Faults`) and how often in all (`MaxFaults`). A count that fails
  reads as a full server or a full quota, as `dbActiveCount` and its callers have
  it. When `incusForceDelete` is called because something has just failed, its
  calls may fail too, without counting as further faults (`StopInOutage`,
  `DeleteInOutage`).
* *A creation* stays in Incus when the wait for it is lost (`AwaitLost`) or the
  process crashes, and completes later. Incus refuses to delete an instance that
  is still being created.
* *The lock* is released by the deferred call, whichever way `instanceCreate`
  returns; `RWLock` has the waiting writer of Go's `RWMutex`.
* *The pool off.* With `AllocateCount = 0` the SELECT is skipped and nothing is
  ever allocated, as in the code.
* *Configuration* is constant during a run of `DemoServer`; its reload is in
  `TryItPage`.
* *`abandoned`* is a history variable that no guard reads: the rows whose last
  keeper returned without moving them, by one of the error paths above. It is
  what lets the properties say that those are the only rows forgotten.
* *`Broken...` definitions* each put one bug into the definition that follows
  them. Nothing uses them; with one of them in place of its successor the
  property that `PROJECT.json` pairs it with fails, which shows that the property
  depends on that line of code.

### The page: `TryItPage` and `Console`

JavaScript runs one callback at a time, so each callback is one action, with
everything it calls. The handlers the page talks to are cut at their reads of the
table and of the configuration, except that a start reads the maintenance mode
and the hash of the terms in one step. `ajax` is the page's request: it never has two,
except the feedback, whose answer nobody waits for.

| Code | Actions |
|---|---|
| loading, `getUrlParameter`, leaving | `Loaded` (in `Init`, `Reload`, `Leave`), `GoBack` |
| `restStatusHandler`, its callbacks | `CountSessions`, `NextExpire`, `OnStatus`, `OnError` |
| `restTermsHandler`, its callback | `ReadHash`, `ReadTerms`, `OnTerms` |
| `restInfoHandler`, its callbacks | `AnswerInfo`, `InfoNotFound`, `OnInfo`, `OnError` |
| the accept button, `restStartHandler` as the page sees it | `Accept`, `StartInMaintenance`, `StartRefused`, `StartAccepted`, `StatusUpdate`, `StartFails`, `StartSucceeds` |
| the stream and its callbacks | `TextArrives`, `OnProgress`, `OnRefusal`, `OnStarted`, `OnGarbled` |
| `initializeClock`, `updateClock` | in `ShowSession`, `UpdateClock`, `Tick` |
| `parseConfig` in the watcher | `Unmarshal`, `Rehash`, `WrongType` |
| `setupConsole`, its callbacks, the buttons | `FirstSetup`, `ReconnectClick`, `OnOpen`, `OnClose`, `RunClick` |

* *The stream.* `docs` are the JSON documents the server has flushed, each two
  units of text, so that one may arrive in two pieces and two in one. `got` units
  have arrived, and `last` is the piece of the last progress event, from where to
  where, as `last_response` and `last_response_len` keep it.
* *The session's address.* A query is a sequence of fields; an id is a sequence
  of pieces that may end in a slash, which is all that `getUrlParameter` looks
  at. `history.pushState` gives the page the address of its session, so a reload
  finds it again.
* *The clock of the browser* is ahead of the server's by `skew`, constant in a
  page. An ended session has an expiry in the past by a time the model does not
  keep; a browser that is behind may still find any part of its delay.
* *Terms* and their hash are the number of the edit they come from. `agreed`
  is a history variable: the text shown and the hash checked, for each session.
* *`hasty`* is a history variable: Reconnect was clicked while a connection was
  pending. `ran` records which sockets an example was sent to.
* *Faults.* The connection of a request is lost (`drop`), text arrives in other
  pieces than it was flushed in (`chunks`), a configuration does not parse
  (`config`), maintenance is switched (`maintenance`).

### The server's side of a console: `ConsoleRelay`

Characters are numbered as they are typed or printed. A pipe holds nothing, so a
write to one and the read that takes it are one step (`InToStdin`,
`StdoutToOut`). `wsWrapper.Read` is `NextMessage`, `ReadPiece` and `ReadFails`;
`wsWrapper.Write` is `OutSends`. The handler is `Exec`, `Wait`, `Checks` and
`Returns`. `err` is a state variable because the control handler assigns the same
variable (`ControlEnds`): between a call of the handler and its check of `err`
the control connection may close, and the handler then returns as after a
failure. A write to a browser that has gone may succeed once more, as it does
with TCP.

### Feedback and menus

`Feedback` has one process per submission: `Submit`, `Check` (the window), `Look`
(the SELECT of `dbRecordFeedback`), `Insert` or `Update`, `Mail`; `Lost` and
`DatabaseFails` are its failures. A row is named by the submission it holds. What
a submission holds is chosen at its mail, since nothing looks at it before: the
page sends a rating of 0 to 5 and a consent of 0 or 1, but the handler decodes any
integer, so both have any sign. A mail is sent unless both are 0 and there is no
message, and shows only what is positive (`SaysNothing`, `MailOf`); with a negative
number it may be empty, as in the code. `overlap` is a history variable.

`Navigation` has the two listeners of `navigation-2.js`, a script that no page of
the repository loads; what is shown of it holds of the script on its own. The
document (`parentNode`, `controls`) is chosen in `Init` and may be any in which all
menus are closed and every toggle has its dropdown, so toggles that share an item
or a dropdown are covered. A toggle whose `aria-controls` names no element, at
which the script throws, is not.

## Properties

Of the server, in `DemoServerProps` (`TypeOK` in `DemoServer`):

* `NoCreateDuringResync`: while a resync lists and deletes, nobody is inside
  `instanceCreate`.
* `ActiveKept`, `AllocatedKept`: every active row, every row of the pool, has
  somebody who will end it: its timer, the handler that claimed it and has not
  armed the timer yet, the recovery at startup, or it is `abandoned`. The
  snapshot semantics of the recovery, the claim, the callbacks' several steps and
  crashes all bear on this. Neither says that the instance of the row is there:
  the pool timer and the purge of the former pool may delete the instance of a row
  claimed meanwhile, which the model does as the code does.
* `TotalOvershoot`, `IPOvershoot`: sessions plus admitted handlers stay below
  the limit plus the number of handlers.
* `TimersNotEarly`: no session timer goes off before the expiry that the row of its
  session has, although two handlers may be given the same row, each with an
  expiry of its own, and each arms a timer only once the instance is up. This is
  said as long as the process lives. A recovery that reads the table between two
  claims of one row restores it with the expiry of the first, so the run that
  checks it has no crash.

Liveness: `ActiveExpires`, `StartAnswered`, `OrphansCollected`, `PoolRefilled`,
`FullClears`.

Refinement: `KeepsPromise`. With no pool the table, read through the mapping in
`DemoServerProps`, implements `SessionPromise` with its fairness: a session is
opened with a full life, ended only when nothing of it remains, and ended then.
The case worth noting is the session recorded between the setting of
`incusDaemon` and the read of the active rows: it is restored a second time, gets
two timers, and the promise still holds.

Of the page, in `TryItPage`:

* `SessionShown`: what is shown as a session is one the server has opened, and
  the address leads back to it.
* `SpinnerExcused`, `StartSettles`: the page stays at "Requesting a new instance"
  only when the request was lost or its last piece was not one document.
* `TermsNotNewer`: the handler reads the hash before the text and the reload writes
  the text before the hash; that order is what keeps a session from being
  recorded with terms newer than those its visitor saw. Swap the reads and it fails.
* `ClockWithinSkew`, `SessionLeft`: the page leaves its session, and when it does
  is right up to the browser's clock.

Of the consoles, in `Console`:

* `TypedOnce`, `OneTerminal`, `ConsoleOrButton`: hold as long as nobody clicks
  Reconnect while a connection is pending and no connection is refused, and the
  properties name these two causes.
* `ClosesOwn`, `CommandSeen`: hold whatever is clicked.

Of the relay: `InputInOrder`, `OutputInOrder` (all output is shown but at most
one read, if the handler saw no error and the browser is there),
`HandlerReturns`, `NothingLeft`. Of the feedback: `LastWriteRead`, `OneRow`
(nothing in the repository promises what a mail contains). Of the menus: `OneMenu`,
`ClickTurns`.

## Runs

The runs of `DemoServer` use one or two handlers and two instance names. Two
names are enough for a session next to a pooled or an orphaned instance, and for
the reuse of a name; two handlers are enough for a check to be stale, for a claim
to be raced and for an overshoot by one. Two handlers of one address compete for
the quota as well as for the total; that other addresses do not count is what
`IPBounded` proves for any number of them. That the hourly resync keeps out of
creations is `ResyncExcludesCreation`; in the runs it is at work in `direct`. A life of one tick distinguishes "not due" from "due",
which is all the code ever tests.

| Run | Config | Bounds | Asks |
|---|---|---|---|
| `pool` | `Pool.cfg` | 2 handlers of one address, 1 worker, pool of 1, limits 2 and 1, no faults, no hourly resync | overshoot of both limits, every row kept and no timer early, under all races of claim, timer and replacement |
| `faults` | `Faults.cfg` | 1 handler, 1 worker, pool of 1, the resync at startup, every kind of fault, one of them | types, lock, every row kept across each failure and a restart |
| `direct` | `Direct.cfg` | 1 handler, no pool, hourly resync; a creation, wait, start or deletion that fails, a crash; two of them | the refinement, and liveness across these faults |
| `pool_live` | `PoolLive.cfg` | 1 handler, 1 worker, pool of 1, limit 1, a failed creation | sessions end, requests are answered, the pool refills |
| `over_limit`, `stale_claim`, `eager_resync`, `lost_slot` | same names | smallest that show it | see [below](#disagreements-found) |
| `page` | `Page.cfg` | 1 session, life of 2, 4 addresses, clocks off by -1 to 1, limit 1, 3 consoles, 1 edit, 1 progress document, 1 reload, every fault | everything about the page and its consoles |
| `relay` | `Relay.cfg` | 2 characters typed in messages of 0 to 2, 3 printed, every fault | order, loss, return and leftovers of a console |
| `feedback` | `Feedback.cfg` | 3 submissions of any contents, lost requests, failed statements | the rows |
| `navigation` | `Navigation.cfg` | every document of 3 toggles, 3 items, 3 dropdowns | menus |

One session is enough for a page, which never refers to another: other visitors
matter through the limit and the table only, and `OtherOpens` is one of them
taking the room. Three consoles let a callback of the first meet the third, with
one in between. One edit gives two versions of the terms; one progress document
and the answer are the least that can be torn apart or run together; a reload
and the page's own return to its start give documents loaded at any moment. With
two characters and messages of up to two a message is empty, read whole or read
in two; three printed characters and reads of two let a second read wait behind
the first. Three submissions are the least for an update of two rows to overlap
with a third post. Symmetry is used over submissions; the runs of the page, the relay and the menus
use none.
`feedback` and `relay` do not check deadlock: submissions come to an end, and so
does a console.

Bounds: `MaxFaults` is the number of faults in a behaviour (a behaviour has one
crash, or one or two failures; more are repetitions from states already seen).
`MaxBacklog` keeps requests from arriving while that many replacement goroutines
wait to be scheduled; without it the pool's replacements are unbounded, as they
are in the code. `HoursPass` switches the hourly loop's wake-ups off where the
resync is not the question. The safety runs of `DemoServer` use symmetry over
instances, handlers and addresses, which the specification only compares for
equality; the liveness runs use none. The server never stops on its own, so its
runs check deadlock (time can always pass).

## Fairness

Of the server:

* `WF(Creation(g))`, `WF(Handler(r))`, `WF(RecordAllocated(g))`, `WF(Recovery)`,
  `WF(Resync(g))`: a goroutine that can run does; every call it makes returns.
  The calls to Incus that could hang are bounded by the polling loops of
  `instanceStart`.
* `SF(CreateInstance(g))`: a reader waiting at `muCreate` may find it closed again
  and again by resyncs. Go's `RWMutex.Unlock` releases the readers that are
  waiting before another writer can enter, so a creator is not overtaken for
  ever.
* `WF(\E w : WorkerStarts(w))`: a started goroutine is scheduled.
* `WF(\E t \in timers : t.inst = i /\ Timers(t))`: due callbacks of an instance run.
* `WF(IncusCreates(i))`: Incus completes or gives up on a creation.
* `WF(InfoDeletes(i))`: a handler of `/1.0/info` that has stopped an instance makes
  its next call.
* `WF(Tick)`: time passes.

Nothing is assumed of clients, of faults or of crashes.

Of the page: `WF(Handler)` (a handler that was called answers), `WF(TextArrives)`
(text that was flushed and not lost arrives), `WF(Callback)` (the browser runs
its callbacks and its interval), `WF(Rehash)` (a reload ends) and `WF(Tick)`.
Nothing is assumed of clicks, nor that a socket opens or closes.

Of the relay: each copying goroutine and the handler proceed when they can.
Nothing is assumed of the visitor or of the command, which may run for ever.

## Proofs

**`DemoServer`.** The constants are only assumed to be what `ConstantsAssumption` says: numbers are
naturals, the kinds of goroutine are disjoint, the sets of handlers, workers and
instances are finite, and there is at least one handler. Handlers, workers,
instances, addresses, limits, lives and faults are otherwise arbitrary; in
particular the bounds of the runs on faults and backlog are not assumed small.

| Theorem | States | Argument |
|---|---|---|
| `TypeCorrect` | `[]TypeOK` | `TypeInv` adds to the types that a goroutine at a call about an instance has one (`MyInv`), and that Boot creates only while `fill > 0` (`FillInv`); without these the table and `fill` would leave their types |
| `ResyncExcludesCreation` | `[]NoCreateDuringResync` | `LockInv`: the readers of the lock are exactly the goroutines inside `instanceCreate`, the writer is held or waiting exactly when a resync is, a held writer has no readers, and the hourly loop is off until Boot is past its own resync, so there is one writer at most |
| `ActiveAlwaysKept`, `AllocatedAlwaysKept` | `[]ActiveKept`, `[]AllocatedKept` | inductive together with `TypeInv` and `LockInv`; the latter because recovery and resync share `todo`: the snapshot that stands for rows not restored yet is safe only while the hourly loop is off |
| `PromiseKept` | `AllocateCount = 0 /\ Spec => Promise!Init /\ [][Promise!Next]_(Promise!promise)` | see below |
| `AlwaysDeletedOnTime` | `AllocateCount = 0 /\ Spec => DeletedOnTime`: nor is the instance of a session stopped or deleted early, by a callback or by the recovery | the same invariant |
| `TotalBounded`, `IPBounded` | `[]TotalOvershoot`, `[]IPOvershoot` | `OnlyHandlers`: every step but the two checks and the two writes of a handler leaves both counts as they are or smaller. A check admits a handler only below the limit; a write takes from the admitted what it adds to the sessions |
| `OneHandlerWithinTotal` | `[]WithinTotal` if there is one handler | from `TotalOvershoot`: what the run `over_limit` shows takes two handlers |

*The promise.* `PromiseKept` is the safety half of `KeepsPromise`: every step of
the server opens a session with a full life, closes one of which nothing is
left, forgets an ended one, lets time pass, or changes nothing that
`SessionPromise` speaks of. The case to settle is that several parties end a row,
each going by a time of its own: the session's callback by the timer, the
recovery by the expiry in its snapshot, and after a double restoration there are
two timers. The invariant has four parts. `NoPool`: with `AllocateCount = 0`
nothing of the pool is at work; `Blank`: no row is allocated, and a row that is
not there has no expiry. `Apart`: the name a handler has chosen and not recorded
has no row, and no other handler, no timer and no recovery knows it, so recording
it opens a session and no old timer shortens it. `Late`: whoever will end an
active row goes by a time not before the row's expiry. Steps that change none of
this are set apart once (`QuietOrLoud`, `Quiet`), so that the proof is about the
others. With a pool the refinement does not hold, as `stale_claim` shows: a claim
may revive a row another handler has claimed.

Each proof has one step per action. Lemmas about the table (`TableOps`,
`ActiveRows`, `AllocatedRows`, `AgedRows`) and about timers (`ArmedTimer`,
`AdvancedTimer`, `DroppedTimer`, `AgedTimers`) are stated once and cited.

**The page and its consoles.** `ConsolesAssumption` and `PageAssumption`: the
number of consoles and the life are naturals, skews are integers, and no session
is named like a refusal, a progress document or a slash, since its name is a
UUID. Sessions, edits, updates, reloads and faults are arbitrary.

| Theorem | States | Argument |
|---|---|---|
| `AlwaysClosesOwn`, `CommandAlwaysSeen`, `AlwaysTypedOnce`, `AlwaysOneTerminal`, `AlwaysConsoleOrButton` | of `ConsoleSpec`: `[]ClosesOwn`, `CommandSeen`, `[]TypedOnce`, `[]OneTerminal`, `[]ConsoleOrButton` | `ConsoleInv`: setups are numbered in order and nothing is beyond the current one (`InOrder`); unless the current socket has closed its terminal is on the page (`CurrentKept`); without a hasty click only the current socket is on its way or open, every socket is joined to its own terminal, and the earlier ones that opened are disposed of (`OwnKept`) |
| `PageRunsConsole`, `PageConsoles` | `Spec => ConsoleSpec`, and the above of the page | each step of the page is a step of `ConsoleNext` or leaves the console alone, so nothing about consoles is proved twice |
| `AlwaysSessionShown` | `[]SessionShown` | `ShownInv`, and `AddressInv`: while a session is shown the address is the one `ShowSession` gave it; `getUrlParameter` finds a session's name in that address (`QueryNames`), a name being no slash |
| `PageTypeCorrect` | `[]TypeOK` | one lemma for each group of variables |
| `TermsNeverNewer` | `[]TermsNotNewer` | `HashInv`: the hash in use is never newer than the terms in use; a hash that was read is not newer than the text that is read next, then than what is shown |
| `ClockAlwaysWithinSkew` | `[]ClockWithinSkew` | inductive with `ShownInv`: a session that is shown has been opened, because `DocsInv` lets a document name only opened sessions |
| `SpinnerAlwaysExcused` | `[]SpinnerExcused` | `SpinInv`, stated of the whole of `ajax` |

**The relay.** `RelayAssumption`: the bounds are naturals and the faults are of
the three kinds there are. The lengths of input and output, the size of a
message and of a read, and the messages on their way are otherwise arbitrary.

| Theorem | States | Argument |
|---|---|---|
| `TypeCorrect` | `[]TypeOK` | `TypeInv`: whatever is on its way is made of characters |
| `InputAlwaysInOrder` | `[]InputInOrder` | `InputCut`: as long as the command runs, the places that hold input, from what the command has to the last message waiting, are one run of characters cut at some points (`Run`, `Cut`, `Queued`); a copy moves a cut, a message read in pieces moves one inside it |
| `OutputAlwaysInOrder` | `[]OutputInOrder` | `OutputCut` is the same for the output while the websocket is open. `HandlerInv`: the pipes are closed only by the handler, and `stdout` ends with nothing left in it only when the command is over; so when the handler returns after `DataDone` all is fetched and past the pipe, and at most one read (`Pieces`) is still with the sender |

A run is stated by index, with no recursion, so that a move is an instance of two
lemmas: two runs that meet make one (`RunConcat`), a run can be cut anywhere
(`RunSplit`).

**Feedback and menus.** Nothing is assumed.

| Theorem | States | Argument |
|---|---|---|
| `LastWriteAlwaysRead`, `SecondRowNeedsOverlap` | `[]LastWriteRead`, `[]OneRow` | `Alone`: without an overlap an inserter is the only one and there is no row yet. An update writes all rows, an insertion the last, so the last is the latest |
| `OneMenuAlways`, `EveryClickTurns` | `OneMenu`, `ClickTurns` | closing everything closes what `OneMenu` allows to be open; a click opens one thing or nothing |
| `TypeCorrect` of each | `[]TypeOK` | part of the above |

So every invariant and every action property of the passing runs is a theorem but
one: `TimersNotEarly` is only model-checked. It does not hold of every behaviour of
the specification, which may crash, and its run has no crash. The rest of what is
only model-checked is liveness (`ActiveExpires`, `StartAnswered`, `OrphansCollected`, `PoolRefilled`, `FullClears`,
`StartSettles`, `SessionLeft`, `HandlerReturns`, `NothingLeft`) and the fairness of
`SessionPromise` in `KeepsPromise`. The prover has no rule for fairness and
ENABLED.

## Disagreements found

Four runs show something that a page or a comment of the repository says and the
code does not keep.

* `over_limit`: two handlers pass the check of the total before either records
  its session; the page then announces more sessions than its maximum. How far
  this goes is what `TotalBounded` proves.
* `stale_claim`: the UPDATE of `dbGetAllocated` names the row by id only; the row
  may have been claimed by another handler or deleted by the pool timer since the
  SELECT.
* `eager_resync`: `muCreate` is released before the caller records the instance,
  so a resync in between deletes an instance that is about to become a session.
* `lost_slot`: a claimed instance that fails to start leaves an active row that
  no timer ends. At the limit, the server stays full until it is restarted.

## What the model leaves out

* Resources, profiles, passwords, addresses and the ready command of an instance:
  they decide only whether `instanceStart` succeeds, which is a fault here.
* `UseProject` at connection time: which project an early request uses.
* Columns no modelled statement tests, and the rows of ended sessions.
* The statistics: a read-only query over those rows.
* The TLS proxy: two calls of `io.Copy`; what the half-closes do is decided in the
  TLS library.
* Of the configuration: which events of the watcher reload it, keys that keep
  their old value because the new file lacks them, and a string read while it is
  written. The unsynchronised reads and writes of `config` are modelled as whole
  values in any order.
* Of the console handler: it goes on after a width or height that is no number,
  with a refusal already written. The page never sends one.
* Of the page: functions nothing calls (`tryit.js:93-123`), a checkbox the page
  does not have (243-250), a branch that cannot be taken (205-211), wording of
  status and progress, the styling of code blocks and of panels (129-142,
  335-346), and the Back button, which changes the address without loading it.
* A lost feedback is in `Feedback` (`Lost`); that the page thanks for it all the
  same (`tryit.js:365`) is not a property, since the page promises nothing.
* The display of the clock: minutes and seconds are shown by their last two digits
  (`tryit.js:58`), so it is wrong from 100 minutes on. The model keeps the time.
* `xterm` and its add-ons, minified third-party code: what the page uses of them is
  in `Console`.

## Plan

Done: the server (`DemoServer` and its proofs), the page, its consoles, the relay,
the feedback, the menus. Left, in order of what they add:

1. Proofs: `HandlerReturns` and `NothingLeft` have safety cores (who can be
   stuck at which pipe) that an invariant may state; how far the pool may grow,
   once a property states it; `TimersNotEarly` of the behaviours without a crash.
2. `DemoServer`: the size of the pool (replacements made twice, pools that shrink
   after a failed insert), the hourly loop that never starts after an error of
   the first resync, the session lost to the pool timer.
3. `Configuration` as a module of its own: keys that keep their old value, refusal
   after a partial change, and the watcher.
4. `Proxy`, and the statistics once the table keeps its ended rows.
