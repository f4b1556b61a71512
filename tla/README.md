# A verification development of KLayout with the CORE streamer

The repository is the KLayout source tree (`src/klayout-src`) with a plugin of
its own that reads and writes `.core` layout files (`src/integrations/klayout`).
This directory models the parts of both whose correctness depends on the order
of things: threads, callbacks, exceptions in the middle, undo, and a format that
holds less than the database does. In the paths below, `tl/`, `db/` and
`laybasic/` are directories of `src/klayout-src/src`, `mcore/` is
`src/integrations/klayout/mcore`.

Contents: 1 the system, 2 the plan, 3 the modules, 4 the runs and what they show,
5 fairness, 6 what is proved, 7 what is only model-checked or not modelled,
8 disagreements between code and documentation.

## 1 The system

| Component | State | Operations | Talks to | What is hard | Correct if |
|---|---|---|---|---|---|
| **Worker pool** `tl/tl/tlThreadedWorkers.*`, `tlThreads.*` | task list, a list per worker, idle count, running and stopping flags, stop request of each worker | schedule, start, wait, stop, terminate, set_num_workers; get_task, perform_task | redraw threads, tiling processor, hierarchical processors | threads; woken is not yet running; three implementations of the condition variable; tasks that schedule tasks, throw, or are stopped | no task is lost or done twice, a run ends exactly when nothing is left, every call returns |
| **CORE streamer** `mcore/db_plugin/core{Writer,Reader}.cc` | the layout, the file, name and layer maps of a read | write, do_read | db::Layout, CommonDB, property bridge | a read that fails in the middle; reading into a layout that has content; names, layers, shapes and values the format cannot hold | what was saved comes back but for what the format has no place for, what was there stays, a second round changes nothing more but for polygons left without points |
| **Property bridge** `mcore/db_plugin/propertyBridge.cc` | none | the two conversions | streamer | three conventions of typed values on top of each other | the conversions settle |
| **Deferred calls** `tl/tl/tlDeferredExecution*` | the queue, the round in execution, cancelled methods, a flag per method, the posted event, a timer | schedule, cancel, enable, execute, do_execute | Qt event loop, every view and browser | other threads schedule; methods nest rounds, cancel each other, throw; regions that disable them | each request costs one call, none is lost, none comes after cancel |
| **Undo/redo** `db/db/dbManager.*`, `dbShapes*` | list of transactions of operations, position, open flag; layers owned by container or operation | transaction, commit, cancel, undo, redo, clear; queue | cells, layouts, shapes, rulers, images | ownership moves with every replay; merged operations; joined, cancelled and interrupted transactions | undo and redo lead to the state of their place, nothing is leaked or used after it was deleted |
| **Redraw** `laybasic/laybasic/layRedrawThread*`, `layLayoutCanvas.*` | requests, viewport and layers of the canvas; image cache; valid region, layers drawn, first-wait flag, sentinel; bitmaps | redraw all, some or after a change of visibility; paint, start, restart, commit, stop, end of drawing | worker pool, layout events, deferred calls, event loop | a drawing is stopped at any point and its picture used for the next; a paint inside of a paint; exceptions of `update ()`; the end of drawing against the first wait and against the next paint | what is asked for gets drawn, what is kept is complete, the wait for the drawing ends |
| **Library registry** `db/db/dbLibraryManager.*`, `dbLibrary.*`, proxies | libraries by id and by name, counts of proxies, cold proxies; proxies in layouts and in their history | register, unregister, delete, rename, refresh; change of technology; create, delete, undo in the layout | layouts, technologies, undo | several libraries of one name; libraries that go and return; proxies that only the history has; ids used again | a registered library is found, a reference stays with its cell or is cold and returns, the counts are exact |
| Layout update `db/db/dbLayout.cc`, `dbLayoutStateModel.*` | dirty flags, construction depth, cells, layers | update, start/end changes, cell and layer edits | views, shapes, instances | updates inside of updates | what is read is up to date |
| Objects and events `tl/tl/tlObject.*`, `tlEvents*` | list of pointers of each object, receivers | reset, keep, add, remove, call | everything | receivers that go away during a call; several threads | deleted with its last owner, once |

The other components — geometry engines, parsers of other formats, streams, the
user interface, script bindings — are listed in `PROJECT.json` with the reason
why they are not modelled: they are pure computations, input and output, or
generated code. `PROJECT.json` also lists the hazards, each at its line, with the
properties that would catch it.

The components meet at few places. The pool calls back into its user
(`create_worker`, `setup_worker`, `finished`, `stopped`); redraw threads put
events into the main loop, where deferred methods are called; a layout event stops
the redraw threads; undo replays operations on shapes and cells; the streamer
writes into a layout without undo.

## 2 The plan

Done, in this order: the pool with its contract and proofs, the streamer
with the property bridge, deferred calls, undo, redraw, libraries; then the proofs about
deferred calls, redraw and libraries, and those about undo and the streamer.
What would follow:

1. Models: `UndoManager` with object ids (attach, release, `object_by_id`) and a second
   shape type; parameterised cells in `LibraryRegistry`; `Layout` update.
2. Proofs about those, and about liveness once the prover has fairness (section 7).

The runs are kept few. A new one takes the place of one that asks less.

## 3 The modules

**`ThreadedWorkers`** models `JobBase`, `Worker` and `TaskList` with one
controller thread, up to `MaxWorkers` worker threads and the synchronous mode
(no worker). Each section under `m_lock` is one action; a wait on a condition ends
its action, and the code behind it is an action of its own that runs when the
thread has the lock again. What the code reads without the lock is read in a step
of its own (`StopCall` for `m_running`, `Abort` for the stop request). `build`
is the build, one of `Builds`, fixed during a behaviour: `QWaitCondition`, pthread
conditions (which may wake up spuriously: `SpuriousWorker`, `SpuriousController`;
`WaitMeansDone`, `StopQuiesces` and `AbortOnlyWhenStopping` leave this build out,
see section 8), or the atomic flag of the C++20 build, which all waiters share and each new waiter clears (`RaiseFlag`,
`SeeFlag`). `outcome` and `finishedCalls` are history.

**`JobContract`** is what the pool promises: a queue, servers that take from its
head, each task once, and an announcement of the end that comes only when nothing
waits and nobody works. `ThreadedWorkers` implements it with the task list as
queue and `current` as the servers' slots.

**`ThreadedWorkersProofs`** holds the theorems about the pool: of its tasks and its
contract, and of waiting, stopping and terminating (section 6).

**`CoreStreamer`** models `Writer::write` as one step (the file is put out at
the end) and `Reader::do_read` as one step per iteration of its loops, because each
can throw and what was inserted stays. A layout is its unit, library name,
properties, layers and cells; of a shape only the kind matters that writer and reader
tell apart (`Visited`, `Written`, `WrittenAs`, `ReadAs`, `Overflows`): boxes, empty or not,
polygons, with holes, thin ones or without points, paths, with extensions or without points,
texts, rotated or not, edges. What has no points is not written, nor is a cell without a
name or an instance of one (`Named`, `ElementsWritten`). A thin polygon is one that the database
holds raw and of which `assign_hull` leaves no point, such as one of two points: it is written, opening
makes it a polygon without points, and the next save drops it. The unit is in parts of a micron
(`Precision`), and both divisions by it are rounded (`Reciprocal`). Layer numbers are cut to 16
bits, `uniquify_cell_name` is its bisection over `SuffixBits` bits, a ghost cell is
taken over as `add_cell` does. `file`, `rd` and `mem` are what the code has;
`saved`, `before` and `rounds` are history. CommonDB (`findOrAddViewLayer`,
`resolveViewLayers`, `gds_prop`) is not in the repository and modelled from its use.

**`PropertyBridge`** has the two conversions as operators. A text is its type
prefixes and the rest, a number keeps its 16 bits where the code cuts it.

**`MCCoreStreamer`** gives the layouts and files. **`CoreStreamerProofs`** holds the
theorems about a read, **`CoreStreamerRoundProofs`** those about saving and loading.

**`DeferredExecution`** models the scheduler with the Qt event loop. `stack` is
the stack of `do_execute` activations of the main thread; a method called may
deliver events or call `execute ()`, which starts another activation. Each section
under the scheduler's lock is one action; `Run` is the reset of the flag, outside
of the lock, with the call it precedes. `asked` counts the calls a method is owed,
`spoiled` the methods that lost a call to a nested round, an exception or a cancel. What
a round has yet to call is counted from its position (`NextPos`, `Left`).
**`DeferredExecutionProofs`** holds the theorems about it.

**`NumberInduction`** has induction on the natural numbers with a set in place of the
predicate. With it recursive functions can be reasoned about, such as the one that erases
a method from the queue (`Without`) or `Part` of **`Subsequences`**, which erases all but
some positions of a sequence (the entries of the image cache that are dropped, the
layers that are written and the shapes on one of them).

**`UndoManager`** models `db::Manager` with `layer_op` and `FullLayerOp` of
`db::Shapes`. A container has one layer object or none; `heap` says which, which
objects are alive and what is in them, so that deletion, reuse of an address and
ownership (`owns` of an operation) are visible. Transactions carry their address,
by which `join_with` finds them. A replay is one step, or is interrupted after any
number of operations (the break of the progress reporter, or an assertion).

**`UndoHistory`** is what undo promises: states of the document, a position and at
most one change in the making. `UndoManager` implements it with the contents of
the containers as document.

**`RedrawThread`** models one view: the requests of `LayoutCanvas` and its image
cache, `prepare_drawing`, `RedrawThread::start`, `restart`, `commit` and `do_start`,
and the job, with one drawing worker or none, as `JobContract` allows it. The plane
is one-dimensional; of a bitmap the model keeps, for each cell, whether it is
blank, good or stale, since drawing adds to what is there: only a blank cell can
become good, a stale one needs to be cleared first. `pc` is the place of the main
thread in `do_start`: `updating` is `Layout::update` with its progress, where paints
and resizes get through but user input does not; then the start of the job, and the
first wait. `StopOutcomes` is `JobBase::stop`, after which the task under way is
aborted or done. `PrepareFails` is an assertion of `prepare`: the exception leaves the
sentinel set and the mutex of the canvas locked (`Stuck`), so that the next paint that has
something to draw is turned away by the sentinel and then waits for the mutex its own thread
holds (`pc` is `hung`). `missed`, `shown`, `halted` and `nested` are history, they hold the
requests that the code gives up (section 8). **`RedrawThreadProofs`** holds the theorems
about it.

**`LibraryRegistry`** models `LibraryManager`, `Library`, `LibraryProxy`,
`ColdProxy` and what `Layout` and its `NewRemoveCellOp` do with proxies, for one
layout. Each public call is one step: all of it runs in the main thread. The
helpers take the registry `g` in the course of a call and return the next one, in
the order of the code (`Deleted` is `Buried` after `Unregistered`, which is
`RemappedTo` first). What a library that is not registered is made of is said when
it is registered: until then a script may change it at will. `reg` has ids, names,
libraries with their counts and the proxies of the layout; `op` is the one operation
of the history. Where the code goes through the cells of a layout, a fold does
(`ResolvedAll`, `WarmedAll`), since each step changes the counts that the next one finds.
`Reregister` is `register_lib` of the scripts for a library that is registered: it gets the new
name, the manager turns it away, and the name table keeps the old one. From then on
`Unregister`, `Delete`, `Rename` and `Refresh` take the wrong name off the table, and the entry may be
left without a library (`Dangling`), or with the next one that gets the id. `meant`, `outlived`,
`overlooked` and `misnamed` (the ids in such entries) are history. **`LibraryRegistryProofs`** holds the
theorems about it. **`MCLibraryRegistry`** gives the library
cells and the symmetry: libraries, names and cell indices are interchangeable,
library cells are not (their order is their index).

## 4 The runs

| Run | Question | Bounds |
|---|---|---|
| `pool` | safety, contract and liveness of the pool in every interleaving of schedule, start, timed wait, stop, terminate and resize, in each build of the wait condition | 2 workers: one late or two waiters on one flag; 2 tasks, 2 pending StartTasks, 2 starts; errors are counted up to the limit, here the first one (`MaxErrors` = 0) |
| `core` | save, load and save again, and reads, twice and failing anywhere, into layouts with clashing names: `RoundTripExact`, `NothingMoved`, `SecondRoundExact`, `PropertiesSettle`, `OthersUntouched`, `ReadSoFar` | three cells in a diamond, layers distinct, equal, beyond 16 bits, unnumbered; nameless cells that are called, thin polygons, polygons and paths without points, units that survive the divisions and some that do not; every kind of shape, value and name that the modules have; every clash that `add_cell` distinguishes, `SuffixBits` = 2 (three clashes) |
| `core_unreadable` | see section 8 | one save and one read |
| `deferred_calls` | `PendingOnce`, `EventComes`, `NoUnaskedCall`, `CallsKept`, `Served` | two compressed methods and another, a round in a round, 6 calls |
| `deferred_cancel` | see section 8 | two methods, 4 calls |
| `undo_redo` | `DoneInOrder`, `LayersOwnedOnce`, `ImplementsUndoHistory` | two containers, 3 transactions of 4 changes, one clear at a time in the history (two is section 8) |
| `undo_clear_twice` | see section 8 | one container, two clears |
| `redraw` | `PictureComplete`, `ValidMeansDrawn`, `MarkedMeansDrawn`, `CachedMeansComplete`, `ComesToRest` | one layer and the decorations, three positions and two sizes (shifts with and without overlap, both with and without a hit in the cache), a cache of one picture, 3 requests: one interrupted by a second while a third changes what the picture is for |
| `redraw_requests` | see section 8 | the same |
| `library` | `NamesMatchRegistry`, `ReferencesKeepTheirCell`, `CountsExact`, `ColdOnlyIfUnserved` | two libraries, names and cell indices, one technology or none, two contents that move a cell to another index and lose one, one library registered again by another name at a time (`MaxMisnamed`), then without a history (`MisnamedWithHistory`); behaviours of any length |
| `library_lookup`, `library_retired` | see section 8 | the same; a retired count up to 1 |

Each bound lets the interesting case happen and no more: the defects put into the
models to try the properties (the definitions marked `a fault`) are all found
within them. `MaxStart`, `MaxTasks`, `MaxCalls`, `MaxTransactions`, `MaxEdits`,
`MaxSaves`, `MaxReads` and `MaxRequests` bound the length of a behaviour; `MaxWorkers`,
`MaxErrors`, `SuffixBits`, `MaxIds`, `MaxLayers` and `MaxRetired` bound data. `MaxLayers` is
large enough that a new layer always finds an address nothing refers to
(`RoomAssumption`: there are not more of them than containers and changes); that an
address may be reused while an operation still has it is left out, because a layer
that an operation refers to is alive (`LayersOwnedOnce`).
In `LibraryRegistry` nothing bounds the number of calls; the operations of the
history are one at a time. `MaxMisnamed` and `MisnamedWithHistory` keep the run within its time; the
proofs are for any value of them. Deadlock is checked for the pool. The other
configurations switch it off: a program that has made the calls the bounds allow
and makes no more may stop, behaviours of `LibraryRegistry` end where `outlived`
becomes true or the name table has an id without a library, which the code would follow to a
null pointer, and those of `RedrawThread` where the main thread hangs after a failed assertion.

Beyond the listed runs, these instances were checked without an error: the pool with
3 tasks, and with 3 workers in the Qt build; `redraw` with 4 requests, and with two
layers and a cache of two pictures; `library` with three libraries
under one name, and with two technologies, each with one cell index.

What the passing runs show:

- *Pool.* `m_idle_workers` is exact although woken workers count as idle
  (`IdleCountExact`), so that the comparison with `m_nworkers` never ends a run
  with tasks left (`ImplementsContract`); what `stop ()` sees when it goes on
  (`StopQuiesces`); a stop request does not survive into the next run
  (`AbortOnlyWhenStopping`); a thread leaves no ExitTask for its successor
  (`ExitIsLast`).
- *Streamer.* Whatever the format can hold comes back (`RoundTripExact`), and no shape changes
  cell or layer except by the 16-bit cut of its layer number (`NothingMoved`). Lost are cells
  without a name and the instances of them, edges, polygons and paths without points, and what is on
  layers without numbers. A second round loses only the polygons that the first one left
  without points (`SecondRoundExact`). A read into existing content leaves that
  content alone, even if it fails (`OthersUntouched`), and does to the cells of
  the file what it would do in an empty layout (`ReadSoFar`).
- *Deferred calls.* A burst of requests costs one call, a queued call always has
  an event, a timer or a running `do_execute` to serve it, and calls are lost
  only in the three ways `spoiled` names.
- *Undo.* With at most one clear in the history, undo, redo and cancel always
  reach the recorded state, and an interrupted one leaves no history.
- *Redraw.* However requests interrupt each other, what `stopped ()` keeps as valid,
  what a task marks as drawn and what the cache closes is complete, so that at rest
  every visible layer is (`PictureComplete`), with the exceptions that `missed`
  names. The main thread never hangs in the first wait: the flag is set and tested
  under the lock, and the end of drawing resets it also if it comes first. Nor does a
  nested paint make it hang (`ComesToRest`). An assertion of `prepare` does, at the next
  paint; the properties except what comes after it.
- *Libraries.* Through all replacements a proxy is for the cell it was made for, or
  cold and named after it; both counts of a library follow; a cold proxy returns
  with the first call that can restore it. All as long as no operation of the
  history outlives its library cell. An entry of the name table leads to a registered library of that
  name, except for those of libraries that were registered again by another name.

## 5 Fairness

The liveness properties assume: the operating system runs a worker thread that can
run and a task ends or is aborted at a checkpoint (`WF` of `WorkerStep`); the
controller goes on with the call it is in (`ControllerStep`); the event loop
delivers events and time-outs, `do_execute` goes on, a method returns, and a region
with deferred calls disabled ends (`Deliver`, `Execution`, `Return`, `Enable`; the
last is a scope guard or paired calls in the code). Nobody is assumed to make a call.
For redraw: the main thread goes on, with paints and deferred calls (`MainThread`),
and the worker goes on (`Worker`); a snapshot, a nested paint or a request need
never come. The registry has no liveness property, its calls are steps.
All of it is weak fairness: none of these actions is switched off by others while
its thread can run.

## 6 What is proved

**The pool**, for every number of workers, tasks and pending StartTasks, and for each
build of the wait condition, from `WorkersAssumption`, `BoundsAssumption` and
`BuildsAssumption` alone (`ThreadedWorkersProofs`):

- `TypeCorrect`, `IdleCountCorrect`: `TypeOK` is not inductive by itself, since
  `m_idle_workers` stays in its range only because it counts threads. The two are
  proved together: fetching takes the woken worker out of `Idle` and one from the
  count (`FetchCounts`), a wake-up changes neither (`WakingKeepsIdle`), and the
  controller resets the count only when no thread is left.
- `NoTaskLost`: the invariant is `PoolInv`, which adds `WorkersFit` (a worker has a
  task exactly in perform_task). `StepIsMove` reduces every step to one of a few
  moves of a task — accepted, refused, taken, ended, discarded — and
  `ConservedStep` shows that each keeps `TasksConserved`.
- `PoolImplementsContract`: initial states map to initial states, a move maps to a
  step of `JobContract` (`MoveImplements`), and an announcement is made when
  `Idle` with the announcing worker is the set of all workers, hence nobody
  performs (`AllIdleIsQuiet`); this is where the exact count is needed.
- `ThreadsFit`: the part `WorkersFit` of `PoolInv` on its own, which says that
  the threads that exist and their states and lists fit together, and that none outlives
  `terminate ()`. `PoolStep` is the one step lemma that it shares with the others.
- `WaitReturnsWhenDone`, `StopIsEffective`, `NoLateAbort`, `EndedThreadsLeaveNothing`:
  what `wait ()`, `stop ()` and `terminate ()` may rely on. The invariant is `EndInv`:
  `ExitInv` (an ExitTask is only in a list while its thread is asked to exit, and the
  last thing in it), `StoppingWhileWaiting` and `RequestedAsleep` (whom `stop ()` has
  asked and not yet seen), and `AwakeMeansOver` (a controller that was woken finds the
  run over). The last one needs the Qt build or the flag: with spurious wake-ups the
  three properties are false, which is why they leave that build out.

**Deferred calls**, for every set of methods, with or without exceptions, and any bounds
on calls and nesting (`DeferredExecutionProofs`):

- `TypeCorrect`, `CompressionWorks`, `CallsAreAsked`, `CallsAreKept`: `PendingOnce`,
  `NoUnaskedCall` and `CallsKept` hold together or not at all, since each of them says in
  another way how often a method is in the queue. The invariant is `DeferredInv`: the flag
  of a compressed method is set exactly while one call of it is to come (`FlagInv`),
  rounds are properly nested, only the outermost knows the whole queue (`Nested`), and
  the position of a round is in the queue that it took (`InRound`).
- `QueuedCallsCome`: `EventComes`, from `EventInv`, which says when an event is posted
  and not yet delivered, also while deferred calls are disabled.

**Redraw**, for every number of layers and positions, every set of sizes, every size of
the cache and any number of requests, from `RedrawAssumption` (`RedrawThreadProofs`):
`TypeCorrect`, `MarkedIsDrawn`, `ValidIsDrawn`, `CachedIsComplete`, `PictureIsComplete`.
None of the four is inductive: a cache entry is complete because the picture was when it
was closed, the picture because of the marks and tasks, the marks because of where the
picture is. They follow from one invariant, `DrawingInv`, which TLC checked before on the
instance of the run and on one with two layers and two cache entries. Its parts:

- `ControlInv`: which requests may be pending at which point of `do_start`
  (`PhaseInv`, `RequestInv`, `CallInv`), that what is drawn is the view of the canvas
  unless a change waits to be painted (`ViewInv`), that an open cache entry is the last
  one and for the present view, so that a hit leaves none open (`OpenInv`), and that an
  end-of-drawing call which finds an open entry is that of the drawing the entry is for
  (`FinishedInv`, which holds since a paint takes back the pending call).
- `Doubtful`, the entries nothing is said of at a point of `do_start`: those missed or
  asked for in the event loop, those `restart` was called with before the planes are
  cleared, all of them while new bitmaps are to come, a deferred redraw is pending, or
  an assertion of `prepare` has left the sentinel set and the mutex locked (`Stuck`). Of the others `Kept` says that they hold
  nothing old, that the marked ones have no blank cell, and the shown ones none in
  the valid region.
- `PlaceInv`: before the planes are moved they are behind by as much as `do_start` was
  told, so that a shift keeps each cell where it is (`ShiftedPicture`); `TaskInv`: every
  blank cell of what is shown is in what its task will draw, so that the end of a job means
  that nothing is blank (`RestInv`) and a stop at any point leaves a correct picture
  (`StopKeeps`).
- `ImageInv`: the closed entries are complete.

Each action has its lemma (`EditStep` to `FinishedStep`); `DrawingStep` puts them
together. Pictures are dealt with in five lemmas (`BlankPicture`, `DrawnPicture`,
`OutdatedPicture`, `ClearedPicture`, `ShiftedPicture`), the cache in four
(`DiscardOpenEffect`, `NewCacheEffect`, `MovedEffect`, `EndEffect`).

**Libraries**, for any libraries, names, technologies and contents, from
`ConstantsAssumption`: there are finitely many library cells and cells of the layout, a
library has a cell once, and `None` is none of the names (`LibraryRegistryProofs`):
`TypeCorrect`, `NameTableCorrect`, `ReferencesCorrect`, `CountsCorrect`,
`ColdProxiesReturn`. The first four need each other: the
counts decide whether `remap_to` looks into the layout at all, so a reference would be
left behind if they were not exact; `Less` stops at zero, so they are exact only if
nothing is given back twice; and the name table is followed without a check. What a library
that is registered again under another name leaves in the table is excepted by its id
(`misnamed`), which must stay excepted as long as the entry is there, whoever gets the id. The
invariant `IInv` has, while the history has not outlived a library cell, two parts, which
TLC checked before in every state of the run:

- `CallInv`, which holds of the registry also in the course of a call: a library has
  one id (`LibsOK`), the name table has the ids of the libraries of its name
  (`NamesOK`), every reference means what it was made for (`Refs`), and the counts are
  those of `who`, which says for each cell whose proxy it is counted as (`Exact`). Who
  is counted is not quite what is in the layout, since `remap` counts a proxy before it
  is placed, and a replaced one is uncounted before it is gone; `Match` is where the two meet.
- `OpOK`: what the operation of the history keeps, and in which of its two states.

Each helper of the model has a lemma that says what it does to a registry with `CallInv`.
`Keeps` is the contract of those that leave all libraries where they are, `Follows` of
those that may delete one, as registering a library in the place of another does.
`ResolvedAllIs` and `WarmedAllIs` go through the folds by induction over the cells
already done. Each action has its lemma (`RegisterKeeps` to `ForgetKeeps`), built on one
for the calls of the library manager (`RegistryKeeps`) and one for those of the layout
(`LayoutKeeps`).

`ColdProxiesReturn` is about what a call does *not* do. `Touches` says that a helper
leaves the lookups and the cold proxies of all names but one as they are, so that only
those of the name in hand could newly be in want of a restoration (`TouchedSettles`).
When a library goes, its name is off the table and nothing of that name is found
(`ErasedSettles`); when one comes, or the technology changes, a restoration leaves none
that could return (`RestoredSettles`); calls of the layout make no proxy cold
(`LeavesCold`). What `rename` leaves cold under its two names, and undo puts back, is in
`overlooked`, with what a misnamed library leaves: it makes proxies cold under its own name while
the lookup knows it by the other. That is all the theorem leaves out.

**Undo**, for any containers, shapes and bounds on the calls, from `BoundsAssumption` and
`RoomAssumption` (`UndoManagerProofs`): `TypeCorrect`, `DoneCorrect`, `AssertionsHold`,
and, for histories with at most one clear (`MaxClears <= 1`), `LayersOwned`,
`ReplayCorrect` and `HistoryKept`. The condition is not for the proof's sake: with two
clears undo does not reach the recorded state (run `undo_clear_twice`), and layers are
owned twice.

`DoneInOrder` is not inductive, as the open transaction must be the last one, and what
lies behind m_current must be cut when a transaction begins. `IInv` says both:
`OpenLists` (an open transaction is the last, and everything is done) or `ClosedLists`
(what is in front of m_current is done, the rest is not), both by `Lists`, which three
lemmas keep for the three things that happen to the list (`CutList`, `LongerList`,
`ChangedList`). A replay is a fold over an order that undo and redo choose;
`ReplayedOps` shows by induction over the operations done so far that each has its turn
and keeps its new state, `OrderIs` that no operation is left out. A merged operation
(`QueuedOrAppended`) stays done. That the assertions on `is_done` never fail follows
(`AllInState`): what is modelled as their exception is reached by the progress only.

The layers need to be followed through a replay, operation by operation, and by their place
in all lists at once (`View`). `LInv` adds to `IInv` that nothing leaks (`Kept`), and with
at most one clear `Good`: a copy is of the layer that the clear after it takes, a layer is
owned by the operation that has taken it out, and the others are found in their container
when their turn comes (`Awaits`). The last is what a second clear breaks: its layer is
made by the copy of the first one's, and an undo leaves it where the first one's should
be. The address of a new layer is one that nobody refers to (`FewerThan` counts
them). `LayersOwnedOnce` and the layers' part of `TypeOK` follow; the rest of `TypeOK` adds
the recorded documents (`SInv`).

For the refinement the history of documents has one for each transaction, but a replay goes
from operation to operation. `Told` says that there is a document for every place between
two operations, such that each operation leads from one to the next (`Chain`), what it owns
has the contents it will be put back with (`Stashed`), the transactions begin and end with
those recorded (`Ends`), and the contents of the containers are the document of the place
where the history is (`AtPlace`). Each change, each operation of a replay and each cut
keeps this (`DInv`); `ReplayCorrect` reads it at the end of a replay, and `HistoryKept` maps
each step to one of `UndoHistory` or a stutter.

**The streamer**, for any layouts and files to start with, any names, options and
bounds, from `StartsAssumption` (what is in a start is typed and its indices fit) and
`BoundsAssumption`: `ReadLeavesOthers`, `TypeCorrect`, `ReadExact` (`CoreStreamerProofs`),
`RoundTripHolds`, `NothingMovedHolds`, `SecondRoundHolds` and `PropertiesSettleHolds`
(`CoreStreamerRoundProofs`).

`ReadLeavesOthers` is `OthersUntouched`. A read is up to its last step in danger
of writing to the wrong cell, since it finds its cells by name in a layout that has
names of its own. The invariant `IInv` says that each name of the file stands for a cell
that is `Free`: new, or a ghost cell without content before the read (`NamesFree`), that
while cells are added no old cell has changed and no new one is a ghost cell (`AddInv`,
without which a new cell might be taken for one to take over), and that every cell of
the file has its name in the table when its content is read (`CellInv`). Whatever a step
writes is then a growth of the tables and a change of one free cell (`Reads`,
`TargetChanged`), which leaves the others (`UntouchedGrows`). Nothing is assumed of the
order or the number of failures, nor of how clashing names are made unique.

The others need that two names of the file never stand for the same cell, and that is
so only as long as `uniquify_cell_name` finds a free number. It tries one for each of its bits,
and if all are taken it uses the last one as it is: with 2 bits, A next to A, A$2 and A$3 becomes
A$4, and so does the next A. `NumbersLeft` says that this last name is free when a cell is
to be added; the theorems are of the behaviours where it always is. It holds in every
state of the run `core`; with one more read it does not, and cell names are indeed no
longer unique. The code has 31 bits there, so that it takes cells with 31 certain
numbers to their name. Under it the name found is none of the layout's (`WithNumber` is followed
through the bisection), `ReadInv` is inductive: names of the file are mapped to different
cells, which are empty while cells are added; `Progress` says that those passed have all
that the file has and those to come nothing, `InHand` what is in the one in hand
(`HasUpto`, its shapes up to the number that `k` has come to). The written layers and shapes
are subsequences, put together by a fold (`Flat`), of which the lemmas give the length and
the entries.

The round trip says what `ReadExact` says, but of a layout and not of a file: where do the
shapes and instances of the layout that was saved come back? `RoundInv` adds three parts.
`TypeInv` has the kinds, layer numbers and places of what is in the layout and the file.
`FreshInv` says that in a new layout there is nothing but what the file has: cells keep the
names and places they have in the file, so that no name had to be made unique, and header
and database unit are the file's. `SavedInv` says that a file of ours is `FileOf(saved)`, and
that a layout saved after a round is one that the reader has made (`Loaded`: layer numbers
of 16 bits, the kinds of shapes and the rotations that the format has, no property without
a name). When the read is over, the two layouts are `Mirrors` of each other
(`CellsComeBack`): shape k of a cell is shape k of those the writer has put into the file, layer by layer,
and the instances are the elements of the arrays of cells with names, one by one. The three theorems are then about two lists with the same
entries in another order: `NothingMoved` counts them by layer and place, `RoundTripExact`
needs each property and kind to be one that the format holds (`ExactCell`), `SecondRoundExact`
needs the same of what the reader made, of which the polygons left without points
are not written. That the unit comes back is a condition of the one (`Representable`) and of the
part of the other that is about it (`UnitKept`), since the two divisions are rounded.

`PropertiesSettleHolds` follows one property through two rounds. `Once` lists what the first
round can make of it: a number under a GDS attribute of 16 bits, a text with a prefix less
under one, or a text under a name that is no attribute (`FirstRound`); the second round makes
of any of those one that stays as it is (`SecondRound`). `SettleInv` carries this through
the file, which has what the layout had when it was saved (`WrittenHolds`), and through a
read that may stop anywhere (`ReadStepHolds`). It is about values of at most two type
prefixes, as `PropertiesSettle` is; `TwoPrefixes` says so of the layouts and files to start
with. It is part of the statement and not an assumption of the model, since a layout may
well have longer texts; TLC evaluates it for the instance of the runs (`PrefixesAreFew`).

Induction over data is within reach after all: the library's induction theorems take
an operator, which the provers cannot instantiate, but `SetInduction` says the same
of a set, and follows from the well-foundedness of inclusion on finite sets.

## 7 What is only checked, and what is not modelled

Liveness (`RunEnds`, `CallsReturn`, `Served`, `ComesToRest`) is checked by TLC only, the prover
has no fairness. Every invariant and action property that the runs check is also stated by a theorem, for
all values of the constants, but under the conditions named in section 6: at most one clear for
`LayersOwned`, `ReplayCorrect` and `HistoryKept`, `NumbersLeft` for all of the streamer but
`ReadLeavesOthers`, `TwoPrefixes` for `PropertiesSettleHolds`.

What TLC shows of a component holds within the bounds of section 4.

Left out of the models, with the reason:

- *Pool*: `stop ()` called from within a task of a synchronous job, which needs an
  event loop in the task; an exception of `setup_worker` in a synchronous start, which is
  outside of the try (`tlThreadedWorkers.cc:294`) and leaves the job running without a worker; the `Boss` object that
  stops several jobs, which only the unit tests use.
- *Streamer*: an unloadable file (nothing is changed), magnification and
  coordinates (copied), the layer catalogue of the library file; the points on a line that
  `assign_hull` takes out of a polygon, unless nothing is left of it; files that have cells without
  a name (`StartsAssumption`), which this writer never makes; the prefix `rhex:`,
  which stays with its text in both directions, so that such a text comes back like one without
  a prefix; rounding of the unit below `Precision`.
- *Deferred calls*: an exception caught below a running `do_execute`, whose iterator
  then points into a list that is gone; the fallback timer, which nothing starts; the
  scheduler without Qt.
- *Undo*: joining with a transaction that was undone, which the code would accept;
  changes without a transaction while there is a history; object ids; a disabled
  manager; the stable and unstable variants of a layer and more than one shape
  type; a break that is pending when an undo starts (`dbManager.cc:228`).
- *Redraw*: how layers are drawn and planes shown; the cell boxes entry (its mark is
  handled like that of the decorations); zoom and mirror other than a change of size,
  which `start` treats alike; views without a layout; layouts under construction or
  in a transaction, which are skipped; precious cache entries; more than one worker
  and changes of their number; a paint after a failed assertion of `prepare` that has nothing to
  draw, which may hang as well if the window asks for its picture.
- *Libraries*: parameterised cells, whose proxies follow the same path with their
  parameters; libraries that use libraries; several layouts; technologies changed
  after registration, which nothing of the registry notices; `replace_cell` within a
  transaction, which records the removal of the old proxy and the new one (`dbLayout.cc:2592-2605`), and
  the operation that records a change of technology (`SetLayoutTechName`, `dbLayout.cc:657`):
  `Replaced` and `SetTechnology` are calls made outside of one; lookups that meet an id
  without a library; `Layout::cleanup` of
  layouts under a manager, which may delete cells the history refers to; the end
  of the process; `refresh_all`, a sequence of refreshes.

Hazards of this code that no property covers, besides those that `PROJECT.json`
lists: the transaction joined although it was undone
(`dbManager.cc:124`); the id of a destroyed object that goes to the next one while
the history still has it (`dbManager.cc:80`); a pending break when `replay` is
already set (`dbManager.cc:228`); an exception caught below a running `do_execute`
(`tlDeferredExecutionQt.cc:81`); the unit of a layout with content replaced by the
one of the file (`coreReader.cc:199`); the last shared pointer, which
decides under the lock to delete the object and does so after unlocking
(`tlObject.cc:265`). Each needs an extension named above, or is undefined behaviour.

## 8 Where code and documentation disagree

Shown by the runs that expect a violation:

- `core_unreadable`: a text that looks like a typed number is saved as it is and
  cannot be read (`propertyBridge.cc:20`).
- `deferred_cancel`: a compressed method cancelled in the round that contains it is
  never scheduled again (`tlDeferredExecution.cc:129`).
- `undo_clear_twice`: insert, clear, insert, clear, undo, redo leaves a shape
  behind (`dbShapes.cc:156`).
- `redraw_requests`: a change of visibility clears the list of layers to redraw,
  also that of a request made since the last paint (`layLayoutCanvas.cc:1130`).
- `library_lookup`: `unregister_lib` takes all libraries of a name off the name
  table, those for other technologies included (`dbLibraryManager.cc:155`).
- `library_retired`: a proxy that is replaced or deleted for good stays in the
  retired count, so that after a refresh of its library a proxy in use counts as
  retired (`dbLibraryProxy.cc:62`); the cell tree hides retired variants
  (`layui/layui/layCellTreeModel.cc:637`).

Seen while modelling, without a run of their own.

*Pool*: a worker that was woken by a second `start ()` but has not got the lock
counts as idle, the others may end the run before it took its StartTask, and
`finished ()` is called again (`tlThreadedWorkers.cc:495`); `stop ()` returns at
once when `m_running` is false, while such a worker may take a task
(`tlThreadedWorkers.cc:373`, against `tlThreadedWorkers.h:155`); the spurious wake-ups of
the pthread build also end `wait ()` and `stop ()` early (`tlThreads.cc:168`);
`finished ()` may come after `stopped ()`.

*Streamer*: library name and properties of a file
without cells are not read (`coreReader.cc:186`); the expected unit is ignored
(`coreReader.cc:199`, against `db/db/dbReader.h:144`); a double on the library
becomes an integer; cells of an equal name are always renamed, whatever conflict
resolution is asked for (`coreReader.cc:212`, against
`db/db/dbCommonReader.h:104`); the layer map is neither applied nor returned; an
empty box becomes a box of two by two units; the library name found by the first
save sticks to the layout, as `src/integrations/klayout/README.md:105` says.

*Redraw*: `LayoutViewBase::stop_redraw` cancels the deferred redraw, so that a layout
change before it is not shown until something else is asked for
(`layLayoutViewBase.cc:5884`); a layer made visible and a shift before the next
paint leave the layer undrawn in the part that is only moved; a resize inside of
`do_start` is forgotten when the outer paint resets `m_need_redraw`
(`layLayoutCanvas.cc:512`), unless a paint comes in between, and it empties the list
that `restart` was called with by reference; if the size no longer fits, then or at a later
paint that does not make new bitmaps, `prepare` throws, with the sentinel set
(`layRedrawThread.cc:227`) and the mutex of the canvas locked (`layRedrawThreadCanvas.cc:249`):
the next paint that has something to draw hangs (cc:405; `Stuck` and `hung` in the model).

*Libraries*: `rename` deletes the library that a lookup of the new name finds, which
may be one for more or for no technologies (`dbLibrary.cc:171`), and does so even if the
renamed library is not registered and gets no new name; it does not restore cold
proxies of the new name; `register_lib` of the scripts gives a library that is registered
already another name before the manager turns it away (`gsiDeclDbLibrary.cc:76`), and when
that library goes its id stays in the name table, which `lib_by_name` follows
(`dbLibraryManager.cc:114`; `misnamed` in the model); an undo operation may keep a proxy longer than its library,
whose id then belongs to another one, so that undo puts back a reference to a cell it
was not made for and the counts go wrong (`outlived` in the model).
