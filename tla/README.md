# evil-signals: specifications and proofs

evil-signals is a C++ library of signals and slots (`evil/signals`), with a
thread-safe variant, and of the threading tools beside it (`evil/thread`): a
read-write lock, a blocking queue and a pool of threads. A small test harness,
some geometry and some utilities complete it. This directory holds TLA+
modules of the parts where ordering, locking and lifetime matter, TLC
configurations that check them on small instances, and TLAPS proofs of what
holds for every instance. Paths below are relative to `src/`.

## The system

| Part | State | Operations | Interacts with |
| --- | --- | --- | --- |
| `ReadWriteMutex`, `ReadWriteLock` (`evil/thread/read-write-*.h`) | `muNumReads`, `mbIsWriting`, waiters of two condition variables | `readLock`, `readUnlock`, `writeLock`, `writeUnlock`, RAII guard | one per signal |
| `SignalBase`, `ThreadSignal` (`evil/signals`) | `mlistSlots`, `mRWMutex` | `add`, `addOnce`, `remove`, `removeAll`, `hasSlot`, `numSlots`, `dispatch`, destructor | points to its slots, runs their callbacks |
| `SlotBase`, `ThreadSlot` | `mpcSignal`, `mbActive`, `mbFireOnce`, `mbFireOnceCompleted`, `mFunction`, `mMutex` | `attach`, `attach_class`, `setActive`, `connectSignal`, `releaseSignal`, destructor | points back to its signal |
| `Signal`, `Slot` | the same, no locks | the same | callbacks re-enter the signal |
| `ThreadQueue` | `mQueue`, `mValid`, waiters | `push`, `tryPop`, `waitPop`, `clear`, `invalidate` | used by the pool |
| `ThreadPool` | workers, queue, `mbDone`, futures | `run`, `run_loose`, `destroy`, `TaskFuture::get` | tasks may wait for tasks |
| `TestHarness`, `TestCase`, `TestDataTable` | list of tests, results, table with a cursor | `add`, `run`, `formatResults`, `nextRow`, `insertCell` | test functions throw |
| `math`, `util` | none (a counter of unique numbers) | pure functions | everybody |

What is hard. A slot and its signal point at each other and are guarded by two
different locks, the list by a read-write lock and the slot by its mutex, always
taken in this order. The list is iterated with only the read lock, and the
slot's mutex is held while its callback runs, so a callback enters the library
again with both in hand. Slots and signals are destroyed while other threads use
what points to them; `~SlotBase` reads `mpcSignal` with no lock, and
`~ThreadSlot` destroys the function before the slot has left the list.
`ReadWriteMutex` is hand written over two condition variables.

Without threads the difficulty is re-entrance: the callback of `Signal::dispatch`
may add, remove and destroy slots of the list that the dispatch stands in, or
dispatch the same signal again, and an inner dispatch removes completed
fire-once slots while outer ones still walk the list. In the pool, tasks wait
for tasks that need the worker they hold, the destructor joins before it
drops what is still queued, and a future outlives the pool. The queue must not
lose the wake-up that a value needs. The harness reports a list that running
tests may extend, through a table whose cursor may stand one row past the end.
`PROJECT.json` lists each of these hazards at its line with the properties that
would catch it.

## Modules

### ReadWriteLock: the promise

The abstract lock: guards that ask, acquire, and release; a writer is alone.
The fairness says that a lock that can be had is had.

### ReadWriteMutex: the implementation

`muNumReads`, `mbIsWriting` and the sets of guards blocked in `mReadCond.wait`
and `mWriteCond.wait`. Each method runs under `mMutex` except while it waits, so
each action is one stretch under `mMutex`: the test of the `while` loop, ending
in a wait or in the lock. A notified guard has only left the wait set; it has to
take `mMutex` and test again, and others may overtake it. Spurious wake-ups are
possible at any time. `notify_one` wakes any one of the waiters.

Checked with four guards (run `rwmutex`; four, because a lost wake-up needs a
holder, a woken writer and a second blocked one): the counter and the flag are
exact (`CountersExact`), a writer is alone (`Exclusion`), no wake-up is lost
(`NoLostWakeup`), whoever waits is served once no new locks are asked for
(`WaitersServed`), and the whole implements `ReadWriteLock` with its fairness
(`ImplementsLock`). Without the premise of `WaitersServed` writers do starve:
nothing in `readLock` yields to a blocked writer.

Fairness: a guard that contends for `mMutex` gets it, and a guard that holds the
lock is destroyed, because it is a local variable of a method that returns.
Nothing is assumed of spurious wake-ups.

### SlotList

`rawInsertSlot` and `rawRemoveSlot` on sequences, without recursion: the loop
that looks for the place is the first index it stops at, `std::list::remove` (and
`erase` in `removeCompletedSlots`) the subsequence of what is kept, `Without`.

### Connections: what signals and slots promise

A slot belongs to one signal at a time. Only that signal calls its function, one
call at a time, and while the function runs nobody takes the slot away, switches
it off, gives it another function or destroys it. A slot's destructor begins when
its function does not run and ends when no signal has the slot; a signal ends
when it has no slots and calls none. There is no list, no lock and no method in
progress. It is safety only: which slots a dispatch reaches is not part of it.

### ThreadSignal

The thread-safe path of `SignalBase`, `SlotBase`, `ThreadSignal`, `ThreadSlot`.
A *call* is one activation of a method, made by a thread or by a callback; the
dispatch that runs the callback stands still until it returns (`caller`,
`Suspended`). A call is a record whose `pc` is the place it has reached. An
action is one stretch of code between places where others can interfere:

| Actions | Code |
| --- | --- |
| `Begin` | a method is called (`SetActive`, `Attach` and so on are its body) |
| `AcquireRead`, `AcquireWrite`, `Unlock` | constructor and destructor of the `ReadWriteLock` local of the method |
| `CheckAttached`, `ConnectSignal`, `Insert` | `addSlot`: the assertion outside the lock, `connectSignal` under the slot's mutex, `rawInsertSlot` |
| `Unlink`, `ReleaseSignal`, `UnlockSlot`, `Clear` | `remove`, `removeAll`, `~SignalBase`: `rawRemoveSlot` or the loop of `rawRemoveAll`, with `releaseSignal` per slot |
| `Visit`, `FinishCallback`, `EndDispatch` | the loop of `dispatch`: lock the slot, test, run the function, `triggerSlot`'s end, the end of the loop |
| `SetActive`, `Attach` | under the slot's mutex |
| `DestroyFunction`, `Detach`, `Free` | `~ThreadSlot`'s member, `~SlotBase`, the end of the object |
| `NewSlot`, `NewSignal` | constructors, at the address of a destroyed object |

Two stretches are split where another thread can see the middle.
`ReleaseSignal`/`UnlockSlot`: a destructor may read the cleared `mpcSignal`
before the mutex is given back. `DestroyFunction`/`Detach`: the function is gone
before the slot leaves the list. `mRWMutex` is used through two abstract fields,
`readers` and `writer`; that this is right is `UsesLock` (the calls are guards of
`ReadWriteLock`) together with `ImplementsLock`. `ConnectSignal` does not keep
the slot's mutex across a step: nothing in it can be interrupted by anybody who
respects the mutex.

Of `removeCompletedSlots` only the request of the write lock is modelled,
because nothing after it is reachable: `dispatch` still holds the read lock, and
the call stays in `complete`. `connectSignal` drops its `priority`
argument, so `miPriority` is 0 for every slot, and `addOnce` passes
`fire_once = false`; `FireOnceArgs` is therefore `{FALSE}` except in `fire_once`.

Three things are simpler than the code. A failed assertion in `addSlot` ends the
program, so `CheckAttached` has no step then (the rules below keep the slot
detached, so none fails). `Attach` may give a slot an empty function as well as
a real one; a call of an empty one would throw `bad_function_call`, so `dispatch`
tests for it. `Detach` stands for two reads of `mpcSignal` in `~SlotBase`, the
test and the call; between them only a `removeAll` or `~SignalBase` of its signal
could clear it, which `quiet` keeps away, so the shortened step hides nothing
in the runs that have that rule, and in the others it only takes behaviours away.

**Client rules.** A program can always misuse these classes, so the model states
what it may do (`Allowed`). Always: methods are called on live objects and no
object is destroyed while one of its own methods runs (C++); one owner at a time
changes the attachment of a slot, and adds only a detached one (`slot-base.h:69`,
the assertion in `addSlot`, and `tc-thread-stress-modify.h`). The remaining rules are named in
`ClientRules`; a run keeps those that its cfg names:

- `attached`: `remove` only on the signal that has the slot, if one has it;
- `quiet`: no slot is destroyed while somebody walks the list it is in, and no
  signal while one of its slots is being destroyed;
- `ordered`: callbacks use only signals that come after their own, and do not
  touch slots. Only the run about waiting needs it (`two_signals`); the short violation runs but `callback_deactivates` keep it so
  that the counterexample is not about callbacks.

`one_signal` keeps `attached` and `quiet`: its callbacks call every method, of
the signal that is being dispatched too. Many of these calls wait for
themselves, as the code makes them do, so deadlock is not checked there, and what
the run shows is that waiting is all that can go wrong.

**What is checked.**

- `LocksExact`: each lock is held by exactly the calls between its constructor
  and its destructor.
- `Coherent`: unless somebody is in the middle of changing it, a list holds
  exactly the slots that point to its signal, each once.
- `CallbackSafe`: a function runs only for a slot that is whole, active, at the
  cursor in the list, and locked by this dispatch, from its first to its last
  moment.
- `NoDeadSlotTouched`, `NoDeadSignalNamed`: no list, pointer or call in progress
  names a destroyed object, and no mutex dies while it is held.
- `ListStableForReaders`: no list changes under a reader, `~SignalBase`, which
  takes no lock, included.
- `UsesLock`: for every signal the calls follow the abstract lock.
- `ImplementsConnections`: the whole implements `Connections`. A slot is attached
  to what `mpcSignal` says, and a dispatch in `callback` is a caller that runs its
  slot's function; everything else, locks and lists included, is a stutter. The
  four steps of a destructor are `EndFunction`, perhaps `Disconnect`, and `EndSlot`.
- `NoCircularWait`: no calls wait for one another in a circle. `WaitsFor` says for
  whom a call waits: for the call its callback has made, for the holders of a
  list lock, for the holder of a slot's mutex.
- `NobodyElseHoldsUp`: a call that waits for no other can take its next step, so
  `WaitsFor` leaves nothing out, and the locks let in whom they can.
- `CallsReturn`: once no new calls are made every call returns. (While new
  dispatches keep coming a writer may starve, see above.)

**What the code does not keep** (the violation runs; each is a finding in
`PROJECT.json`):

- `destroy_while_dispatching`: without `quiet`, a dispatch calls a function that
  `~ThreadSlot` has already destroyed.
- `remove_from_other`: without `attached`, `remove` on another signal clears the
  slot's pointer, the destructor does not unlink it, and a list keeps a
  destroyed slot. The stress test makes such calls, and then removes the
  slot from the right signal too.
- `callback_deactivates`: a callback that calls `setActive` on its own slot waits
  for the mutex that its dispatch holds.
- `fire_once`: with `fire_once = true` the dispatch waits for the write lock while
  it holds the read lock. `addOnce` hides this today by passing `false`.

One more has no run: without `quiet`, `NoDeadSignalNamed` fails too, when
`~SlotBase` has read `mpcSignal` and calls `remove` while `~SignalBase` finishes.

### FifoQueue: the queue seen from outside

What the code does, without mutex and condition variable. Values go in at one
end and come out at the other, each to one thread; a thread that waits is
refused only when the queue has been closed. Its fairness: values do not lie beside
waiting threads, and after the end nobody is left waiting. It follows the code
where code and comment part: `thread-queue.h:57` says that `clear` ends a wait
too. That claim is stated in `MCThreadQueue`, which remembers in a history
variable who was waiting when `clear` was called (`ClearReleases`), and the run
`clear_while_waiting` finds it violated.

### ThreadQueue

`mQueue`, `mValid`, the threads inside `waitPop` (`asking`), those of them blocked
in `mCondition.wait`, and what each thread's last pop gave (`out`; `Nothing`
stands for a pop that returned false). As every method holds `mMutex` except in
the wait, an action is one stretch under it: `Push`, `TryPop`, `Clear`,
`Invalidate`, and `WaitPop` from the call or from a wake-up to the return or
the next wait. A notified thread has only left the wait set, another may take
its value first, and wake-ups may be spurious. `clear` wakes everybody, and the
predicate sends everybody back to sleep. The move of the value is modelled as
the value; the destructor is `Invalidate`, and that nobody uses the queue after
it is shown where the pool owns it (`GoneCleanly`).

Checked (run `thread_queue`): while anybody sleeps, at least as many threads are
awake inside `waitPop` as there are values (`NoLostWakeup`), and the whole
implements `FifoQueue` with its fairness (`ImplementsFifo`). Fairness: a thread
that has been woken gets `mMutex` and goes on.

### ThreadPool

The queue is an `INSTANCE` of `ThreadQueue` whose threads are the workers and
whose values are the tasks; every step that touches it is a step of that module.

| Actions | Code |
| --- | --- |
| `Spawn`, `SpawnFails` | the constructor starts one thread after another; if one cannot be started it calls `destroy` and throws |
| `Run`, `RunLoose`, `RunNested` | `run` and `run_loose`, by a client or by a running task |
| `Get`, `Drop`, `Resume` | `TaskFuture::get`, `~TaskFuture`, and the end of the wait |
| `Test`, `Pop`, `Wake`, `Finish` | the loop of `worker`: test `mbDone`, `waitPop`, the task's function |
| `Destructor`, `Invalidate`, `Join` | `destroy`: `mbDone`, `invalidate`, joining, and `clear`, which breaks the promises of the tasks that are left |

`state` is that of a task and of the promise behind its future (`new`, `queued`,
`running`, then `value`, `threw` or `broken`), `owner` tells who has the future,
`wait` who is blocked on it. Pushing the task happens in one step with packing
it, which nobody sees. The number of threads is what the default constructor
takes from the hardware or what a program asks for (`ExplicitThreads`); nothing
rejects 0, and a pool of no threads never starts a task. A `TaskFuture` is a local object of the function that
received it, as in the example program, so a task waits for its futures
before it ends. `~TaskFuture` calls `get`, which throws if the task threw or was
dropped; out of a destructor that ends the program (`terminated`).

- `TasksInOnePlace`: no task is lost, run twice, or run after it was dropped.
- `TasksTakeTheirCourse`: each promise is set once, either by the worker that has
  taken the task, as the one that had waited longest, or by `destroy`, which
  breaks it while the task is still queued. No step leads back or past a stage.
- `GoneCleanly`: when the destructor has returned no worker is left and every
  future is settled; promises are broken by nothing else.
- `TasksStart`: submitted tasks are started or the pool ends, as long as not all
  workers are held by tasks that wait for unsettled ones. The premise is
  needed: nothing in the pool keeps tasks from taking every worker that way. For
  a pool of no threads it says nothing.
- `DestroyReturns`: the destructor returns unless a running task waits for ever.
  This premise is needed too: `destroy` joins before it clears, so a task that
  waits for one that is still queued is never released.

Fairness: the threads run, functions of tasks return, and the pool's constructor
and destructor go on. Clients need not do anything. Deadlock is not checked:
the pool ends, and tasks may block each other as said.

### Signal

The `mbThreadSafe = false` path of the same classes: one thread, and callbacks that
call the library again. Dispatches in progress are a stack of frames; a frame's
`at` is the slot its range-for stands at, and the frame is `lost` when that slot's
list node is erased. `Call`, `Skip`, `Return`, `Throw` and `EndDispatch` are the
pieces of `dispatch` between which other code runs; the methods are one action
each, `RemoveAll` standing for the destructor too, `Renew` for the end of a slot
and the beginning of another.

Client rules, each at its action: a slot that some dispatch stands at is not
removed, destroyed or re-attached until its function has returned; `remove`
is called on the signal that has the slot; the callback of a fire-once slot
does not dispatch its own signal, and nobody turns a completed slot on
again. Every other change of the list by a callback is allowed.

- `Coherent`: a list holds exactly the slots that point to its signal, each once.
- `IteratorsValid`: no dispatch goes on from an erased node. The interesting
  case is an inner dispatch that removes completed slots.
- `NothingSkipped`: a slot that was due when a dispatch began, and stayed so, is
  called or still ahead, and none is reached twice.
- `FiredOnce`: a fire-once slot is called once and is gone when the dispatch is
  over, unless an exception kept the dispatch from removing it. An exception
  does leave completed slots in the list, inactive, until a later dispatch
  completes another one.

`fire_once` is TRUE here although `addOnce` passes `false`: `addSlot` is protected
and a derived class may pass it, and without it half of `dispatch` would be dead.

### TestDataTable and TestHarness

`TestDataTable` has one operator for each method, on records; writing outside
the table, which is undefined behaviour, is remembered in `outside`. A cell is
its text and its width. `TestHarness` adds tests, runs them one by one
(`StartTest`, then `EndTest` or `Throw`), and `Report` is all of `formatResults`
and `dump`. Running tests may add tests. They could also call `run` of their
harness, which would run the caller again; the model takes it as a rule
that they do not, and no test of the repository does. `mbStopOnError` and `mbUseStdOut` are
chosen freely in `Init` because the constructor initialises them with
themselves. Times and texts are placeholders. The loops of `formatResults` are
recursive functions of the number of rounds (`InsertCells`, `InsertResults`).

- `TableIntact`: however often `run` is called, nothing is written outside the
  table and every row has its columns' widths. (`nextRow` itself would
  allow it: the harness is saved by inserting a row before each call.)
- `SkippedOnlyAfterFailure`: a test is not run only behind a failure with stop on
  error, those that were added by running tests included.
- `ReportsRight`: each report is totals, titles and one row per test, in their
  order. It begins in the row where the cursor stands: the totals of a second
  report replace the last row of the first, what is above is kept, and blank
  rows are left at the end. A test that the second run leaves out is reported with
  what it left in the first.
- `LoopEnds`: `run` gets through a list that grows under it. Fairness: `run` goes
  on and the tests' functions return.

Deadlock is not checked: the harness is destroyed, and `MaxRuns` bounds the calls.

## Runs and bounds

| Run | Instance | Why it is enough |
| --- | --- | --- |
| `rwmutex` | 4 guards | see above; nothing depends on more |
| `one_signal` | 3 calls, 1 signal, 2 slots, every method | two calls race while a third is nested in a callback or waits; callbacks call every method but the destructor of the signal they run in, under `attached` and `quiet` only; two slots give the list a first and a last element and a cursor between them |
| `two_signals` | 3 calls, 2 signals, 2 slots, `add`, `dispatch`, `attach`, slot destructors, and callbacks that dispatch or empty the second signal; no symmetry, because of the liveness | both kinds of lock and every kind of wait occur, and a circle of two or three calls over them and a callback could close; slots leave the second signal by `removeAll` and the first by their destructors, and go on to the other; `remove` takes the locks as `removeAll` does; of the properties of `one_signal` it repeats those about which signal has a slot; `NoCircularWait` and the others are proved for every method and any number of signals |
| `thread_queue` | 4 threads, 2 values, at most 3 values queued | two sleepers, one woken, one that overtakes it; more values than woken threads; 2 values show the order |
| `thread_pool` | 2 clients, 2 tasks, 0, 1 or 2 workers (0 asked for; hardware threads unknown or 3) | one worker held by a task that waits for the other, and two that wait for each other's futures; a client that waits while another destroys |
| `signal` | 2 signals, 3 slots, 3 nested dispatches | a node before, at and after a cursor; a dispatch of one signal inside another of the same and of the other signal |
| `test_harness` | 3 tests, 2 messages, 2 calls of `run` | a test before and one after a failure, one added meanwhile; a report on top of another |
| violation runs | 2 calls, 1 or 2 signals, 1 slot; 2 threads, 1 value | the shortest counterexamples |

Calls and slots are interchangeable (`Symmetry`) in the runs without liveness;
signals are ordered there and are not; in `Signal` both are. In `ThreadSignal` nothing is unbounded: a list cannot outgrow the
slots, and a call record is reused when the call has returned. The
bounds of the other modules are `MaxLength`, `MaxDepth` and `MaxRuns`. Deadlock is
checked everywhere but in `one_signal`, `thread_pool` and `test_harness`, see
there, and in `callback_deactivates`, whose point is that the
calls get stuck.

Fairness (`ThreadSignal`): weak fairness of each call's next step. It says that
the threads run, that callbacks return, and that a lock which stays free for a
call is obtained. Nobody is obliged to call anything. Weak fairness suffices
because the premise of `CallsReturn` ends the stream of new calls.

## Proofs

| Theorem | Says, for every value of the constants | Argument |
| --- | --- | --- |
| `ReadWriteMutexProofs!LockIsCorrect` | `TypeOK`, `CountersExact`, `Exclusion` and `NoLostWakeup` hold always | the conjunction is inductive; the only assumption is that the set of guards is finite, so that readers can be counted |
| `ReadWriteMutexProofs!ImplementsLockSafely` | each step is a step of `ReadWriteLock` or a stutter | `CountersExact` turns the tests of the fields into the guards of the abstract actions |
| `ReadWriteMutexProofs!TypeCorrect`, `WritersAlone`, `FieldsExact` | the same invariant, one property each | projections |
| `ThreadQueueProofs!QueueIsCorrect`, `NothingInvented` | `TypeOK` and `NoLostWakeup` hold always, for every finite set of threads | together they are inductive: a `push` wakes one sleeper for one value more; a pop takes at most one thread and one value; a thread falls asleep beside an empty queue only |
| `ThreadQueueProofs!ImplementsFifoSafely` | each step is a step of `FifoQueue` or a stutter | by cases; a thread that waits is refused only if `mValid` is false |
| `ThreadPoolProofs!PoolTypes`, `NoTaskLostOrRunTwice`, `PoolEndsCleanly` | `TypeOK`, `TasksInOnePlace`, `GoneCleanly` | `IInv` of the pool, below; tasks and workers are finite sets, clients any set |
| `SlotListProofs!LoopFindsPlace` | the `assert(0)` of `rawInsertSlot` is unreachable | the last slot has lower priority, so there is a first one that has |
| `SlotListProofs!InsertKeepsOrder`, `RemoveKeepsOthers` | the list operations lose, invent and duplicate nothing and keep a sorted list sorted | by cases of the three branches; by the order isomorphism of the kept indices |
| `ThreadSignalProofs!TypeCorrect` | each call is at a place of its method, and has there the signal, slot and cursor that the code uses, whatever rules the clients keep | `TypeOK` is inductive; one lemma per group of actions |
| `ThreadSignalProofs!ListLocksCorrect` | each read-write lock is held by exactly the calls in the scope of their `ReadWriteLock`, and a writer is alone | `LInv`, below |
| `ThreadSignalProofs!ReadersUndisturbed` | `ListStableForReaders` | a list is changed by its writer, by `~SignalBase` or by the constructor, and none of them has a reader beside it |
| `ThreadSignalProofs!LockUsedCorrectly` | `UsesLock` | each step of a call is a step of its guard, or does not move it |
| `ThreadSignalSlotProofs!SlotsCorrect` | the slots' invariant `SInv` holds if the clients keep `attached` and `quiet` | one lemma per action, below |
| `ThreadSignalSlotProofs!LocksCorrect`, `ListsAndPointersAgree`, `CallbacksAreSafe`, `DeadSlotsUntouched`, `DeadSignalsUnnamed` | `LocksExact`, `Coherent`, `CallbackSafe`, `NoDeadSlotTouched`, `NoDeadSignalNamed`, under the same two rules | from `SInv` |
| `ThreadSignalSlotProofs!ConnectionsKept` | `ImplementsConnections`, under the same two rules | `SInv`; one lemma per action, below |
| `ThreadSignalSlotProofs!NoDeadlyEmbrace` | `NoCircularWait`, if callbacks are `ordered` too, no slot fires once, and the signals are numbered up to some `n` | `SInv` and `CallersExact`; a rank that each wait lowers, below |
| `ThreadPoolProofs!PromisesSetOnce` | `TasksTakeTheirCourse` | from `IInv` of the pool: the task at the head of the queue is the one that is `queued`, and the pool drops tasks only when it has joined |
| `SignalProofs!SignalTypes`, `ListsMatchPointers`, `NoErasedNode`, `DispatchSkipsNothing`, `FiresOnceOnly` | `TypeOK`, `Coherent`, `IteratorsValid`, `NothingSkipped`, `FiredOnce`, for every number of signals and slots and every depth of dispatches | `GInv`, below |
| `TestHarnessProofs!CursorStays` | every method of `TestDataTable` keeps the columns of each row and the cursor within the columns and at most one row past the end, for every number of columns and every kind of cell | by cases of the methods |
| `TestHarnessProofs!HarnessTypes`, `NothingSkippedSilently` | `TypeOK`, `SkippedOnlyAfterFailure`, for every finite set of tests and every number of runs | `HInv`, below |
| `TestHarnessProofs!TableStaysIntact`, `ReportsAreRight` | `TableIntact`, and the action property `ReportsRight`, for every finite set of tests and every number of reports | `TableInv`, below |

The assumptions are those of the modules: that the sets which the code counts
are finite, that `None` or `Nothing` is not an object, and, of the pool, that
there is a worker for every thread the constructor may start.

**`LInv`** (`ThreadSignal`, the signals' locks). `ListLocksExact` alone is not
enough: `~SignalBase` changes a list without its lock. `LInv` adds that a signal
in destruction has no other call (`DestroyAlone`) and that calls work on live
signals (`SignalsLive`). Both follow from what C++ asks of the program when a
call begins, and last because a method never changes its signal. None of the
named client rules is needed.

**`SInv`** (`ThreadSignal`, the slots) adds to `LInv`:

- `SlotOwners`: at most one call changes the attachment of a slot, and who
  destroys one is alone with it. `SlotLocksExact`, `FramesExact`, `CursorExact`: a
  slot's mutex belongs to the call that is between locking and unlocking it,
  and a loop has locked the slot its cursor is at.
- `Attachments`: between quiet moments `Coherent` is false, so the invariant says
  how it may be false. A list entry's slot points to the signal unless a loop of
  `removeAll` or `~SignalBase` has passed it (`Passed`); a slot that points to a
  signal is in its list unless an `add` has not inserted it yet, or a `remove` or a
  destructor has taken it out and not released it yet (`HalfAttached`); what each of these
  calls finds when it goes on is `AddExact`, `RemoveExact` and `DestroyExact`.
- `LivesExact` and `CallbackReady`: nobody names a destroyed object, and the
  function under a callback exists and its slot is active.

`attached` makes `RemoveExact` last, and `quiet` `DestroyExact`; the runs
`remove_from_other` and `destroy_while_dispatching` show what happens without
them. `ordered` is not needed: callbacks may touch what they like; what they
lose is `NoCircularWait` and `CallsReturn`.

**The refinement of `Connections`** (`ThreadSignal`). Each action is one abstract
step or a stutter, and `SInv` supplies what the abstract guards ask and the code
never tests. `Visit` is `Run`: the slot under the cursor points to this signal
(`Attachments`), for a dispatch has no `removeAll` beside it, and it is whole because
`quiet` keeps destructors away from lists that are walked. Whatever changes a
slot has its mutex or finds it free, and a running function has the mutex
(`SlotLocksExact`), so it is not running (lemma `NotRunning`). A destructor takes no
mutex before it has left the list; there `CallbackReady` gives the same. `Free` is
`EndSlot` by `DestroyExact`, and the last `Clear` of `~SignalBase` is `EndSignal`,
because the loop has passed every slot that pointed to the signal
(`ClearedUnpointed`).

**The rank** (`NoDeadlyEmbrace`). A call waits only for calls of lower rank (lemma
`WaitsGoDown`), so among any calls the one of least rank waits for none of them.
Highest are `setActive` and `attach`, which hold nothing. Then a call on an earlier
signal is above one on a later signal, and on the same signal one that asks for
the list's lock is above a dispatch that asks for a slot's mutex, that above a
dispatch in a callback, and that above an `add`, `remove` or `removeAll` that has the
list and asks for a slot's mutex; all others wait for nobody. The points that
need `SInv`: who holds a slot's mutex and has not finished with it is a
dispatch in its callback, and the slot is in the list of the signal it dispatches;
so an `add`, `remove` or `removeAll`, which has that list to itself or a slot that
is in no list, meets none (lemma `ChangersMeetNoCallback`). What a callback calls is a
method of a later signal by `ordered`, which also keeps callbacks from methods of
slots: these would ask for a mutex that the callback's own dispatch may hold, as
the run `callback_deactivates` does. Two more facts are inductive with `SInv`: the
caller of a call is in its callback, on an earlier signal (`CallersExact`), and
no slot fires once (`NoneFiresOnce`): a dispatch that has run such a slot waits
for itself, which is what the run `fire_once` shows. `n` says no more than that
there are finitely many signals.

**`IInv` of the pool** is the queue's invariant (`QP!IInv`: every step of the
pool's queue is a step of `ThreadQueue`, so the lemmas of `ThreadQueueProofs`
apply), that a task is queued if and only if the queue has it, once
(`QueueExact`), and running if and only if one worker has it (`WorkersExact`),
that whoever is inside `waitPop` is a worker that pops (`AskersPop`), that
futures are of submitted tasks (`OwnedSubmitted`), and that promises are broken
by the end only, when no thread is left (`EndExact`).

**`GInv`** (`Signal`). `Coherent` alone is inductive only if completed slots are
known. A dispatch in progress stands in its list, what it is to call is ahead of
it and what it has called is behind (`FramesOK`); only the innermost one is
between two calls (`Nested`); no dispatch of the same signal runs above a
fire-once slot, and such a slot has not completed yet (`OnceAlone`); a completed slot is
inactive (`CompletedOff`) and a dispatch that is in progress knows of it
(`CompletedSeen`), so it is removed before the outermost one ends; `shots` counts
one call exactly of a fire-once slot that is called (`ShotsExact`). That
`removeCompletedSlots` keeps the order of the others is
`SlotListProofs!WithoutKeepsOthers`.

**`HInv`, `TableInv`** (`TestHarness`). `HInv` adds to the properties that the loop
has run every test before the one it is at (`RunSoFar`); tests are added behind it. Between reports the table is a full
grid whose widths are exact, the cursor is at the start of a row that is
there and the rows below it are blank, or there is no row yet. A report inserts one row before each move to
the next, so it never writes outside. What the recursive functions of
`formatResults` compute is proved without induction over an operator: a closed form is
given as a function, it is shown to take the same steps, and two functions that
begin alike and take the same steps are equal, because there is no smallest
number at which they differ.

Only model-checked: liveness (`WaitersServed`, `CallsReturn`, `TasksStart`,
`DestroyReturns`, `LoopEnds`, and the fairness part of `ImplementsLock` and
`ImplementsFifo`), which rests on fairness and `ENABLED`, and `NobodyElseHoldsUp`, whose
statement is `ENABLED`; both are beyond the prover. `NoDeadlyEmbrace` is the part
of `CallsReturn` that is safety: calls that wait, wait for somebody who goes on. That the
invariants of the proofs are not stronger than what holds was tried with TLC on
the instances of the runs before they were proved. The bounds of the runs
are constants, and the theorems hold for every value of them; `MaxLength` of
the pool's queue is the number of tasks, which it cannot exceed.

## Divergences of code and documents without a run

- `signal-base.cpp:143`: `addOnce` passes `fire_once = false`, so such a slot stays.
- `slot-base.cpp:10-24`: `connectSignal` does not store its priority; slots are
  called in the order in which they were added.
- `test-data-table.h:41-44` says that `nextRow` stays on the last row; it goes
  one further.
- `test-harness.cpp:9` initialises two options with themselves instead of the
  arguments; a harness that was not asked to stop on errors may do so.
- `muDotCount` (`test-harness.cpp:148`) is never counted up, so no line of dots is
  broken.

## Plan

1. Done: `ReadWriteLock`, `ReadWriteMutex`, `SlotList`, `ThreadSignal`; `ThreadQueue`
   over `FifoQueue`; `ThreadPool` over `ThreadQueue`; `Signal`; `TestHarness` over
   `TestDataTable`; their runs and the proofs above.
2. Done: the inductive invariants of `ThreadSignal`, `Signal`, `ThreadPool` and
   `TestHarness`, from which every safety property of the runs is proved but the
   one that is stated with `ENABLED`; `ThreadSignal` refines `Connections`.
3. Left: what the violation runs show, turned round: which part of `SInv` needs
   which rule, with `UsesLock` as the example of one that needs none; the priority
   order of the lists (all priorities are 0 today, so `Sorted` says nothing yet).

## Not modelled

- `evil/math` is floating point, templates that nothing in the repository
  instantiates, and wrappers of the standard random numbers. TLC has no floating point, and what the
  prover could say of exact arithmetic would not be about this code.
- `evil/util`: binding of member functions, conversion of strings
  and exception classes. The one state is the counter of `uniqueId`.
- The example programs and their tests are clients, each one fixed sequence of
  calls; they are the source of the client rules and of the way futures are used.
- Names of signals and slots, arguments of callbacks, times, texts and the layout
  of reports. Copying is deleted in every class.
- Exceptions thrown by callbacks of `ThreadSignal`: the guards and the slot's
  `lock_guard` are released by unwinding, the rest of the dispatch is lost as in
  `Signal`, where it is modelled.
- `evil/deps`, `examples/cmake` and the documents' sources are not program code.
