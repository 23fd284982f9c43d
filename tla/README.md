# Formal model of mycppcoro

mycppcoro is a small C++20 coroutine library, a port of part of cppcoro: task
types and synchronisation primitives whose waiters are suspended coroutines,
kept in lock-free intrusive lists or in one atomic word. This directory holds
TLA+ models of it, the TLC configurations that check them on small instances,
and TLAPS proofs of their safety properties for every number of threads and
coroutines. Paths below are relative to `src/`; `include/` stands for
`include/cppcoro/`.

## 1. The system

| part | source | state | operations |
|---|---|---|---|
| async_mutex | include/async_mutex.hpp, lib/async_mutex.cpp | `m_state` (not locked, locked without or with newly queued waiters), `m_waiters`, `m_next` of each operation | try_lock, lock_async, scoped_lock_async, unlock |
| async_mutex_lock, its scope guard | include/async_mutex.hpp | `m_mutex`, null after a move | adoption of a lock, move, destruction |
| async_manual_reset_event | include/async_manual_reset_event.hpp, lib/... .cpp | `m_state` (set, or list of waiters), `m_next` | co_await, set, reset, is_set |
| single_consumer_event | include/single_consumer_event.hpp | `m_state` (three values), `m_awaiter` | co_await, set, reset, is_set |
| shared_task | include/shared_task.hpp | `m_waiters` (not started, list, ready), `m_refCount`, result or exception | co_await, copy, move, destruction, completion |
| task | include/task.hpp | `m_continuation`, `m_state`, result or exception | co_await, when_ready, move, destruction, completion |
| when_all, when_all_ready | include/when_all*.hpp, include/detail/when_all_*.hpp | `m_count`, `m_awaiting_coroutine`, a result per task | creation, co_await, completion of a task, destruction |
| sync_wait | include/sync_wait.hpp, include/detail/sync_wait_task.hpp, lib/lightweight_manual_reset_event.cpp | `m_value`, `m_event`, result or exception | the call, completion |
| fmap, awaitable_traits, type helpers, logging | include/fmap.hpp and others | none | compile-time, or forwarding |

single_consumer_event and task meet in a program as in
test/task_tests.cpp:63-96: a task awaits the event, `set()` resumes it, it
completes inside `set()` and its awaiter goes on there too. A guard meets the
mutex in its destructor, which is all of `unlock()`.

The parts interact in three ways:

- **Calls that nest.** A primitive resumes a coroutine by an ordinary call,
  `coroutine_handle::resume()`, which returns when that coroutine next
  suspends. So `unlock()`, `set()`, a completing body or task, and
  `start_tasks` all run arbitrary client code in the middle of their own loop,
  and that code may call the same object again.
- **Shared atomics.** Any thread may call any operation at any time. What is
  not atomic (`m_next`, `m_awaiter`, `m_continuation`, results) is published
  through an atomic.
- **Life times.** Operations and awaiters live in the frame of the coroutine
  that awaits, and die as soon as it continues; frames of tasks are destroyed
  by their owner as soon as it knows that they have completed. So whoever
  wakes a coroutine up must have read everything it needs before.

What makes each part correct, and what is hard to test in it, is listed at its
line under `hazards` in PROJECT.json. The recurring ones: a waiter that is
published while the object is released, set or completed at the same time
(lost wake-up); a waiter in two lists, or resumed by two threads; memory that
is read after a resume that may have ended its life; a nested call that
changes the list a caller is walking.

## 2. Modules

| module | what it is |
|---|---|
| CoroutineRuntime | stacks of nested `resume()` calls per thread; `NoDoubleResume` |
| AsyncMutex | async_mutex, one atomic access per step |
| AsyncMutexInv | its inductive invariant |
| FifoLock, AsyncMutexFifo | what async_mutex promises, and the refinement mapping |
| AsyncMutexLock | async_mutex_lock and scoped_lock_async, on top of AsyncMutex |
| AsyncManualResetEvent | async_manual_reset_event |
| SingleConsumerEvent | single_consumer_event |
| ManualResetEvent | what both events promise |
| AsyncManualResetEventPromise, SingleConsumerEventPromise | the two refinement mappings |
| SharedTask | shared_task, with its reference count and the visibility of its result |
| LazyResult, SharedTaskPromise | what it promises, and the mapping |
| Task | task, with symmetric transfer and without |
| TaskEvent | Task and SingleConsumerEvent composed: tasks that await the event |
| SyncWait | sync_wait, its task and its event |
| AsyncCall | what task and sync_wait promise: a procedure call |
| TaskPromise, SyncWaitPromise | the two mappings |
| WhenAll | when_all and when_all_ready with their counter and tasks |
| ForkJoin, WhenAllPromise | what it promises, and the mapping |
| IntrusiveList | reading an intrusive list as a sequence or a set |
| MC* | instances for TLC |
| *Proofs | theorems, each module about the one it is named after; AsyncMutexProofs also about AsyncMutexLock, SingleConsumerEventProofs also about TaskEvent |

### How the models correspond to the code

*Steps.* One step is one access to an atomic variable together with the
thread-local work around it and the accesses to memory that nobody else can
reach at that point. A failed `compare_exchange_strong`, or a weak one that
fails because the value differs, is a step that reloads; a spurious failure of
a weak one is a stuttering step, so it is covered without an action.

*Where a coroutine is.* `pc` gives each coroutine a location, listed with
comments in each module. Local variables of a library function that outlive a
step (`oldState`, `next`, `waitersHead`, `current`, `waiter`, `index`) are
variables, reset to Null when they are dead, as is `m_next` of an operation
that no longer exists.

*Names.* A coroutine awaits one thing at a time, so its operation object is
named by the coroutine. A pointer to an operation is the coroutine's name.

*Suspension.* By the language rules a coroutine is suspended before
`await_suspend` runs. In the models it counts as suspended from the atomic
access that publishes it: until then nobody else can resume it. After it,
await_suspend touches neither operation nor frame, which is part of what the
`NoUseAfterFree` properties and the order of reads in the actions express.
These properties count as users of a frame or an awaitable the coroutines at
locations from which the code still accesses it. After the atomic access that
decides who continues (the exchange of a final_awaiter, the fetch_sub of a task
that is not the last) the code accesses nothing of it, so those locations are
not counted; that is read off the code, as are the actions, and not a result.

*Clients.* `Enter`, `Leave` and `Switch` stand for everything coroutines do
outside the library: they are resumed by an idle thread or by code that is
running, they suspend on other awaitables and return to their resumer, or they
suspend and another coroutine takes over in the same `resume()` call (symmetric
transfer). They may do so in any order and any number of times.
What clients must not do, and the models therefore leave out, is stated at the
head of each module: they unlock only what they hold, one coroutine at a time
awaits a single_consumer_event, a task is awaited by its owner only, and a
shared_task object is kept while it is awaited.

*Guards.* A lock of async_mutex belongs to no coroutine; AsyncMutex names its
holder only to say who is going to unlock. AsyncMutexLock therefore lets a
coroutine that moves a guard into the frame of another one pass the lock on
(`Pass`), which AsyncMutex by itself does not do. Guards are listed per frame in
the order of construction and destroyed in reverse order. `Acquires` finds out
who gets the mutex in a step, so that `await_resume` of a scoped operation is
part of whichever step of AsyncMutex resumes it.

*Composition.* TaskEvent takes whole steps of Task and of SingleConsumerEvent,
which share `pc` and `stack`. `HonoursContracts` says that what the one does is
a behaviour of the other one's specification: seen by the event, tasks are
clients that are resumed, suspend and transfer (`EventView`); seen by task, a
coroutine that waits for the event is suspended on something else (`TaskView`).

*Data.* Results and exceptions are members of a small set `Outcomes`; nothing
depends on what they are, only on whose they are. In WhenAll values and
exceptions are told apart, because when_all does.

*Memory order.* The models are sequentially consistent. The one place where
the order of an access is weaker than its use needs is modelled explicitly:
`synced` in SharedTask is the set of clients that the completion of the body
happens-before (see Findings).

*Two builds.* task.hpp has one implementation for compilers with symmetric
transfer and one without. `symmetricTransfer` is chosen in the initial state
and never changes, so each check covers both.

## 3. Runs

| run | instance | states | checks |
|---|---|---|---|
| mutex_safety | 4 coroutines, 3 threads | 102,000 | TypeOK, MutualExclusion, NoStrandedWaiter, SourceAssertions, ListsExact, NoDoubleResume, ImplementsFifoLock |
| mutex_liveness | 3 coroutines, 2 threads | 26,000 | QueuedAcquires |
| mutex_guards | 3 coroutines, 2 threads, 2 guards per frame | 133,000 | UnlockedOnce |
| event | 5 coroutines with roles, 2 threads | 74,000 | TypeOK, ListsExact, ImplementsEvent, ReleasedResumes |
| single_consumer_event | 4 coroutines, 3 threads | 700 | TypeOK, ConsumerListed, ImplementsEvent |
| shared_task_safety | body, 4 clients, 3 threads | 474,000 | TypeOK, NoUseAfterFree, FrameCounted, ListsExact, ImplementsLazyResult |
| shared_task_liveness | body, 3 clients, 2 threads | 90,000 | AwaitContinues |
| task_safety | 3 tasks, 2 clients, 3 threads | 263,000 | TypeOK, NoUseAfterFree, OwnerAwaits, NoLostContinuation, NoPileUp, ImplementsCall |
| task_on_event | 2 tasks, 2 clients, one event, 2 threads | 40,000 | HonoursContracts, AwaiterContinues |
| when_all | 0 to 3 tasks, 2 threads | 7,600 | TypeOK, CountExact, NoUseAfterFree, NoDoubleResume, ImplementsForkJoin, ParentContinues |
| sync_wait | 3 calls, 2 threads | 12,800 | TypeOK, NoUseAfterFree, ImplementsCall, SyncWaitReturns |
| shared_task_relaxed | body, 2 clients, 2 threads | | ResultVisible, **violated** |

What they show, in one line each:

- *async_mutex* excludes, gives the lock out in the order of the successful
  compare_exchanges and never leaves it free while somebody waits, although
  the waiters are spread over up to three lists, two of them reversed.
- *async_mutex_lock*: however guards are moved, passed on and destroyed, the
  mutex has exactly one guard or coroutine left that unlocks it while it is
  locked, and none while it is free. That the mutex stays sound when its holder
  is not the coroutine that acquired it, and when that one queues again, is
  proved (GuardedListsSound, GuardedMutexSound).
- *async_manual_reset_event*: a `set()` releases exactly the coroutines that
  wait at the moment of its exchange, even if a coroutine it resumes resets
  the event, awaits it again or calls `set()` in turn. Each of them is resumed
  sometime unless a coroutine in front of it does not return, which includes one
  whose compare_exchange in a new `co_await` fails for ever (see Fairness).
- *single_consumer_event* keeps the same promise for its one consumer.
- *shared_task*: the body starts once, each `co_await` continues with its
  outcome (and only once: ListsExact, and ResumesSuspended of section 5), and the frame is destroyed once, by the last owner, never while
  somebody still reads it.
- *task*: `co_await` is a procedure call under either build; the awaiter
  continues exactly once; tasks that complete synchronously do not deepen the
  stack (the loop of test/task_tests.cpp:325).
- *task on an event*: a `set()` resumes a task only where it is suspended on
  the event, and what then happens inside that `set()`, completion, transfer or
  nested resume of the awaiter, a second task that starts, is what the event
  allows its clients. Every awaiter continues sometime although the task
  depends on an event that others set and reset.
- *when_all*: the join happens after the last task, with all values or one
  exception, and nobody makes the parent continue a second time (NoDoubleResume;
  ForkJoin itself lets a join that is over be asked for again); the counter and the tasks are not touched after the parent
  may have destroyed them.
- *sync_wait*: the blocked thread returns once, with its own outcome, although
  the `set()` that wakes it is still executing when event and task are gone.

### Bounds

The number of threads and coroutines is the only bound, but for the guards
alive in one frame (`MaxGuards`, 2: enough for a moved-from guard next to the
one moved to); no counter is capped and no list is cut short. Every property here is about how a few coroutines
get in each other's way, and each cfg says in its first lines which situation
its instance is just large enough for: lists of three waiters (so that
reversing and batches matter), two operations that race on two threads while a
third thread changes the list, and an operation nested in another of the same
object. The event needs five coroutines: with four, a coroutine that awaits it
again inside `set()` cannot fail to queue for ever while somebody behind it in
the list is still to be resumed. To keep the graph small enough for liveness
each of the five has a role there (RoleNext): three may await the event, three
set it and one reset it; the theorems are about coroutines that may do anything. Safety runs use symmetry among threads and coroutines; runs with
liveness properties use none. The mutants in PROJECT.json show that each
property does reach the code: for each of them a plausible slip in one
definition makes TLC find a violation within the same bounds.

The proofs remove the bounds for the properties listed in section 5.

### Deadlock

CHECK_DEADLOCK is off where the program really may stop: all coroutines may
wait for an event that nobody sets, all tasks may be completed and destroyed,
and all threads may be blocked in sync_wait. In AsyncMutex, AsyncMutexLock,
SharedTask and TaskEvent something is always possible and TLC checks it.

### Fairness

- *Library steps are weakly fair, per thread.* A thread that is inside a
  library function keeps executing it; nothing in these functions blocks. A
  loop of compare_exchange is lock-free, not wait-free: one thread may fail
  again and again, but only because others succeed. For the mutex, while it is
  held, and for shared_task a success uses up something finite (a coroutine
  queues), so weak fairness is enough for the loop to end. Not so for
  async_manual_reset_event: others may queue, `set()` and `reset()` between any
  two attempts of a coroutine, for ever, and if that coroutine awaits the event
  inside a `set()`, those behind it in that list wait for ever as well. The code
  does not exclude this, and no fairness is assumed that would; ReleasedResumes
  exempts it, that is, behaviours in which the loop of await_suspend goes round
  again infinitely often (PushRetried).
- *Clients are strongly fair where their contract says so.* Client code that
  runs on top of others returns control sometime: in the event and SharedTask
  fairness is stated per resumer d, whose `resume()` returns however many
  coroutines take over from one another under it (`Nested`), in AsyncMutex and
  TaskEvent for each client. A holder of the mutex is resumed and unlocks sometime, a body or task that has
  been started is resumed and completes sometime. Strong fairness is needed
  because these steps are disabled while another coroutine is nested above
  or while no thread is free. Without these assumptions no lock and no event
  can promise anything.
- *Nobody is obliged* to call `set()` or `lock_async()`, to start a task, or
  to await anything. The one exception is TaskEvent, whose question is what
  happens to the awaiters of a task that waits for an event: its setter runs
  again and again and calls `set()`, and nobody has to reset the event or to
  stop doing so.
- SyncWaitReturns has one exception spelled out in the property: if every
  thread of the program is blocked in sync_wait on an awaitable that is
  suspended, nobody is left to resume any of them. That is a deadlock the
  interface permits, and no property claims its absence.

## 4. Findings

- **shared_task.hpp:149** (run shared_task_relaxed). The compare_exchange by
  which a client tries to start the body is relaxed, also when it fails. If the
  body has completed since the load before it, the client takes the value it
  returns for proof that the result is ready and reads the result without
  anything that happens-after its being written. The comment at line 48 says
  that subsequent awaiters have visibility of the result; this one has not.
  An acquire order on failure is missing.

Reading the code also showed some things that no run is about: the comment at
shared_task.hpp:335-337 says the reference count starts at 2, one for the
shared_task and one for the coroutine, but it starts at 1 (line 77), which by
FrameCounted and NoUseAfterFree is enough as long as clients keep their
shared_task while they await it; `co_await` of
an rvalue `when_all_ready_awaitable` over a container returns nothing
(when_all_ready_awaitable.hpp:186-213) and cannot be compiled when used;
when_all_task.hpp:91 has `std:;` for `std::`, which makes it a label and an
unqualified call; argument-dependent lookup finds the same function, and so
test/when_all_test.cpp:51-58, which instantiates it, compiles;
`lightweight_manual_reset_event::wait()` polls with FUTEX_WAKE, so a waiting
thread does not sleep (lib/lightweight_manual_reset_event.cpp:72).

## 5. Proofs

All proofs are checked by TLAPS (SMT, Zenon, LS4). They assume only the named
ASSUMEs of the modules: Null and the other special values are not coroutines,
and the like. Sets of threads and coroutines are arbitrary, also infinite; only
the order of the mutex's queue needs finitely many coroutines
(`FiniteCoroutines`), because the walk along `m_next` of IntrusiveList counts
its steps. A program has finitely many coroutine frames.

| module | theorems |
|---|---|
| CoroutineRuntimeProofs | lemmas on the stacks: `StackTypes`, `StackEntries`, `StacksFollow` |
| AsyncMutexProofs | TypeCorrect, Exclusion, NobodyStranded, ListsSound, AssertionsHold, ResumesSuspended, MutexIsFifoLock (FifoLock); of AsyncMutexLock GuardsUnlockOnce, GuardedListsSound, GuardedMutexSound |
| AsyncManualResetEventProofs | TypeCorrect, ListsSound, ResumesSuspended, Implements (ManualResetEvent) |
| SingleConsumerEventProofs | TypeCorrect, ConsumerSound, ResumesSuspended, Implements (ManualResetEvent); of TaskEvent ContractsHonoured, CallsThroughEvent |
| SyncWaitProofs | TypeCorrect, MemorySafe, ResumesSuspended, Implements (AsyncCall) |
| WhenAllProofs | TypeCorrect, Counts, MemorySafe, JoinSound, ResumesSuspended, Implements (ForkJoin) |
| TaskProofs | TypeCorrect, MemorySafe, Structured, NothingLost, ResumesSuspended, StackBounded, Implements (AsyncCall) |
| SharedTaskProofs | TypeCorrect, MemorySafe, FrameWithLastOwner, ListsSound, ResumesSuspended, Implements (LazyResult) |

How they go:

- *Lists.* That no waiter is lost is about reachability along `m_next`, which
  is a recursive notion and out of the provers' reach. It is stated without
  recursion: **no non-empty set of queued coroutines is cut off**, that is,
  each such set has a member that is a list head or the successor of a queued
  coroutine outside it (`NoLostWaiter`). Together with *WaitersOnly* (pointers
  lead to queued coroutines) and *NoSharedWaiter* (no two pointers lead to the
  same one) it says that the lists partition the queued coroutines, and each
  pointer update preserves it by a case split on whether the set contains the
  moved operation.
- *Phases.* These three are not inductive alone. For the mutex one needs that
  the state word says whether the lock is held and what `unlock` knows at each
  of its steps (LockedIffHeld, UnlockPhases); for the event, that only a
  coroutine inside `set()` has a list (ListsOfSetters).
- *Stacks.* `StacksFollow` is the one lemma about stacks the components use: a
  step that resumes a coroutine that is suspended, suspends the running one,
  transfers from it to a suspended one or leaves the stacks alone keeps every
  coroutine on at most one stack, and only unsuspended coroutines there. Each
  component shows which of the four each of its actions is. In AsyncMutexProofs
  and TaskProofs the argument carries more about what lies on a stack, so these
  two have an invariant of stacks of their own.
- *Single consumer.* One consumer at a time (OneConsumer) has stored its
  handle before it announces itself (StoredAwaiter) and still waits when a
  `set()` comes to resume it (ConsumerResumed).
- *Counter.* `m_count` equals the number of tasks that have not notified, plus
  one until the parent has arrived; with it, zero means that all tasks are
  through and the handle is stored, so exactly one of parent and last task
  makes the parent continue (LastResumes).
- *sync_wait.* The event a promise points to is the one of its own call
  (OwnEvent, EventAlive), and when `wait()` can return the task is past its
  store (SetPastStore).

- *task.* While a task has started and not yet let go of its awaiter, its
  owner is in `co_await` of it (LiveAwaited, AwaitsOwn), so it does not run and
  cannot destroy it, and nothing that is awaited hangs below a task that is
  destroyed (`HeldNotAwaited`, an argument about the least set `Held`).
  `m_state` tells which of the two has arrived at the exchange (AwaiterFirst,
  AwaiterLast). For the stacks: what lies on a task inside
  `m_continuation.resume()` was resumed by its continuation, which is nowhere
  below (FinalBelow), so no stack holds two tasks that have resumed the same
  awaiter.
- *shared_task.* The reference count is the number of owners, and clients in
  `co_await` are owners (References); the body runs only while somebody awaits
  it (SomeoneAwaits). Hence the frame outlives the body without a reference of
  its own. The lists go as those of the mutex.
- *Guards.* A coroutine that keeps the lock in client code has one guard with a
  pointer, or no such guard and the lock without; nobody else has either
  (GuardInv). A guard that passes the lock to another coroutine is the one step
  that is none of AsyncMutex, and it keeps the mutex's invariant as well.
- *Refinements.* `Implements` in six modules, and MutexIsFifoLock: initial
  states map to initial states and every step to a step of the abstract
  specification or a stutter. async_manual_reset_event maps a list to the set of
  coroutines on it, the least set closed under `m_next` (NodesFrom): of that one
  needs only that it stays within the waiting coroutines (NodesWithin) and what
  is left of it when its first node goes (NodesUnfold), neither of which is an
  induction.
- *The order of the mutex's queue* is that of the lists, so here the walk itself
  is needed. `ListFrom` is a recursive function and no prover unfolds it along
  a list of unknown length. Instead, `IsList` says without recursion that a
  sequence is the list from a pointer, the new lists after a step are written
  down (one node pushed, popped or moved), and one lemma, `ListIs`, says that
  what `ListFrom` computes is the sequence that is the list. Its proof needs
  induction up to a bound, which `Climb` derives from the fact that a finite set
  cannot be mapped into a smaller one injectively. `ChainsInv` strengthens the
  inductive invariant: every walk ends, meets queued coroutines only, and the
  walks are disjoint. With it the queue of FifoLock is
  `Reverse(left) \o reversed \o held \o Reverse(new)` (InOrder), which a step of
  the reversing loop leaves as it is, a compare_exchange extends at its end and
  a hand-off shortens at its head.
- *Composition.* ContractsHonoured takes the invariants of Task and of
  SingleConsumerEvent, each about the coroutines where that component sees them
  (TaskView, EventView), as one (JointInv), and shows that each step of TaskEvent
  is a step of the one and something the other allows its clients: what task
  does inside a `set()` is for the event a client that runs, suspends, resumes
  or transfers; what the event does is for task a body or an awaiter that
  suspends, resumes or goes on. CallsThroughEvent then gets the promise of task
  from TaskProofs, and `NoDoubleResume` for both together. The hypothesis
  `ConstantsOfTask` is the assumption on constants that Task makes
  (TaskConstants), for the constants the event does not have.

Only model-checked: the liveness properties QueuedAcquires, ReleasedResumes,
AwaitContinues, AwaiterContinues, ParentContinues and SyncWaitReturns, which
rest on fairness and so on ENABLED. ResultVisible does not hold (section 4).

## 6. Not modelled

- fmap, awaitable_traits, the type helpers: compile-time, or an awaiter that
  forwards to another one. Logging and configuration.
- Assignment to a shared_task that holds another one, which is a destruction and
  then a copy or move.
- Guards of async_mutex that live outside coroutine frames, and several
  mutexes at once.
- An empty shared_task or task (co_await throws broken_promise at once),
  comparison of shared_tasks, make_shared_task and make_task (bodies like any
  other), `lightweight_manual_reset_event::reset` (never called).
- Misuse: a second coroutine that awaits the same incomplete task, the same
  when_all_ready, or a single_consumer_event. Each is listed as a hazard with
  what would happen.
- sync_wait called from inside a coroutine: the models have a thread call it
  when it runs none, as the tests do.

## 7. Plan

1. *Done:* the mutex and its guard, both events, shared_task, task, when_all
   and sync_wait, each but the guard against an abstract specification; task
   and single_consumer_event composed.
2. *Done:* proofs of every safety property and refinement that a run checks,
   that of async_mutex, which needs the order of the lists, and that of the
   composition included.
3. A wider composition: sync_wait over when_all_ready over tasks that wait for
   the event. That a component keeps to what another asks of its clients is
   checked and proved between task and event only.
