# TLA+ models of mulle-thread

mulle-thread is a small portability library: threads, mutexes, condition
variables, thread specific storage (TSS), once flags and atomics with one
interface over C11 threads, pthreads and the Windows API, and over C11 atomics
or the mintomic library. Most of it is inline wrappers; the logic of its own is
in `mulle-thread.c` (once flags, recursive mutex), in the Windows backend
(`mulle-thread-windows.[hc]`: a non-recursive mutex made of a recursive critical
section, condition variables on it, TSS destructors, absolute timeouts) and in
the atomic headers. All paths below are relative to the repository.

## Inventory

| Component | State | Operations | Hard parts | What makes it correct |
|---|---|---|---|---|
| Once flags, `src/mulle-thread.[hc]` | one word per flag (DATA 0, BUSY 1848, DONE 1); the recursive kind also a thread id | `mulle_thread_once`, `_call`, `_call_recursive`, `_recursive`, `_noblock`, `_call_noblock`, `once_do`, `once_do_recursive`, `once_do_noblock` | mixed variants on one flag, nested and re-entrant initialisers, fast path without barrier, initialisers left by `return` or exception | one initialisation; who is back sees its data; the initialiser never waits for itself; waiters get past |
| Recursive mutex, `src/mulle-thread.[hc]` | mutex, atomic owner id, atomic depth | `init`, `done`, `lock`, `trylock`, `unlock`, `recursive_mutex_do` | the owner id is read without the mutex | exclusion; the owner never blocks; released by the last unlock; equivalent to one atomic reentrant lock |
| Windows mutex and condition variable, `src/mulle-thread-windows.[hc]` | CRITICAL_SECTION, atomic owner, CONDITION_VARIABLE | `mutex_lock`, `_trylock`, `_unlock`, `cond_wait`, `_timedwait`, `_signal`, `_broadcast` | owner id read without the section; the wait releases the section | behaves like a pthread mutex: not recursive, never a stale owner; a wait gives up the mutex and gets it back |
| Windows TSS, `src/mulle-thread-windows.c` | reference count `inited`, global lock, destructor table, TLS slots | `tss_init`, `_done`, `_create`, `_free`, `exit`, `return` | lock created on first use; users coming and going; destructors under the lock | the lock is used only while it exists; a value is destroyed once, with its key's destructor |
| Timed wait conversion, `src/mulle-thread-windows.c` | none | `mulle_thread_cond_timedwait`: absolute time to relative milliseconds | rounding, widths, deadlines that are past, repeated waits | no timeout a millisecond or more before the deadline, none that is put off |
| Atomic pointers, function pointers and integers, `src/mulle-atomic*.h` | words | read, write, set, increment, decrement, add, strong and weak compare-and-swap, barrier, in several memory orders and without atomicity, on C11 and on mintomic | spurious failure, previous or new value, wrap around, what an order orders | no lost update; the documented return values; published data is seen |
| Threads, `src/mulle-thread-*.[hc]` | thread handles, exit values | `self`, `get_id`, `equal`, `create`, `exit`, `return`, `join`, `detach` | three calls with a handle in one join; handles given out again; a wait that fails; on Windows destructors are the library's business | a join returns the value of its own thread, after its destructors; a handle is closed once and not too early |
| Mutex and condition variable on C11 and pthreads, `src/mulle-thread-c11.h`, `src/mulle-thread-pthreads.h` | the platform's | mutex and condition variable operations, with the platform's results converted | three kinds of results; waits that come back for many reasons; destruction | success means ownership; used as the stress test does, nothing is lost, stuck or destroyed in use |
| TSS on C11 and pthreads | the platform's | `tss_create`, `_free`, `get`, `set` | none: one call each | not modelled |
| Race yields, mintomic, build files | none | | | not modelled |

How they interact: the once flags use atomics and, in their recursive kind, the
thread id; the recursive mutex uses a mutex and atomics; on Windows the mutex
uses atomics and a section, a condition variable the mutex, TSS a section and
Interlocked operations; thread exit runs TSS destructors, and a join comes after them. All state is shared
memory; callbacks are the initialisers of once flags and the TSS destructors,
both of which may call the library again.

## Modules

Each component has one module with its variables, one action per step of the
code, and its properties. Where the component promises something that can be said
without its mechanism, a second module says that and the first is shown to
implement it. `...Proofs` modules hold theorems.

| Module | Models | Checked by | Proved in |
|---|---|---|---|
| `OnceAbstract` | what once flags promise | | |
| `Once` (instance in `MCOnce`) | all once variants | `once_safety`, `once_mintomic` | `OnceProofs` |
| `ReentrantLock` | an atomic reentrant lock | | |
| `RecursiveMutex` | the recursive mutex | `recursive_mutex` | `RecursiveMutexProofs` |
| `Monitor` | a mutex with a condition variable | | |
| `WindowsMutex` | the Windows mutex and condition variable | `windows_mutex` | `WindowsMutexProofs` |
| `TimedWait` | deadlines on Windows | `timed_wait` | `TimedWaitProofs` |
| `PosixMutex` | mutex and condition variable on C11 and pthreads | through `CondQueue` | |
| `CondQueue` | the producers and consumers of `test/cond/cond-stress.c` on `PosixMutex` | `cond_queue` | `CondQueueProofs` |
| `Threads` (constants in `MCThreads`) | threads on all backends | `threads` | `ThreadsProofs` |
| `WindowsTss` | TSS destructors on Windows | `tss_destructors`, `tss_three_threads`, `tss_set_in_destructor` | `WindowsTssProofs` |
| `AtomicPointer` (programs in `MCAtomicPointer`) | atomics on C11 and mintomic | `atomic_guarantees`, `atomic_set_weak` | `AtomicPointerProofs` |

### Once flags: `OnceAbstract`, `Once`

`state[f]` is the once word with the code's values, `thread_id[f]` the id of the
recursive type. `pc/at/how` say where in which call, by which variant, a thread
is; each atomic operation of the code is a step. The functions and the blocking
macros differ where the code does: after a lost swap a function returns, while
the blocking macro's `break` leaves only the inner loop and goes on to the
(failing) tests of the outer one. `body`, `outer` and `called` are the stack of
initialisers a thread is in. `Needs[f]` names the flags that f's initialiser must have obtained
before it ends, by the blocking variants, and its own may be among them if f is recursive; it calls no others,
and no skipping variant. Apart from that, `Needs` is acyclic in all runs: initialisers of different threads that need each other's flags
deadlock, which is the caller's mistake and listed as a hazard without a property.
`Abandon` is an initialiser that is left by `return`, an exception or thread
cancellation: the flag stays BUSY, and whoever waits for it waits for ever. Which flags it may
happen to is the constant `CanAbandon`.

A swap meets the latest value of its word, in any memory order. What the steps order beside the
words, the data that the initialisers write, depends on the backend, and three history variables keep it:
`loaded`, the flags whose publication a thread has seen, or whose data it wrote; `view`, those of them
whose data it is ordered after; and `released`, what a flag's publication carries, which is all its thread
has loaded, since a barrier precedes the publishing swap. A waiter has a barrier behind its loop. A caller
whose first swap finds DONE returns without one, and is ordered after the initialiser only if that swap is an acquire:
`SwapOrders` is TRUE for C11, where compare-and-swap is sequentially consistent, and FALSE for mintomic, where the
library uses `mint_compare_exchange_strong_ptr_relaxed` (`src/mulle-atomic-mintomic.h:214`) and which `AtomicPointer`
takes to order nothing, too. `PassedSeesInit` and `PassedSeesNeeds` are stated of every backend, hold on C11, and
`once_mintomic` has a caller that misses the data. Hardware on which every swap is a barrier, or that does not
reorder loads, hides it; the model, like `AtomicPointer`, goes by what the functions promise.

### Recursive mutex: `ReentrantLock`, `RecursiveMutex`

`thread_id` and `depth` are the two atomic words, `mutex` the holder of the
platform's mutex; `nest[t]` counts what client `t` owes. The read of the owner,
the wait for the mutex, the writes of owner and depth are separate steps; a client
unlocks only what it has locked (the code asserts it). The mapping to
`ReentrantLock` takes the mutex for the owner, and the depth for the number of
holds, but 1 where the mutex is held and the depth still (or already) 0.

### Windows mutex: `Monitor`, `WindowsMutex`

`section` and `entries` are the CRITICAL_SECTION, which Windows lets its owner
enter again, `owner` the atomic owner id, `waiting` and `woken` the threads in
`SleepConditionVariableCS`. That this call leaves the section and begins to wait in
one step is Windows' promise; that the owner is cleared before and written after
it is the code's. Locking recursively is allowed and leads to the code's endless loop
(label `stuck`), as it would block on other platforms. Seen from outside it is
`Monitor`: a non-recursive mutex whose wait gives it up and joins the waiters in one step.

### Timed wait: `TimedWait`

Time is in nanoseconds. The units (nanoseconds per FILETIME tick, ticks per
millisecond) and the widths (DWORD, long long) are constants, so that TLC checks
the rounding and the wrap-around with small numbers and the theorems hold for the
real ones. The thread may be delayed between reading the clock, going to sleep and coming back, is
woken by a signal or for nothing, and may wait again for the same deadline or another.

The timeout may be early: the difference is cut down to whole milliseconds. What is
shown is that it is early by less than one; a caller that takes ETIMEDOUT for the
deadline itself (`dox/API_COND.md:102`) is wrong by up to that. A deadline 49.7
days or more ahead does not fit the DWORD: it wraps around to an early timeout, or, if it
comes out as INFINITE, is never reached. The model does the same; the properties are
stated for deadlines in range (`InRange`), and the runs include others.

A sleep that fails for another reason than its time returns -1
(`src/mulle-thread-windows.c:385-388`), for which Windows gives no reason in this use; that result is left out.

### C11 and pthreads: `PosixMutex`, `CondQueue`

Both backends pass each call on to the platform and translate its result. `mutex`, `waiting`,
`woken` are the platform's, `answer[t]` is what the library returned to `t`, and `has` the
threads that take themselves for the owner: those whose last answer says so, for that is all a program
can go by. `Answer`, `TrylockAnswer` and `TimedwaitAnswer` are the conversions, per backend. Whether
they are right, and whether the operations are enough to build on, is asked of a program: the library's own
stress test, `test/cond/cond-stress.c`. `CondQueue` translates it, one action per step between calls, `queue++`
as a read and a write. Beyond the test, producers may poll with `mulle_thread_mutex_trylock` and consumers may
wait with a timeout, whatever the wait answers. That mutex and condition variable are set up without
an error is taken for granted, as the test does. The platform promises what POSIX says: a wait gives the
mutex up and begins in one step, comes back with it, and may come back for nothing.
With `owner <- mutex` the whole implements `Monitor`, the specification that `WindowsMutex` implements,
so a program that relies on `Monitor` can use any backend.

### Threads: `Threads`

`life` is how far a thread is, `code` its value in the platform, `handle` what `create`
stored for it, `object` what a handle stands for. Windows' handle table and the platforms' `pthread_t` and
`thrd_t` are one map: what is closed, joined or has ended detached may be given out again for another thread. On
Windows a join is three calls with the handle (`WaitForSingleObject`, `GetExitCodeThread`,
`CloseHandle`), each a step, and a wait that fails closes the handle and returns the preset -1; elsewhere it is one. A
thread ends by `mulle_thread_exit`, `mulle_thread_return` or a plain return, the destructors of its values run
before it is over, but on Windows not after a plain return. What happens inside of the destructors' run there is `WindowsTss`.
Creating a thread and storing its handle to `*p_thread` are one step: a thread that
runs before its handle is stored (`src/mulle-thread-windows.h:157-163`), and looks there for it, is not modelled.
`mulle_thread_self` is on Windows a pseudo handle that stands for whoever uses it, which `EqualsSelf`
(`mulle_thread_equal`) resolves to ids. The main thread has a handle only on the other platforms. The
program joins or detaches each thread once and does not join a handle equal to its own; joining in a circle is left to it.
`got`, `failed` and `proper` are history.

### Windows TSS: `WindowsTss`

`inited` is the reference count, `ready` whether `global.lock` is initialised,
`holder` the thread inside for a scan, `table` the destructor table with its holes,
`alloc`, `dtor` and `value` Windows' side of TSS. Each Interlocked operation is a
step; entering the section, what is done inside and leaving it is one step, except for
the scan of an exiting thread, where every destructor call is separate and the
destructor may create keys and set values itself, at any time and under any key. A table that is full when a key
is added is grown by `realloc`, which leaves it in its place or moves it, as it likes. `scan[t].lost` names
the thread that has so moved, or freed, the table that t's scan goes through. What a scan does that
reads on in such a table is undefined, so it stops there; if it has no entries to come it ends well.
`late` is a history: the values that a destructor set when the scan was past their entries. `base` says whether the program has called `mulle_thread_tss_init`
before anything else and so holds a reference of its own.

What the model assumes of the program, and leaves out:

* A key is freed once and by one thread, no thread is then inside a call for it.
* Keys are not 0. The code asserts it (`src/mulle-thread-windows.c:123`), and uses 0 as
  the mark of a hole, though `dox/API_TSS.md:33` and
  `asset/dox/api/toc/index.md:389` allow the key 0.
* Destructors do not free keys.
* `realloc` does not fail.
* The constant `Calls` says what the program calls. Without a reference of the program's own, `mulle_thread_exit` is
  called in `MCWindowsTssExit.cfg` only ("exit unready") and `mulle_thread_return` in `MCWindowsTssReturn.cfg` only ("return unready"): in the
  first the assertion of line 239 fails because nothing is initialised, in the second because another thread is quicker. In
  `tss_destructors` only threads of programs with such a reference end.
* Once a section is used that is not initialised, the behaviour is undefined: `SectionReady`
  is violated in that state and what follows is not to be read as the program's.

### Atomics: `AtomicPointer`

Memory is a list of writes per word; a load returns any write that is not older than
what its thread is ordered after (its view), a write carries its writer's view on if its
order releases, a load takes the view over if its order acquires. Fences and
sequentially consistent accesses in addition exchange views with a global one. This is the
usual operational reading of C11 without load buffering: a load never returns a write that
is made later, and writes to one word are ordered as they are executed. Each function of the library is the sequence of
accesses and fences its source has, per backend (`C11Access`, `C11Swap`, ..., `MintomicAccess`, ...); mintomic's
own functions are external and are relaxed accesses and fences.
Threads run the programs of `MCAtomicPointer`: store buffering (`flags`), message passing
with a barrier, by a swap and through a third thread (`publish`), reference counts, tickets
(`numbers`), swaps of 0 by competitors (`swap`), sums and concurrent `set`.

Function pointers (`kind = "function"`) have sequences of their own: on C11 a second set of functions, on mintomic a
cast. The non-atomic accessors are plain C accesses and are taken for relaxed ones; the programs use them where nothing
races. `intptr_add` adds and subtracts the difference again from the result, and both are cut off to the width of a word.
The two retry loops are that of `_mulle_atomic_pointer_set` and that of a caller who increments by a weak swap.
The reference count programs run on C11 only, since mintomic's decrement has a fence behind it and none before.
`NoLostUpdate` compares a counter with the number of `Units`, the ones that the calls have added (a decrement adds the
width less one), so that the sum is the size of a set.

## Runs

Every property of a passing run has a mutant of the code, in the component's module,
that violates it under the run's own constants.

| Run | Instance | Shows |
|---|---|---|
| `once_safety` | C11's swap, 3 threads; Config needs the recursive Cache, which may be abandoned; fair; 300,000 states | back from a call means initialised, and sees the data of the flag and of those it needed; an id in a flag is its initialiser's; no wait for oneself; implements `OnceAbstract`; whoever waits gets past, unless the flag or one it needs was abandoned |
| `recursive_mutex` | 3 threads, 3 deep | exclusion, assertions, no self-blocking; implements `ReentrantLock`; no deadlock |
| `windows_mutex` | 3 threads, any calls | exclusion, own id means inside, no re-entry; implements `Monitor` |
| `timed_wait` | 12 deadlines, fair | less than a millisecond early, never put off, always over |
| `tss_destructors` | 2 threads, 3 keys, table of 2, at most 3 entries, with and without a reference of the program's own; 4.2 million states | the section exists when used; assertions; the count and the table match the keys; a destructor runs for each value, with its own key's, but for values set behind the scan; nobody but the scan's own destructors moves the table under it |
| `atomic_guarantees` | programs of 2 or 3 threads, words modulo 4 | no lost update, numbers given out once, one winner of a swap, set stores, order |
| `threads` | main and 3 threads, 3 handles, 3 backends, words of 8 and 16; 2.6 million states up to symmetry of handles | joins return their own thread's value, after its destructors; handles closed once, not too early, not never; no thread joins itself |
| `cond_queue` | 2 producers of 2 items, 2 consumers, both backends, one wake-up by timeout or for nothing, fair; 457,000 states | answers tell ownership; no item lost; nothing destroyed in use; the program ends with everything consumed |
| `once_mintomic`, `tss_three_threads`, `tss_set_in_destructor`, `atomic_set_weak` | see below | a disagreement between code and documentation each |

Why the bounds are enough: the once code has no state beyond one word, an id and a stack per
flag, and its races are between two competitors and a latecomer, so three
threads; nesting is covered by one flag that needs another and re-enters itself. The
mutexes' races are between an owner and a thread that reads its id, with a third that takes over.
TSS with two threads and three keys has the table grow under a scan and shrink, keys given out again, a value under an entry
that the scan is past and one that is added behind its end, and both ends of the count; three threads leave the range in which it works. `threads` has
as many handles as threads besides the main one: one is given out again as soon as a join or detach closes it and another thread is created,
while a third still waits with its own. `cond_queue` has both ends of the count, a consumer that sleeps while another takes
its item, and one that is past the test when the end is broadcast. The words of `AtomicPointer`
wrap around at 4; programs are the two- and three-thread shapes in which each order matters.
`timed_wait` has a DWORD with three finite values, so deadlines on
both sides of every rounding and of the wrap-around.

`CHECK_DEADLOCK FALSE` is set where the system may stop: an abandoned flag, a thread stuck in a recursive lock,
threads that have all exited or wait in a circle of joins, programs that have ended, a clock that has reached its bound.

### Disagreements

A run each:

* `tss_three_threads`: `mulle_thread_tss_init` takes any count above 2 for "initialised". Two
  competitors of the first thread can raise it to 3 before `InitializeCriticalSection`, and
  the third one then enters a section that is not there. Two threads never do (`tss_destructors`).
* `tss_set_in_destructor`: the scan goes over the table once, so a value that a destructor sets for a key that the scan has
  passed, its own key say, stays without its destructor, which the documentation promises for every value and pthreads has by
  repeated passes (`EveryValueDestroyed`). `ExitRunsDestructors` excepts those values and no others.
* `once_mintomic`: a caller whose swap finds DONE returns past no barrier. With mintomic's relaxed swap nothing orders it after
  the initialiser, whose data it may then miss; a comment says (`src/mulle-atomic-mintomic.h:231`) that mintomic's swap is
  sequentially consistent on supported platforms.
* `atomic_set_weak`: `_mulle_atomic_pointer_set` on C11 takes a spurious failure of its
  weak swap for success, because `__weakcas` returns the expected value in both cases, and
  then returns without having stored.

Further ones, with a configuration each that TLC finds violated, but which are not among the listed runs
(`tlc -config <configuration> <module>` shows the trace):

| Configuration | Property | What happens |
|---|---|---|
| `MCWindowsTssUndo.cfg` | `CountAlwaysMatches` | A competitor's increment that it is about to undo hides the last reference from `mulle_thread_tss_done`: the count stays at 1 with no key, and every later `mulle_thread_tss_init` increments, finds 2, undoes and tries again for ever. Two threads are enough. Hence `CountMatchesKeys`, which `tss_destructors` checks, is stated of programs with a reference of their own |
| `MCWindowsTssReturn.cfg` | `InitedAsserted` | `mulle_thread_windows_destroy_tss_if_needed` reads the count and then scans; another thread frees the last key in between, and the assertion of the scan fails |
| `MCWindowsTssMove.cfg` | `WalkedTableStays` | The section lets its own thread in again, so a destructor that creates a key when the table is full reallocates it under the scan, which keeps pointers into it. The comment in lines 241-244 asks whether calling destructors while locked is a problem. `TableStays` says what the section does achieve: no other thread moves the table |
| `MCWindowsTssExit.cfg` | `InitedAsserted` | `mulle_thread_exit`, unlike `mulle_thread_return`, goes to the table in any case (lines 317-319), and without keys the assertion of the scan fails |
| `MCAtomicPointerFlags.cfg` | `OneSeesTheOther` | `_read` and `_write` are documented as sequentially consistent; on mintomic a write may still be under way when the next read is made |

Smaller ones without a run: the documentation says that all compare-and-swaps assert
`value != expect`, which on C11 only those with one underscore do; `MULLE_THREAD_UNPLEASANT_RACE_YIELD`
(`src/mulle-thread.h:404`) sleeps if `(x & 7) == 4`, inside of `(x & 3) == 1`, so never.

## Fairness

`FairSpec` of `Once` is weak fairness of each thread's steps inside a call and inside an initialiser: a
thread that is in a once call or runs an initialiser is scheduled again, and its initialiser goes on to its end
(a nested call that waits is itself a step that is enabled: it reads and yields). Callers outside of a call owe nothing. The wait loops
of the code yield, and every operating system schedules a runnable thread in the end. Abandoned initialisers are what makes
waiters wait for ever, so `WaitersPass` excepts the flags that have one, or need one that has.

`FairSpec` of `CondQueue` is weak fairness of each thread's next step. A thread in lock, or back from a wait, gets the mutex
if that stays free for it; with two items per producer the others run out of steps with which to take it again,
but for a producer that polls with trylock, which takes it or fails in one step and cannot keep others out for ever. No wake-up is assumed that nobody
asked for: `WakeUnasked` is bounded by `MaxUnasked` and not fair, so `AllConsumed` is due to signal and broadcast.

`FairSpec` of `TimedWait` is weak fairness of the thread's own steps and of the clock, up to its bound. No fairness is assumed of signals.

The mutexes themselves have no liveness property: the platforms promise nothing about who gets a mutex. `Threads` has none either: who joins whom is the program's.

## Proofs

All theorems are for any number of threads, flags, holds, and any widths, from the named assumptions on
the constants only (`OnceAssumption`: `Needs` and the sets of flags are sets of flags, NULL is no thread
and no flag; and so on). Each module defines an inductive invariant `IInv`, proves that it holds initially and that
every action preserves it, and gets the theorems from it.

* `OnceProofs`: types, `PassedSeesInit`, `IdNamesInitialiser`, `OwnerNeverWaits`,
  `Spec => Abstract!Spec`, and `PassedSeesNeeds`. The two about what is seen, `PassedSeesInit` and
  `PassedSeesNeeds`, assume `SwapOrders`, that is C11, for `once_mintomic` shows them false without it; what holds on every backend is `PassedLoadsInit`: whoever
  passes has seen the publication and needs but a barrier or fence of its own. None of them is inductive: `IInv` adds that a flag is DATA exactly while it has no winner; that
  a thread at a step of the winner is the winner; that a flag in a thread's stack is BUSY and the thread's
  own, and no flag is on two stacks; that a recursive flag has its initialiser's id all the time from before the
  initialiser runs until it is over; that whoever is past the test of the id is not the one it names; that a publication carries the flag's data to
  everyone who passes; and that with `SwapOrders` a thread is ordered after all it has loaded (`Acquired`).
  `PassedSeesNeeds` is proved under `Acyclic`, that no two flags require each other: of two recursive initialisers that do,
  the inner one goes straight through the id check and publishes before the outer one has written its data. `NInv` adds to `IInv` that a
  thread's stack of initialisers descends along the needs (`Ordered`), also with the flag it is about to enter or has just left (`Inward`); what an
  initialiser has got by its nested calls it has seen, or it is itself still inside of it, or that flag was left for good (`CalledSeen`); and that the needs follow the publication to
  everyone who passes, but for flags left for good, which are never DONE (`NeedsFollow`, `Dead`).
* `RecursiveMutexProofs`: types, exclusion, assertions, `OwnerNeverBlocks`, `DepthIsNesting`,
  `Spec => Abstract!Spec`. `IInv` ties owner, depth and nesting to the holder's place in the code, and says that who is not
  the holder is idle or on the way to the mutex; hence whoever reads its own id is the holder.
* `WindowsMutexProofs`: types, exclusion, `OwnIdMeansInside`, `NeverReentered`, `Spec => Abstract!Spec`. `IInv` says of each place in the code
  whether its thread is the one in the section, that the section is entered once or not at all,
  and that the owner, if there is one, is the thread that was given the mutex.
* `TimedWaitProofs`: types, `EarlyByLessThanAMillisecond`, `NeverLate`. The argument is the lemma `Conversion` about
  division and remainders, for any units and widths; `IInv` carries it from the reading of the clock to the timeout.

* `ThreadsProofs`: types and all five properties, for any threads, handles and values. `IInv` says that a thread is to be joined, in one join, or detached or done with, but no
  two of these (`Apart`); that handle and thread know each other for as long as someone may use the handle (`Handles`), and that every
  other handle is closed (`Closed`); and what a join knows at each of its steps (`Joins`): that
  between the wait and the close its thread is over, so that the exit code fetched is final. Handles that are given out again cannot
  disturb this, since only closed ones are.
* `CondQueueProofs`: types, `AnswersTellOwnership`, `NotDestroyedInUse`, `NoItemLost` by way of `CountIsCurrent` (the count that was read is still
  the queue's when it is written back), and `Spec => Abstract!Spec`. `IInv` ties the platform's owner to the
  answers and to the places in the programs that need the mutex (`Ownership`), waits to the consumers' test (`Waits`), and the
  main thread's progress to the others' (`Phases`).
* `WindowsTssProofs`: for programs that hold a reference of their own (`base`), any number of threads and keys and a table of any size: types, and all seven
  properties of `tss_destructors`. Together with `tss_three_threads` and `MCWindowsTssReturn.cfg` this says when the emulation
  is safe: with such a reference always, but for destructors that create keys in a full table or set values behind the scan (`TableStays` and `ExitRunsDestructors` except
  these and no more); without it not with three threads, nor with two of which one ends or frees a key. `IInv` is `base => BInv`; `BInv` says that the count is two more than the keys
  that are shared or on their way in or out (`Count`), so that `tss_init` and `tss_done` never set up or tear down (`Steps`); that the table has exactly one
  entry for every such key with a destructor (`Table`); that no thread but the one that scans has moved the table under a scan (`Size`); and that
  the destructor of every value its thread still has lies ahead of its scan, unless it is `late` (`Scans`). One lemma for each conjunct goes through the actions.
* `AtomicPointerProofs`, for any programs of any threads on either backend: types; that no step has a thread fall behind what it was ordered
  after (`ViewsGrow`); and all seven properties of `atomic_guarantees`, each for all programs of one shape. A program has that shape
  for any number of threads, any words and any values; the programs of `MCAtomicPointer` that are checked for the property have it too, so no assumption is empty.

  | Property | Assumed of the programs | Inductive invariant |
  |---|---|---|
  | `NoLostUpdate` | `Summing`: a word that is added to, by whatever operation or retry loop, is otherwise only read | `SumInv`: at every access, not only between calls, the word is the sum, modulo the width, of the additions that have been made, those whose call is still at its fence included. The step from one sum to the next needs that a remainder may be taken once or after each addition (`SumRemainder`) |
  | `NumbersDiffer` | `Counting`: all calls add 1 to one counter, no more often than it can count | `NumbersInv`: the additions made are one fewer than the writes, the i-th write is i - 1, and each addition, one still at its fence included (`Pending`), has found a value of its own (`Numbered`) |
  | `OneSwapWins` | `Swapping`: the words are only written by swaps of 0 for something else | `SwapInv`: a word that was swapped stays other than 0, and one call has found it 0. This is what `Once` takes for granted of its swap |
  | `SetReplaces` | `Strong`: the sets run on mintomic, so the spurious failure that `atomic_set_weak` shows is all that is wrong with set | `SetInv` |
  | `OneSeesTheOther` | `Flagging`: with C11, two threads each write a flag and read the other's; other threads use other words | `FlagsInv`: who has written is, in the order of all sequentially consistent accesses, ahead of the flag's first value (`Raised`), so the second of the two cannot miss the first's. Mintomic, where `MCAtomicPointerFlags.cfg` finds the property false, does not meet `Flagging` |
  | `LastReferenceSees` | `Referring`: with C11, two threads each write their data, decrement the count and look at the other's data | `ReferencesInv`: between the two decrements the count carries the view of the thread that made the first (`PassesOn`) |
  | `PublishedSeen` | `Publishing`: a thread writes the data first; every other one starts with a look at a flag; what follows are barriers, writes to flags, swaps of flags behind a barrier, and looks at the data, behind a barrier if the flag was read relaxed | `PublishInv`: while every flag looked at was found raised, each write to a flag carries the data (`FlagCarries`), and a thread that is past its first call has loaded it, is ordered after it if it acquired or had a barrier, and passes it on if it was fenced (`KnowsData`; `WillKnow` between the two accesses of a mintomic call) |

  The last three rest on `ViewInv`: views are positions of writes that exist, a thread's fence is not ahead of its view, nor that of what it has loaded.

Only model-checked: liveness (`WaitersPass`, `TimedWaitEnds`, `AllConsumed`), which the prover does not handle, and
`tss_destructors` for programs without a reference. Every safety property of a passing run is a theorem.
`NoLostUpdate` and `NoItemLost` state their sums as sizes of sets of units and of items: a sum by a fold is defined
by induction over the set of calls, which is beyond the provers.

## Not modelled

* The failing paths that the code answers with an assertion or by doing nothing: `realloc` of the destructor table, a mutex that cannot be set up or locked
  (`mulle_thread_once` and the recursive mutex ignore the result), `mulle_thread_create`, and a join or detach that fails on C11 and pthreads, which returns and changes nothing.
* `mulle_thread_tss_*` on C11 and pthreads and `mulle_thread_tss_get`: one call of the platform each, without state of the library's.
* `mulle_thread_yield` and the race yields for tests, which perturb the schedule: the models allow every schedule.
* The key 0 on Windows, which fails an assertion; destructors that free keys; and what a thread does that reads on in a table that was moved
  under its scan, or enters a section that is not initialised.
* A timed wait on Windows that returns -1, and a thread that runs before its creator has stored its handle.
* mintomic, which is an external library; the models take its functions for what the library uses them as. Build files and generated headers.
* Load buffering and out-of-thin-air results of the C11 memory model.

## Plan

Done, in this order: once flags with their abstraction and proofs, recursive mutex, Windows mutex and
condition variable, Windows TSS, atomics, timed wait; then threads, the C11 and pthreads mutex with the stress test on it, function pointers and
the remaining atomics, the proofs of `Threads`, `CondQueue`, `WindowsTss` and `AtomicPointer`, and `PassedSeesNeeds` as a theorem; then the sums (`NoItemLost`, `NoLostUpdate`) and what
the memory orders guarantee (`OneSeesTheOther`, `LastReferenceSees`, `PublishedSeen`) as theorems.

What could follow:

1. `WindowsTss`: destructors that free keys, and a `realloc` that fails, once the code does more than assert; with a scan that copies
   its entries, as the comment in lines 241-244 suggests, `WalkedTableStays` and with repeated passes `EveryValueDestroyed` would become properties of the passing run.
2. A theorem about `tss_destructors` for exactly two threads without a reference of the program's own, where TLC finds its
   properties to hold (`CountMatchesKeys` is stated of programs with one only).
