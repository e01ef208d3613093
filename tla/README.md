# Verification of the glibc compatibility layer for mlibc

The repository builds a preloaded library that lets programs linked against
glibc run on mlibc. It replaces the parts of the C library whose ABI differs
between the two: the pthread mutexes and condition variables (objects of glibc's
size and static initialisers, implemented from scratch on futexes), thread
attributes, a table of small functions, and the raw `syscall`. Because one
process holds code of both kinds, a function may have to ask what kind of code
called it (`is_glibc_caller`).

This directory holds TLA+ models of the parts of it that have behaviour worth
checking, the TLC configurations that check them, and TLAPS proofs of most of
what the runs check. Line numbers are those of the sources under `src/` in the repository.

Contents: [inventory](#inventory), [hard behaviours](#hard-behaviours),
[modules](#modules), [runs](#runs), [proofs](#proofs),
[observations](#observations), [what is not modelled](#what-is-not-modelled),
[plan](#plan).

## Inventory

| Part | Source | State | Operations | Correct when |
|---|---|---|---|---|
| Mutex | `src/mlibc_thread.cpp:50-242` | state word (30 bits of owner, waiters bit), `__mlibc_recursion` (plain int), `__mlibc_flags`, `__mlibc_kind`, the futex queue of the word | init, destroy, lock, trylock, unlock; timedlock and consistent, which only abort | one holder; n locks need n unlocks; no sleeper is forgotten; relocking answers by type; safe to destroy by the last user |
| Condition variable | `src/mlibc_thread.cpp:354-480` | `__mlibc_seq`, `__mlibc_clock`, `__mlibc_flags`, the futex queue of the sequence number | init, wait, timedwait, signal = broadcast | no signal is lost between unlock and sleep; 0 only after a broadcast, ETIMEDOUT only after the deadline; the mutex is held again on return |
| Mutex and condition attributes | `src/mlibc_thread.cpp:23-43, 251-351, 483-527` | bit-fields of ints | init, destroy, a setter and a getter per field | what init finds in the fields means what was asked for |
| Linux system calls | `src/misc.cpp:113-136`, `sysdeps/linux/generic.cpp` | `rax`, `errno` | assembly `syscall`, `sys_futex_wait`, `sys_futex_wake` | callers see errors as errors |
| Caller classification | `src/caller.cpp` | an unlocked cache from return addresses to verdicts; the loaded objects, which come and go | `is_glibc_caller` | one verdict per object, the true one; the scan of the version needs stays inside the chain and ends |
| Thread attributes | `src/thread.cpp:80-290` | fields and one-bit fields, a lazily allocated `cpu_set_t` | init, destroy, setters, getters, `pthread_create` | a thread gets what was set; CPU sets have one owner |
| Managarm futexes, wrapped `syscall` | `sysdeps/managarm/generic.cpp`, `src/misc.cpp:76-109` | none | futex wait and wake over hel; a switch over call numbers | a wait waits, a wake wakes, a failure is seen as one |
| Miscellaneous | `src/misc.cpp:140-344` | none of their own | `close_range`, `epoll_pwait2`, `__sched_cpucount`, `sendfile`, locale objects, program start, `__ensure_fail_wrap` | loops end where they should; `sendfile` skips and repeats nothing and says how much it sent |
| Character tables | `src/ctype.cpp` | constant tables behind thread-local pointers | three accessors | the three tables agree with each other, for every index a program may use |
| Forwarders | `src/alias.cpp`, `src/lfs64.cpp`, `src/chk.cpp`, `src/iconv.cpp` | none | call the function of another name | arguments arrive |
| Build, patching | `meson.build`, `mlibcify.sh`, `src/dummy.cpp` | the OS ABI byte of a patched binary | `patchelf`, one byte written | it is what `is_glibc_caller` looks for |

How they interact. lock, trylock, unlock and init call `is_glibc_caller` with
their return address and use the verdict to choose the field in which the mutex
type is kept (`__mlibc_kind`, where glibc has it, or `__mlibc_flags`). Init reads
the attribute object. A wait on a condition variable calls the internal unlock
and lock of the mutex and sleeps on its own futex. Both sleep through
`sys_futex_wait`, which on Linux goes through the assembly `syscall`. All
assertions (`__ensure`) end in `__ensure_fail_wrap`, which ends the process; in
the models that is the variable `aborted`, after which nothing happens.

## Hard behaviours

The list with lines is in `PROJECT.json` under `hazards`. In short:

* the mutex word is changed by compare-exchange and exchange from several
  threads while each works on a copy; the waiters bit must survive all of it;
* `__mlibc_recursion` is no atomic and is decremented before the caller is known
  to be the owner;
* unlock goes on after the exchange that gives the mutex away: it reads the type
  and wakes sleepers, although the mutex may be destroyed by then;
* a wait on a condition variable releases the mutex, then sleeps; broadcasts,
  interruptions, spurious wake-ups and the deadline race each other and the
  relock;
* bit-fields are signed: two bits hold -2..1, one bit holds -1..0;
* the error return of `syscall` is a 32-bit store into a 64-bit register;
* the classification cache is shared without a lock, and is not told when an
  object is unloaded;
* `sendfile` is a loop of short reads and writes on a position that other threads
  share, with three exits that must all move it again;
* conversions of times and sizes at their boundaries: a borrow, a truncation to
  `int`, a size in bytes divided by bits.

## Modules

### Bitfields, Futex

`Bitfields` has `SignedField(w, v)`, what a signed bit-field of `w` bits returns
after `v` was stored. `Futex` has the three things a futex queue does: a thread
goes to sleep, all are woken, one leaves by itself (a signal, a timeout). The
comparison of the word with the expected value and the enqueueing are one step
of the kernel; the callers' actions contain both.

### PthreadMutex

One mutex, any set of threads. `state` is the word as a record `[owner,
waiters]`, `recursion`, `flags` and `kind` are the fields of the object,
`sleepers` is the futex queue. `mpc` is where a thread is in a call, `seen` its
local copy of the word (`expected` in lock and trylock, `state` in unlock) and
`count` the value of `__mlibc_recursion` that the decrement of unlock has read. There is one action
per access to shared memory or system call:

| Action | Code |
|---|---|
| `LockAcquire` | the compare-exchange from 0, 93-97; on failure the word is fetched |
| `LockTaken` | the assertion and `__mlibc_recursion = 1`, 97-99 (also after trylock) |
| `LockRelock` | the owner field is the caller's: count up, EDEADLK, or "deadlock detected", 101-125 |
| `LockSetWaiters` | the compare-exchange that sets the waiters bit, 139-145 |
| `LockWait`, `LockWoken`, `LockInterrupted` | `sys_futex_wait` and its three ends, 127-138 |
| `TryLoad`, `TryTake` | the load and the compare-exchange of trylock, 161-188 |
| `UnlockAssert` | the assertion on the count, 201 |
| `UnlockLoad`, `UnlockDecrement` | the decrement, 202: a read and a write of a plain int, which the assertion's read does not cover |
| `UnlockExchange` | the exchange with 0, 206 |
| `UnlockCheck` | the ownership test, on the old word and on the type read *now*, 208-228 |
| `UnlockWake` | `sys_futex_wake` returns 0, 231 |
| `UnlockWakeRefused` | it returns something else, on which the assertion at 232 may fail; MutexLifetime says when |

Callers are part of the model, because what the library promises depends on
them. `held[t]` counts what thread `t` has been told it holds; no library action
reads it. `MayLock` and `MayUnlock` are the callers' discipline: unlock what you
hold, do not relock a normal mutex. The constant `ClientMay` lifts parts of it:
`"relock_normal"` allows the self-deadlock the code reports,
`"unlock_unowned_errorcheck"` the foreign unlock that EPERM exists for,
`"unimplemented"` calls of `timedlock` and `consistent`, whose bodies are one
failing assertion (`NotImplemented`). `Callers`
is the set of classes of code that call; `Initialisers` says by which class, by
which way (attribute object or static initialiser) and with which type the mutex
was initialised. The count is an unsigned int (`Up`, `Down`, `MaxUint`).
`StoredType`, `FlagsAfter` and `KindAfter` are the initialisers'
arithmetic, the bit-field included.

### AbstractLock, MutexRefinement

`AbstractLock` is what users of a mutex rely on: an owner, a depth, and per
thread a pending operation that takes effect in one step between call and
return. No word, no waiters bit, no queue. `MutexRefinement` maps PthreadMutex
to it. Lock takes effect with the successful exchange, unlock with the exchange
that clears the word. Only the depth needs care: it is `recursion`, except while
the owner is between the exchange and the plain store next to it (labels
`taken` and `exchange`), where it is 1.

### MutexLifetime

The documented reason for the order of steps in unlock: "After this point the
mutex is unlocked, and therefore we cannot access its contents as it may have
been destroyed by another thread" (208). Threads share a reference-counted
object with a mutex in it, use it as often as they like, drop their reference in
their last critical section; the last one destroys the mutex and frees the
memory. From then on `Scribble` writes anything into the fields, and a wake may
return one of `WakeErrors` (`WakeRefused`). PthreadMutex's actions are used
unchanged. Freed memory can be read: a page that is no longer mapped would end
the program at 213, which is why that read is a finding whatever its value does.

### PthreadCond, AbstractCond

The condition variable over `AbstractLock` (`CondMutex` puts the futex mutex in
its place; waits work on a mutex locked once). `flow` is where a thread is, `mark` the
local `seq`, `outcome` the local `e`, `deadline` whether abstime is null, ahead
or passed. A wait reads `__mlibc_seq`, releases, looks at the clock
(`CondUnlocked`), sleeps (`CondFutexWait`), ends in one of four ways, relocks,
and decides (`CondRelocked`, the four cases of the comment at 435 with their
assertions). A broadcast increments and wakes in two steps, with or without the
mutex. What `sys_futex_wait` *returns* for a kernel error is the constant
`Reports`, a set for each error: the errno value, as the caller's comments
expect, 0, as the Linux build does for all of them (`AsStub`, see
`syscall_futex`), or -1, as the Managarm build does. `KernelMay` says whether the
clock and the wake of a broadcast may fail. Every assertion of the functions is in
the model and names itself in `aborted`. `__mlibc_seq` wraps at `SeqMod`. `posted` and `since`
are history variables that count broadcasts. Signal is broadcast in the code and
so in the model.

`AbstractCond` is what users of a condition variable rely on: a wait is
`waiting` until a broadcast, which is one step, makes it and all other waits
`notified`; it returns 0 only when notified and ETIMEDOUT only after its
deadline, with the mutex. No sequence number, no futex, no wake: whether a
sleeper is woken is a matter of liveness. `PthreadCond` implements it, with a
wait notified when `posted` is past `since`.

### CondMutex

Both futex words of a wait at once. A state is one of PthreadMutex and one of
PthreadCond; `C` is PthreadCond with the abstract lock read off the state word by
MutexRefinement's mapping, so that the two cannot disagree about who has the
mutex. A step of a wait or of the program (`WaiterStep`, `ProgramStep`) is a step
of PthreadCond whose effect on the mutex is nothing or a call of PthreadMutex's
lock or unlock (`Uses`), with the verdict about the caller that the wait was
given; a step inside of the mutex functions (`MutexStep`) is one of PthreadMutex
and leaves the condition variable alone. The calls are bare: `CondMutex` does not
repeat the discipline that PthreadMutex asks of its callers, nor say which steps
of the abstract lock PthreadCond is ready for. That the discipline is kept and
only such steps come is the property `BothHold`.

### SyncAttr, ThreadAttr

The attribute objects and the functions that read them (`MutexInit`, `CondInit`,
`CondWaitAsserts`; `Create` for `pthread_create`), and the getters. The fields
have their width; `wanted`, `asked` are history variables with what the program
asked for, in terms of meaning. The two classes of callers number the mutex types
differently, and `MutexattrSettype` translates. The setters of `ThreadAttr` take
any number, as those of the code do, one-bit fields included. It has the heap as
well: the CPU set's block is allocated at the first setaffinity, and malloc may
fail. `MCAttributes` runs the two side by side.

### SystemCalls

Both builds. `LinuxSyscall` is the assembly stub on registers of `2 * Half` bits:
the unsigned comparison with -4095, the negation into errno, `mov $-1, %eax`, on
results up to the largest positive long;
`FutexResult` is what the two futex functions make of the register.
`WrappedSyscall` is the switch over numbers of the Managarm build with the futex
functions under it: which of them an operation reaches, and the -1 they return
for any error, which is then stored as errno.

### CallerClassify

`is_glibc_caller` from concurrent threads. An object is described by what the
function reads of it: the OS ABI byte, whether there is a `DT_STRTAB`,
`DT_VERNEEDNUM`, and for each version need the names' prefixes. An object without
a string table, or that counts needs and has none, ends the program (`Crash`: the
assertion at 76, the null pointer at 83). `Scan` is a turn of the inner loop. An insertion reads
the table and writes it in two steps, so overlapping insertions lose entries.
`Reload` is dlopen and dlclose: the object at an address is replaced when no call
from it is under way. `past` remembers which addresses had a verdict by then; for
these the cache may be wrong (see the observations) and the properties make an
exception.

### Sendfile

`sendfile` of the build without that system call: `lseek` if there is an offset,
reads and writes through a buffer of `Chunk` bytes, `lseek` back. A byte is its
position in the input, so that `sent` shows what was skipped or sent twice. Reads
and writes may be short or fail, the input may be a pipe, and threads share the
position. `alone`, `short`, `rewound`, `start` are history: they say whether a
disturbance that excuses a call has happened.

### StatelessCalls, CharTables

Functions of their arguments, each next to a reference definition that is written
from what the function is for: the loop of `close_range` on unsigned ints, the
timeouts of `epoll_pwait2` and of a timed wait, the words `__sched_cpucount`
looks at, and the three tables of `src/ctype.cpp` (one table as sets of
characters, the other two as functions). Where the code does less than the
function is for, the reference says what is promised besides, and does not demand
the defect: a version without it would satisfy the properties as well. A null
timeout of `epoll_pwait2` ends the behaviour (`"fault"`). `MCMiscCalls` runs
Sendfile, StatelessCalls and SystemCalls side by side.

## Runs

Deadlock is checked in `cond_mutex`, where the program must always be able to go
on. The others may really stop: a thread waits for a mutex that its holder keeps,
the process has ended on an assertion (`mutex`, `cond_safety`, `attributes`,
`caller_verdict`), the object is gone (`lifetime`), the call has returned
(`misc_calls`).

| Run | Instance | Shows |
|---|---|---|
| `mutex` | 3 threads, glibc callers; normal, recursive by attribute, error-checking and adaptive static mutexes; up to 2 levels; self-deadlock and unimplemented functions allowed | `MutualExclusion`, `HolderIsOwner`, `NoLostWakeup`, `AbortsAreReports` (the only assertion that fails is a report, and a true one); and `ImplementsLock`, the refinement |
| `lifetime` | 3 threads, mlibc callers, normal or recursive mutex, freed memory that may say "error-checking", wakes that return 0, EFAULT or EINVAL there | `DestroyedWhenUnlocked`, `LateUnlockSucceeds`; under fairness `SleepersWake`, `FreeMutexIsTaken`, `ObjectIsFreed` |
| `cond_safety` | 3 threads, 2 broadcasts, a sequence number that may wrap, each kernel error returned as itself, as 0 or as -1, a clock and a wake that may fail | `NoLostSignal`, `CondAbortsAreReports`, `GenuineWakeupReturns`; and `ImplementsCond`, the refinement |
| `cond_mutex` | 2 threads, 2 broadcasts, `AsStub`, a normal static mutex of a glibc binary | `BothHold`: the composition is a behaviour of PthreadMutex and of PthreadCond; under fairness `WaitersWake`, `NotifiedReturn` |
| `attributes` | mutex and condition attributes of both classes of callers, ints in and out of range; or 2 thread attribute objects, 2 heap blocks, 3 fields, numbers that are no constant included | `RecursiveSurvives`, `UnsupportedIsNoticed`, `ClockSurvives`, `GettersTell`; `CreatedAsAsked`, `ReadBack`, `CpuSetsOwned` |
| `caller_verdict` | 2 threads, 2 addresses, sample objects that are loaded and unloaded, unreadable ones included | `VerdictIsTrue`, `CacheIsTrue`, `ScanInBounds`, `CallReturns` |
| `misc_calls` | 2 threads send from a file or pipe; or calls of a stateless function; or system calls of either build on registers of 2 x 4 bits | `CountIsSent`, `SentInOrder`, `NoByteTwice`, `SendReturns`; `CallsExact`, `TimeoutExact`; `CallersSeeFailure`, `ErrnoIsKernels` |
| `mutex_errorcheck_attr` | a violation: an error-checking mutex made with an attribute object | `LegalRelockReturns` fails |
| `mutex_foreign_unlock` | a violation: an error-checking mutex that anybody may unlock | `HolderCounted` fails: the holder finds a count of zero |
| `lifetime_late_access` | a violation: 2 users of a mutex that the last one destroys | `NoAccessAfterDestroy` fails: a late unlock reads the type |
| `cond_wrap` | a violation: a waiter that read the largest sequence number, and one broadcast | `GenuineIsRecognised` fails: the wake-up is taken for a spurious one |
| `syscall_futex` | a violation: `sys_futex_wait` on a kernel error | `FutexWaitReturnsErrors` fails |

Bounds.

* Three threads give a holder, a sleeper and a third that changes the word
  between the two steps of either; a fourth adds no step the third cannot take.
  The proofs do not depend on the number.
* `MaxHeld = 2` tells "last level" from "not the last". `MaxUint = 3` is more than
  callers count up to; only the decrement of zero reaches it.
* Two broadcasts in `cond_safety` are one that overtakes a wait and one that
  arrives in its second round. `SeqMod = 3` with a sequence number that begins
  with 1, as init sets it, makes waits with and without a wrap; that one value
  stands for two broadcasts that lie `SeqMod` apart cannot happen with two
  broadcasts, and is excepted in `NoLostSignal`. In `cond_mutex` two threads
  suffice for a waiter and a signaller that meet on both futexes. The sequence
  number begins there with 0 or 1 (a static initialiser, or init), and `SeqMod = 5`
  does not wrap, because a wait that a wrap sends back need not return.
  `JointBothHold` has no bound, and what three threads can do to each futex alone
  the other runs show.
* `Half = 4`, `MaxErrno = 12`, `ENOSYS = 9`, `MaxResult = 127`: the comparison, the
  negation and the truncation have their boundaries at powers of two and at
  `MaxErrno`, all of them reached; results go up to the largest positive long, so
  that many have upper bits set; `ENOSYS` is neither of the ends.
* Objects in `caller_verdict` have chains of up to two needs with up to two
  names, and counters below, at and above the length of the chain.
* `attributes`: a one-bit field is set to 0, 1 and 2; two objects are needed to
  share a block, and two blocks to leak one.
* `misc_calls`: 3 bytes of input, a buffer of 2, counts to 3 and 2 calls give a
  full and a partial turn of the loop, the end of the input at both, and a second
  call that begins where the first, or an overlapping one, has left the position.
  Ints of 5 bits, 4 ms to a second and 3 ns to one, words of 4 bits and bytes of
  2: seconds that wrap, a borrow and its absence, sizes that are no multiple of a
  word.

Fairness. Inside a call a thread is scheduled again and again (weak fairness of
the library's steps, the kernel runs every thread). In `lifetime` a thread also
goes on to its next critical section and ends it, as the program of that module
is written; `ObjectIsFreed` has as a premise that nobody keeps its reference for
ever. In `cond_mutex` time passes and a holder
outside of a call releases the mutex some day (strong fairness, because it may
broadcast in between). `NotifiedReturn` has as a premise that requests for the
mutex cease: a mutex without an order may pass over a waiter for ever while others
keep asking. In `misc_calls` a read or write returns some day, which
for a pipe assumes that its other end goes on. Nothing is assumed about signals,
or about the order in which the kernel wakes threads.

`SleepersWake` and `WaitersWake` speak of the sleep, not of the lock: a thread
that is woken competes with newcomers and may lose for ever. The code has no
queue, and POSIX asks for none.

## Proofs

No proof bounds the number of threads, objects or bytes. All start from the
assumptions of the modules they are about, which TLC evaluates in every run, and
from the hypotheses named here.

### The mutex: PthreadMutexProofs

* `MutexTypeOK`: `Spec => []TypeOK`, without any discipline: no step leaves the
  layout of the word or the control flow. It says nothing about the count but that
  it is an unsigned int.
* `MutexInvariant`: under `Disciplined` (no foreign unlocks), `MutexInv` is
  inductive together with `TypeOK`. Its parts: `OwnerInv` says who the owner in
  the word is, by place: the thread the callers know to hold the mutex, or one
  between an exchange and the store beside it, and what the count then is.
  `CallInv` says which local copies are still true where the code relies on
  them: the old word in unlock names the caller, a copy in lock that names the
  caller is no stale one, the copy of the count is the count. `NoLostWakeup` and
  `AbortsAreReports` are inductive with these.
* `MutexExcludes`, `MutexHolderIsOwner`, `MutexNoLostWakeup`,
  `MutexAbortsAreReports` and `MutexHolderCounted` follow. The last is the property
  that `mutex_foreign_unlock` violates: the foreign unlock is the only way to it.

`Disciplined` is needed: with a foreign unlock of an error-checking mutex the word
is cleared under its holder, so none of them holds for callers that rely on EPERM.

### Its abstraction, in the same module

`MutexImplementsLock`: `Spec => ImplementsLock` under `Disciplined` and
`TypeReachesCallers`: the field of the type that a caller looks at holds the type
that was declared. `SameClassReaches` shows that this is so when all callers are
of the class that initialised the mutex and a type set through an attribute
object is 0 or 1, the two that fit the field; `NormalReaches`, that it is so for a
normal mutex that glibc code initialised, whoever uses it (the observations say
what happens otherwise). Every step of the code is a step of `AbstractLock` or a
stutter. A step starts from `StepInv`, which adds to `MutexInv` that the type seen
by a call is the type declared (`TypeSeenInv`), and that trylock reaches its
exchange only for a thread that does not have the mutex (`TrylockInv`; otherwise
EBUSY on a recursive mutex would be wrong). The deadlock report is a stutter: the
abstract lock lets that thread wait for ever.

### Its end: MutexLifetimeProofs

`LifetimeDestroyedWhenUnlocked` and `LifetimeLateUnlockSucceeds`, for any type of
mutex and anything the freed memory is used for, under `ErrorsArePositive`: no
wake returns a negative number, as none does on Linux (the -1 of the Managarm build
would fail the assertion at 232). That the read of the type at 213 comes too late is
not proved away: `NoAccessAfterDestroy` fails in a run. The mutex invariant does not
carry over, because the memory may change under the last steps of an unlock.
`LifetimeInv` therefore speaks of the fields only while the object is alive
(`OwnerInv`), of local copies always (`CopyInv`), and connects the two by
`RoleInv`: `refs` is the number of threads that have not dropped their reference,
and once it is zero only the last user is at a place before the exchange of an unlock.
The reference count is counted by `Cardinality`, with the library's facts about
finite sets.

### The condition variable: PthreadCondProofs

No hypotheses but `CondAssumption`: any `Reports`, any `KernelMay`, any modulus.
`CondInv` says by place in a wait who has the mutex (`Part`), what the reason a
sleep ended with implies (`Truthful`), and that for every waiter that fewer than
`SeqMod` broadcasts have passed, `seq - mark` is `posted - since`, less `SeqMod` if
the number has wrapped (`Counts`): comparing sequence numbers is comparing counts of
broadcasts unless it has. From it `CondTypes`, `CondNoLostSignal`,
`CondWaiterReleased`, `CondAbortReasons` (an assertion fails only on what the kernel
answered, or on EAGAIN after a wrap), `CondGenuineWakeup` (a wake-up is missed only
by a wrap, which `cond_wrap` shows) and `CondImplements`, the refinement of
`AbstractCond`, which holds whether or not the number wraps.
`MutexUse` says what the steps of a wait and of the program ask of the mutex:
nothing, or lock without having it, or unlock with it.

### Both together: CondMutexProofs

`JointBothHold`: `JointSpec => Spec /\ C!Spec`, under the hypotheses of the mutex
(`Disciplined`, `TypeReachesCallers`). Each keeps to its rules only as long as the other does: the waits
unlock what they have because the lock they called returned with it, and the
mutex hands itself over correctly because its callers unlock only what they have.
The circle is broken by proving both invariants in one induction, `JointInv`: a
state with both, a step of each component (`UseCalls` for calls, `MutexStepMaps`
for what goes on inside of them), hence a state with both, by the lemmas of the
two modules, which are used as they are. `JointInv` adds that no thread that asks
for the mutex has it (`Asking`), without which the mutex could report a deadlock
and end the process in the middle of a wait. Of the abstract lock's steps those of
recursive and error-checking mutexes and of trylock are excluded, because the type
is that of a normal mutex and every caller sees it.

So all that is proved of either is true of the code that has both:
`JointAborts` (the mutex reports no deadlock and none of its assertions fails, those
of the waits and broadcasts do only on what the kernel answered),
`JointNoLostWake` (no sleeper on either futex is forgotten), `JointWaiterReleased`
(by the count of the callers, not only by the state word), and
`JointImplementsCond`, from the two futex words to the abstract condition variable.

### Classification: CallerClassifyProofs

`CallerVerdicts`, `CallerCache`, `CallerScans`, for objects with chains of any
length, unreadable ones included. `CallerInv` has for a thread in the scan that it is inside the chain, that
`glibc` says whether a name before this need is one of glibc's and that none
before it in this need is (`ScanAt`), and for every pair in the cache, or in the
copy that an insertion has read, that it is true or about a replaced object.

`CallerAdvances` is what of `CallReturns` needs no fairness. Every step of a call
lowers, in lexicographic order, the places it may still come to, the needs left in
the chain and the names left in the need, which `CallerInv` shows never negative,
or ends the program; no step of another thread, and no load or unload, changes
them. So a call that is scheduled returns, or the program is at its end.

### Attributes: SyncAttrProofs, ThreadAttrProofs

Invariants of the same form: the fields are functions of what was asked for
(`FieldsOf`, `Stored`), through the signed bit-fields, for whatever ints are
passed to any setter. `AttrRecursiveSurvives`, `AttrUnsupportedIsNoticed`, `AttrClockSurvives`,
`AttrGettersTell` follow, as do `AttrTypes` and `AttrRefusals` (a refused call
changes nothing), which no run repeats; and `ThreadCreatedAsAsked`,
`ThreadReadBack`, `ThreadCpuSetsOwned`. The invariant of thread attributes adds
that the block of a live object holds its affinity.

### Miscellaneous and system calls: MiscCallsProofs

sendfile: `SendCountIsSent`, `SendSentInOrder` and `SendNoByteTwice`, for any
buffer and input. By place in the loop: while
nobody disturbs a call, the position is that of its next byte (`PlaceAt`); a short
or failed transfer is remembered wherever the loop is about to end early
(`LoopAt`); a call with an offset has `cur` (`SeekAt`); and as long as nobody moves
the position back, everything read is before it and nobody else's (`OnceInv`).
`SendAdvances`, which no run repeats, is the measure of the loop: `StepsLeft`, about
twice `count`, is a natural number that every step of a call lowers, because a turn
that goes on has written a whole buffer, and that no other thread changes.

The stateless functions: `StatelessCallsExact` and `StatelessTimeoutExact`, for
ints, words, clock units and arguments of any size. Here the content is
arithmetic: a quotient and a remainder are determined by the equation they
satisfy (`DivMod`), truncation to a width is one of them, and each function is
compared with its reference definition.

System calls: `SysCallersSeeFailure` and `SysErrnoIsKernels`, for registers of any
width and any errors and results of the kernel that fit them, those with upper bits
set included. `SysFutexHidesErrors`, which no run repeats, is the general
statement behind the finding about the Linux stub: in that build `FutexResult` is
always 0. It is why `AsStub` is the right value of `Reports` there.

The provers know powers of two for numerals only. `WidthPowers` and
`RegisterPowers` are the laws the proofs use, at the widths that are constants of
the modules: assumptions that are true of every positive width, and that TLC
evaluates at those of the runs.

### Only model-checked

Liveness: the prover has no reasoning about fairness. That is `SleepersWake`,
`FreeMutexIsTaken`, `ObjectIsFreed`, `WaitersWake`,
`NotifiedReturn`, `CallReturns` and `SendReturns`; of the last two, all but the
scheduling is proved (`CallerAdvances`, `SendAdvances`). Every invariant and every action
property that a run checks, and both refinements, have a theorem.

## Observations

What the code does against its own assertions and comments, and a run shows, is in
`PROJECT.json` under `findings`:

* the error-checking type does not fit its bit-field, and relocking such a mutex
  ends the process (`mutex_errorcheck_attr`);
* a foreign unlock of an error-checking mutex decrements the count and clears the
  word (202, 206) before it looks at the owner and refuses with EPERM. The mutex is
  then free while its holder believes to have it, and the holder's own unlock fails
  the assertion at 201, or, if it is past it, makes UINT_MAX of the count
  (`mutex_foreign_unlock`);
* unlock reads the type after the exchange, which the comment at 208 rules out
  (`lifetime_late_access`). `LateUnlockSucceeds` shows that the value does not
  matter; the memory access itself remains;
* `cur_seq > seq` (446) takes a broadcast that wraps the sequence number for none.
  No long sleep is needed: one broadcast from 0xFFFFFFFF to 0 sends the waiters it
  wakes back to wait (`cond_wrap`). A waiter that is told EAGAIN by it fails the
  assertion at 449 (`cond_seq` in `CondAbortsAreReports`);
* no futex error gets through the Linux stub (`syscall_futex`). This makes three of
  the four cases after a wait dead code on Linux: a timed wait still ends in time,
  because the loop looks at the clock before it sleeps again (`WaitersWake` holds
  with `AsStub`).

Others follow from the models but have no run of their own:

* The type of a mutex is stored for the class of the code that initialised it.
  If code of the other class locks it, it reads the other field; a recursive
  mutex relocked there ends the process. The bit `mutex_is_glibc` is set by init
  and never read.
* After 2^32 broadcasts the sequence number is where it was; a waiter that is
  overtaken by exactly that many between its read and its sleep goes to sleep. It
  is the exception in `NoLostSignal`.
* On Managarm every error of a wait is -1, a timeout and an interruption included,
  and ends the process (`cond_wait` in `CondAbortsAreReports`); so does a failing
  wake, in broadcast (376) and in unlock (232).
* Getters return what is in the field: `gettype` -2 for ERRORCHECK, and glibc's
  numbering to callers of both classes although `settype` translates; robust and
  pshared -1 for 1, protocol -2 for PROTECT; the one-bit fields in thread.cpp -1
  for the constant 1.
* The setters of those one-bit fields check nothing: `pthread_attr_setdetachstate`
  with 2 returns 0, stores 0 and creates a joinable thread, where EINVAL is asked
  for. `CreatedAsAsked` and `ReadBack` speak of the constants only.
* pthread_attr_init after pthread_attr_init without destroy loses a CPU set;
  `attributes` assumes, as POSIX does, that programs do not do that.
* `is_glibc_caller` ends the program for a caller in an object without a string
  table (76), or with a `DT_VERNEEDNUM` and no `DT_VERNEED` (83).
* The classification cache outlives the objects: a verdict from before dlclose is
  given to the object that is loaded at the same address later.
* On Linux `syscall` returns 4294967295 for an error to a caller that keeps a
  `long`. In the Managarm build every futex operation with an odd number is a wake
  and every even one a wait: FUTEX_WAIT_BITSET and FUTEX_REQUEUE wake,
  FUTEX_CMP_REQUEUE waits (`IsWake`; no property is about it); a wake returns 0 and
  not how many it woke; errno becomes -1, as the futex functions return -1 for any
  error.
* `sendfile` returns -1 if a later write fails although bytes went out, so the
  caller cannot know how many. After a short write the position is past what was
  sent, and the next call begins there. With an offset the position ends at
  `*offset` and not where it was before, `*offset` is not updated, and a pipe is
  read anyway where the system call says ESPIPE. `lseek` and `read` are two calls,
  so overlapping calls with and without an offset disturb each other.
* `close_range` with the usual last descriptor, UINT_MAX, never ends, as
  `i <= last` always holds; `CloseRangeExact` makes an exception for it. Its flags
  are ignored. `epoll_pwait2` dereferences a null timeout, which means no timeout.
  `__sched_cpucount` divides a size in bytes by the bits of a word and counts the
  first CPUs only; `CpuCountOfFirst` asks for those and forbids counting others
  twice or reading past the set.
* The tolower and toupper tables have 0 for control characters and for
  everything above 126, where glibc's return the character; no entry of the class
  table has the bit of `isalnum`.
* `_longjmp` in `src/misc.cpp` jumps to itself; the `memcpy` in
  `src/iconv.cpp` has its arguments in the wrong order.

## What is not modelled

* Managarm's `helFutexWait` and `helFutexWake` themselves: what they return and how
  they read a deadline is not in the repository. `SystemCalls` has their success
  and failure, `cond_safety` the -1 and the failing wake.
* A mutex of one class used by callers of both: no run and no theorem, as the type
  is not found where it was stored (see the observations). `TypeReachesCallers`
  names what `MutexImplementsLock` needs.
* The memory of the classification cache: the hash map is frigg's. That
  overlapping insertions may corrupt it is in the list of hazards with no property.
* Memory ordering weaker than sequential consistency. The word is accessed with
  acquire, release and acq_rel operations; `__mlibc_recursion` only by the owner
  between them, foreign unlocks excepted.
* Locale objects, iconv stubs, the fortified functions, aliases and 64-bit
  forwarders, program start, the dummy libraries, the build and patch scripts:
  constants and calls of another function, with no state and no arithmetic that a
  property could be about.
* process-shared objects and robust mutexes: the code refuses them with an
  assertion, which is in SyncAttr.

## Plan

The order of work was: the mutex with its abstraction, lifetime and proofs; the
condition variable over the abstract lock and its own abstraction; the parts both
rest on (attributes, system calls, classification) and thread attributes; the
small functions; then the proofs about all of these. What is left:

1. A model of the hel futex calls under the Managarm functions, once their meaning
   is known.
2. A mutex shared between the classes, once the code says what it promises there.
