----------------------------- MODULE PthreadMutex -----------------------------
(***************************************************************************)
(* The pthread mutex of src/mlibc_thread.cpp: lock, trylock and unlock of  *)
(* one mutex by concurrent threads, one action per access to shared memory *)
(* or system call.                                                         *)
(*                                                                         *)
(* The 32-bit word __mlibc_state is the record [owner, waiters]: the 30    *)
(* bits of mutex_owner_mask and the mutex_waiters_bit.  Unlocked is the    *)
(* value 0.  Local variables of a call live in seen[t] (the "expected" of  *)
(* lock and trylock, the "state" of unlock: never both at once).           *)
(*                                                                         *)
(* held[t] is what the callers know: how many times t was told that it has *)
(* the mutex and has not given it back yet.  It is a history variable: no  *)
(* action of the library reads it, only the callers' discipline does.      *)
(***************************************************************************)
EXTENDS Bitfields

CONSTANTS Threads,      \* the threads that use the mutex
          NoThread,     \* the owner field of the value 0
          Callers,      \* classes of code that call: "glibc", "mlibc"
          Initialisers, \* how the mutex may have been initialised
          Leftover,     \* values __mlibc_kind may hold before an init
          ClientMay,    \* departures from the usual discipline, see MayLock
          MaxHeld,      \* bound on the recursion level callers build up
          MaxUint       \* the largest unsigned int: 2^32 - 1

\* The type numbers, which are also glibc's.
TimedNp == 0
RecursiveNp == 1
ErrorCheckNp == 2
AdaptiveNp == 3

\* Errors of FUTEX_WAKE.
EACCES == 13
EINVAL == 22

ASSUME MutexAssumption ==
    /\ NoThread \notin Threads
    /\ Callers # {} /\ Callers \subseteq {"glibc", "mlibc"}
    /\ Initialisers \subseteq [caller : {"glibc", "mlibc"},
                               via : {"attr", "static"},
                               type : TimedNp .. AdaptiveNp]
    /\ Leftover \subseteq Int
    /\ ClientMay \subseteq {"relock_normal", "unlock_unowned_errorcheck",
                      "unimplemented"}
    /\ MaxUint \in Nat \ {0} /\ MaxHeld \in 1 .. MaxUint

VARIABLES state,     \* __mlibc_state
          recursion, \* __mlibc_recursion
          flags,     \* __mlibc_flags
          kind,      \* __mlibc_kind
          declared,  \* the type the initialising code asked for
          mpc,       \* where each thread is in the library
          caller,    \* class of the code that made the current call
          seen,      \* local copy of the state word
          count,     \* local copy of __mlibc_recursion, in unlock
          ret,       \* what the last call of the thread returned
          held,      \* what the callers know, see above
          sleepers,  \* threads in FUTEX_WAIT on __mlibc_state
          aborted    \* the __ensure that ended the process, or "none"

mutexVars == <<state, recursion, flags, kind, declared, mpc, caller, seen,
               count, ret, held, sleepers, aborted>>

F == INSTANCE Futex

Unlocked == [owner |-> NoThread, waiters |-> FALSE]
Word == [owner : Threads \cup {NoThread}, waiters : BOOLEAN]

Results == {"OK", "EBUSY", "EDEADLK", "EPERM"}

-----------------------------------------------------------------------------
(* Initialisation                                                          *)

\* The type that reaches __pthread_mutex_init: through an attribute object
\* it has been stored in a two-bit field; a static initialiser puts it
\* straight into the bytes of the mutex.
StoredType(i) == IF i.via = "attr" THEN SignedField(2, i.type) ELSE i.type

\* __mlibc_flags and __mlibc_kind after an initialisation i.  A caller that
\* is not a glibc binary gets the type in the flags, and kind is not written.
FlagsAfter(i) == IF i.caller = "glibc"
                 THEN IF i.via = "attr" THEN 1 ELSE 0
                 ELSE 2 * StoredType(i)

KindAfter(i, old) == IF i.caller = "glibc" THEN StoredType(i) ELSE old

Init ==
    /\ state = Unlocked
    /\ recursion = 0
    /\ \E i \in Initialisers, old \in Leftover :
          /\ declared = i.type
          /\ flags = FlagsAfter(i)
          /\ kind = KindAfter(i, old)
    /\ mpc = [t \in Threads |-> "idle"]
    /\ caller = [t \in Threads |-> CHOOSE c \in Callers : TRUE]
    /\ seen = [t \in Threads |-> Unlocked]
    /\ count = [t \in Threads |-> 0]
    /\ ret = [t \in Threads |-> "OK"]
    /\ held = [t \in Threads |-> 0]
    /\ sleepers = {}
    /\ aborted = "none"

\* The type a call sees: lock, trylock and unlock read __mlibc_flags when
\* their caller is mlibc code and __mlibc_kind when it is a glibc binary.
TypeSeen(c) == IF c = "mlibc" THEN flags \div 2 ELSE kind

\* ++ and -- of __mlibc_recursion, an unsigned int.
Up(n) == IF n = MaxUint THEN 0 ELSE n + 1
Down(n) == IF n = 0 THEN MaxUint ELSE n - 1

-----------------------------------------------------------------------------
(* Control flow shared by the actions                                      *)

Goto(t, l) == mpc' = [mpc EXCEPT ![t] = l]

\* The call of t returns r.
Finish(t, r) ==
    /\ Goto(t, "idle")
    /\ ret' = [ret EXCEPT ![t] = r]
    /\ seen' = [seen EXCEPT ![t] = Unlocked]

\* __ensure_fail_wrap: the process is gone.
Abort(why) ==
    /\ aborted' = why
    /\ UNCHANGED <<state, recursion, mpc, seen, count, ret, held, sleepers>>

\* The macro __ensure in front of the rest of a step.
Ensure(holds, why, Rest) ==
    IF holds THEN Rest /\ UNCHANGED aborted ELSE Abort(why)

-----------------------------------------------------------------------------
(* Calls                                                                   *)

\* The discipline of the callers: a thread that already has the mutex locks
\* it again only if the mutex was declared recursive or error-checking,
\* unless ClientMay allows the self-deadlock of a normal one.
MayLock(t) ==
    \/ held[t] = 0
    \/ /\ held[t] < MaxHeld
       /\ \/ declared \in {RecursiveNp, ErrorCheckNp}
          \/ "relock_normal" \in ClientMay

\* A thread gives back what it has; a thread that does not have the mutex
\* may try to unlock it only if it is error-checking, which defines that.
MayUnlock(t) ==
    \/ held[t] > 0
    \/ /\ "unlock_unowned_errorcheck" \in ClientMay
       /\ declared = ErrorCheckNp

Enter(t, c, l) ==
    /\ mpc[t] = "idle"
    /\ Goto(t, l)
    /\ caller' = [caller EXCEPT ![t] = c]
    /\ UNCHANGED <<state, recursion, flags, kind, declared, seen, count, ret,
                   held, sleepers, aborted>>

CallLock(t, c) == Enter(t, c, "lock")
CallTrylock(t, c) == Enter(t, c, "try_load")
CallUnlock(t, c) == Enter(t, c, "unlock")

\* What no step of a call changes; Unread is for the steps that do not read
\* __mlibc_recursion into a local either.
Fixed == UNCHANGED <<flags, kind, declared, caller>>
Unread == Fixed /\ UNCHANGED count

-----------------------------------------------------------------------------
(* __pthread_mutex_lock_internal                                           *)

\* compare_exchange(state, 0, this_tid): takes the mutex, or fetches the word.
LockAcquire(t) ==
    /\ mpc[t] = "lock" /\ seen[t] = Unlocked
    /\ \/ /\ state = Unlocked
          /\ state' = [owner |-> t, waiters |-> FALSE]
          /\ Goto(t, "taken")
          /\ UNCHANGED seen
       \/ /\ state # Unlocked
          /\ seen' = [seen EXCEPT ![t] = state]
          /\ UNCHANGED <<state, mpc>>
    /\ Unread /\ UNCHANGED <<recursion, ret, held, sleepers, aborted>>

\* After a successful exchange, of lock and of trylock.
LockTaken(t) ==
    /\ mpc[t] = "taken"
    /\ Ensure(recursion = 0, "recursion_not_zero",
              /\ recursion' = 1
              /\ held' = [held EXCEPT ![t] = 1]
              /\ Finish(t, "OK")
              /\ UNCHANGED <<state, sleepers>>)
    /\ Unread

\* Mutant: "++__mlibc_recursion" left out.
ReacquireUncounted(t) ==
    /\ held' = [held EXCEPT ![t] = @ + 1]
    /\ Finish(t, "OK")
    /\ UNCHANGED <<state, recursion, sleepers, aborted>>

Reacquire(t) ==
    /\ recursion' = Up(recursion)
    /\ held' = [held EXCEPT ![t] = @ + 1]
    /\ Finish(t, "OK")
    /\ UNCHANGED <<state, sleepers, aborted>>

Refuse(t, r) ==
    /\ Finish(t, r)
    /\ UNCHANGED <<state, recursion, held, sleepers, aborted>>

\* Mutant: the answers for recursive and error-checking mutexes swapped.
LockRelockSwapped(t) ==
    /\ mpc[t] = "lock" /\ seen[t].owner = t
    /\ \/ TypeSeen(caller[t]) = ErrorCheckNp /\ Reacquire(t)
       \/ TypeSeen(caller[t]) = RecursiveNp /\ Refuse(t, "EDEADLK")
       \/ TypeSeen(caller[t]) \notin {RecursiveNp, ErrorCheckNp} /\ Abort("deadlock")
    /\ Unread

\* The word says that the caller has the mutex already.
LockRelock(t) ==
    /\ mpc[t] = "lock" /\ seen[t].owner = t
    /\ \/ TypeSeen(caller[t]) = RecursiveNp /\ Reacquire(t)
       \/ TypeSeen(caller[t]) = ErrorCheckNp /\ Refuse(t, "EDEADLK")
       \/ TypeSeen(caller[t]) \notin {RecursiveNp, ErrorCheckNp} /\ Abort("deadlock")
    /\ Unread

HeldByAnother(t) == seen[t] # Unlocked /\ seen[t].owner # t

\* compare_exchange(state, expected, expected | mutex_waiters_bit): on failure
\* the word now in state is looked at again.
LockSetWaiters(t) ==
    /\ mpc[t] = "lock" /\ HeldByAnother(t) /\ ~seen[t].waiters
    /\ IF state = seen[t]
       THEN /\ state' = [state EXCEPT !.waiters = TRUE]
            /\ seen' = [seen EXCEPT ![t] = state']
       ELSE /\ seen' = [seen EXCEPT ![t] = state]
            /\ UNCHANGED state
    /\ Unread /\ UNCHANGED <<recursion, mpc, ret, held, sleepers, aborted>>

\* Mutant: sleeps whether or not the waiters bit is set.
LockWaitNoBit(t) ==
    /\ mpc[t] = "lock" /\ HeldByAnother(t)
    /\ seen' = [seen EXCEPT ![t] = Unlocked]
    /\ \/ state = seen[t] /\ F!FutexSleep(t) /\ Goto(t, "asleep")
       \/ state # seen[t] /\ UNCHANGED <<sleepers, mpc>>
    /\ Unread /\ UNCHANGED <<state, recursion, ret, held, aborted>>

\* Mutant: "expected = 0" left out after the wait.
LockWaitStale(t) ==
    /\ mpc[t] = "lock" /\ HeldByAnother(t) /\ seen[t].waiters
    /\ \/ state = seen[t] /\ F!FutexSleep(t) /\ Goto(t, "asleep")
       \/ state # seen[t] /\ UNCHANGED <<sleepers, mpc>>
    /\ Unread /\ UNCHANGED <<state, recursion, seen, ret, held, aborted>>

\* sys_futex_wait(&state, expected): sleeps if the word is still the one
\* seen, else EAGAIN and back to the exchange.
LockWait(t) ==
    /\ mpc[t] = "lock" /\ HeldByAnother(t) /\ seen[t].waiters
    /\ seen' = [seen EXCEPT ![t] = Unlocked]
    /\ \/ state = seen[t] /\ F!FutexSleep(t) /\ Goto(t, "asleep")
       \/ state # seen[t] /\ UNCHANGED <<sleepers, mpc>>
    /\ Unread /\ UNCHANGED <<state, recursion, ret, held, aborted>>

\* Woken: "opportunistically try to take the lock".
LockWoken(t) ==
    /\ mpc[t] = "asleep" /\ t \notin sleepers
    /\ Goto(t, "lock")
    /\ Unread /\ UNCHANGED <<state, recursion, seen, ret, held, sleepers, aborted>>

\* EINTR ends the wait in the same way.
LockInterrupted(t) ==
    /\ mpc[t] = "asleep" /\ F!FutexLeave(t)
    /\ Goto(t, "lock")
    /\ Unread /\ UNCHANGED <<state, recursion, seen, ret, held, aborted>>

-----------------------------------------------------------------------------
(* __pthread_mutex_trylock                                                 *)

\* Mutant: trylock of a recursive mutex does not look at the owner.
TryLoadAnyOwner(t) ==
    /\ mpc[t] = "try_load"
    /\ \/ /\ state = Unlocked
          /\ Goto(t, "try_take")
          /\ UNCHANGED <<state, recursion, seen, ret, held, sleepers, aborted>>
       \/ /\ state # Unlocked /\ TypeSeen(caller[t]) = RecursiveNp
          /\ Reacquire(t)
       \/ /\ state # Unlocked /\ TypeSeen(caller[t]) # RecursiveNp
          /\ Refuse(t, "EBUSY")
    /\ Unread

TryLoad(t) ==
    /\ mpc[t] = "try_load"
    /\ \/ /\ state = Unlocked
          /\ Goto(t, "try_take")
          /\ UNCHANGED <<state, recursion, seen, ret, held, sleepers, aborted>>
       \/ /\ state.owner = t /\ TypeSeen(caller[t]) = RecursiveNp
          /\ Reacquire(t)
       \/ /\ state # Unlocked
          /\ state.owner # t \/ TypeSeen(caller[t]) # RecursiveNp
          /\ Refuse(t, "EBUSY")
    /\ Unread

TryTake(t) ==
    /\ mpc[t] = "try_take"
    /\ \/ /\ state = Unlocked
          /\ state' = [owner |-> t, waiters |-> FALSE]
          /\ Goto(t, "taken")
          /\ UNCHANGED <<recursion, seen, ret, held, sleepers, aborted>>
       \/ /\ state # Unlocked
          /\ Refuse(t, "EBUSY")
    /\ Unread

-----------------------------------------------------------------------------
(* __pthread_mutex_unlock_internal                                         *)

\* The assertion.  __mlibc_recursion is no atomic: it is read here, and again
\* by the decrement, whose own read and write are two steps as well.
UnlockAssert(t) ==
    /\ mpc[t] = "unlock"
    /\ Ensure(recursion # 0, "recursion_zero",
              /\ Goto(t, "load")
              /\ UNCHANGED <<state, recursion, seen, ret, held, sleepers>>)
    /\ Unread

UnlockLoad(t) ==
    /\ mpc[t] = "load"
    /\ count' = [count EXCEPT ![t] = recursion]
    /\ Goto(t, "decrement")
    /\ Fixed
    /\ UNCHANGED <<state, recursion, seen, ret, held, sleepers, aborted>>

\* Mutant: the count is tested but not stored.
UnlockDecrementUnstored(t) ==
    /\ mpc[t] = "decrement"
    /\ count' = [count EXCEPT ![t] = 0]
    /\ held' = [held EXCEPT ![t] = IF @ > 0 THEN @ - 1 ELSE 0]
    /\ \/ Down(count[t]) # 0 /\ Finish(t, "OK")
       \/ Down(count[t]) = 0 /\ Goto(t, "exchange") /\ UNCHANGED <<seen, ret>>
    /\ Fixed /\ UNCHANGED <<state, recursion, sleepers, aborted>>

UnlockDecrement(t) ==
    /\ mpc[t] = "decrement"
    /\ recursion' = Down(count[t])
    /\ count' = [count EXCEPT ![t] = 0]
    /\ held' = [held EXCEPT ![t] = IF @ > 0 THEN @ - 1 ELSE 0]
    /\ \/ Down(count[t]) # 0 /\ Finish(t, "OK")
       \/ Down(count[t]) = 0 /\ Goto(t, "exchange") /\ UNCHANGED <<seen, ret>>
    /\ Fixed /\ UNCHANGED <<state, sleepers, aborted>>

\* Mutant: the word is read but not reset.
UnlockExchangeKeeps(t) ==
    /\ mpc[t] = "exchange"
    /\ seen' = [seen EXCEPT ![t] = state]
    /\ Goto(t, "check")
    /\ Unread /\ UNCHANGED <<state, recursion, ret, held, sleepers, aborted>>

\* Mutant: the word is cleared, then the mutex is accessed once more.
UnlockExchangeThenTouch(t) ==
    /\ mpc[t] = "exchange"
    /\ \/ seen[t] = Unlocked /\ seen' = [seen EXCEPT ![t] = state]
          /\ state' = Unlocked /\ UNCHANGED mpc
       \/ seen[t] # Unlocked /\ Goto(t, "check") /\ UNCHANGED <<state, seen>>
    /\ Unread /\ UNCHANGED <<recursion, ret, held, sleepers, aborted>>

UnlockExchange(t) ==
    /\ mpc[t] = "exchange"
    /\ seen' = [seen EXCEPT ![t] = state]
    /\ state' = Unlocked
    /\ Goto(t, "check")
    /\ Unread /\ UNCHANGED <<recursion, ret, held, sleepers, aborted>>

\* Mutant: the ownership test reads the word again.
UnlockCheckReread(t) ==
    /\ mpc[t] = "check"
    /\ \/ /\ TypeSeen(caller[t]) = ErrorCheckNp /\ state.owner # NoThread
          /\ Refuse(t, "EPERM")
       \/ /\ TypeSeen(caller[t]) # ErrorCheckNp \/ state.owner = NoThread
          /\ Ensure(seen[t].owner = t, "not_the_owner",
                    /\ IF seen[t].waiters
                       THEN Goto(t, "wake") /\ UNCHANGED <<seen, ret>>
                       ELSE Finish(t, "OK")
                    /\ UNCHANGED <<state, recursion, held, sleepers>>)
    /\ Unread

\* Mutant: returns without looking at the waiters bit.
UnlockCheckNoWake(t) ==
    /\ mpc[t] = "check"
    /\ \/ /\ TypeSeen(caller[t]) = ErrorCheckNp /\ seen[t].owner # t
          /\ Refuse(t, "EPERM")
       \/ /\ TypeSeen(caller[t]) # ErrorCheckNp \/ seen[t].owner = t
          /\ Ensure(seen[t].owner = t, "not_the_owner",
                    /\ Finish(t, "OK")
                    /\ UNCHANGED <<state, recursion, held, sleepers>>)
    /\ Unread

\* The ownership test, on the word the exchange returned and on the type
\* read from the mutex after it was unlocked.  (EINVAL cannot be returned:
\* an owner field of zero already differs from the caller's.)
UnlockCheck(t) ==
    /\ mpc[t] = "check"
    /\ \/ /\ TypeSeen(caller[t]) = ErrorCheckNp /\ seen[t].owner # t
          /\ Refuse(t, "EPERM")
       \/ /\ TypeSeen(caller[t]) # ErrorCheckNp \/ seen[t].owner = t
          /\ Ensure(seen[t].owner = t, "not_the_owner",
                    /\ IF seen[t].waiters
                       THEN Goto(t, "wake") /\ UNCHANGED <<seen, ret>>
                       ELSE Finish(t, "OK")
                    /\ UNCHANGED <<state, recursion, held, sleepers>>)
    /\ Unread

\* sys_futex_wake returns 0.
UnlockWake(t) ==
    /\ mpc[t] = "wake"
    /\ F!FutexWakeAll
    /\ Finish(t, "OK")
    /\ Unread /\ UNCHANGED <<state, recursion, held, aborted>>

\* Mutant: the result is tested for success only.
UnlockWakeRefusedStrict(t, e) ==
    /\ mpc[t] = "wake"
    /\ Ensure(e = 0, "wake_failed",
              Finish(t, "OK") /\ UNCHANGED <<state, recursion, held, sleepers>>)
    /\ Unread

\* sys_futex_wake wakes nobody and returns e.  That takes an address that is
\* not mapped any more, so it can only happen after the end of the mutex:
\* MutexLifetime says when and with which e.
UnlockWakeRefused(t, e) ==
    /\ mpc[t] = "wake"
    /\ Ensure(e >= 0 \/ e \in {EACCES, EINVAL}, "wake_failed",
              Finish(t, "OK") /\ UNCHANGED <<state, recursion, held, sleepers>>)
    /\ Unread

-----------------------------------------------------------------------------
(* __pthread_mutex_timedlock, __pthread_mutex_consistent                   *)

\* The body of both is a failed assertion.
NotImplemented(t) ==
    /\ mpc[t] = "idle" /\ "unimplemented" \in ClientMay
    /\ Abort("not_implemented")
    /\ Unread

-----------------------------------------------------------------------------
(* The specification                                                       *)

\* The steps a thread takes inside a call, given the processor.
LibraryStep(t) ==
    \/ LockAcquire(t) \/ LockTaken(t) \/ LockRelock(t) \/ LockSetWaiters(t)
    \/ LockWait(t) \/ LockWoken(t)
    \/ TryLoad(t) \/ TryTake(t)
    \/ UnlockAssert(t) \/ UnlockLoad(t) \/ UnlockDecrement(t)
    \/ UnlockExchange(t) \/ UnlockCheck(t) \/ UnlockWake(t)

ClientCall(t, c) ==
    \/ MayLock(t) /\ CallLock(t, c)
    \/ held[t] < MaxHeld /\ CallTrylock(t, c)
    \/ MayUnlock(t) /\ CallUnlock(t, c)

Next ==
    /\ aborted = "none"
    /\ \E t \in Threads :
          \/ LibraryStep(t)
          \/ LockInterrupted(t) \/ NotImplemented(t)
          \/ \E c \in Callers : ClientCall(t, c)

Spec == Init /\ [][Next]_mutexVars

-----------------------------------------------------------------------------
(* Properties                                                              *)

Labels == {"idle", "lock", "taken", "asleep", "try_load", "try_take",
           "unlock", "load", "decrement", "exchange", "check", "wake"}

Reasons == {"none", "recursion_not_zero", "recursion_zero", "not_the_owner",
            "wake_failed", "deadlock", "not_implemented"}

\* Every variable has the type its declaration in the source gives it.
TypeOK ==
    /\ state \in Word
    /\ recursion \in 0 .. MaxUint
    /\ flags \in Int /\ kind \in Int /\ declared \in TimedNp .. AdaptiveNp
    /\ mpc \in [Threads -> Labels]
    /\ caller \in [Threads -> Callers]
    /\ seen \in [Threads -> Word]
    /\ count \in [Threads -> 0 .. MaxUint]
    /\ ret \in [Threads -> Results]
    /\ held \in [Threads -> Nat]
    /\ sleepers \subseteq Threads
    /\ aborted \in Reasons

\* No two threads have been told that they have the mutex: the promise of
\* lock and trylock to their callers.
MutualExclusion ==
    \A t, u \in Threads : held[t] > 0 /\ held[u] > 0 => t = u

\* The callers and the library agree: a thread that believes it holds the
\* mutex n times is the owner in the state word and n is the recursion count,
\* so that n unlocks give the mutex back and n - 1 do not.
HolderIsOwner ==
    \A t \in Threads : held[t] > 0 => state.owner = t /\ recursion = held[t]

\* Nobody sleeps without a wake to come: while a thread is in FUTEX_WAIT the
\* waiters bit is set, so that the next unlock will see it, or an unlock that
\* took the bit with its exchange has still to issue FUTEX_WAKE.
NoLostWakeup ==
    sleepers # {} =>
        \/ state.waiters
        \/ \E t \in Threads : mpc[t] \in {"check", "wake"} /\ seen[t].waiters

\* When the library ends the process with "deadlock detected", the caller
\* really has the mutex: stale copies of the word raise no false alarm.
DeadlockReportIsTrue ==
    aborted = "deadlock" =>
        \E t \in Threads : mpc[t] = "lock" /\ held[t] > 0 /\ state.owner = t

\* The only assertion that lock, trylock and unlock let a self-deadlocking
\* caller bring about is that one: none of them fails on its own account, as
\* those of timedlock and consistent do.
OnlyReportsAbort == aborted \in {"none", "deadlock", "not_implemented"}

\* Both together: the process ends only where the code means it to.
AbortsAreReports == OnlyReportsAbort /\ DeadlockReportIsTrue

\* The comment at mlibc_thread.cpp:102 ("if this (recursive) mutex is already
\* owned by us, increment the recursion level") and the EDEADLK of the lines
\* below it: relocking a mutex declared recursive or error-checking returns.
LegalRelockReturns ==
    declared \in {RecursiveNp, ErrorCheckNp} => aborted # "deadlock"

\* The assertion at mlibc_thread.cpp:201, and what the decrement after it takes
\* for granted: a thread that was told it has the mutex finds a recursion count
\* other than zero from its call of unlock until it reads the count for the
\* decrement.  Otherwise unlock ends the process of a thread that did nothing
\* wrong, or the count becomes UINT_MAX.
HolderCounted ==
    \A t \in Threads : held[t] > 0 /\ mpc[t] \in {"unlock", "load"} => recursion # 0

=============================================================================
