----------------------------- MODULE MutexLifetime -----------------------------
(***************************************************************************)
(* The end of a mutex: __pthread_mutex_destroy, and what unlock still does *)
(* with the object after it has unlocked it.                               *)
(*                                                                         *)
(* The threads share a reference-counted object that contains the mutex.   *)
(* Each locks and unlocks it as often as it likes and drops its reference  *)
(* in its last critical section; the one that dropped the last reference   *)
(* then destroys the mutex and frees the memory, which may be used for     *)
(* something else at once.  No thread touches the object after dropping    *)
(* its reference, except through the unlock it is in.                      *)
(***************************************************************************)
EXTENDS Integers, FiniteSets

CONSTANTS Threads, NoThread, Callers, Initialisers, Leftover, ClientMay, MaxHeld,
          MaxUint,
          Junk,       \* what flags and kind of freed memory may become
          WakeErrors  \* what sys_futex_wake may return where no mutex is

VARIABLES state, recursion, flags, kind, declared, mpc, caller, seen, count,
          ret, held, sleepers, aborted,
          role,  \* how far each thread is in its use of the object
          refs,  \* the reference count, protected by the mutex
          alive  \* the memory of the mutex is still the mutex

M == INSTANCE PthreadMutex

mutexVars == <<state, recursion, flags, kind, declared, mpc, caller, seen,
               count, ret, held, sleepers, aborted>>
vars == <<mutexVars, role, refs, alive>>

ASSUME LifetimeAssumption ==
    /\ IsFiniteSet(Threads) /\ NoThread \notin Threads
    /\ MaxUint \in Nat \ {0} /\ MaxHeld \in 1 .. MaxUint
    /\ Junk \subseteq Int /\ WakeErrors \subseteq Int

Init ==
    /\ M!Init
    /\ role = [t \in Threads |-> "using"]
    /\ refs = Cardinality(Threads)
    /\ alive = TRUE

Become(t, r) == role' = [role EXCEPT ![t] = r]

Begin(t) ==
    /\ role[t] = "using" /\ held[t] = 0
    /\ \E c \in Callers : M!CallLock(t, c)
    /\ UNCHANGED <<role, refs, alive>>

\* The end of a critical section that is not the last one.
Keep(t) ==
    /\ role[t] = "using" /\ held[t] = 1
    /\ \E c \in Callers : M!CallUnlock(t, c)
    /\ UNCHANGED <<role, refs, alive>>

\* The end of the last one: drop the reference, unlock.
Drop(t) ==
    /\ role[t] = "using" /\ held[t] = 1
    /\ refs' = refs - 1
    /\ Become(t, IF refs' = 0 THEN "last" ELSE "leaving")
    /\ \E c \in Callers : M!CallUnlock(t, c)
    /\ UNCHANGED alive

Leave(t) ==
    /\ role[t] = "leaving" /\ mpc[t] = "idle"
    /\ Become(t, "gone")
    /\ UNCHANGED <<mutexVars, refs, alive>>

\* __pthread_mutex_destroy and free.
Destroy(t) ==
    /\ role[t] = "last" /\ mpc[t] = "idle"
    /\ IF state = M!Unlocked
       THEN Become(t, "gone") /\ alive' = FALSE /\ UNCHANGED mutexVars
       ELSE /\ M!Abort("destroy") /\ M!Unread
            /\ UNCHANGED <<role, alive>>
    /\ UNCHANGED refs

\* The memory is used for something else.
Scribble ==
    /\ ~alive
    /\ state' \in M!Word /\ flags' \in Junk /\ kind' \in Junk
    /\ UNCHANGED <<recursion, declared, mpc, caller, seen, count, ret,
                   held, sleepers, aborted, role, refs, alive>>

\* The address of the futex is not mapped any more, or is no futex.
WakeRefused(t) ==
    /\ ~alive
    /\ \E e \in WakeErrors : M!UnlockWakeRefused(t, e)
    /\ UNCHANGED <<role, refs, alive>>

Step(t) ==
    \/ M!LibraryStep(t) /\ UNCHANGED <<role, refs, alive>>
    \/ WakeRefused(t)
    \/ Begin(t) \/ Keep(t) \/ Drop(t) \/ Leave(t) \/ Destroy(t)

Next ==
    /\ aborted = "none"
    /\ \/ Scribble
       \/ \E t \in Threads :
             \/ Step(t)
             \/ M!LockInterrupted(t) /\ UNCHANGED <<role, refs, alive>>

Spec == Init /\ [][Next]_vars

\* Every thread is scheduled, goes on to its next use of the object and ends
\* it; no signal is needed to wake a sleeper.
FairSpec == Spec /\ \A t \in Threads : WF_vars(aborted = "none" /\ Step(t))

-----------------------------------------------------------------------------
(* Properties                                                              *)

\* The steps of lock and of unlock up to its exchange.  "check" reads the
\* mutex as well, "wake" passes its address on.
BeforeExchange ==
    {"lock", "taken", "asleep", "unlock", "load", "decrement", "exchange"}

\* Once the mutex is destroyed, every other thread is past the exchange of its
\* unlock: nobody locks it, waits in it or has still to unlock it.
DestroyedWhenUnlocked ==
    ~alive => \A t \in Threads : mpc[t] \notin BeforeExchange

\* The comment at mlibc_thread.cpp:208 ("after this point the mutex is unlocked,
\* and therefore we cannot access its contents as it may have been destroyed by
\* another thread"): no step that reads the mutex is ahead once it is destroyed.
NoAccessAfterDestroy ==
    ~alive => \A t \in Threads : mpc[t] \notin BeforeExchange \cup {"check"}

\* The assertion of __pthread_mutex_destroy holds, and an unlock that is still
\* under way returns 0, although it may read the type from memory that has been
\* freed and reused (contents that are garbage, but no fault) and although its
\* wake may be refused: it does not take the new contents for an ownership
\* error, nor the refusal for one of its own.
LateUnlockSucceeds ==
    /\ aborted = "none"
    /\ \A t \in Threads : ret[t] = "OK"

\* A thread asleep in lock is woken, whatever the other threads do, as long
\* as critical sections end: no wake-up is lost, no waiters bit goes unseen.
SleepersWake == \A t \in Threads : t \in sleepers ~> t \notin sleepers

\* A free mutex does not stay free while a thread is trying to lock it.
FreeMutexIsTaken ==
    \A t \in Threads :
        (mpc[t] \in {"lock", "asleep"} /\ state = M!Unlocked) ~> state # M!Unlocked

\* If nobody keeps its reference for ever every thread gets through, and the
\* last one frees the object: no sleeper is left behind by the last unlock.
ObjectIsFreed ==
    (\A t \in Threads : <>[][~Keep(t)]_vars)
        => <>(~alive /\ \A t \in Threads : role[t] = "gone")

=============================================================================
