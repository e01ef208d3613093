----------------------------- MODULE AbstractLock -----------------------------
(***************************************************************************)
(* What a pthread mutex promises to the code that uses it: lock, trylock   *)
(* and unlock each take effect in one step between their call and their    *)
(* return, on an owner and a depth, and answer according to the type the   *)
(* mutex was declared with.  There is no state word, no futex and no       *)
(* waiters bit here; PthreadMutex is shown to implement this module in     *)
(* MutexRefinement.                                                        *)
(***************************************************************************)
EXTENDS Integers

CONSTANTS Threads, NoThread, Types, Recursive, ErrorCheck

VARIABLES type,   \* the type the mutex was declared with
          owner,  \* the thread that has the mutex
          depth,  \* how many unlocks give it back
          phase,  \* the pending operation of each thread
          answer  \* what the last finished operation of each thread returned

lockVars == <<type, owner, depth, phase, answer>>

Init ==
    /\ type \in Types
    /\ owner = NoThread
    /\ depth = 0
    /\ phase = [t \in Threads |-> "idle"]
    /\ answer = [t \in Threads |-> "OK"]

Become(t, p) == phase' = [phase EXCEPT ![t] = p]

Return(t, r) ==
    /\ Become(t, "idle")
    /\ answer' = [answer EXCEPT ![t] = r]

Invoke(t, op) ==
    /\ phase[t] = "idle"
    /\ op = "unlock" => owner = t
    /\ Become(t, op)
    /\ UNCHANGED <<type, owner, depth, answer>>

\* A free mutex is taken by one of the threads that ask for it.
Acquire(t) ==
    /\ phase[t] \in {"lock", "trylock"} /\ owner = NoThread
    /\ owner' = t /\ depth' = 1
    /\ Become(t, "done")
    /\ UNCHANGED <<type, answer>>

\* Only a recursive mutex can be taken again, and only by its owner.
AcquireAgain(t) ==
    /\ phase[t] \in {"lock", "trylock"} /\ owner = t /\ type = Recursive
    /\ depth' = depth + 1
    /\ Return(t, "OK")
    /\ UNCHANGED <<type, owner>>

\* Relocking an error-checking mutex is reported.
RefuseRelock(t) ==
    /\ phase[t] = "lock" /\ owner = t /\ type = ErrorCheck
    /\ Return(t, "EDEADLK")
    /\ UNCHANGED <<type, owner, depth>>

\* trylock fails only on a mutex that is taken.
RefuseBusy(t) ==
    /\ phase[t] = "trylock" /\ owner # NoThread
    /\ ~(owner = t /\ type = Recursive)
    /\ Return(t, "EBUSY")
    /\ UNCHANGED <<type, owner, depth>>

\* Every unlock but the last leaves the owner in place.
ReleaseLevel(t) ==
    /\ phase[t] = "unlock" /\ owner = t /\ depth > 1
    /\ depth' = depth - 1
    /\ Return(t, "OK")
    /\ UNCHANGED <<type, owner>>

Release(t) ==
    /\ phase[t] = "unlock" /\ owner = t /\ depth = 1
    /\ owner' = NoThread /\ depth' = 0
    /\ Become(t, "done")
    /\ UNCHANGED <<type, answer>>

Finished(t) ==
    /\ phase[t] = "done"
    /\ Return(t, "OK")
    /\ UNCHANGED <<type, owner, depth>>

Next ==
    \E t \in Threads :
        \/ \E op \in {"lock", "trylock", "unlock"} : Invoke(t, op)
        \/ Acquire(t) \/ AcquireAgain(t) \/ RefuseRelock(t) \/ RefuseBusy(t)
        \/ ReleaseLevel(t) \/ Release(t) \/ Finished(t)

Spec == Init /\ [][Next]_lockVars

=============================================================================
