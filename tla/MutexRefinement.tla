--------------------------- MODULE MutexRefinement ---------------------------
(***************************************************************************)
(* PthreadMutex implements AbstractLock.  A lock takes effect with the     *)
(* successful exchange of the state word, an unlock with the exchange that *)
(* clears it; between these and the plain stores to __mlibc_recursion the  *)
(* abstract depth is already 1, or still 1.                                *)
(***************************************************************************)
EXTENDS PthreadMutex

DepthOf == IF state.owner = NoThread THEN 0
           ELSE IF mpc[state.owner] \in {"taken", "exchange"} THEN 1
           ELSE recursion

PhaseAt(l) ==
    CASE l = "idle" -> "idle"
      [] l \in {"lock", "asleep"} -> "lock"
      [] l \in {"try_load", "try_take"} -> "trylock"
      [] l \in {"unlock", "load", "decrement", "exchange"} -> "unlock"
      [] l \in {"taken", "check", "wake"} -> "done"

Phases == [t \in Threads |-> PhaseAt(mpc[t])]

A == INSTANCE AbstractLock WITH
        Types <- TimedNp .. AdaptiveNp,
        Recursive <- RecursiveNp,
        ErrorCheck <- ErrorCheckNp,
        type <- declared,
        owner <- state.owner,
        depth <- DepthOf,
        phase <- Phases,
        answer <- ret

\* Every behaviour of the code is one of the abstract lock with the type the
\* caller declared: operations are atomic, EBUSY is only returned while some
\* thread has the mutex, the type decides about relocking, and depth counts.
ImplementsLock == A!Spec

=============================================================================
