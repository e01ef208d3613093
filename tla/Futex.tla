-------------------------------- MODULE Futex --------------------------------
(***************************************************************************)
(* The threads asleep on one futex word, as the two system calls of        *)
(* sysdeps/linux/generic.cpp change them.  The kernel compares the word    *)
(* with the expected value and enqueues the caller in one step (the        *)
(* comparison is the guard of the action that uses FutexSleep), and        *)
(* sys_futex_wake passes INT_MAX, so a wake empties the queue.  A thread   *)
(* whose program counter says "asleep" and that is no longer in sleepers   *)
(* has been woken and may run.                                             *)
(***************************************************************************)
VARIABLE sleepers

\* FUTEX_WAIT after a successful comparison: t sleeps.
FutexSleep(t) == sleepers' = sleepers \cup {t}

\* FUTEX_WAKE with INT_MAX: every sleeper becomes runnable.
FutexWakeAll == sleepers' = {}

\* The wait of t ends without a wake: a signal (EINTR) or its timeout.
FutexLeave(t) ==
    /\ t \in sleepers
    /\ sleepers' = sleepers \ {t}

=============================================================================
