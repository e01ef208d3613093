------------------------------ MODULE PthreadCond ------------------------------
(***************************************************************************)
(* The condition variable of src/mlibc_thread.cpp together with the mutex  *)
(* its waiters release: wait, timedwait and broadcast (signal is           *)
(* broadcast), one action per access to __mlibc_seq, system call or call   *)
(* of the mutex functions.  The mutex is a normal one, used through        *)
(* AbstractLock, which MutexRefinement shows PthreadMutex to implement:    *)
(* an operation is invoked, takes effect and returns in separate steps.    *)
(*                                                                         *)
(* posted and since[t] are history: how many broadcasts there have been,   *)
(* now and when the wait of t read __mlibc_seq.  No step of the library    *)
(* looks at them.                                                          *)
(***************************************************************************)
EXTENDS Integers

CONSTANTS Threads, NoThread,
          SeqMod,        \* the values of __mlibc_seq: 2^32 in the code
          FirstSeq,      \* how __mlibc_seq begins: 0 by a static initialiser,
                         \* 1 by __pthread_cond_init
          MaxBroadcasts, \* bound on the broadcasts of a behaviour
          Reports,       \* what sys_futex_wait may return for each error
          KernelMay      \* system calls that may fail besides it

WaitErrors == {"EAGAIN", "EINTR", "ETIMEDOUT"}

ASSUME CondAssumption ==
    /\ NoThread \notin Threads
    /\ SeqMod \in Nat \ {0, 1}
    /\ FirstSeq \subseteq {0, 1}
    /\ MaxBroadcasts \in Nat
    /\ Reports \in [WaitErrors -> SUBSET (WaitErrors \cup {"OK", "-1"})]
    \* As it is declared, on Linux as it is built (see SystemCalls), on Managarm.
    /\ \A e \in WaitErrors : Reports[e] # {} /\ Reports[e] \subseteq {e, "OK", "-1"}
    /\ KernelMay \subseteq {"clock_fails", "wake_fails"}

VARIABLES type, owner, depth, phase, answer, \* the mutex, see AbstractLock
          aborted,  \* the __ensure that ended the process, or "none"
          seq,      \* __mlibc_seq
          flow,     \* where each thread is in the condition variable's code
          mark,     \* local variable seq of a wait
          outcome,  \* local variable e of a wait, or "late"
          deadline, \* abstime: "none" (null), "ahead" or "passed"
          told,     \* what the last call returned, if it was a wait
          waiters,  \* threads in FUTEX_WAIT on __mlibc_seq
          posted, since

L == INSTANCE AbstractLock WITH Types <- {0}, Recursive <- 1, ErrorCheck <- 2
W == INSTANCE Futex WITH sleepers <- waiters

lockVars == <<type, owner, depth, phase, answer>>
condVars == <<seq, flow, mark, outcome, deadline, told, waiters, posted, since>>
vars == <<lockVars, condVars, aborted>>

Init ==
    /\ L!Init
    /\ aborted = "none"
    /\ seq \in FirstSeq
    /\ flow = [t \in Threads |-> "out"]
    /\ mark = [t \in Threads |-> 0]
    /\ outcome = [t \in Threads |-> "OK"]
    /\ deadline = [t \in Threads |-> "none"]
    /\ told = [t \in Threads |-> "OK"]
    /\ waiters = {}
    /\ posted = 0
    /\ since = [t \in Threads |-> 0]

Become(t, f) == flow' = [flow EXCEPT ![t] = f]

\* The next call of t.
Untell(t) == told' = [told EXCEPT ![t] = "OK"]

\* A failed __ensure ends the process.
CondAbort(why) == aborted' = why /\ UNCHANGED <<lockVars, condVars>>

-----------------------------------------------------------------------------
(* __pthread_cond_timedwait_internal; wait passes a null abstime           *)

\* An abstime whose tv_nsec is no nanosecond count is refused at once.
CondInvalid(t) ==
    /\ flow[t] = "out" /\ phase[t] = "idle" /\ owner = t /\ depth = 1
    /\ told' = [told EXCEPT ![t] = "EINVAL"]
    /\ UNCHANGED <<lockVars, aborted, seq, flow, mark, outcome, deadline, waiters,
                   posted, since>>

\* Mutant: goes to sleep without releasing the mutex.
CondWaitKeeps(t, abstime) ==
    /\ flow[t] = "out" /\ phase[t] = "idle" /\ owner = t /\ depth = 1
    /\ mark' = [mark EXCEPT ![t] = seq]
    /\ since' = [since EXCEPT ![t] = posted]
    /\ deadline' = [deadline EXCEPT ![t] = abstime]
    /\ Untell(t)
    /\ Become(t, "unlocking")
    /\ UNCHANGED <<lockVars, seq, aborted, outcome, waiters, posted>>

\* Reads __mlibc_seq and calls __pthread_mutex_unlock_internal.  The caller
\* has the mutex once.  An abstime that is over at the call is one that passes
\* right after it.
CondWait(t, abstime) ==
    /\ flow[t] = "out" /\ phase[t] = "idle" /\ owner = t /\ depth = 1
    /\ mark' = [mark EXCEPT ![t] = seq]
    /\ since' = [since EXCEPT ![t] = posted]
    /\ deadline' = [deadline EXCEPT ![t] = abstime]
    /\ Untell(t)
    /\ L!Invoke(t, "unlock")
    /\ Become(t, "unlocking")
    /\ UNCHANGED <<seq, aborted, outcome, waiters, posted>>

\* The wait ends with e: __pthread_mutex_lock_internal is next.
Relock(t, e) ==
    /\ outcome' = [outcome EXCEPT ![t] = e]
    /\ L!Invoke(t, "lock")
    /\ Become(t, "relocking")
    /\ UNCHANGED <<seq, aborted, mark, deadline, told, posted, since>>

\* Mutant: __mlibc_seq is read after the mutex is released.
CondUnlockedReads(t) ==
    /\ flow[t] = "unlocking" /\ phase[t] = "idle"
    /\ deadline[t] # "passed"
    /\ mark' = [mark EXCEPT ![t] = seq]
    /\ Become(t, "waiting")
    /\ UNCHANGED <<lockVars, aborted, seq, outcome, deadline, told, waiters,
                   posted, since>>

\* The mutex is released.  Has abstime, if there is one, passed already?
CondUnlocked(t) ==
    /\ flow[t] = "unlocking" /\ phase[t] = "idle"
    /\ IF answer[t] # "OK" THEN CondAbort("cond_unlock")
       ELSE \/ /\ deadline[t] # "none" /\ "clock_fails" \in KernelMay
               /\ CondAbort("clock_failed")
            \/ /\ deadline[t] = "passed"
               /\ Relock(t, "late") /\ UNCHANGED waiters
            \/ /\ deadline[t] # "passed"
               /\ Become(t, "waiting")
               /\ UNCHANGED <<lockVars, aborted, seq, mark, outcome, deadline, told,
                              waiters, posted, since>>

\* sys_futex_wait(&seq, seq, timeout).
CondFutexWait(t) ==
    /\ flow[t] = "waiting"
    /\ \/ /\ seq = mark[t]
          /\ W!FutexSleep(t)
          /\ Become(t, "asleep")
          /\ UNCHANGED <<lockVars, aborted, seq, mark, outcome, deadline, told,
                         posted, since>>
       \/ /\ seq # mark[t]
          /\ \E e \in Reports["EAGAIN"] : Relock(t, e)
          /\ UNCHANGED waiters

CondWoken(t) ==
    /\ flow[t] = "asleep" /\ t \notin waiters
    /\ Relock(t, "OK") /\ UNCHANGED waiters

CondInterrupted(t) ==
    /\ flow[t] = "asleep" /\ W!FutexLeave(t)
    /\ \E e \in Reports["EINTR"] : Relock(t, e)

\* Mutant: the branches for abstime and for a null pointer swapped.
CondTimedOutSwapped(t) ==
    /\ flow[t] = "asleep" /\ deadline[t] = "none" /\ W!FutexLeave(t)
    /\ \E e \in Reports["ETIMEDOUT"] : Relock(t, e)

CondTimedOut(t) ==
    /\ flow[t] = "asleep" /\ deadline[t] = "passed" /\ W!FutexLeave(t)
    /\ \E e \in Reports["ETIMEDOUT"] : Relock(t, e)

\* The locals of the wait are gone.
Return(t, r) ==
    /\ told' = [told EXCEPT ![t] = r]
    /\ deadline' = [deadline EXCEPT ![t] = "none"]
    /\ mark' = [mark EXCEPT ![t] = 0]
    /\ outcome' = [outcome EXCEPT ![t] = "OK"]
    /\ since' = [since EXCEPT ![t] = 0]
    /\ Become(t, "out")
    /\ UNCHANGED <<lockVars, aborted, seq, waiters, posted>>

\* Mutant: __mlibc_seq is read again in every round.
AgainRereads(t) ==
    /\ L!Invoke(t, "unlock")
    /\ mark' = [mark EXCEPT ![t] = seq]
    /\ Become(t, "unlocking")
    /\ UNCHANGED <<seq, aborted, outcome, deadline, told, waiters, posted, since>>

\* Round the loop: the mutex is released again, __mlibc_seq is not read again.
Again(t) ==
    /\ L!Invoke(t, "unlock")
    /\ Become(t, "unlocking")
    /\ UNCHANGED <<seq, aborted, mark, outcome, deadline, told, waiters, posted, since>>

\* The test "cur_seq > seq".
Newer(t) == seq > mark[t]

\* Mutant: returns 0 on EINTR, as the manual page allows.
CondRelockedEintr(t) ==
    /\ flow[t] = "relocking" /\ phase[t] = "idle"
    /\ \/ outcome[t] = "late" /\ Return(t, "ETIMEDOUT")
       \/ outcome[t] \in {"OK", "EAGAIN"} /\ Newer(t) /\ Return(t, "OK")
       \/ outcome[t] = "OK" /\ ~Newer(t) /\ Again(t)
       \/ outcome[t] = "EINTR" /\ Return(t, "OK")
       \/ outcome[t] = "ETIMEDOUT" /\ Return(t, "ETIMEDOUT")
       \/ outcome[t] = "-1" /\ CondAbort("cond_wait")

\* Mutant: the case of EINTR left out.
CondRelockedNoEintr(t) ==
    /\ flow[t] = "relocking" /\ phase[t] = "idle"
    /\ \/ outcome[t] = "late" /\ Return(t, "ETIMEDOUT")
       \/ outcome[t] \in {"OK", "EAGAIN"} /\ Newer(t) /\ Return(t, "OK")
       \/ outcome[t] = "OK" /\ ~Newer(t) /\ Again(t)
       \/ outcome[t] \in {"EINTR", "-1"} /\ CondAbort("cond_wait")
       \/ outcome[t] = "ETIMEDOUT" /\ Return(t, "ETIMEDOUT")

\* The four cases of the comment, once the mutex is locked again.
CondRelocked(t) ==
    /\ flow[t] = "relocking" /\ phase[t] = "idle"
    /\ IF answer[t] # "OK" THEN CondAbort("cond_lock")
       ELSE IF outcome[t] = "-1" THEN CondAbort("cond_wait")
       ELSE \/ outcome[t] = "late" /\ Return(t, "ETIMEDOUT")
            \/ outcome[t] = "OK" /\ Newer(t) /\ Return(t, "OK")
            \/ outcome[t] = "OK" /\ ~Newer(t) /\ Again(t)
            \/ /\ outcome[t] = "EAGAIN"
               /\ IF Newer(t) THEN Return(t, "OK") ELSE CondAbort("cond_seq")
            \/ outcome[t] = "EINTR" /\ Again(t)
            \/ /\ outcome[t] = "ETIMEDOUT"
               /\ IF deadline[t] # "none" THEN Return(t, "ETIMEDOUT")
                  ELSE CondAbort("cond_abstime")

-----------------------------------------------------------------------------
(* __pthread_cond_broadcast, also behind __pthread_cond_signal             *)

\* Mutant: increments the sequence number and wakes nobody.
CondBroadcastSilent(t) ==
    /\ flow[t] = "out" /\ phase[t] = "idle"
    /\ posted < MaxBroadcasts
    /\ seq' = (seq + 1) % SeqMod
    /\ posted' = posted + 1
    /\ Untell(t)
    /\ UNCHANGED <<lockVars, flow, aborted, mark, outcome, deadline, waiters,
                   since>>

\* The caller may have the mutex or not.
CondBroadcast(t) ==
    /\ flow[t] = "out" /\ phase[t] = "idle"
    /\ posted < MaxBroadcasts
    /\ seq' = (seq + 1) % SeqMod
    /\ posted' = posted + 1
    /\ Untell(t)
    /\ Become(t, "waking")
    /\ UNCHANGED <<lockVars, aborted, mark, outcome, deadline, waiters, since>>

\* sys_futex_wake, whose every error ends the process.
CondWake(t) ==
    /\ flow[t] = "waking"
    /\ \/ /\ W!FutexWakeAll
          /\ Become(t, "out")
          /\ UNCHANGED <<lockVars, aborted, seq, mark, outcome, deadline, told,
                         posted, since>>
       \/ "wake_fails" \in KernelMay /\ CondAbort("wake_failed")

-----------------------------------------------------------------------------
(* The specification                                                       *)

\* The clock reaches abstime while the wait is under way.
TimePasses(t) ==
    /\ deadline[t] = "ahead"
    /\ deadline' = [deadline EXCEPT ![t] = "passed"]
    /\ UNCHANGED <<lockVars, aborted, seq, flow, mark, outcome, told, waiters,
                   posted, since>>

\* An operation of the mutex takes effect, or returns.
LockStep(t) ==
    /\ L!Acquire(t) \/ L!Release(t) \/ L!Finished(t)
    /\ UNCHANGED <<condVars, aborted>>

CondStep(t) ==
    \/ CondUnlocked(t) \/ CondFutexWait(t) \/ CondWoken(t)
    \/ CondTimedOut(t) \/ CondRelocked(t) \/ CondWake(t)

\* The program's own use of the mutex.
ClientLock(t) ==
    /\ flow[t] = "out"
    /\ owner # t /\ L!Invoke(t, "lock")
    /\ Untell(t)
    /\ UNCHANGED <<seq, flow, mark, outcome, deadline, waiters, posted, since,
                   aborted>>

ClientUnlock(t) ==
    /\ flow[t] = "out"
    /\ L!Invoke(t, "unlock")
    /\ Untell(t)
    /\ UNCHANGED <<seq, flow, mark, outcome, deadline, waiters, posted, since,
                   aborted>>

ClientStep(t) ==
    \/ ClientLock(t) \/ ClientUnlock(t)
    \/ \E abstime \in {"none", "ahead"} : CondWait(t, abstime)
    \/ CondInvalid(t)
    \/ CondBroadcast(t)

Next ==
    /\ aborted = "none"
    /\ \E t \in Threads :
          \/ LockStep(t) \/ CondStep(t) \/ ClientStep(t)
          \/ CondInterrupted(t)
          \/ TimePasses(t)

Spec == Init /\ [][Next]_vars

-----------------------------------------------------------------------------
(* The refinement mapping                                                  *)

InWait == {"unlocking", "waiting", "asleep", "relocking"}

\* The wait of t has been overtaken by a broadcast.
Notified(t) == flow[t] \in InWait /\ posted > since[t]

Status(t) ==
    IF flow[t] \notin InWait THEN "out"
    ELSE IF Notified(t) THEN "notified" ELSE "waiting"

A == INSTANCE AbstractCond WITH status <- [t \in Threads |-> Status(t)]

-----------------------------------------------------------------------------
(* Properties                                                              *)

\* The types of the condition variable's own state, and that only a thread
\* that is asleep is in the queue of its futex.
CondTypeOK ==
    /\ seq \in 0 .. SeqMod - 1
    /\ flow \in [Threads -> InWait \cup {"out", "waking"}]
    /\ mark \in [Threads -> 0 .. SeqMod - 1]
    /\ outcome \in [Threads -> WaitErrors \cup {"OK", "-1", "late"}]
    /\ deadline \in [Threads -> {"none", "ahead", "passed"}]
    /\ told \in [Threads -> {"OK", "ETIMEDOUT", "EINVAL"}]
    /\ posted \in 0 .. MaxBroadcasts /\ since \in [Threads -> 0 .. posted]
    /\ waiters \subseteq {t \in Threads : flow[t] = "asleep"}

\* No signal falls between the release of the mutex and the sleep: a thread
\* that sleeps although its wait was overtaken by a broadcast will be woken by
\* a broadcaster that has incremented __mlibc_seq and not yet called
\* sys_futex_wake, whether or not broadcasters hold the mutex.  Only if as many
\* broadcasts as __mlibc_seq has values went by since the wait read it does the
\* futex take the number for the same.
NoLostSignal ==
    \A t \in waiters :
        Notified(t) /\ posted - since[t] < SeqMod
            => \E u \in Threads : flow[u] = "waking"

\* A waiter has really let go of the mutex, so that a signaller can get it.
WaiterReleased ==
    \A t \in Threads :
        flow[t] \in {"waiting", "asleep"} => owner # t

\* A wake-up (e == 0) of a wait that a broadcast has overtaken.
Genuine(t) == flow[t] = "relocking" /\ outcome[t] = "OK" /\ Notified(t)

\* __mlibc_seq has gone past its largest value since the wait of t read it.
Wrapped(t) == mark[t] + (posted - since[t]) >= SeqMod

\* As long as the sequence number has not wrapped round since the wait read it,
\* a genuine wake-up is never sent back to wait, however many rounds the wait
\* has made and whatever ended its sleeps.
GenuineWakeupReturns ==
    [][\A t \in Threads :
         Genuine(t) /\ ~Wrapped(t) => flow'[t] # "unlocking"]_vars

\* The comment at mlibc_thread.cpp:437 ("the value of seq *must* be checked to
\* distinguish these two cases"): the comparison tells a genuine wake-up from a
\* spurious one.
GenuineIsRecognised ==
    [][\A t \in Threads : Genuine(t) => flow'[t] # "unlocking"]_vars

\* Every behaviour of the code is one of the abstract condition variable: a
\* broadcast counts from its increment on for all who are in a wait by then,
\* wait returns 0 only for a broadcast later than its call and ETIMEDOUT only
\* after abstime, and both with the mutex held exactly as before the call.
ImplementsCond == A!Spec

\* The __ensure of a wait or of a broadcast fails only because of what the
\* kernel answered: the clock or the wake failed, sys_futex_wait returned none
\* of the values the comment lists, or it said EAGAIN and the sequence number,
\* which had wrapped round, is not greater.  None fails because of what other
\* threads did, on a relock that was refused or on a timeout without abstime.
CondAbortsAreReports ==
    /\ aborted \in {"none", "clock_failed", "wake_failed", "cond_wait", "cond_seq"}
    /\ aborted = "cond_wait" =>
          \E t \in Threads : flow[t] = "relocking" /\ outcome[t] = "-1"
    /\ aborted = "cond_seq" =>
          \E t \in Threads : flow[t] = "relocking" /\ outcome[t] = "EAGAIN" /\ Wrapped(t)

=============================================================================
