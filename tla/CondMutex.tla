------------------------------ MODULE CondMutex ------------------------------
(***************************************************************************)
(* The condition variable together with the futex mutex that its waiters   *)
(* release: the steps of PthreadCond, where each call of a mutex function  *)
(* is a call of PthreadMutex, and the steps that PthreadMutex takes in     *)
(* between.  The abstract lock that PthreadCond is written over is here    *)
(* what MutexRefinement makes of the state word.                           *)
(***************************************************************************)
EXTENDS MutexRefinement

CONSTANTS SeqMod, FirstSeq, MaxBroadcasts, Reports, KernelMay \* see PthreadCond

VARIABLES seq, flow, mark, outcome, deadline, told, waiters, posted, since,
          failed \* the __ensure of a wait that ended the process, or "none"

condVars == <<seq, flow, mark, outcome, deadline, told, waiters, posted, since>>
jointVars == <<mutexVars, condVars, failed>>

C == INSTANCE PthreadCond WITH
        type <- declared,
        owner <- state.owner,
        depth <- DepthOf,
        phase <- Phases,
        answer <- ret,
        aborted <- failed

ASSUME JointAssumption ==
    /\ SeqMod \in Nat \ {0, 1}
    /\ FirstSeq \subseteq {0, 1}
    /\ MaxBroadcasts \in Nat
    /\ Reports \in [C!WaitErrors -> SUBSET (C!WaitErrors \cup {"OK", "-1"})]
    /\ \A e \in C!WaitErrors : Reports[e] # {} /\ Reports[e] \subseteq {e, "OK", "-1"}
    /\ KernelMay \subseteq {"clock_fails", "wake_fails"}

\* C!Init asks for a normal mutex.
JointInit == Init /\ C!Init

-----------------------------------------------------------------------------
(* Steps                                                                   *)

\* What a step outside of the mutex functions does to the mutex: nothing, or
\* a call of one of them for code of the class c.
Uses(t, c) == UNCHANGED mutexVars \/ CallLock(t, c) \/ CallUnlock(t, c)

\* A step of the program, in code of either class.
ProgramStep(t) == \E c \in Callers : Uses(t, c) /\ C!ClientStep(t)

\* A wait hands the verdict about its caller to the internal unlock and lock.
WaiterStep(t) == Uses(t, caller[t]) /\ C!CondStep(t)
WaiterInterrupted(t) == Uses(t, caller[t]) /\ C!CondInterrupted(t)

MutexStep(t) == LibraryStep(t) /\ UNCHANGED <<condVars, failed>>
MutexInterrupted(t) == LockInterrupted(t) /\ UNCHANGED <<condVars, failed>>

TimePasses(t) == UNCHANGED mutexVars /\ C!TimePasses(t)

Running == aborted = "none" /\ failed = "none"

JointNext ==
    /\ Running
    /\ \E t \in Threads :
          \/ MutexStep(t) \/ MutexInterrupted(t)
          \/ WaiterStep(t) \/ WaiterInterrupted(t)
          \/ ProgramStep(t) \/ TimePasses(t)

JointSpec == JointInit /\ [][JointNext]_jointVars

\* A thread inside a call is scheduled, and time passes; a thread that has the
\* mutex and is outside of a call releases it some day.
Unlocks(t) == \E c \in Callers : CallUnlock(t, c) /\ C!ClientUnlock(t)

JointFairness ==
    \A t \in Threads :
        /\ WF_jointVars(Running /\ (MutexStep(t) \/ WaiterStep(t)))
        /\ WF_jointVars(Running /\ TimePasses(t))
        /\ SF_jointVars(Running /\ Unlocks(t))

FairJointSpec == JointSpec /\ JointFairness

-----------------------------------------------------------------------------
(* Properties                                                              *)

\* The two components meet: a wait, with its unlock and its relocks, keeps to
\* what the mutex asks of its callers, whatever happens in between, and over
\* the futex mutex the waits are what they are over the abstract one.
BothHold == Spec /\ C!Spec

\* A sleeper that a broadcast has overtaken wakes up, and so does one whose
\* abstime has passed.
WaitersWake ==
    \A t \in Threads :
        (t \in waiters /\ (C!Notified(t) \/ deadline[t] # "none")) ~> t \notin waiters

\* A request for the mutex that the mutex need not expect: the program locks
\* or waits once more, or a signal sends a waiter round its loop.
Asks(t) ==
    \/ WaiterInterrupted(t)
    \/ ProgramStep(t) /\ (mpc'[t] = "lock" \/ flow'[t] = "unlocking")

\* A wait that a broadcast has overtaken returns, mutex and all: no wake-up of
\* either futex is lost.  Requests that never cease could starve it, as the
\* mutex has no order.
NotifiedReturn ==
    <>[][\A t \in Threads : ~Asks(t)]_jointVars
      => \A t \in Threads : C!Notified(t) ~> flow[t] = "out"

=============================================================================
