----------------------------- MODULE AbstractCond -----------------------------
(***************************************************************************)
(* What a pthread condition variable promises to the code that uses it,    *)
(* over AbstractLock.  A broadcast notifies, in one step, every thread     *)
(* whose wait has begun; wait returns 0 only once notified and ETIMEDOUT   *)
(* only once abstime has passed, and either way with the mutex as at the   *)
(* call.  There is no sequence number and no futex here; in between, a     *)
(* waiter may release and take the mutex as often as it likes.             *)
(***************************************************************************)
EXTENDS Integers

CONSTANTS Threads, NoThread

VARIABLES type, owner, depth, phase, answer, \* the mutex
          status,   \* "out", or the wait of the thread: "waiting", "notified"
          deadline, \* abstime: "none" (null), "ahead" or "passed"
          told      \* what the last call returned, if it was a wait

L == INSTANCE AbstractLock WITH Types <- {0}, Recursive <- 1, ErrorCheck <- 2

lockVars == <<type, owner, depth, phase, answer>>
vars == <<lockVars, status, deadline, told>>

Init ==
    /\ L!Init
    /\ status = [t \in Threads |-> "out"]
    /\ deadline = [t \in Threads |-> "none"]
    /\ told = [t \in Threads |-> "OK"]

HasMutex(t) == phase[t] = "idle" /\ owner = t /\ depth = 1

Tell(t, r) == told' = [told EXCEPT ![t] = r]

Wait(t, abstime) ==
    /\ status[t] = "out" /\ HasMutex(t)
    /\ L!Invoke(t, "unlock")
    /\ status' = [status EXCEPT ![t] = "waiting"]
    /\ deadline' = [deadline EXCEPT ![t] = abstime]
    /\ Tell(t, "OK")

Refuse(t) ==
    /\ status[t] = "out" /\ HasMutex(t)
    /\ Tell(t, "EINVAL")
    /\ UNCHANGED <<lockVars, status, deadline>>

Broadcast(t) ==
    /\ status[t] = "out" /\ phase[t] = "idle"
    /\ status' = [u \in Threads |-> IF status[u] = "out" THEN "out" ELSE "notified"]
    /\ Tell(t, "OK")
    /\ UNCHANGED <<lockVars, deadline>>

Return(t) ==
    /\ HasMutex(t)
    /\ \/ status[t] = "notified" /\ Tell(t, "OK")
       \/ status[t] # "out" /\ deadline[t] = "passed" /\ Tell(t, "ETIMEDOUT")
    /\ status' = [status EXCEPT ![t] = "out"]
    /\ deadline' = [deadline EXCEPT ![t] = "none"]
    /\ UNCHANGED lockVars

TimePasses(t) ==
    /\ deadline[t] = "ahead"
    /\ deadline' = [deadline EXCEPT ![t] = "passed"]
    /\ UNCHANGED <<lockVars, status, told>>

\* The program's calls of lock and unlock, and those of a wait.
LockStep(t) ==
    /\ \/ \E op \in {"lock", "unlock"} : L!Invoke(t, op)
       \/ L!Acquire(t) \/ L!Release(t) \/ L!Finished(t)
    /\ UNCHANGED told \/ Tell(t, "OK")
    /\ UNCHANGED <<status, deadline>>

Next ==
    \E t \in Threads :
        \/ \E abstime \in {"none", "ahead"} : Wait(t, abstime)
        \/ Refuse(t) \/ Broadcast(t) \/ Return(t) \/ TimePasses(t) \/ LockStep(t)

Spec == Init /\ [][Next]_vars

=============================================================================
