---------------------------- MODULE CondMutexProofs ----------------------------
(***************************************************************************)
(* The condition variable over the futex mutex, for any set of threads:    *)
(* each of the two is what it is alone.  The invariants of PthreadMutex    *)
(* and of PthreadCond are proved together, as each component keeps to its  *)
(* rules because of what the other guarantees.                             *)
(***************************************************************************)
EXTENDS CondMutex, PthreadMutexProofs

\* The proofs about PthreadCond, for the same instance of it.
P == INSTANCE PthreadCondProofs WITH
        type <- declared,
        owner <- state.owner,
        depth <- DepthOf,
        phase <- Phases,
        answer <- ret,
        aborted <- failed

\* The two instances of PthreadCond are the same.
LEMMA SameInit == C!Init <=> P!Init
BY DEF C!Init, C!L!Init, P!Init, P!L!Init

LEMMA SameAssumption == P!CondAssumption
BY MutexAssumption, JointAssumption DEF P!CondAssumption, C!WaitErrors, P!WaitErrors

LEMMA SameStep ==
    ASSUME NEW t \in Threads
    PROVE  /\ C!ClientStep(t) <=> P!ClientStep(t)
           /\ C!CondStep(t) <=> P!CondStep(t)
           /\ C!CondInterrupted(t) <=> P!CondInterrupted(t)
           /\ C!TimePasses(t) <=> P!TimePasses(t)
           /\ C!LockStep(t) <=> P!LockStep(t)
<1> USE DEF C!lockVars, P!lockVars, C!condVars, P!condVars, C!Become, P!Become,
        C!L!Invoke, P!L!Invoke, C!L!Become, P!L!Become, C!Relock, P!Relock,
        C!CondAbort, P!CondAbort, C!Untell, P!Untell
<1>1. C!CondInterrupted(t) <=> P!CondInterrupted(t)
  BY DEF C!CondInterrupted, P!CondInterrupted, C!W!FutexLeave, P!W!FutexLeave
<1>2. C!TimePasses(t) <=> P!TimePasses(t)
  BY DEF C!TimePasses, P!TimePasses
<1>3. C!LockStep(t) <=> P!LockStep(t)
  BY DEF C!LockStep, P!LockStep, C!L!Acquire, P!L!Acquire, C!L!Release, P!L!Release,
     C!L!Finished, P!L!Finished, C!L!Return, P!L!Return
<1>4. C!CondStep(t) <=> P!CondStep(t)
  BY DEF C!CondStep, P!CondStep, C!CondUnlocked, P!CondUnlocked,
     C!CondFutexWait, P!CondFutexWait, C!CondWoken, P!CondWoken,
     C!CondTimedOut, P!CondTimedOut, C!CondRelocked, P!CondRelocked,
     C!CondWake, P!CondWake, C!Return, P!Return, C!Again, P!Again, C!Newer,
     P!Newer, C!W!FutexSleep, P!W!FutexSleep, C!W!FutexLeave,
     P!W!FutexLeave, C!W!FutexWakeAll, P!W!FutexWakeAll
<1>5. C!ClientStep(t) <=> P!ClientStep(t)
  BY DEF C!ClientStep, P!ClientStep, C!ClientLock, P!ClientLock,
     C!ClientUnlock, P!ClientUnlock, C!CondWait, P!CondWait, C!CondInvalid,
     P!CondInvalid, C!CondBroadcast, P!CondBroadcast
<1>6. QED
  BY <1>1, <1>2, <1>3, <1>4, <1>5

LEMMA SameNext == [C!Next]_C!vars <=> [P!Next]_P!vars
<1>1. C!Next <=> P!Next
  BY SameStep DEF C!Next, P!Next
<1>2. UNCHANGED C!vars <=> UNCHANGED P!vars
  BY DEF C!vars, P!vars, C!lockVars, P!lockVars, C!condVars, P!condVars
<1>3. QED
  BY <1>1, <1>2

\* The two instances of the abstract condition variable are the same, too.
LEMMA SameAbstract ==
    /\ C!A!Init <=> P!A!Init
    /\ [C!A!Next]_C!A!vars <=> [P!A!Next]_P!A!vars
<1>1. UNCHANGED C!A!vars <=> UNCHANGED P!A!vars
  BY DEF C!A!vars, P!A!vars, C!A!lockVars, P!A!lockVars, C!Status, P!Status,
     C!Notified, P!Notified, C!InWait, P!InWait
<1>2. C!A!Init <=> P!A!Init
  BY DEF C!A!Init, P!A!Init, C!A!L!Init, P!A!L!Init, C!Status, P!Status,
     C!Notified, P!Notified, C!InWait, P!InWait
<1>3. C!A!Next <=> P!A!Next
  BY DEF C!A!Next, P!A!Next, C!A!Wait, P!A!Wait, C!A!Refuse, P!A!Refuse,
     C!A!Broadcast, P!A!Broadcast, C!A!Return, P!A!Return, C!A!TimePasses,
     P!A!TimePasses, C!A!LockStep, P!A!LockStep, C!A!HasMutex, P!A!HasMutex,
     C!A!Tell, P!A!Tell, C!A!lockVars, P!A!lockVars, C!A!L!Invoke,
     P!A!L!Invoke, C!A!L!Acquire, P!A!L!Acquire, C!A!L!Release,
     P!A!L!Release, C!A!L!Finished, P!A!L!Finished, C!A!L!Return,
     P!A!L!Return, C!A!L!Become, P!A!L!Become, C!Status, P!Status,
     C!Notified, P!Notified, C!InWait, P!InWait
<1>4. QED
  BY <1>1, <1>2, <1>3

-----------------------------------------------------------------------------
(* The inductive invariant                                                 *)

\* Nobody who has the mutex asks for it.
Asking == \A t \in Threads : mpc[t] \in {"lock", "asleep"} => held[t] = 0

\* The invariants of the two components, and what each gets from the other:
\* the waits ask for the mutex only without it, so it never reports a
\* deadlock, and it answers their calls as a normal mutex does.
JointInv == StepInv /\ P!CondInv /\ Asking /\ aborted = "none"

\* What the invariant of the waits says of the mutex.
LEMMA NormalMutex ==
    ASSUME P!CondInv
    PROVE  /\ declared = TimedNp /\ DepthOf \in {0, 1}
           /\ \A t \in Threads : Phases[t] # "trylock"
<1>1. Phases \in [Threads -> {"idle", "lock", "unlock", "done"}]
  BY DEF P!CondInv, P!LockTypes
<1>2. QED
  BY <1>1 DEF P!CondInv, P!LockTypes, TimedNp

-----------------------------------------------------------------------------
(* The waits keep to the mutex's rules                                     *)

\* Calls come from threads that may make them.
LEMMA UseCalls ==
    ASSUME JointInv, NEW t \in Threads, NEW c \in Callers, Uses(t, c),
           P!CondStep(t) \/ P!CondInterrupted(t) \/ P!ClientStep(t)
    PROVE  /\ [Next]_mutexVars /\ Asking' /\ UNCHANGED aborted
<1>1. \/ UNCHANGED Phases
      \/ Phases[t] = "idle" /\ state.owner # t /\ Phases' = [Phases EXCEPT ![t] = "lock"]
      \/ Phases[t] = "idle" /\ state.owner = t /\ Phases' = [Phases EXCEPT ![t] = "unlock"]
  BY SameAssumption, P!MutexUse DEF JointInv
<1>2. Phases[t] = PhaseAt(mpc[t]) /\ Phases'[t] = PhaseAt(mpc'[t])
  BY DEF Phases
<1>3. mpc \in [Threads -> Labels] /\ held \in [Threads -> Nat]
  BY DEF JointInv, StepInv, TypeOK
<1>4. state.owner = t <=> held[t] > 0 \/ mpc[t] \in {"taken", "exchange"}
  BY DEF JointInv, StepInv, MutexInv, OwnerInv
<1>5. CASE CallLock(t, c)
  <2>1. mpc[t] = "idle" /\ mpc' = [mpc EXCEPT ![t] = "lock"] /\ UNCHANGED <<held, aborted>>
    BY <1>5 DEF CallLock, Enter, Goto
  <2>2. Phases[t] = "idle" /\ Phases'[t] = "lock"
    BY <1>2, <1>3, <2>1 DEF PhaseAt
  <2>3. state.owner # t
    BY <1>1, <2>2 DEF Phases
  <2>4. held[t] = 0
    BY <1>3, <1>4, <2>3
  <2>5. Asking'
    BY <1>3, <2>1, <2>4 DEF JointInv, Asking
  <2>6. Next
    BY <1>5, <2>4 DEF Next, ClientCall, MayLock, JointInv
  <2>7. QED
    BY <2>1, <2>5, <2>6
<1>6. CASE CallUnlock(t, c)
  <2>1. mpc[t] = "idle" /\ mpc' = [mpc EXCEPT ![t] = "unlock"] /\ UNCHANGED <<held, aborted>>
    BY <1>6 DEF CallUnlock, Enter, Goto
  <2>2. Phases[t] = "idle" /\ Phases'[t] = "unlock"
    BY <1>2, <1>3, <2>1 DEF PhaseAt
  <2>3. state.owner = t
    BY <1>1, <2>2 DEF Phases
  <2>4. held[t] > 0
    BY <1>4, <2>1, <2>3
  <2>5. Asking'
    BY <1>3, <2>1 DEF JointInv, Asking
  <2>6. Next
    BY <1>6, <2>4 DEF Next, ClientCall, MayUnlock, JointInv
  <2>7. QED
    BY <2>1, <2>5, <2>6
<1>7. CASE UNCHANGED mutexVars
  BY <1>7 DEF mutexVars, JointInv, Asking
<1>8. QED
  BY <1>5, <1>6, <1>7 DEF Uses

\* A step inside of a mutex function makes no call, and no self-deadlock is
\* reported.
LEMMA LibraryMoves ==
    ASSUME JointInv, NEW t \in Threads, LibraryStep(t) \/ LockInterrupted(t)
    PROVE  /\ \A u \in Threads : mpc[u] = "idle" => mpc'[u] = "idle"
           /\ Asking' /\ aborted' # "not_implemented"
<1>1. mpc \in [Threads -> Labels] /\ held \in [Threads -> Nat] /\ aborted = "none"
  BY DEF JointInv, StepInv, TypeOK
<1>2. TypeSeen(caller[t]) = TimedNp
  BY Mapped, NormalMutex DEF JointInv
<1> USE <1>1, <1>2 DEF JointInv, Asking, Goto, Finish, TimedNp, RecursiveNp, ErrorCheckNp
<1>3. CASE LockAcquire(t) \/ LockSetWaiters(t) \/ LockWait(t) \/ LockWoken(t) \/ LockInterrupted(t)
  BY <1>3 DEF LockAcquire, LockSetWaiters, LockWait, LockWoken, LockInterrupted
<1>4. CASE LockTaken(t) \/ LockRelock(t)
  BY <1>4 DEF LockTaken, LockRelock, Ensure, Abort
<1>5. CASE TryLoad(t) \/ TryTake(t)
  BY <1>5 DEF TryLoad, TryTake, Refuse
<1>6. CASE UnlockAssert(t) \/ UnlockLoad(t) \/ UnlockDecrement(t) \/ UnlockExchange(t)
  BY <1>6 DEF UnlockAssert, UnlockLoad, UnlockDecrement, UnlockExchange, Ensure, Abort
<1>7. CASE UnlockCheck(t) \/ UnlockWake(t)
  BY <1>7 DEF UnlockCheck, UnlockWake, Ensure, Abort, Refuse
<1>8. QED
  BY <1>3, <1>4, <1>5, <1>6, <1>7 DEF LibraryStep

-----------------------------------------------------------------------------
(* The mutex answers as the waits expect                                   *)

\* A step inside of a mutex function is one of the abstract normal lock, or a
\* stutter.
LEMMA MutexStepMaps ==
    ASSUME JointInv, failed = "none", NEW t \in Threads,
           MutexStep(t) \/ MutexInterrupted(t)
    PROVE  [P!Next]_P!vars
<1>1. LibraryStep(t) \/ LockInterrupted(t)
  BY DEF MutexStep, MutexInterrupted
<1>2. UNCHANGED <<condVars, failed>>
  BY DEF MutexStep, MutexInterrupted
<1>3. A!Next \/ UNCHANGED A!lockVars
  BY <1>1, LockMaps, TrylockMaps, UnlockMaps DEF JointInv, LibraryStep
<1>4. CASE UNCHANGED A!lockVars
  BY <1>2, <1>4 DEF A!lockVars, condVars, P!vars, P!lockVars, P!condVars
<1>5. CASE A!Next
  <2>1. PICK u \in Threads :
           \/ \E op \in {"lock", "trylock", "unlock"} : A!Invoke(u, op)
           \/ A!Acquire(u) \/ A!AcquireAgain(u) \/ A!RefuseRelock(u) \/ A!RefuseBusy(u)
           \/ A!ReleaseLevel(u) \/ A!Release(u) \/ A!Finished(u)
    BY <1>5 DEF A!Next
  <2>2. ASSUME NEW op \in {"lock", "trylock", "unlock"}, A!Invoke(u, op)
        PROVE  FALSE
    <3>1. Phases[u] = "idle" /\ Phases'[u] = op
      BY <2>2 DEF A!Invoke, A!Become, Phases
    <3>2. mpc[u] = "idle"
      BY <3>1 DEF Phases, PhaseAt, JointInv, StepInv, TypeOK, Labels
    <3>3. mpc'[u] = "idle"
      BY <1>1, <3>2, LibraryMoves
    <3>4. QED
      BY <3>1, <3>3 DEF Phases, PhaseAt
  <2>3. ~A!AcquireAgain(u) /\ ~A!RefuseRelock(u) /\ ~A!RefuseBusy(u) /\ ~A!ReleaseLevel(u)
    BY NormalMutex DEF JointInv, A!AcquireAgain, A!RefuseRelock, A!RefuseBusy,
       A!ReleaseLevel, TimedNp, RecursiveNp, ErrorCheckNp
  <2>4. A!Acquire(u) \/ A!Release(u) \/ A!Finished(u)
    BY <2>1, <2>2, <2>3
  <2>5. P!L!Acquire(u) \/ P!L!Release(u) \/ P!L!Finished(u)
    BY <2>4 DEF A!Acquire, A!Release, A!Finished, A!Return, A!Become, P!L!Acquire,
       P!L!Release, P!L!Finished, P!L!Return, P!L!Become
  <2>6. P!LockStep(u)
    BY <1>2, <2>5 DEF condVars, P!LockStep, P!condVars
  <2>7. P!Next
    BY <2>6 DEF P!Next
  <2>8. QED
    BY <2>7
<1>6. QED
  BY <1>3, <1>4, <1>5

-----------------------------------------------------------------------------
(* Both together                                                           *)

\* A step of the two is a step of each, or a stutter of it.
LEMMA JointMaps ==
    ASSUME JointInv, JointNext
    PROVE  /\ [Next]_mutexVars /\ [P!Next]_P!vars
           /\ Asking' /\ aborted' # "not_implemented"
<1>1. PICK t \in Threads :
          \/ MutexStep(t) \/ MutexInterrupted(t)
          \/ WaiterStep(t) \/ WaiterInterrupted(t)
          \/ ProgramStep(t) \/ TimePasses(t)
  BY DEF JointNext
<1>2. aborted = "none" /\ failed = "none"
  BY DEF JointNext, Running
<1>3. CASE MutexStep(t) \/ MutexInterrupted(t)
  <2>1. LibraryStep(t) \/ LockInterrupted(t)
    BY <1>3 DEF MutexStep, MutexInterrupted
  <2>2. Next
    BY <1>2, <2>1 DEF Next
  <2>3. QED
    BY <1>2, <1>3, <2>1, <2>2, MutexStepMaps, LibraryMoves
<1>4. CASE WaiterStep(t) \/ WaiterInterrupted(t) \/ ProgramStep(t)
  <2>1. PICK c \in Callers :
           Uses(t, c) /\ (C!CondStep(t) \/ C!CondInterrupted(t) \/ C!ClientStep(t))
    BY <1>4 DEF WaiterStep, WaiterInterrupted, ProgramStep, JointInv, StepInv, TypeOK
  <2>2. P!CondStep(t) \/ P!CondInterrupted(t) \/ P!ClientStep(t)
    BY <2>1, SameStep
  <2>3. P!Next
    BY <1>2, <2>2 DEF P!Next
  <2>4. QED
    BY <1>2, <2>1, <2>2, <2>3, UseCalls
<1>5. CASE TimePasses(t)
  <2>1. UNCHANGED mutexVars /\ P!TimePasses(t)
    BY <1>5, SameStep DEF TimePasses
  <2>2. P!Next
    BY <1>2, <2>1 DEF P!Next
  <2>3. QED
    BY <1>2, <2>1, <2>2 DEF mutexVars, JointInv, Asking
<1>6. QED
  BY <1>1, <1>3, <1>4, <1>5

\* The invariants of the two, each kept by its own component's proof.
LEMMA JointInductive ==
    ASSUME Disciplined, JointInv, [JointNext]_jointVars
    PROVE  JointInv'
<1>1. CASE UNCHANGED jointVars
  <2>1. UNCHANGED mutexVars /\ UNCHANGED P!vars
    BY <1>1 DEF jointVars, condVars, mutexVars, P!vars, P!lockVars, P!condVars,
       DepthOf, Phases
  <2>2. StepInv'
    BY <2>1, StepInductive DEF JointInv
  <2>3. P!CondInv'
    BY <2>1, SameAssumption, P!CondInductive DEF JointInv
  <2>4. QED
    BY <2>1, <2>2, <2>3 DEF mutexVars, JointInv, Asking
<1>2. CASE JointNext
  <2>1. /\ [Next]_mutexVars /\ [P!Next]_P!vars
        /\ Asking' /\ aborted' # "not_implemented"
    BY <1>2, JointMaps
  <2>2. StepInv'
    BY <2>1, StepInductive DEF JointInv
  <2>3. P!CondInv'
    BY <2>1, SameAssumption, P!CondInductive DEF JointInv
  <2>4. aborted' # "deadlock"
    <3>1. AbortsAreReports'
      BY <2>2 DEF StepInv, MutexInv
    <3>2. QED
      BY <2>1, <3>1 DEF AbortsAreReports, DeadlockReportIsTrue, Asking
  <2>5. aborted' = "none"
    BY <2>1, <2>2, <2>4 DEF StepInv, MutexInv, AbortsAreReports, OnlyReportsAbort
  <2>6. QED
    BY <2>1, <2>2, <2>3, <2>5 DEF JointInv
<1>3. QED
  BY <1>1, <1>2

LEMMA JointStart ==
    ASSUME TypeReachesCallers, JointInit
    PROVE  JointInv
<1>1. StepInv
  BY StepInit DEF JointInit
<1>2. P!CondInv
  BY SameAssumption, SameInit, P!CondInit DEF JointInit
<1>3. QED
  BY <1>1, <1>2 DEF JointInit, Init, JointInv, Asking

\* A step of the two is one of each component, or leaves it alone.
LEMMA JointStep ==
    ASSUME JointInv, [JointNext]_jointVars
    PROVE  [Next]_mutexVars /\ [C!Next]_C!vars
<1>1. CASE UNCHANGED jointVars
  BY <1>1 DEF jointVars, condVars, mutexVars, C!vars, C!lockVars, C!condVars,
     DepthOf, Phases
<1>2. CASE JointNext
  BY <1>2, JointMaps, SameNext
<1>3. QED
  BY <1>1, <1>2

LEMMA JointInvariant ==
    ASSUME Disciplined, TypeReachesCallers
    PROVE  JointSpec => []JointInv
BY JointStart, JointInductive, PTL DEF JointSpec

-----------------------------------------------------------------------------
(* The theorems                                                            *)

\* The two components meet, for any number of threads and broadcasts: whatever
\* is proved of PthreadMutex and of PthreadCond alone is true of the two together.
THEOREM JointBothHold ==
    ASSUME Disciplined, TypeReachesCallers
    PROVE  JointSpec => BothHold
<1>1. JointInit => Init /\ C!Init
  BY DEF JointInit
<1>2. JointInv /\ [JointNext]_jointVars => [Next]_mutexVars /\ [C!Next]_C!vars
  BY JointStep
<1>3. QED
  BY <1>1, <1>2, JointInvariant, PTL DEF JointSpec, BothHold, Spec, C!Spec

\* No assertion of the mutex fails and it reports no deadlock, as a wait never
\* locks what its thread has; those of the waits and of the broadcasts fail
\* only because of what the kernel answered, as over the abstract mutex.
THEOREM JointAborts ==
    ASSUME Disciplined, TypeReachesCallers
    PROVE  JointSpec => [](aborted = "none" /\ C!CondAbortsAreReports)
<1>1. P!CondAbortsAreReports <=> C!CondAbortsAreReports
  BY DEF P!CondAbortsAreReports, C!CondAbortsAreReports, P!Wrapped, C!Wrapped
<1>2. JointInv => aborted = "none" /\ C!CondAbortsAreReports
  BY <1>1 DEF JointInv, P!CondInv
<1>3. QED
  BY <1>2, JointInvariant, PTL

\* A thread that is asleep on either futex has a wake coming.
THEOREM JointNoLostWake ==
    ASSUME Disciplined, TypeReachesCallers
    PROVE  JointSpec => [](NoLostWakeup /\ C!NoLostSignal)
<1>1. P!NoLostSignal <=> C!NoLostSignal
  BY DEF P!NoLostSignal, C!NoLostSignal, P!Notified, C!Notified, P!InWait, C!InWait
<1>2. JointInv => NoLostWakeup /\ C!NoLostSignal
  BY <1>1 DEF JointInv, StepInv, MutexInv, P!CondInv
<1>3. QED
  BY <1>2, JointInvariant, PTL

\* Two threads never have the mutex, and one in the middle of a wait has not:
\* by the count of the callers, not only by the state word.
THEOREM JointWaiterReleased ==
    ASSUME Disciplined, TypeReachesCallers
    PROVE  JointSpec => [](/\ MutualExclusion
                           /\ \A t \in Threads : flow[t] \in {"waiting", "asleep"} => held[t] = 0)
<1> DEFINE Released(t) == flow[t] \in {"waiting", "asleep"} => held[t] = 0
<1>1. JointInv => MutualExclusion
  BY DEF JointInv, StepInv, TypeOK, MutexInv, OwnerInv, MutualExclusion
<1>2. JointInv => \A t \in Threads : Released(t)
  BY DEF JointInv, StepInv, TypeOK, MutexInv, OwnerInv, P!CondInv, P!Part
<1>3. QED
  BY <1>1, <1>2, JointInvariant, PTL

\* The waits on the futex mutex are those of the abstract condition variable,
\* whose mutex is one that is taken and released in a single step.
THEOREM JointImplementsCond ==
    ASSUME Disciplined, TypeReachesCallers
    PROVE  JointSpec => C!ImplementsCond
<1>1. P!Spec => P!ImplementsCond
  BY SameAssumption, P!CondImplements
<1>2. C!Spec <=> P!Spec
  BY SameInit, SameNext, PTL DEF C!Spec, P!Spec
<1>3. C!ImplementsCond <=> P!ImplementsCond
  BY SameAbstract, PTL DEF C!ImplementsCond, P!ImplementsCond, C!A!Spec, P!A!Spec
<1>4. QED
  BY <1>1, <1>2, <1>3, JointBothHold, PTL DEF BothHold

=============================================================================
