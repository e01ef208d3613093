-------------------------- MODULE PthreadMutexProofs --------------------------
(***************************************************************************)
(* Proofs about PthreadMutex, for any set of threads, any initialisation   *)
(* and any recursion bound.  Types come first, then one inductive          *)
(* invariant, from which the safety properties follow, and then, step by   *)
(* step, that PthreadMutex implements AbstractLock.                        *)
(***************************************************************************)
EXTENDS MutexRefinement, TLAPS

-----------------------------------------------------------------------------
(* Types                                                                   *)

\* A two-bit field gives back an integer.
LEMMA SignedFieldInt ==
    ASSUME NEW v \in Int
    PROVE  SignedField(2, v) \in Int
<1>1. 2^2 = 4 /\ 2^(2 - 1) = 2
  OBVIOUS
<1>2. QED
  BY <1>1 DEF SignedField

\* The initialisers put integers into __mlibc_flags and __mlibc_kind.
LEMMA InitTypes ==
    ASSUME NEW i \in Initialisers, NEW old \in Leftover
    PROVE  /\ i.type \in TimedNp .. AdaptiveNp
           /\ FlagsAfter(i) \in Int
           /\ KindAfter(i, old) \in Int
<1>1. i.type \in TimedNp .. AdaptiveNp /\ i.type \in Int /\ old \in Int
  BY MutexAssumption DEF TimedNp, AdaptiveNp
<1>2. StoredType(i) \in Int
  BY <1>1, SignedFieldInt DEF StoredType
<1>3. QED
  BY <1>1, <1>2 DEF FlagsAfter, KindAfter

\* The two values the word is set to.
LEMMA Words ==
    ASSUME NEW t \in Threads
    PROVE  Unlocked \in Word /\ [owner |-> t, waiters |-> FALSE] \in Word
BY DEF Unlocked, Word

\* The count wraps, so it stays an unsigned int.
LEMMA CountType ==
    ASSUME NEW n \in 0 .. MaxUint
    PROVE  Up(n) \in 0 .. MaxUint /\ Down(n) \in 0 .. MaxUint
BY MutexAssumption DEF Up, Down

\* A step that moves one thread keeps the program counters in range.
LEMMA GotoType ==
    ASSUME TypeOK, NEW t \in Threads, NEW l \in Labels, Goto(t, l)
    PROVE  mpc' \in [Threads -> Labels]
BY DEF TypeOK, Goto

\* So does a return, which also sets the result and resets the copy.
LEMMA FinishType ==
    ASSUME TypeOK, NEW t \in Threads, NEW r \in Results, Finish(t, r)
    PROVE  /\ mpc' \in [Threads -> Labels]
           /\ ret' \in [Threads -> Results]
           /\ seen' \in [Threads -> Word]
<1>1. "idle" \in Labels /\ Unlocked \in Word
  BY Words DEF Labels
<1>2. QED
  BY <1>1 DEF TypeOK, Goto, Finish

\* So does a relock, which counts.
LEMMA ReacquireType ==
    ASSUME TypeOK, NEW t \in Threads, Reacquire(t), Unread
    PROVE  TypeOK'
<1>1. Finish(t, "OK") /\ "OK" \in Results
  BY DEF Reacquire, Results
<1>2. recursion' \in 0 .. MaxUint
  BY CountType DEF Reacquire, TypeOK
<1>3. held' \in [Threads -> Nat]
  BY DEF Reacquire, TypeOK
<1>4. UNCHANGED <<state, sleepers, aborted>>
  BY DEF Reacquire
<1>5. QED
  BY <1>1, <1>2, <1>3, <1>4, FinishType DEF TypeOK, Unread, Fixed

\* The end of the process is a state like any other.
LEMMA AbortType ==
    ASSUME TypeOK, NEW why \in Reasons, Abort(why), Fixed
    PROVE  TypeOK'
BY DEF TypeOK, Abort, Fixed

\* Entering the library: only the program counter and the caller change.
LEMMA CallType ==
    ASSUME TypeOK, NEW t \in Threads, NEW c \in Callers, ClientCall(t, c)
    PROVE  TypeOK'
<1>1. PICK l \in {"lock", "try_load", "unlock"} : Enter(t, c, l)
  BY DEF ClientCall, CallLock, CallTrylock, CallUnlock
<1>2. mpc' \in [Threads -> Labels]
  BY <1>1, GotoType DEF Enter, Labels
<1>3. QED
  BY <1>1, <1>2 DEF TypeOK, Enter

\* lock.
LEMMA LockType ==
    ASSUME TypeOK, NEW t \in Threads,
           \/ LockAcquire(t) \/ LockTaken(t) \/ LockRelock(t)
           \/ LockSetWaiters(t) \/ LockWait(t) \/ LockWoken(t)
           \/ LockInterrupted(t)
    PROVE  TypeOK'
<1>1. CASE LockAcquire(t)
  <2>1. mpc' \in [Threads -> Labels]
    BY <1>1, GotoType DEF LockAcquire, Labels, TypeOK
  <2>2. state' \in Word /\ seen' \in [Threads -> Word]
    BY <1>1, Words DEF LockAcquire, TypeOK
  <2>3. QED
    BY <1>1, <2>1, <2>2 DEF LockAcquire, TypeOK, Unread, Fixed
<1>2. CASE LockTaken(t)
  <2>1. CASE recursion = 0
    <3>1. Finish(t, "OK") /\ "OK" \in Results
      BY <1>2, <2>1 DEF LockTaken, Ensure, Results
    <3>2. held' \in [Threads -> Nat] /\ recursion' \in 0 .. MaxUint
      BY <1>2, <2>1, MutexAssumption DEF LockTaken, Ensure, TypeOK
    <3>3. UNCHANGED <<state, sleepers, aborted>> /\ Unread
      BY <1>2, <2>1 DEF LockTaken, Ensure
    <3>4. QED
      BY <3>1, <3>2, <3>3, FinishType DEF TypeOK, Unread, Fixed
  <2>2. CASE recursion # 0
    <3>1. Abort("recursion_not_zero") /\ Fixed
      BY <1>2, <2>2 DEF LockTaken, Ensure, Unread
    <3>2. QED
      BY <3>1, AbortType DEF Reasons
  <2>3. QED
    BY <2>1, <2>2
<1>3. CASE LockRelock(t)
  <2>1. CASE Reacquire(t)
    BY <1>3, <2>1, ReacquireType DEF LockRelock
  <2>2. CASE Refuse(t, "EDEADLK")
    BY <1>3, <2>2, FinishType DEF LockRelock, Refuse, Results, TypeOK, Unread, Fixed
  <2>3. CASE Abort("deadlock")
    BY <1>3, <2>3, AbortType DEF LockRelock, Reasons, Unread
  <2>4. QED
    BY <1>3, <2>1, <2>2, <2>3 DEF LockRelock
<1>4. CASE LockSetWaiters(t)
  <2>1. state' \in Word
    BY <1>4 DEF LockSetWaiters, TypeOK, Word
  <2>2. seen' \in [Threads -> Word]
    BY <1>4, <2>1 DEF LockSetWaiters, TypeOK
  <2>3. QED
    BY <1>4, <2>1, <2>2 DEF LockSetWaiters, TypeOK, Unread, Fixed
<1>5. CASE LockWait(t)
  <2>1. mpc' \in [Threads -> Labels]
    BY <1>5, GotoType DEF LockWait, Labels, TypeOK
  <2>2. seen' \in [Threads -> Word] /\ sleepers' \subseteq Threads
    BY <1>5, Words DEF LockWait, F!FutexSleep, TypeOK
  <2>3. QED
    BY <1>5, <2>1, <2>2 DEF LockWait, TypeOK, Unread, Fixed
<1>6. CASE LockWoken(t)
  <2>1. mpc' \in [Threads -> Labels]
    BY <1>6, GotoType DEF LockWoken, Labels
  <2>2. QED
    BY <1>6, <2>1 DEF LockWoken, TypeOK, Unread, Fixed
<1>7. CASE LockInterrupted(t)
  <2>1. mpc' \in [Threads -> Labels]
    BY <1>7, GotoType DEF LockInterrupted, Labels
  <2>2. QED
    BY <1>7, <2>1 DEF LockInterrupted, F!FutexLeave, TypeOK, Unread, Fixed
<1>8. QED
  BY <1>1, <1>2, <1>3, <1>4, <1>5, <1>6, <1>7

\* trylock.
LEMMA TrylockType ==
    ASSUME TypeOK, NEW t \in Threads, TryLoad(t) \/ TryTake(t)
    PROVE  TypeOK'
<1>1. CASE TryLoad(t) /\ Goto(t, "try_take") /\ state = Unlocked
  <2>1. mpc' \in [Threads -> Labels]
    BY <1>1, GotoType DEF Labels
  <2>2. UNCHANGED <<state, recursion, seen, ret, held, sleepers, aborted>> \/ Reacquire(t)
    BY <1>1 DEF TryLoad
  <2>3. CASE Reacquire(t)
    BY <1>1, <2>3, ReacquireType DEF TryLoad
  <2>4. QED
    BY <1>1, <2>1, <2>2, <2>3 DEF TryLoad, TypeOK, Unread, Fixed
<1>2. CASE TryLoad(t) /\ Reacquire(t)
  BY <1>2, ReacquireType DEF TryLoad
<1>3. CASE (TryLoad(t) \/ TryTake(t)) /\ Refuse(t, "EBUSY")
  <2>1. Unread
    BY <1>3 DEF TryLoad, TryTake
  <2>2. QED
    BY <1>3, <2>1, FinishType DEF Refuse, Results, TypeOK, Unread, Fixed
<1>4. CASE TryTake(t) /\ state = Unlocked
  <2>1. mpc' \in [Threads -> Labels]
    BY <1>4, GotoType DEF TryTake, Labels
  <2>2. state' \in Word
    BY <1>4, Words DEF TryTake
  <2>3. QED
    BY <1>4, <2>1, <2>2 DEF TryTake, TypeOK, Unread, Fixed
<1>5. QED
  BY <1>1, <1>2, <1>3, <1>4 DEF TryLoad, TryTake

\* unlock.
LEMMA UnlockType ==
    ASSUME TypeOK, NEW t \in Threads,
           \/ UnlockAssert(t) \/ UnlockLoad(t) \/ UnlockDecrement(t)
           \/ UnlockExchange(t) \/ UnlockCheck(t) \/ UnlockWake(t)
    PROVE  TypeOK'
<1>1. CASE UnlockAssert(t)
  <2>1. CASE recursion # 0
    <3>1. mpc' \in [Threads -> Labels]
      BY <1>1, <2>1, GotoType DEF UnlockAssert, Ensure, Labels
    <3>2. QED
      BY <1>1, <2>1, <3>1 DEF UnlockAssert, Ensure, TypeOK, Unread, Fixed
  <2>2. CASE recursion = 0
    BY <1>1, <2>2, AbortType DEF UnlockAssert, Ensure, Reasons, Unread
  <2>3. QED
    BY <2>1, <2>2
<1>6. CASE UnlockLoad(t)
  <2>1. mpc' \in [Threads -> Labels]
    BY <1>6, GotoType DEF UnlockLoad, Labels
  <2>2. count' \in [Threads -> 0 .. MaxUint]
    BY <1>6 DEF UnlockLoad, TypeOK
  <2>3. QED
    BY <1>6, <2>1, <2>2 DEF UnlockLoad, TypeOK, Fixed
<1>2. CASE UnlockDecrement(t)
  <2>1. mpc' \in [Threads -> Labels] /\ ret' \in [Threads -> Results] /\ seen' \in [Threads -> Word]
    BY <1>2, GotoType, FinishType DEF UnlockDecrement, Labels, Results, TypeOK
  <2>2. held' \in [Threads -> Nat] /\ count' \in [Threads -> 0 .. MaxUint]
    BY <1>2, MutexAssumption DEF UnlockDecrement, TypeOK
  <2>3. recursion' \in 0 .. MaxUint
    BY <1>2, CountType DEF UnlockDecrement, TypeOK
  <2>4. QED
    BY <1>2, <2>1, <2>2, <2>3 DEF UnlockDecrement, TypeOK, Fixed
<1>3. CASE UnlockExchange(t)
  <2>1. mpc' \in [Threads -> Labels]
    BY <1>3, GotoType DEF UnlockExchange, Labels
  <2>2. state' \in Word /\ seen' \in [Threads -> Word]
    BY <1>3, Words DEF UnlockExchange, TypeOK
  <2>3. QED
    BY <1>3, <2>1, <2>2 DEF UnlockExchange, TypeOK, Unread, Fixed
<1>4. CASE UnlockCheck(t)
  <2>1. CASE Refuse(t, "EPERM")
    BY <1>4, <2>1, FinishType DEF UnlockCheck, Refuse, Results, TypeOK, Unread, Fixed
  <2>2. CASE Abort("not_the_owner")
    BY <1>4, <2>2, AbortType DEF UnlockCheck, Reasons, Unread
  <2>3. CASE /\ Goto(t, "wake") \/ Finish(t, "OK")
             /\ UNCHANGED <<seen, ret>> \/ Finish(t, "OK")
             /\ UNCHANGED <<state, recursion, held, sleepers, aborted>>
    <3>1. mpc' \in [Threads -> Labels] /\ ret' \in [Threads -> Results] /\ seen' \in [Threads -> Word]
      BY <2>3, GotoType, FinishType DEF Labels, Results, TypeOK
    <3>2. QED
      BY <1>4, <2>3, <3>1 DEF UnlockCheck, TypeOK, Unread, Fixed
  <2>4. QED
    BY <1>4, <2>1, <2>2, <2>3 DEF UnlockCheck, Ensure
<1>5. CASE UnlockWake(t)
  BY <1>5, FinishType DEF UnlockWake, F!FutexWakeAll, Results, TypeOK, Unread, Fixed
<1>7. QED
  BY <1>1, <1>2, <1>3, <1>4, <1>5, <1>6

\* The two functions without a body.
LEMMA NotImplementedType ==
    ASSUME TypeOK, NEW t \in Threads, NotImplemented(t)
    PROVE  TypeOK'
BY AbortType DEF NotImplemented, Reasons, Unread

LEMMA TypeInit == ASSUME Init PROVE TypeOK
<1>1. flags \in Int /\ kind \in Int /\ declared \in TimedNp .. AdaptiveNp
  BY InitTypes DEF Init
<1>2. caller \in [Threads -> Callers]
  <2>1. (CHOOSE c \in Callers : TRUE) \in Callers
    BY MutexAssumption
  <2>2. QED
    BY <2>1 DEF Init
<1>3. 0 \in 0 .. MaxUint
  BY MutexAssumption
<1>4. QED
  BY <1>1, <1>2, <1>3 DEF Init, TypeOK, Unlocked, Word, Labels, Results, Reasons

LEMMA TypeInductive ==
    ASSUME TypeOK, [Next]_mutexVars
    PROVE  TypeOK'
<1>1. CASE UNCHANGED mutexVars
  BY <1>1 DEF mutexVars, TypeOK
<1>2. CASE Next
  BY <1>2, CallType, LockType, TrylockType, UnlockType, NotImplementedType
     DEF Next, LibraryStep
<1>3. QED
  BY <1>1, <1>2

\* Every variable keeps its type: whatever the callers do, no step leaves the
\* layout of the state word, the control flow of the three functions or the
\* range of their results.  (The recursion count is an unsigned int: this says
\* nothing about whether it wraps, MutexHolderIsOwner does.)
THEOREM MutexTypeOK == Spec => []TypeOK
BY TypeInit, TypeInductive, PTL DEF Spec

-----------------------------------------------------------------------------
(* The inductive invariant                                                 *)

\* Only threads that have the mutex give it back.
Disciplined == "unlock_unowned_errorcheck" \notin ClientMay

\* The owner in the word is the thread that has the mutex, that is about to
\* be told so, or that is giving it back; in the last two cases the recursion
\* count is zero, else it is what the caller counts.
OwnerInv ==
    /\ state.owner = NoThread => state = Unlocked /\ recursion = 0
    /\ \A t \in Threads :
          /\ state.owner = t <=> held[t] > 0 \/ mpc[t] \in {"taken", "exchange"}
          /\ held[t] > 0 => recursion = held[t] /\ mpc[t] \notin {"taken", "exchange"}
          /\ mpc[t] \in {"taken", "exchange"} => recursion = 0

\* What a thread remembers of the word and of the count is true where the
\* code relies on it.
CallInv ==
    \A t \in Threads :
        /\ mpc[t] \in {"unlock", "load", "decrement"} => held[t] > 0
        /\ held[t] <= MaxHeld
        /\ mpc[t] \in {"lock", "taken", "asleep", "try_load", "try_take"} => held[t] < MaxHeld
        /\ mpc[t] = "decrement" => count[t] = recursion
        /\ mpc[t] \in {"check", "wake"} => seen[t].owner = t
        /\ mpc[t] = "lock" /\ seen[t].owner = t => held[t] > 0
        /\ mpc[t] \notin {"lock", "check", "wake"} => seen[t] = Unlocked

MutexInv == OwnerInv /\ CallInv /\ NoLostWakeup /\ AbortsAreReports

\* No thread is the owner in the value 0.
LEMMA FreeWord == \A t \in Threads : t # Unlocked.owner /\ t # NoThread
BY MutexAssumption DEF Unlocked

\* So ++ and -- do not wrap.
LEMMA NoWrapUp ==
    ASSUME TypeOK, OwnerInv, CallInv, NEW t \in Threads, held[t] > 0,
           mpc[t] \in {"lock", "try_load"}
    PROVE  Up(recursion) = recursion + 1
<1>1. recursion = held[t] /\ held[t] < MaxHeld /\ held[t] \in Nat
  BY DEF TypeOK, OwnerInv, CallInv
<1>2. QED
  BY <1>1, MutexAssumption DEF Up

LEMMA NoWrapDown ==
    ASSUME TypeOK, OwnerInv, CallInv, NEW t \in Threads, mpc[t] = "decrement"
    PROVE  /\ held[t] > 0 /\ count[t] = recursion /\ recursion = held[t]
           /\ Down(count[t]) = count[t] - 1
BY DEF TypeOK, OwnerInv, CallInv, Down

\* A call: unlock is only called by a thread that has the mutex.
LEMMA CallStep ==
    ASSUME TypeOK, TypeOK', MutexInv, aborted = "none", Disciplined, NEW t \in Threads,
           NEW c \in Callers, ClientCall(t, c)
    PROVE  MutexInv'
<1> USE DEF TypeOK, MutexInv
<1>1. OwnerInv'
  BY DEF OwnerInv, CallInv, Disciplined, ClientCall, CallLock, CallTrylock, CallUnlock, Enter, MayUnlock, Goto
<1>2. CallInv'
  BY FreeWord, MutexAssumption DEF OwnerInv, CallInv, Disciplined, ClientCall, CallLock, CallTrylock, CallUnlock, Enter, MayLock, MayUnlock, Goto
<1>3. NoLostWakeup'
  BY DEF OwnerInv, CallInv, NoLostWakeup, Disciplined, ClientCall, CallLock, CallTrylock, CallUnlock, Enter, MayUnlock, Goto
<1>4. AbortsAreReports'
  BY DEF OwnerInv, CallInv, AbortsAreReports, OnlyReportsAbort, DeadlockReportIsTrue, Disciplined, ClientCall, CallLock, CallTrylock, CallUnlock, Enter, MayUnlock, Goto
<1>5. QED
  BY <1>1, <1>2, <1>3, <1>4

\* The exchange of lock: a free word has no owner, so nobody else has the mutex.
LEMMA AcquireStep ==
    ASSUME TypeOK, TypeOK', MutexInv, aborted = "none", NEW t \in Threads,
           LockAcquire(t)
    PROVE  MutexInv'
<1> USE DEF TypeOK, MutexInv
<1>1. OwnerInv'
  BY FreeWord DEF OwnerInv, CallInv, LockAcquire, Unlocked, Word, Goto, Unread, Fixed
<1>2. CallInv'
  BY FreeWord DEF OwnerInv, CallInv, LockAcquire, Unlocked, Word, Goto, Unread, Fixed
<1>3. NoLostWakeup'
  BY DEF OwnerInv, CallInv, NoLostWakeup, LockAcquire, Unlocked, Word, Goto, Unread, Fixed
<1>4. AbortsAreReports'
  BY DEF OwnerInv, CallInv, AbortsAreReports, OnlyReportsAbort, DeadlockReportIsTrue, LockAcquire, Unlocked, Word, Goto, Unread, Fixed
<1>5. QED
  BY <1>1, <1>2, <1>3, <1>4

\* The new owner finds a recursion count of zero.
LEMMA TakenStep ==
    ASSUME TypeOK, TypeOK', MutexInv, aborted = "none", NEW t \in Threads,
           LockTaken(t)
    PROVE  MutexInv'
<1> USE DEF TypeOK, MutexInv
<1>1. OwnerInv'
  BY FreeWord DEF OwnerInv, CallInv, LockTaken, Ensure, Abort, Finish, Unlocked, Goto, Unread, Fixed
<1>2. CallInv'
  BY MutexAssumption DEF OwnerInv, CallInv, LockTaken, Ensure, Abort, Finish, Unlocked, Goto, Unread, Fixed
<1>3. NoLostWakeup'
  BY DEF OwnerInv, CallInv, NoLostWakeup, LockTaken, Ensure, Abort, Finish, Unlocked, Goto, Unread, Fixed
<1>4. AbortsAreReports'
  BY DEF OwnerInv, CallInv, AbortsAreReports, OnlyReportsAbort, DeadlockReportIsTrue, LockTaken, Ensure, Abort, Finish, Unlocked, Goto, Unread, Fixed
<1>5. QED
  BY <1>1, <1>2, <1>3, <1>4

\* The word names the caller only if the caller has the mutex.
LEMMA RelockStep ==
    ASSUME TypeOK, TypeOK', MutexInv, aborted = "none", NEW t \in Threads,
           LockRelock(t)
    PROVE  MutexInv'
<1> USE DEF TypeOK, MutexInv
<1>0. Up(recursion) = recursion + 1
  BY NoWrapUp DEF LockRelock, CallInv
<1>1. OwnerInv'
  BY <1>0 DEF OwnerInv, CallInv, LockRelock, Reacquire, Refuse, Abort, Finish, Unlocked, Goto, Unread, Fixed
<1>2. CallInv'
  BY MutexAssumption DEF OwnerInv, CallInv, LockRelock, Reacquire, Refuse, Abort, Finish, Unlocked, Goto, Unread, Fixed
<1>3. NoLostWakeup'
  BY DEF OwnerInv, CallInv, NoLostWakeup, LockRelock, Reacquire, Refuse, Abort, Finish, Unlocked, Goto, Unread, Fixed
<1>4. AbortsAreReports'
  BY DEF OwnerInv, CallInv, AbortsAreReports, OnlyReportsAbort, DeadlockReportIsTrue, LockRelock, Reacquire, Refuse, Abort, Finish, Unlocked, Goto, Unread, Fixed
<1>5. QED
  BY <1>1, <1>2, <1>3, <1>4

\* Setting the waiters bit keeps the owner.
LEMMA SetWaitersStep ==
    ASSUME TypeOK, TypeOK', MutexInv, aborted = "none", NEW t \in Threads,
           LockSetWaiters(t)
    PROVE  MutexInv'
<1> USE DEF TypeOK, MutexInv
<1>1. OwnerInv'
  BY DEF OwnerInv, CallInv, LockSetWaiters, HeldByAnother, Unlocked, Word, Goto, Unread, Fixed
<1>2. CallInv'
  BY DEF OwnerInv, CallInv, LockSetWaiters, HeldByAnother, Unlocked, Word, Goto, Unread, Fixed
<1>3. NoLostWakeup'
  BY SMTT(30) DEF OwnerInv, CallInv, NoLostWakeup, LockSetWaiters, HeldByAnother, Unlocked, Word, Goto, Unread, Fixed
<1>4. AbortsAreReports'
  BY DEF OwnerInv, CallInv, AbortsAreReports, OnlyReportsAbort, DeadlockReportIsTrue, LockSetWaiters, HeldByAnother, Unlocked, Word, Goto, Unread, Fixed
<1>5. QED
  BY <1>1, <1>2, <1>3, <1>4

\* A thread falls asleep only on a word that has the waiters bit.
LEMMA WaitStep ==
    ASSUME TypeOK, TypeOK', MutexInv, aborted = "none", NEW t \in Threads,
           LockWait(t)
    PROVE  MutexInv'
<1> USE DEF TypeOK, MutexInv
<1>1. OwnerInv'
  BY DEF OwnerInv, CallInv, LockWait, HeldByAnother, F!FutexSleep, Unlocked, Goto, Unread, Fixed
<1>2. CallInv'
  <2>1. mpc[t] = "lock" /\ seen'[t] = Unlocked /\ mpc'[t] \in {"lock", "asleep"}
    BY DEF LockWait, Goto
  <2>2. \A u \in Threads \ {t} : seen'[u] = seen[u] /\ mpc'[u] = mpc[u]
    BY DEF LockWait, Goto
  <2>3. UNCHANGED <<held, count, recursion>>
    BY DEF LockWait, Unread
  <2>4. QED
    BY <2>1, <2>2, <2>3, FreeWord, MutexAssumption DEF CallInv
<1>3. NoLostWakeup'
  BY DEF OwnerInv, CallInv, NoLostWakeup, LockWait, HeldByAnother, F!FutexSleep, Unlocked, Goto, Unread, Fixed
<1>4. AbortsAreReports'
  BY DEF OwnerInv, CallInv, AbortsAreReports, OnlyReportsAbort, DeadlockReportIsTrue, LockWait, HeldByAnother, F!FutexSleep, Unlocked, Goto, Unread, Fixed
<1>5. QED
  BY <1>1, <1>2, <1>3, <1>4

\* A thread that wakes up has forgotten the word.
LEMMA WokenStep ==
    ASSUME TypeOK, TypeOK', MutexInv, aborted = "none", NEW t \in Threads,
           LockWoken(t) \/ LockInterrupted(t)
    PROVE  MutexInv'
<1> USE DEF TypeOK, MutexInv
<1>1. OwnerInv'
  BY DEF OwnerInv, CallInv, LockWoken, LockInterrupted, F!FutexLeave, Unlocked, Goto, Unread, Fixed
<1>2. CallInv'
  BY FreeWord DEF OwnerInv, CallInv, LockWoken, LockInterrupted, F!FutexLeave, Unlocked, Goto, Unread, Fixed
<1>3. NoLostWakeup'
  BY DEF OwnerInv, CallInv, NoLostWakeup, LockWoken, LockInterrupted, F!FutexLeave, Unlocked, Goto, Unread, Fixed
<1>4. AbortsAreReports'
  BY DEF OwnerInv, CallInv, AbortsAreReports, OnlyReportsAbort, DeadlockReportIsTrue, LockWoken, LockInterrupted, F!FutexLeave, Unlocked, Goto, Unread, Fixed
<1>5. QED
  BY <1>1, <1>2, <1>3, <1>4

\* trylock: the plain load, and a recursive relock.
LEMMA TryLoadStep ==
    ASSUME TypeOK, TypeOK', MutexInv, aborted = "none", NEW t \in Threads,
           TryLoad(t)
    PROVE  MutexInv'
<1> USE DEF TypeOK, MutexInv
<1>0. mpc[t] = "try_load" /\ state.owner = t => Up(recursion) = recursion + 1
  BY NoWrapUp DEF OwnerInv
<1>1. OwnerInv'
  BY <1>0 DEF OwnerInv, CallInv, TryLoad, Reacquire, Refuse, Finish, Unlocked, Goto, Unread, Fixed
<1>2. CallInv'
  BY MutexAssumption DEF OwnerInv, CallInv, TryLoad, Reacquire, Refuse, Finish, Unlocked, Goto, Unread, Fixed
<1>3. NoLostWakeup'
  BY DEF OwnerInv, CallInv, NoLostWakeup, TryLoad, Reacquire, Refuse, Finish, Unlocked, Goto, Unread, Fixed
<1>4. AbortsAreReports'
  BY DEF OwnerInv, CallInv, AbortsAreReports, OnlyReportsAbort, DeadlockReportIsTrue, TryLoad, Reacquire, Refuse, Finish, Unlocked, Goto, Unread, Fixed
<1>5. QED
  BY <1>1, <1>2, <1>3, <1>4

\* trylock: the exchange.
LEMMA TryTakeStep ==
    ASSUME TypeOK, TypeOK', MutexInv, aborted = "none", NEW t \in Threads,
           TryTake(t)
    PROVE  MutexInv'
<1> USE DEF TypeOK, MutexInv
<1>1. OwnerInv'
  BY FreeWord DEF OwnerInv, CallInv, TryTake, Refuse, Finish, Unlocked, Goto, Unread, Fixed
<1>2. CallInv'
  BY DEF OwnerInv, CallInv, TryTake, Refuse, Finish, Unlocked, Goto, Unread, Fixed
<1>3. NoLostWakeup'
  BY DEF OwnerInv, CallInv, NoLostWakeup, TryTake, Refuse, Finish, Unlocked, Goto, Unread, Fixed
<1>4. AbortsAreReports'
  BY DEF OwnerInv, CallInv, AbortsAreReports, OnlyReportsAbort, DeadlockReportIsTrue, TryTake, Refuse, Finish, Unlocked, Goto, Unread, Fixed
<1>5. QED
  BY <1>1, <1>2, <1>3, <1>4

\* unlock finds the count its caller relies on.
LEMMA UnlockAssertStep ==
    ASSUME TypeOK, TypeOK', MutexInv, aborted = "none", NEW t \in Threads,
           UnlockAssert(t)
    PROVE  MutexInv'
<1> USE DEF TypeOK, MutexInv
<1>1. OwnerInv'
  BY DEF OwnerInv, CallInv, UnlockAssert, Ensure, Abort, Goto, Unread, Fixed
<1>2. CallInv'
  BY DEF OwnerInv, CallInv, UnlockAssert, Ensure, Abort, Goto, Unread, Fixed
<1>3. NoLostWakeup'
  BY DEF OwnerInv, CallInv, NoLostWakeup, UnlockAssert, Ensure, Abort, Goto, Unread, Fixed
<1>4. AbortsAreReports'
  BY DEF OwnerInv, CallInv, AbortsAreReports, OnlyReportsAbort, DeadlockReportIsTrue, UnlockAssert, Ensure, Abort, Goto, Unread, Fixed
<1>5. QED
  BY <1>1, <1>2, <1>3, <1>4

\* It is still there when the decrement reads it.
LEMMA UnlockLoadStep ==
    ASSUME TypeOK, TypeOK', MutexInv, aborted = "none", NEW t \in Threads,
           UnlockLoad(t)
    PROVE  MutexInv'
<1> USE DEF TypeOK, MutexInv
<1>1. OwnerInv'
  BY DEF OwnerInv, CallInv, UnlockLoad, Goto, Unread, Fixed
<1>2. CallInv'
  BY DEF OwnerInv, CallInv, UnlockLoad, Goto, Unread, Fixed
<1>3. NoLostWakeup'
  BY DEF OwnerInv, CallInv, NoLostWakeup, UnlockLoad, Goto, Unread, Fixed
<1>4. AbortsAreReports'
  BY DEF OwnerInv, CallInv, AbortsAreReports, OnlyReportsAbort, DeadlockReportIsTrue, UnlockLoad, Goto, Unread, Fixed
<1>5. QED
  BY <1>1, <1>2, <1>3, <1>4

\* unlock gives back one level; at zero the word still names the caller.
LEMMA UnlockDecrementStep ==
    ASSUME TypeOK, TypeOK', MutexInv, aborted = "none", NEW t \in Threads,
           UnlockDecrement(t)
    PROVE  MutexInv'
<1> USE DEF TypeOK, MutexInv
<1>0. /\ held[t] > 0 /\ count[t] = recursion /\ recursion = held[t]
      /\ Down(count[t]) = count[t] - 1
  BY NoWrapDown DEF UnlockDecrement
<1>1. OwnerInv'
  BY <1>0 DEF OwnerInv, CallInv, UnlockDecrement, Finish, Unlocked, Goto, Unread, Fixed
<1>2. CallInv'
  BY <1>0, MutexAssumption DEF OwnerInv, CallInv, UnlockDecrement, Finish, Unlocked, Goto, Unread, Fixed
<1>3. NoLostWakeup'
  BY <1>0 DEF OwnerInv, CallInv, NoLostWakeup, UnlockDecrement, Finish, Unlocked, Goto, Unread, Fixed
<1>4. AbortsAreReports'
  BY <1>0 DEF OwnerInv, CallInv, AbortsAreReports, OnlyReportsAbort, DeadlockReportIsTrue, UnlockDecrement, Finish, Unlocked, Goto, Unread, Fixed
<1>5. QED
  BY <1>1, <1>2, <1>3, <1>4

\* The exchange of unlock takes the waiters bit with it.
LEMMA UnlockExchangeStep ==
    ASSUME TypeOK, TypeOK', MutexInv, aborted = "none", NEW t \in Threads,
           UnlockExchange(t)
    PROVE  MutexInv'
<1> USE DEF TypeOK, MutexInv
<1>1. OwnerInv'
  BY FreeWord DEF OwnerInv, CallInv, UnlockExchange, Unlocked, Goto, Unread, Fixed
<1>2. CallInv'
  BY DEF OwnerInv, CallInv, UnlockExchange, Unlocked, Goto, Unread, Fixed
<1>3. NoLostWakeup'
  BY DEF OwnerInv, CallInv, NoLostWakeup, UnlockExchange, Unlocked, Goto, Unread, Fixed
<1>4. AbortsAreReports'
  BY DEF OwnerInv, CallInv, AbortsAreReports, OnlyReportsAbort, DeadlockReportIsTrue, UnlockExchange, Unlocked, Goto, Unread, Fixed
<1>5. QED
  BY <1>1, <1>2, <1>3, <1>4

\* The word it returned names the caller: no EPERM, no failed assertion.
LEMMA UnlockCheckStep ==
    ASSUME TypeOK, TypeOK', MutexInv, aborted = "none", NEW t \in Threads,
           UnlockCheck(t)
    PROVE  MutexInv'
<1> USE DEF TypeOK, MutexInv
<1>1. OwnerInv'
  BY DEF OwnerInv, CallInv, UnlockCheck, Refuse, Ensure, Abort, Finish, Unlocked, Goto, Unread, Fixed
<1>2. CallInv'
  BY DEF OwnerInv, CallInv, UnlockCheck, Refuse, Ensure, Abort, Finish, Unlocked, Goto, Unread, Fixed
<1>3. NoLostWakeup'
  BY DEF OwnerInv, CallInv, NoLostWakeup, UnlockCheck, Refuse, Ensure, Abort, Finish, Unlocked, Goto, Unread, Fixed
<1>4. AbortsAreReports'
  BY DEF OwnerInv, CallInv, AbortsAreReports, OnlyReportsAbort, DeadlockReportIsTrue, UnlockCheck, Refuse, Ensure, Abort, Finish, Unlocked, Goto, Unread, Fixed
<1>5. QED
  BY <1>1, <1>2, <1>3, <1>4

\* The wake leaves nobody asleep.
LEMMA UnlockWakeStep ==
    ASSUME TypeOK, TypeOK', MutexInv, aborted = "none", NEW t \in Threads,
           UnlockWake(t)
    PROVE  MutexInv'
<1> USE DEF TypeOK, MutexInv
<1>1. OwnerInv'
  BY DEF OwnerInv, CallInv, UnlockWake, F!FutexWakeAll, Finish, Unlocked, Goto, Unread, Fixed
<1>2. CallInv'
  BY DEF OwnerInv, CallInv, UnlockWake, F!FutexWakeAll, Finish, Unlocked, Goto, Unread, Fixed
<1>3. NoLostWakeup'
  BY DEF OwnerInv, CallInv, NoLostWakeup, UnlockWake, F!FutexWakeAll, Finish, Unlocked, Goto, Unread, Fixed
<1>4. AbortsAreReports'
  BY DEF OwnerInv, CallInv, AbortsAreReports, OnlyReportsAbort, DeadlockReportIsTrue, UnlockWake, F!FutexWakeAll, Finish, Unlocked, Goto, Unread, Fixed
<1>5. QED
  BY <1>1, <1>2, <1>3, <1>4

\* The process ends with the mutex as it was.
LEMMA NotImplementedStep ==
    ASSUME MutexInv, NEW t \in Threads, NotImplemented(t)
    PROVE  MutexInv'
<1>1. UNCHANGED <<state, recursion, mpc, seen, count, held, sleepers>>
  BY DEF NotImplemented, Abort, Unread
<1>2. aborted' = "not_implemented"
  BY DEF NotImplemented, Abort
<1>3. OwnerInv' /\ CallInv' /\ NoLostWakeup'
  BY <1>1 DEF MutexInv, OwnerInv, CallInv, NoLostWakeup
<1>4. QED
  BY <1>2, <1>3 DEF MutexInv, AbortsAreReports, OnlyReportsAbort, DeadlockReportIsTrue

-----------------------------------------------------------------------------
(* The theorems                                                            *)

LEMMA MutexInit == ASSUME Init PROVE MutexInv
<1>1. OwnerInv
  BY FreeWord DEF Init, OwnerInv, Unlocked
<1>2. CallInv
  BY MutexAssumption, FreeWord DEF Init, CallInv
<1>3. QED
  BY <1>1, <1>2 DEF Init, MutexInv, NoLostWakeup, AbortsAreReports, OnlyReportsAbort,
     DeadlockReportIsTrue

\* MutexInv is inductive among disciplined callers.
LEMMA MutexInductive ==
    ASSUME Disciplined, TypeOK, TypeOK', MutexInv, [Next]_mutexVars
    PROVE  MutexInv'
<1>1. CASE UNCHANGED mutexVars
  BY <1>1 DEF mutexVars, MutexInv, OwnerInv, CallInv, NoLostWakeup, AbortsAreReports,
     OnlyReportsAbort, DeadlockReportIsTrue
<1>2. CASE Next
  BY <1>2, CallStep, AcquireStep, TakenStep, RelockStep, SetWaitersStep,
     WaitStep, WokenStep, TryLoadStep, TryTakeStep, UnlockAssertStep, UnlockLoadStep,
     UnlockDecrementStep, UnlockExchangeStep, UnlockCheckStep,
     UnlockWakeStep, NotImplementedStep DEF Next, LibraryStep
<1>3. QED
  BY <1>1, <1>2

\* MutexInv is an invariant of the mutex among disciplined callers.
LEMMA MutexInvariant ==
    ASSUME Disciplined
    PROVE  Spec => []MutexInv
<1>1. Init => MutexInv
  BY MutexInit
<1>2. TypeOK /\ TypeOK' /\ MutexInv /\ [Next]_mutexVars => MutexInv'
  BY MutexInductive
<1>3. QED
  BY <1>1, <1>2, MutexTypeOK, PTL DEF Spec

\* lock and trylock give the mutex to one thread at a time.
THEOREM MutexExcludes ==
    ASSUME Disciplined
    PROVE  Spec => []MutualExclusion
<1>1. MutexInv /\ TypeOK => MutualExclusion
  BY DEF MutexInv, OwnerInv, MutualExclusion
<1>2. QED
  BY <1>1, MutexInvariant, MutexTypeOK, PTL

\* The owner in the word and the recursion count are what the callers count.
THEOREM MutexHolderIsOwner ==
    ASSUME Disciplined
    PROVE  Spec => []HolderIsOwner
<1>1. MutexInv => HolderIsOwner
  BY DEF MutexInv, OwnerInv, HolderIsOwner
<1>2. QED
  BY <1>1, MutexInvariant, PTL

\* Whoever sleeps in FUTEX_WAIT has a wake coming, in every interleaving of
\* any number of lockers and unlockers, interruptions included.
THEOREM MutexNoLostWakeup ==
    ASSUME Disciplined
    PROVE  Spec => []NoLostWakeup
<1>1. MutexInv => NoLostWakeup
  BY DEF MutexInv
<1>2. QED
  BY <1>1, MutexInvariant, PTL

\* No assertion of lock, trylock and unlock fails but "deadlock detected", and
\* that one fails only when its caller has the mutex already.
THEOREM MutexAbortsAreReports ==
    ASSUME Disciplined
    PROVE  Spec => []AbortsAreReports
<1>1. MutexInv => AbortsAreReports
  BY DEF MutexInv
<1>2. QED
  BY <1>1, MutexInvariant, PTL

\* Nobody but the holder touches the count between the assertion of its unlock
\* and the decrement: the assertion holds and the decrement does not wrap.
THEOREM MutexHolderCounted ==
    ASSUME Disciplined
    PROVE  Spec => []HolderCounted
<1>1. MutexInv /\ TypeOK => HolderCounted
  BY DEF MutexInv, OwnerInv, TypeOK, HolderCounted
<1>2. QED
  BY <1>1, MutexInvariant, MutexTypeOK, PTL

-----------------------------------------------------------------------------
(* What the refinement needs besides                                       *)

\* The field of the type that a caller looks at holds the type declared.
TypeReachesCallers ==
    \A i \in Initialisers, old \in Leftover, c \in Callers :
        i.type = IF c = "mlibc" THEN FlagsAfter(i) \div 2 ELSE KindAfter(i, old)

TypeSeenInv == \A c \in Callers : TypeSeen(c) = declared

\* trylock tries the exchange only for a thread that does not have the mutex.
TrylockInv == \A t \in Threads : mpc[t] = "try_take" => held[t] = 0

\* What a step is known to start from.
StepInv == TypeOK /\ MutexInv /\ TypeSeenInv /\ TrylockInv

-----------------------------------------------------------------------------
(* The additional invariants                                               *)

\* The types 0 and 1 survive the two-bit field.
LEMMA SmallTypesFit ==
    ASSUME NEW v \in {TimedNp, RecursiveNp}
    PROVE  SignedField(2, v) = v
<1>1. 2^2 = 4 /\ 2^(2 - 1) = 2
  OBVIOUS
<1>2. QED
  BY <1>1 DEF SignedField, TimedNp, RecursiveNp

\* So it is when all callers are of the class that initialised the mutex, and
\* a type set through an attribute fits its two bits, ...
LEMMA SameClassReaches ==
    ASSUME \A i \in Initialisers :
              /\ Callers = {i.caller}
              /\ i.via = "attr" => i.type \in {TimedNp, RecursiveNp}
    PROVE  TypeReachesCallers
<1> SUFFICES ASSUME NEW i \in Initialisers, NEW old \in Leftover, NEW c \in Callers
             PROVE  i.type = IF c = "mlibc" THEN FlagsAfter(i) \div 2 ELSE KindAfter(i, old)
  BY DEF TypeReachesCallers
<1>1. i.caller = c /\ c \in {"glibc", "mlibc"} /\ i.type \in 0 .. 3
  BY MutexAssumption DEF TimedNp, AdaptiveNp
<1>2. StoredType(i) = i.type
  BY SmallTypesFit DEF StoredType
<1>3. CASE c = "glibc"
  BY <1>1, <1>2, <1>3 DEF KindAfter
<1>4. CASE c = "mlibc"
  <2>1. FlagsAfter(i) = 2 * i.type
    BY <1>1, <1>2, <1>4 DEF FlagsAfter
  <2>2. (2 * i.type) \div 2 = i.type
    BY <1>1
  <2>3. QED
    BY <1>4, <2>1, <2>2
<1>5. QED
  BY <1>1, <1>3, <1>4

\* ... and for a normal mutex that glibc code initialised, whoever uses it.
LEMMA NormalReaches ==
    ASSUME \A i \in Initialisers : i.caller = "glibc" /\ i.type = TimedNp
    PROVE  TypeReachesCallers
<1> SUFFICES ASSUME NEW i \in Initialisers, NEW old \in Leftover, NEW c \in Callers
             PROVE  i.type = IF c = "mlibc" THEN FlagsAfter(i) \div 2 ELSE KindAfter(i, old)
  BY DEF TypeReachesCallers
<1>1. i.caller = "glibc" /\ i.type = TimedNp /\ TimedNp = 0
  BY DEF TimedNp
<1>2. KindAfter(i, old) = 0
  BY <1>1, SmallTypesFit DEF KindAfter, StoredType
<1>3. FlagsAfter(i) \div 2 = 0
  <2>1. FlagsAfter(i) \in {0, 1}
    BY <1>1 DEF FlagsAfter
  <2>2. 0 \div 2 = 0 /\ 1 \div 2 = 0
    OBVIOUS
  <2>3. QED
    BY <2>1, <2>2
<1>4. QED
  BY <1>1, <1>2, <1>3

LEMMA TypeSeenInit ==
    ASSUME TypeReachesCallers, Init
    PROVE  TypeSeenInv
BY DEF TypeReachesCallers, Init, TypeSeenInv, TypeSeen

\* No step writes the type.
LEMMA TypeSeenStep ==
    ASSUME TypeSeenInv, Next
    PROVE  TypeSeenInv' /\ UNCHANGED declared
<1>1. UNCHANGED <<flags, kind, declared>>
  <2>1. PICK t \in Threads : \/ LibraryStep(t) \/ LockInterrupted(t)
                             \/ NotImplemented(t)
                             \/ \E c \in Callers : ClientCall(t, c)
    BY DEF Next
  <2>2. CASE \E c \in Callers : ClientCall(t, c)
    BY <2>2 DEF ClientCall, CallLock, CallTrylock, CallUnlock, Enter
  <2>3. CASE LibraryStep(t) \/ LockInterrupted(t) \/ NotImplemented(t)
    BY <2>3 DEF LibraryStep, LockAcquire, LockTaken, LockRelock,
       LockSetWaiters, LockWait, LockWoken, LockInterrupted, TryLoad, TryTake,
       UnlockAssert, UnlockLoad, UnlockDecrement, UnlockExchange, UnlockCheck,
       UnlockWake, NotImplemented, Unread, Fixed
  <2>4. QED
    BY <2>1, <2>2, <2>3
<1>2. QED
  BY <1>1 DEF TypeSeenInv, TypeSeen

LEMMA TrylockStepInv ==
    ASSUME StepInv, Next
    PROVE  TrylockInv'
<1>1. PICK t \in Threads : \/ LibraryStep(t) \/ LockInterrupted(t)
                           \/ NotImplemented(t)
                           \/ \E c \in Callers : ClientCall(t, c)
  BY DEF Next
<1>2. UNCHANGED declared
  BY TypeSeenStep DEF StepInv
<1> USE <1>2 DEF StepInv, TypeOK, TrylockInv, MutexInv, OwnerInv, CallInv, Goto, Finish
<1>3. CASE \E c \in Callers : ClientCall(t, c)
  BY <1>3 DEF ClientCall, CallLock, CallTrylock, CallUnlock, Enter
<1>4. CASE LockAcquire(t) \/ LockSetWaiters(t) \/ LockWait(t) \/ LockWoken(t) \/ LockInterrupted(t)
  BY <1>4 DEF LockAcquire, LockSetWaiters, LockWait, LockWoken, LockInterrupted
<1>5. CASE LockTaken(t) \/ LockRelock(t)
  BY <1>5 DEF LockTaken, LockRelock, Ensure, Abort, Reacquire, Refuse
<1>6. CASE TryLoad(t) \/ TryTake(t)
  BY <1>6, FreeWord DEF TryLoad, TryTake, Reacquire, Refuse, Unlocked
<1>7. CASE UnlockAssert(t) \/ UnlockLoad(t) \/ UnlockDecrement(t) \/ UnlockExchange(t)
  BY <1>7 DEF UnlockAssert, UnlockLoad, UnlockDecrement, UnlockExchange, Ensure, Abort
<1>8. CASE UnlockCheck(t) \/ UnlockWake(t) \/ NotImplemented(t)
  BY <1>8 DEF UnlockCheck, UnlockWake, NotImplemented, Ensure, Abort, Refuse
<1>9. QED
  BY <1>1, <1>3, <1>4, <1>5, <1>6, <1>7, <1>8 DEF LibraryStep

-----------------------------------------------------------------------------
(* The refinement mapping, step by step                                    *)

\* The places where the abstract depth is 1 whatever the count is.
Between == {"taken", "exchange"}

\* Moving a thread moves its abstract phase.
LEMMA PhaseMove ==
    ASSUME TypeOK, NEW t \in Threads, NEW l, Goto(t, l)
    PROVE  /\ A!Become(t, PhaseAt(l))
           /\ PhaseAt(l) = PhaseAt(mpc[t]) => UNCHANGED Phases
BY DEF TypeOK, Goto, A!Become, Phases

\* A move that does not enter or leave the places between an exchange and its
\* store, and that keeps owner and count, keeps the depth.
LEMMA DepthSame ==
    ASSUME TypeOK, NEW t \in Threads, NEW l, Goto(t, l),
           l \in Between <=> mpc[t] \in Between,
           UNCHANGED <<state.owner, recursion>>
    PROVE  UNCHANGED DepthOf
<1>1. ASSUME NEW u \in Threads PROVE mpc'[u] \in Between <=> mpc[u] \in Between
  BY DEF TypeOK, Goto
<1>2. state.owner \in Threads \cup {NoThread}
  BY DEF TypeOK, Word
<1>3. QED
  BY <1>1, <1>2 DEF DepthOf, Between

\* What a return of the code is in the abstract lock.
LEMMA ReturnMove ==
    ASSUME TypeOK, NEW t \in Threads, NEW r, Finish(t, r)
    PROVE  A!Return(t, r)
<1>1. A!Become(t, PhaseAt("idle")) /\ PhaseAt("idle") = "idle"
  BY PhaseMove DEF Finish, PhaseAt
<1>2. QED
  BY <1>1 DEF Finish, A!Return

\* The abstract state does not change when its concrete parts do not.
LEMMA Still ==
    ASSUME TypeOK, NEW t \in Threads, NEW l, Goto(t, l),
           PhaseAt(l) = PhaseAt(mpc[t]), l \in Between <=> mpc[t] \in Between,
           UNCHANGED <<declared, state.owner, recursion, ret>>
    PROVE  UNCHANGED A!lockVars
BY PhaseMove, DepthSame DEF A!lockVars, Phases

\* The phase and the depth of a thread the mutex belongs to, and of the others.
LEMMA Mapped ==
    ASSUME StepInv, NEW t \in Threads
    PROVE  /\ Phases[t] = PhaseAt(mpc[t])
           /\ state.owner = t /\ mpc[t] \in Between => DepthOf = 1
           /\ state.owner = t /\ mpc[t] \notin Between => DepthOf = recursion
           /\ state.owner = NoThread <=> state = Unlocked
           /\ TypeSeen(caller[t]) = declared
<1>1. t # NoThread
  BY FreeWord
<1>2. state.owner = NoThread <=> state = Unlocked
  BY DEF StepInv, MutexInv, OwnerInv, Unlocked
<1>3. TypeSeen(caller[t]) = declared
  BY DEF StepInv, TypeOK, TypeSeenInv
<1>4. QED
  BY <1>1, <1>2, <1>3 DEF Phases, DepthOf, Between

\* A call is an invocation.
LEMMA CallMaps ==
    ASSUME StepInv, Disciplined, NEW t \in Threads, NEW c \in Callers, ClientCall(t, c)
    PROVE  A!Next
<1>1. PICK l \in {"lock", "try_load", "unlock"} :
          Enter(t, c, l) /\ (l = "unlock" => held[t] > 0)
  BY DEF ClientCall, CallLock, CallTrylock, CallUnlock, MayUnlock, Disciplined
<1>2. PhaseAt(l) \in {"lock", "trylock", "unlock"} /\ (PhaseAt(l) = "unlock" => l = "unlock")
  BY <1>1 DEF PhaseAt
<1>3. PhaseAt(l) = "unlock" => state.owner = t
  BY <1>1, <1>2 DEF StepInv, MutexInv, OwnerInv
<1>4. A!Become(t, PhaseAt(l)) /\ Phases[t] = "idle"
  BY <1>1, PhaseMove, Mapped DEF Enter, StepInv, PhaseAt
<1>5. UNCHANGED <<declared, state.owner, DepthOf, ret>>
  BY <1>1, DepthSame DEF Enter, StepInv, Between
<1>6. A!Invoke(t, PhaseAt(l))
  BY <1>3, <1>4, <1>5 DEF A!Invoke, Phases
<1>7. QED
  BY <1>2, <1>6 DEF A!Next

\* The exchange of lock or trylock that succeeds.
LEMMA ExchangeMaps ==
    ASSUME StepInv, NEW t \in Threads, mpc[t] \in {"lock", "try_take"},
           state = Unlocked, state' = [owner |-> t, waiters |-> FALSE],
           Goto(t, "taken"), UNCHANGED <<declared, ret>>
    PROVE  A!Next
<1>1. A!Become(t, "done") /\ Phases[t] \in {"lock", "trylock"}
  BY PhaseMove, Mapped DEF StepInv, PhaseAt
<1>2. state.owner = NoThread /\ state'.owner = t /\ t # NoThread
  BY FreeWord DEF Unlocked
<1>3. mpc'[t] = "taken"
  BY DEF StepInv, TypeOK, Goto
<1>4. DepthOf' = 1
  BY <1>2, <1>3 DEF DepthOf
<1>5. A!Acquire(t)
  BY <1>1, <1>2, <1>4 DEF A!Acquire, Phases
<1>6. QED
  BY <1>5 DEF A!Next

\* The end of a call whose effect has happened already.
LEMMA FinishMaps ==
    ASSUME StepInv, NEW t \in Threads, PhaseAt(mpc[t]) = "done", Finish(t, "OK"),
           UNCHANGED <<declared, state.owner, DepthOf>>
    PROVE  A!Next
<1>1. A!Return(t, "OK") /\ Phases[t] = "done"
  BY ReturnMove, Mapped DEF StepInv
<1>2. A!Finished(t)
  BY <1>1 DEF A!Finished, Phases
<1>3. QED
  BY <1>2 DEF A!Next

\* Counting up.
LEMMA ReacquireMaps ==
    ASSUME StepInv, NEW t \in Threads, mpc[t] \in {"lock", "try_load"},
           state.owner = t, declared = RecursiveNp, Reacquire(t), UNCHANGED declared
    PROVE  A!Next
<1>1. A!Return(t, "OK") /\ Phases[t] \in {"lock", "trylock"}
  BY ReturnMove, Mapped DEF StepInv, Reacquire, PhaseAt
<1>2. mpc'[t] = "idle" /\ t # NoThread
  BY FreeWord DEF StepInv, TypeOK, Reacquire, Finish, Goto
<1>0. Up(recursion) = recursion + 1
  BY NoWrapUp DEF StepInv, MutexInv, OwnerInv
<1>3. DepthOf = recursion /\ DepthOf' = recursion + 1
  BY <1>0, <1>2 DEF DepthOf, Reacquire
<1>4. A!AcquireAgain(t)
  BY <1>1, <1>3 DEF A!AcquireAgain, Reacquire, Phases
<1>5. QED
  BY <1>4 DEF A!Next

\* EBUSY.
LEMMA BusyMaps ==
    ASSUME StepInv, NEW t \in Threads, mpc[t] \in {"try_load", "try_take"},
           state # Unlocked, ~(state.owner = t /\ declared = RecursiveNp),
           Refuse(t, "EBUSY"), UNCHANGED declared
    PROVE  A!Next
<1>1. A!Return(t, "EBUSY") /\ Phases[t] = "trylock" /\ state.owner # NoThread
  BY ReturnMove, Mapped DEF StepInv, Refuse, PhaseAt
<1>2. UNCHANGED DepthOf
  BY DepthSame DEF StepInv, Refuse, Finish, Between
<1>3. A!RefuseBusy(t)
  BY <1>1, <1>2 DEF A!RefuseBusy, Refuse, Phases
<1>4. QED
  BY <1>3 DEF A!Next

\* lock.
LEMMA LockMaps ==
    ASSUME StepInv, NEW t \in Threads,
           \/ LockAcquire(t) \/ LockTaken(t) \/ LockRelock(t)
           \/ LockSetWaiters(t) \/ LockWait(t) \/ LockWoken(t)
           \/ LockInterrupted(t)
    PROVE  A!Next \/ UNCHANGED A!lockVars
<1>1. CASE LockAcquire(t)
  <2>1. CASE state = Unlocked
    BY <1>1, <2>1, ExchangeMaps DEF LockAcquire, Unread, Fixed
  <2>2. CASE state # Unlocked
    BY <1>1, <2>2 DEF LockAcquire, Unread, Fixed, A!lockVars, DepthOf, Phases
  <2>3. QED
    BY <2>1, <2>2
<1>2. CASE LockTaken(t)
  <2>1. mpc[t] = "taken" /\ recursion = 0 /\ state.owner = t
    BY <1>2 DEF LockTaken, StepInv, MutexInv, OwnerInv
  <2>2. Finish(t, "OK") /\ recursion' = 1 /\ UNCHANGED <<state, declared>>
    BY <1>2, <2>1 DEF LockTaken, Ensure, Unread, Fixed
  <2>3. mpc'[t] = "idle" /\ t # NoThread
    BY <2>2, FreeWord DEF StepInv, TypeOK, Finish, Goto
  <2>4. DepthOf = 1 /\ DepthOf' = 1
    BY <2>1, <2>2, <2>3 DEF DepthOf
  <2>5. QED
    BY <2>1, <2>2, <2>4, FinishMaps DEF PhaseAt
<1>3. CASE LockRelock(t)
  <2>1. mpc[t] = "lock" /\ state.owner = t
    BY <1>3 DEF LockRelock, StepInv, MutexInv, OwnerInv, CallInv
  <2>2. TypeSeen(caller[t]) = declared /\ UNCHANGED declared
    BY <1>3, Mapped DEF LockRelock, Unread, Fixed
  <2>3. CASE declared = RecursiveNp
    <3>1. Reacquire(t)
      BY <1>3, <2>2, <2>3 DEF LockRelock, RecursiveNp, ErrorCheckNp
    <3>2. QED
      BY <2>1, <2>2, <2>3, <3>1, ReacquireMaps
  <2>4. CASE declared = ErrorCheckNp
    <3>1. Refuse(t, "EDEADLK")
      BY <1>3, <2>2, <2>4 DEF LockRelock, RecursiveNp, ErrorCheckNp
    <3>2. A!Return(t, "EDEADLK") /\ Phases[t] = "lock"
      BY <2>1, <3>1, ReturnMove, Mapped DEF StepInv, Refuse, PhaseAt
    <3>3. UNCHANGED DepthOf
      BY <2>1, <3>1, DepthSame DEF StepInv, Refuse, Finish, Between
    <3>4. A!RefuseRelock(t)
      BY <2>1, <2>2, <2>4, <3>1, <3>2, <3>3 DEF A!RefuseRelock, Refuse, Phases
    <3>5. QED
      BY <3>4 DEF A!Next
  <2>5. CASE declared \notin {RecursiveNp, ErrorCheckNp}
    <3>1. Abort("deadlock") /\ Unread
      BY <1>3, <2>2, <2>5 DEF LockRelock
    <3>2. QED
      BY <3>1 DEF Abort, Unread, Fixed, A!lockVars, DepthOf, Phases
  <2>6. QED
    BY <2>3, <2>4, <2>5
<1>4. CASE LockSetWaiters(t)
  <2>1. UNCHANGED <<state.owner, declared, recursion, mpc, ret>>
    BY <1>4 DEF LockSetWaiters, Unread, Fixed, StepInv, TypeOK, Word
  <2>2. QED
    BY <2>1 DEF A!lockVars, DepthOf, Phases
<1>5. CASE LockWait(t)
  <2>1. UNCHANGED <<state, declared, recursion, ret>> /\ mpc[t] = "lock"
    BY <1>5 DEF LockWait, Unread, Fixed
  <2>2. CASE UNCHANGED mpc
    BY <2>1, <2>2 DEF A!lockVars, DepthOf, Phases
  <2>3. CASE Goto(t, "asleep")
    BY <2>1, <2>3, Still DEF StepInv, PhaseAt, Between
  <2>4. QED
    BY <1>5, <2>2, <2>3 DEF LockWait
<1>6. CASE LockWoken(t) \/ LockInterrupted(t)
  <2>1. UNCHANGED <<state, declared, recursion, ret>> /\ mpc[t] = "asleep" /\ Goto(t, "lock")
    BY <1>6 DEF LockWoken, LockInterrupted, Unread, Fixed
  <2>2. QED
    BY <2>1, Still DEF StepInv, PhaseAt, Between
<1>7. QED
  BY <1>1, <1>2, <1>3, <1>4, <1>5, <1>6

\* trylock.
LEMMA TrylockMaps ==
    ASSUME StepInv, NEW t \in Threads, TryLoad(t) \/ TryTake(t)
    PROVE  A!Next \/ UNCHANGED A!lockVars
<1>1. UNCHANGED declared /\ TypeSeen(caller[t]) = declared
  BY Mapped DEF TryLoad, TryTake, Unread, Fixed
<1>2. CASE TryLoad(t)
  <2>1. mpc[t] = "try_load"
    BY <1>2 DEF TryLoad
  <2>2. CASE Goto(t, "try_take") /\ UNCHANGED <<state, recursion, ret>>
    BY <1>1, <2>1, <2>2, Still DEF StepInv, PhaseAt, Between
  <2>3. CASE state.owner = t /\ declared = RecursiveNp /\ Reacquire(t)
    BY <1>1, <2>1, <2>3, ReacquireMaps
  <2>4. CASE /\ state # Unlocked /\ (state.owner # t \/ declared # RecursiveNp)
             /\ Refuse(t, "EBUSY")
    BY <1>1, <2>1, <2>4, BusyMaps
  <2>5. QED
    BY <1>1, <1>2, <2>2, <2>3, <2>4 DEF TryLoad
<1>3. CASE TryTake(t)
  <2>1. mpc[t] = "try_take" /\ state.owner # t
    BY <1>3 DEF TryTake, StepInv, TypeOK, TrylockInv, MutexInv, OwnerInv
  <2>2. CASE state = Unlocked
    BY <1>1, <1>3, <2>1, <2>2, ExchangeMaps DEF TryTake
  <2>3. CASE state # Unlocked
    BY <1>1, <1>3, <2>1, <2>3, BusyMaps DEF TryTake
  <2>4. QED
    BY <2>2, <2>3
<1>4. QED
  BY <1>2, <1>3

\* unlock.
LEMMA UnlockMaps ==
    ASSUME StepInv, NEW t \in Threads,
           \/ UnlockAssert(t) \/ UnlockLoad(t) \/ UnlockDecrement(t)
           \/ UnlockExchange(t) \/ UnlockCheck(t) \/ UnlockWake(t)
    PROVE  A!Next \/ UNCHANGED A!lockVars
<1>1. CASE UnlockAssert(t)
  <2>1. mpc[t] = "unlock" /\ recursion # 0
    BY <1>1 DEF UnlockAssert, StepInv, TypeOK, MutexInv, OwnerInv, CallInv
  <2>2. Goto(t, "load") /\ UNCHANGED <<state, declared, recursion, ret>>
    BY <1>1, <2>1 DEF UnlockAssert, Ensure, Unread, Fixed
  <2>3. QED
    BY <2>1, <2>2, Still DEF StepInv, PhaseAt, Between
<1>6. CASE UnlockLoad(t)
  <2>1. /\ mpc[t] = "load" /\ Goto(t, "decrement")
        /\ UNCHANGED <<state, declared, recursion, ret>>
    BY <1>6 DEF UnlockLoad, Fixed
  <2>2. QED
    BY <2>1, Still DEF StepInv, PhaseAt, Between
<1>2. CASE UnlockDecrement(t)
  <2>1. /\ mpc[t] = "decrement" /\ state.owner = t /\ count[t] = recursion
        /\ recursion \in Nat \ {0}
    BY <1>2 DEF UnlockDecrement, StepInv, TypeOK, MutexInv, OwnerInv, CallInv
  <2>7. Down(count[t]) = count[t] - 1
    BY <1>2, NoWrapDown DEF UnlockDecrement, StepInv, MutexInv
  <2>2. recursion' = recursion - 1 /\ UNCHANGED <<state, declared>>
    BY <1>2, <2>1, <2>7 DEF UnlockDecrement, Fixed
  <2>3. DepthOf = recursion /\ t # NoThread /\ Phases[t] = "unlock"
    BY <2>1, Mapped, FreeWord DEF Between, PhaseAt
  <2>4. CASE count[t] # 1
    <3>1. Finish(t, "OK")
      BY <1>2, <2>1, <2>4, <2>7 DEF UnlockDecrement
    <3>2. mpc'[t] = "idle" /\ A!Return(t, "OK")
      BY <3>1, ReturnMove DEF StepInv, TypeOK, Finish, Goto
    <3>3. DepthOf' = DepthOf - 1
      BY <2>1, <2>2, <2>3, <3>2 DEF DepthOf
    <3>4. DepthOf > 1
      BY <2>1, <2>3, <2>4
    <3>5. A!ReleaseLevel(t)
      BY <2>1, <2>2, <2>3, <3>2, <3>3, <3>4 DEF A!ReleaseLevel, Phases
    <3>6. QED
      BY <3>5 DEF A!Next
  <2>5. CASE count[t] = 1
    <3>1. Goto(t, "exchange") /\ UNCHANGED ret
      BY <1>2, <2>1, <2>5, <2>7 DEF UnlockDecrement
    <3>2. mpc'[t] = "exchange" /\ UNCHANGED Phases
      BY <2>1, <3>1, PhaseMove, ZenonT(30) DEF StepInv, TypeOK, Goto, PhaseAt
    <3>3. DepthOf = 1 /\ DepthOf' = 1
      BY <2>1, <2>2, <2>3, <2>5, <3>2 DEF DepthOf
    <3>4. QED
      BY <2>2, <3>1, <3>2, <3>3 DEF A!lockVars, Phases
  <2>6. QED
    BY <2>4, <2>5
<1>3. CASE UnlockExchange(t)
  <2>1. mpc[t] = "exchange" /\ state.owner = t /\ DepthOf = 1 /\ Phases[t] = "unlock"
    BY <1>3, Mapped DEF UnlockExchange, StepInv, MutexInv, OwnerInv, Between, PhaseAt
  <2>2. A!Become(t, "done") /\ state'.owner = NoThread /\ UNCHANGED <<declared, ret>>
    BY <1>3, PhaseMove DEF UnlockExchange, StepInv, PhaseAt, Unlocked, Unread, Fixed
  <2>3. DepthOf' = 0
    BY <2>2 DEF DepthOf
  <2>4. A!Release(t)
    BY <2>1, <2>2, <2>3 DEF A!Release, Phases
  <2>5. QED
    BY <2>4 DEF A!Next
<1>4. CASE UnlockCheck(t)
  <2>1. mpc[t] = "check" /\ seen[t].owner = t
    BY <1>4 DEF UnlockCheck, StepInv, MutexInv, CallInv
  <2>2. /\ Finish(t, "OK") \/ (Goto(t, "wake") /\ UNCHANGED ret)
        /\ UNCHANGED <<state, declared, recursion>>
    BY <1>4, <2>1 DEF UnlockCheck, Ensure, Unread, Fixed
  <2>3. CASE Finish(t, "OK")
    <3>1. UNCHANGED DepthOf
      BY <2>1, <2>2, <2>3, DepthSame DEF StepInv, Finish, Between
    <3>2. QED
      BY <2>1, <2>2, <2>3, <3>1, FinishMaps DEF PhaseAt
  <2>4. CASE Goto(t, "wake") /\ UNCHANGED ret
    BY <2>1, <2>2, <2>4, Still DEF StepInv, PhaseAt, Between
  <2>5. QED
    BY <2>2, <2>3, <2>4
<1>5. CASE UnlockWake(t)
  <2>1. mpc[t] = "wake" /\ Finish(t, "OK") /\ UNCHANGED <<state, declared, recursion>>
    BY <1>5 DEF UnlockWake, Unread, Fixed
  <2>2. UNCHANGED DepthOf
    BY <2>1, DepthSame DEF StepInv, Finish, Between
  <2>3. QED
    BY <2>1, <2>2, FinishMaps DEF PhaseAt
<1>7. QED
  BY <1>1, <1>2, <1>3, <1>4, <1>5, <1>6

\* The end of the process is a stutter.
LEMMA NotImplementedMaps ==
    ASSUME NEW t \in Threads, NotImplemented(t)
    PROVE  UNCHANGED A!lockVars
BY DEF NotImplemented, Abort, Unread, Fixed, A!lockVars, DepthOf, Phases

\* What a step starts from holds at its end, ...
LEMMA StepInductive ==
    ASSUME Disciplined, StepInv, [Next]_mutexVars
    PROVE  StepInv'
<1>2. TypeOK'
  BY TypeInductive DEF StepInv
<1>3. MutexInv'
  BY <1>2, MutexInductive DEF StepInv
<1>4. TypeSeenInv' /\ TrylockInv'
  <2>1. CASE UNCHANGED mutexVars
    BY <2>1 DEF mutexVars, StepInv, TypeSeenInv, TypeSeen, TrylockInv
  <2>2. CASE Next
    BY <2>2, TypeSeenStep, TrylockStepInv DEF StepInv
  <2>3. QED
    BY <2>1, <2>2
<1>5. QED
  BY <1>2, <1>3, <1>4 DEF StepInv

\* ... and such a step is one of the abstract lock.
LEMMA StepMaps ==
    ASSUME Disciplined, StepInv, [Next]_mutexVars
    PROVE  [A!Next]_A!lockVars
<1>1. CASE UNCHANGED mutexVars
  BY <1>1 DEF mutexVars, A!lockVars, DepthOf, Phases
<1>2. CASE Next
  BY <1>2, CallMaps, LockMaps, TrylockMaps, UnlockMaps, NotImplementedMaps
     DEF Next, LibraryStep
<1>3. QED
  BY <1>1, <1>2

LEMMA StepInit ==
    ASSUME TypeReachesCallers, Init
    PROVE  StepInv
<1>1. TrylockInv
  BY DEF Init, TrylockInv
<1>2. QED
  BY <1>1, TypeInit, MutexInit, TypeSeenInit DEF StepInv

-----------------------------------------------------------------------------
(* The theorem                                                             *)

\* Every behaviour of lock, trylock and unlock on the futex word is one of a
\* lock whose operations are atomic and answer by the declared type, for any
\* number of threads, as long as callers unlock what they hold and see the
\* type that was declared.
THEOREM MutexImplementsLock ==
    ASSUME Disciplined, TypeReachesCallers
    PROVE  Spec => ImplementsLock
<1>1. Init => A!Init
  <2> SUFFICES ASSUME Init PROVE A!Init
    OBVIOUS
  <2>1. declared \in TimedNp .. AdaptiveNp
    BY MutexAssumption DEF Init
  <2>2. state.owner = NoThread /\ DepthOf = 0
    BY DEF Init, Unlocked, DepthOf
  <2>3. Phases = [t \in Threads |-> "idle"]
    BY DEF Init, Phases, PhaseAt
  <2>4. QED
    BY <2>1, <2>2, <2>3 DEF Init, A!Init, Phases
<1>2. Spec => []StepInv
  BY StepInit, StepInductive, PTL DEF Spec
<1>3. StepInv /\ [Next]_mutexVars => [A!Next]_A!lockVars
  BY StepMaps
<1>4. QED
  BY <1>1, <1>2, <1>3, PTL DEF Spec, ImplementsLock, A!Spec

=============================================================================
