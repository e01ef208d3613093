--------------------------- MODULE PthreadCondProofs ---------------------------
(***************************************************************************)
(* Proofs about PthreadCond, for any set of threads, any number of         *)
(* broadcasts and any size of __mlibc_seq.  One inductive invariant says   *)
(* which thread has the mutex at each place of a wait, and what the        *)
(* sequence number tells of the broadcasts, wrapped round or not.          *)
(***************************************************************************)
EXTENDS PthreadCond, TLAPS

-----------------------------------------------------------------------------
(* The inductive invariant                                                 *)

LockTypes ==
    /\ type = 0 /\ depth \in {0, 1}
    /\ owner \in Threads \cup {NoThread}
    /\ owner = NoThread <=> depth = 0
    /\ phase \in [Threads -> {"idle", "lock", "unlock", "done"}]
    /\ answer \in [Threads -> {"OK"}]

\* The part of the mutex's owner in a wait.
Part(t) ==
    /\ phase[t] = "unlock" => owner = t
    /\ flow[t] = "waking" => phase[t] = "idle"
    /\ flow[t] \in {"waiting", "asleep"} => phase[t] = "idle" /\ owner # t
    /\ flow[t] = "unlocking" => phase[t] \in {"unlock", "done", "idle"}
    /\ flow[t] = "unlocking" /\ phase[t] \in {"done", "idle"} => owner # t
    /\ flow[t] = "relocking" => phase[t] \in {"lock", "done", "idle"}
    /\ flow[t] = "relocking" /\ phase[t] \in {"done", "idle"} => owner = t

\* What the end of a sleep says is true.
Truthful(t, e) ==
    /\ e \in {"OK", "-1", "late", "EAGAIN", "EINTR", "ETIMEDOUT"}
    /\ e \in {"late", "ETIMEDOUT"} => deadline[t] = "passed"
    /\ e = "EAGAIN" => posted > since[t]

\* The sequence number counts broadcasts, and until as many as it has values
\* went by it can have wrapped round only once.
Counts(t) ==
    flow[t] \in InWait /\ posted - since[t] < SeqMod =>
        seq = mark[t] + (posted - since[t]) - (IF Wrapped(t) THEN SeqMod ELSE 0)

SeqInv == \A t \in Threads : Counts(t)

CondInv ==
    /\ CondTypeOK /\ LockTypes /\ SeqInv
    /\ \A t \in Threads :
          Part(t) /\ (flow[t] = "relocking" => Truthful(t, outcome[t]))
    /\ NoLostSignal /\ CondAbortsAreReports

\* Only a broadcast changes the sequence number, and as long as it has not
\* wrapped round, comparing it is comparing broadcasts.
LEMMA SeqTells ==
    ASSUME CondInv, NEW t \in Threads, flow[t] \in InWait
    PROVE  /\ seq # mark[t] => Notified(t)
           /\ seq = mark[t] => ~(Notified(t) /\ posted - since[t] < SeqMod)
           /\ Newer(t) => Notified(t)
           /\ Notified(t) /\ ~Wrapped(t) => Newer(t)
<1>1. /\ seq \in Int /\ posted \in Int /\ since[t] \in Int /\ since[t] <= posted
      /\ mark[t] \in Int /\ 0 <= mark[t] /\ mark[t] < SeqMod /\ SeqMod \in Int
  BY CondAssumption DEF CondInv, CondTypeOK
<1>2. posted - since[t] < SeqMod =>
        seq = mark[t] + (posted - since[t]) - (IF Wrapped(t) THEN SeqMod ELSE 0)
  BY DEF CondInv, SeqInv, Counts
<1>3. QED
  BY <1>1, <1>2 DEF Newer, Notified, Wrapped

\* The increment, and what it does to Counts.
LEMMA Increment ==
    ASSUME CondInv
    PROVE  /\ (seq + 1) % SeqMod \in 0 .. SeqMod - 1
           /\ (seq + 1) % SeqMod = IF seq + 1 = SeqMod THEN 0 ELSE seq + 1
BY CondAssumption DEF CondInv, CondTypeOK

-----------------------------------------------------------------------------
(* The steps of a wait                                                     *)

\* A failed __ensure leaves everything as it is.
LEMMA AbortStep ==
    ASSUME CondInv, NEW why, CondAbort(why), CondAbortsAreReports'
    PROVE  CondInv'
BY DEF CondAbort, lockVars, condVars, CondInv, CondTypeOK, LockTypes, SeqInv,
   Counts, Wrapped, Part, Truthful, NoLostSignal, Notified

\* The wait of t begins: from here on broadcasts count.
LEMMA WaitStep ==
    ASSUME CondInv, aborted = "none", NEW t \in Threads,
           NEW abstime \in {"none", "ahead"}, CondWait(t, abstime)
    PROVE  CondInv'
<1> USE DEF CondInv, CondTypeOK, CondWait, Become, Untell, L!Invoke, L!Become
<1>1. CondTypeOK'
  BY DEF InWait
<1>2. LockTypes'
  BY DEF LockTypes
<1>3. SeqInv'
  <2>1. SUFFICES ASSUME NEW u \in Threads
                 PROVE  Counts(u)'
    BY DEF SeqInv
  <2>2. CASE u = t
    <3>1. /\ mark'[t] = seq /\ since'[t] = posted /\ seq' = seq /\ posted' = posted
          /\ seq \in Int /\ posted \in Int /\ seq < SeqMod /\ SeqMod \in Int
      BY CondAssumption
    <3>2. QED
      BY <2>2, <3>1 DEF Counts, Wrapped
  <2>3. CASE u # t
    BY <2>3 DEF SeqInv, Counts, Wrapped
  <2>4. QED
    BY <2>2, <2>3
<1>4. ASSUME NEW u \in Threads
      PROVE  Part(u)' /\ (flow'[u] = "relocking" => Truthful(u, outcome[u])')
  BY DEF LockTypes, Part, Truthful
<1>5. NoLostSignal' /\ CondAbortsAreReports'
  BY DEF NoLostSignal, Notified, CondAbortsAreReports, InWait
<1>6. QED
  BY <1>1, <1>2, <1>3, <1>4, <1>5

\* However a sleep ends or is avoided, the mutex is asked for next.
LEMMA RelockStep ==
    ASSUME CondInv, aborted = "none", NEW t \in Threads, NEW e,
           flow[t] \in {"unlocking", "waiting", "asleep"}, phase[t] = "idle",
           Truthful(t, e), Relock(t, e), waiters' \subseteq waiters \ {t},
           waiters' = {} \/ waiters' = waiters \ {t}
    PROVE  CondInv'
<1> USE DEF CondInv, CondTypeOK, Relock, Become, L!Invoke, L!Become
<1>1. CondTypeOK'
  BY DEF InWait, Truthful, WaitErrors
<1>2. LockTypes'
  BY DEF LockTypes
<1>3. SeqInv'
  BY DEF SeqInv, Counts, Wrapped, InWait
<1>4. ASSUME NEW u \in Threads
      PROVE  Part(u)' /\ (flow'[u] = "relocking" => Truthful(u, outcome[u])')
  BY DEF LockTypes, Part, Truthful
<1>5. NoLostSignal' /\ CondAbortsAreReports'
  BY DEF NoLostSignal, Notified, CondAbortsAreReports, InWait
<1>6. QED
  BY <1>1, <1>2, <1>3, <1>4, <1>5

\* The release has succeeded; the sleep comes next, unless it is too late.
LEMMA UnlockedStep ==
    ASSUME CondInv, aborted = "none", NEW t \in Threads, CondUnlocked(t)
    PROVE  CondInv'
<1>1. answer[t] = "OK" /\ flow[t] = "unlocking" /\ phase[t] = "idle"
  BY DEF CondUnlocked, CondInv, LockTypes
<1>2. CASE deadline[t] = "passed" /\ Relock(t, "late")
  <2>1. UNCHANGED waiters /\ t \notin waiters
    BY <1>1, <1>2 DEF CondUnlocked, CondInv, CondTypeOK, Relock, Become,
       CondAbort, lockVars, condVars
  <2>2. Truthful(t, "late")
    BY <1>2 DEF Truthful
  <2>3. QED
    BY <1>1, <1>2, <2>1, <2>2, RelockStep
<1>3. CASE /\ flow' = [flow EXCEPT ![t] = "waiting"]
           /\ UNCHANGED <<lockVars, aborted, seq, mark, outcome, deadline, told,
                          waiters, posted, since>>
  <2> USE <1>1, <1>3 DEF CondInv, CondTypeOK, lockVars
  <2>2. CondTypeOK' /\ LockTypes' /\ SeqInv'
    BY DEF InWait, LockTypes, SeqInv, Counts, Wrapped
  <2>3. ASSUME NEW u \in Threads
        PROVE  Part(u)' /\ (flow'[u] = "relocking" => Truthful(u, outcome[u])')
    BY DEF LockTypes, Part, Truthful
  <2>4. NoLostSignal' /\ CondAbortsAreReports'
    BY DEF NoLostSignal, Notified, CondAbortsAreReports, InWait
  <2>5. QED
    BY <2>2, <2>3, <2>4
<1>4. CASE CondAbort("clock_failed")
  BY <1>4, AbortStep DEF CondAbort, CondAbortsAreReports
<1>5. QED
  BY <1>1, <1>2, <1>3, <1>4 DEF CondUnlocked, Become

\* The comparison and the sleep are one step: who falls asleep has missed
\* no broadcast, and EAGAIN means one.
LEMMA FutexWaitStep ==
    ASSUME CondInv, aborted = "none", NEW t \in Threads, CondFutexWait(t)
    PROVE  CondInv'
<1>1. flow[t] = "waiting" /\ phase[t] = "idle" /\ t \notin waiters
  BY DEF CondFutexWait, CondInv, CondTypeOK, Part
<1>2. flow[t] \in InWait
  BY <1>1 DEF InWait
<1>3. CASE seq # mark[t]
  <2>1. posted > since[t]
    BY <1>2, <1>3, SeqTells DEF Notified
  <2>2. PICK e \in Reports["EAGAIN"] : Relock(t, e) /\ UNCHANGED waiters
    BY <1>3 DEF CondFutexWait
  <2>3. e \in {"EAGAIN", "OK", "-1"}
    BY CondAssumption DEF WaitErrors
  <2>4. Truthful(t, e)
    BY <2>1, <2>3 DEF Truthful
  <2>5. QED
    BY <1>1, <2>2, <2>4, RelockStep
<1>4. CASE seq = mark[t]
  <2>1. ~(Notified(t) /\ posted - since[t] < SeqMod)
    BY <1>2, <1>4, SeqTells
  <2>2. /\ flow' = [flow EXCEPT ![t] = "asleep"] /\ waiters' = waiters \cup {t}
        /\ UNCHANGED <<lockVars, aborted, seq, mark, outcome, deadline, told,
                       posted, since>>
    BY <1>4 DEF CondFutexWait, Become, W!FutexSleep
  <2> USE <1>1, <2>2 DEF CondInv, CondTypeOK, lockVars
  <2>3. CondTypeOK' /\ LockTypes' /\ SeqInv'
    BY DEF InWait, LockTypes, SeqInv, Counts, Wrapped
  <2>4. ASSUME NEW u \in Threads
        PROVE  Part(u)' /\ (flow'[u] = "relocking" => Truthful(u, outcome[u])')
    BY DEF LockTypes, Part, Truthful
  <2>5. NoLostSignal' /\ CondAbortsAreReports'
    BY <2>1 DEF NoLostSignal, Notified, CondAbortsAreReports, InWait
  <2>6. QED
    BY <2>3, <2>4, <2>5
<1>5. QED
  BY <1>3, <1>4

\* The sleep is over.
LEMMA WakeStep ==
    ASSUME CondInv, aborted = "none", NEW t \in Threads,
           CondWoken(t) \/ CondInterrupted(t) \/ CondTimedOut(t)
    PROVE  CondInv'
<1>1. flow[t] = "asleep" /\ phase[t] = "idle"
  BY DEF CondWoken, CondInterrupted, CondTimedOut, CondInv, Part
<1>2. PICK e : Relock(t, e) /\ Truthful(t, e)
  <2>1. CASE CondWoken(t)
    BY <2>1 DEF CondWoken, Truthful
  <2>2. CASE CondInterrupted(t)
    <3>1. PICK e \in Reports["EINTR"] : Relock(t, e)
      BY <2>2 DEF CondInterrupted
    <3>2. e \in {"EINTR", "OK", "-1"}
      BY CondAssumption DEF WaitErrors
    <3>3. QED
      BY <3>1, <3>2 DEF Truthful
  <2>3. CASE CondTimedOut(t)
    <3>1. PICK e \in Reports["ETIMEDOUT"] : Relock(t, e)
      BY <2>3 DEF CondTimedOut
    <3>2. e \in {"ETIMEDOUT", "OK", "-1"} /\ deadline[t] = "passed"
      BY <2>3, CondAssumption DEF WaitErrors, CondTimedOut
    <3>3. QED
      BY <3>1, <3>2 DEF Truthful
  <2>4. QED
    BY <2>1, <2>2, <2>3
<1>3. waiters' = waiters \ {t}
  BY DEF CondWoken, CondInterrupted, CondTimedOut, W!FutexLeave
<1>4. QED
  BY <1>1, <1>2, <1>3, RelockStep

\* The four cases: because the outcome is true, an assertion fails only on an
\* answer that is none of them, or once the sequence number has wrapped round.
LEMMA RelockedCases ==
    ASSUME CondInv, NEW t \in Threads, CondRelocked(t)
    PROVE  /\ flow[t] = "relocking" /\ phase[t] = "idle" /\ owner = t /\ depth = 1
           /\ \/ Return(t, "OK") /\ Notified(t)
              \/ Return(t, "ETIMEDOUT") /\ deadline[t] = "passed"
              \/ Again(t) /\ ~(Genuine(t) /\ ~Wrapped(t))
              \/ outcome[t] = "-1" /\ CondAbort("cond_wait")
              \/ outcome[t] = "EAGAIN" /\ Wrapped(t) /\ CondAbort("cond_seq")
<1>1. flow[t] = "relocking" /\ phase[t] = "idle" /\ answer[t] = "OK"
  BY DEF CondRelocked, CondInv, LockTypes
<1>2. owner = t /\ Truthful(t, outcome[t])
  BY <1>1 DEF CondInv, Part
<1>3. depth = 1
  BY <1>2, CondAssumption DEF CondInv, LockTypes
<1>4. flow[t] \in InWait
  BY <1>1 DEF InWait
<1>5. Newer(t) => Notified(t)
  BY <1>4, SeqTells
<1>6. Notified(t) /\ ~Wrapped(t) => Newer(t)
  BY <1>4, SeqTells
<1>7. outcome[t] = "EAGAIN" => Notified(t)
  BY <1>2, <1>4 DEF Truthful, Notified
<1>8. QED
  BY <1>1, <1>2, <1>3, <1>5, <1>6, <1>7 DEF CondRelocked, Truthful, Genuine

LEMMA RelockedStep ==
    ASSUME CondInv, aborted = "none", NEW t \in Threads, CondRelocked(t)
    PROVE  CondInv'
<1>1. flow[t] = "relocking" /\ phase[t] = "idle" /\ owner = t /\ t \notin waiters
  BY RelockedCases DEF CondInv, CondTypeOK
<1>2. CASE Return(t, "OK") \/ Return(t, "ETIMEDOUT")
  <2> USE <1>1, <1>2 DEF CondInv, CondTypeOK, Return, Become, lockVars
  <2>1. CondTypeOK'
    <3>1. told' \in [Threads -> {"OK", "ETIMEDOUT", "EINVAL"}]
      OBVIOUS
    <3>2. mark' \in [Threads -> 0 .. SeqMod - 1] /\ since' \in [Threads -> 0 .. posted']
      BY CondAssumption
    <3>3. flow' \in [Threads -> InWait \cup {"out", "waking"}]
      OBVIOUS
    <3>4. QED
      BY <3>1, <3>2, <3>3
  <2>2. LockTypes' /\ SeqInv'
    BY DEF LockTypes, SeqInv, Counts, Wrapped, InWait
  <2>3. ASSUME NEW u \in Threads
        PROVE  Part(u)' /\ (flow'[u] = "relocking" => Truthful(u, outcome[u])')
    BY DEF LockTypes, Part, Truthful
  <2>4. NoLostSignal' /\ CondAbortsAreReports'
    BY DEF NoLostSignal, Notified, CondAbortsAreReports, InWait
  <2>5. QED
    BY <2>1, <2>2, <2>3, <2>4
<1>3. CASE Again(t)
  <2> USE <1>1, <1>3 DEF CondInv, CondTypeOK, Again, Become, L!Invoke, L!Become
  <2>1. CondTypeOK' /\ LockTypes' /\ SeqInv'
    BY DEF InWait, LockTypes, SeqInv, Counts, Wrapped
  <2>2. ASSUME NEW u \in Threads
        PROVE  Part(u)' /\ (flow'[u] = "relocking" => Truthful(u, outcome[u])')
    BY DEF LockTypes, Part, Truthful
  <2>3. NoLostSignal' /\ CondAbortsAreReports'
    BY DEF NoLostSignal, Notified, CondAbortsAreReports, InWait
  <2>4. QED
    BY <2>1, <2>2, <2>3
<1>4. CASE outcome[t] = "-1" /\ CondAbort("cond_wait")
  <2>1. CondAbortsAreReports'
    BY <1>1, <1>4 DEF CondAbort, condVars, CondAbortsAreReports
  <2>2. QED
    BY <1>4, <2>1, AbortStep
<1>5. CASE outcome[t] = "EAGAIN" /\ Wrapped(t) /\ CondAbort("cond_seq")
  <2>1. CondAbortsAreReports'
    BY <1>1, <1>5 DEF CondAbort, condVars, CondAbortsAreReports, Wrapped
  <2>2. QED
    BY <1>5, <2>1, AbortStep
<1>6. QED
  BY <1>2, <1>3, <1>4, <1>5, RelockedCases

-----------------------------------------------------------------------------
(* The other steps                                                         *)

\* A broadcaster that has incremented has still to wake.
LEMMA BroadcastStep ==
    ASSUME CondInv, aborted = "none", NEW t \in Threads, CondBroadcast(t)
    PROVE  CondInv'
<1>1. /\ seq' = (IF seq + 1 = SeqMod THEN 0 ELSE seq + 1)
      /\ seq' \in 0 .. SeqMod - 1 /\ posted' = posted + 1
  BY Increment DEF CondBroadcast
<1>2. posted \in Nat /\ posted < MaxBroadcasts
  BY CondAssumption DEF CondBroadcast, CondInv, CondTypeOK
<1> USE <1>1, <1>2 DEF CondInv, CondTypeOK, CondBroadcast, Become, Untell, lockVars
<1>3. CondTypeOK'
  <2>1. posted' \in 0 .. MaxBroadcasts /\ since' \in [Threads -> 0 .. posted']
    BY CondAssumption
  <2>2. QED
    BY <2>1 DEF InWait
<1>4. LockTypes'
  BY DEF LockTypes
<1>5. SeqInv'
  <2>1. SUFFICES ASSUME NEW u \in Threads
                 PROVE  Counts(u)'
    BY DEF SeqInv
  <2>2. Counts(u) /\ (flow'[u] \in InWait => flow[u] \in InWait)
    BY DEF SeqInv, InWait
  <2>3. /\ seq \in Int /\ since[u] \in Int /\ since[u] <= posted /\ posted \in Int
        /\ mark[u] \in Int /\ 0 <= mark[u] /\ mark[u] < SeqMod /\ SeqMod \in Int
        /\ 0 <= seq /\ seq < SeqMod /\ mark'[u] = mark[u] /\ since'[u] = since[u]
    BY CondAssumption
  <2>4. QED
    BY <2>2, <2>3 DEF Counts, Wrapped
<1>6. ASSUME NEW u \in Threads
      PROVE  Part(u)' /\ (flow'[u] = "relocking" => Truthful(u, outcome[u])')
  BY DEF LockTypes, Part, Truthful
<1>7. NoLostSignal' /\ CondAbortsAreReports'
  BY DEF NoLostSignal, CondAbortsAreReports
<1>8. QED
  BY <1>3, <1>4, <1>5, <1>6, <1>7

\* The wake leaves nobody asleep.
LEMMA CondWakeStep ==
    ASSUME CondInv, aborted = "none", NEW t \in Threads, CondWake(t)
    PROVE  CondInv'
<1>1. CASE CondAbort("wake_failed")
  BY <1>1, AbortStep DEF CondAbort, CondAbortsAreReports
<1>2. CASE ~CondAbort("wake_failed")
  <2> USE <1>2 DEF CondInv, CondTypeOK, CondWake, W!FutexWakeAll, Become, lockVars
  <2>1. CondTypeOK' /\ LockTypes' /\ SeqInv'
    BY DEF InWait, LockTypes, SeqInv, Counts, Wrapped
  <2>2. ASSUME NEW u \in Threads
        PROVE  Part(u)' /\ (flow'[u] = "relocking" => Truthful(u, outcome[u])')
    BY DEF LockTypes, Part, Truthful
  <2>3. NoLostSignal' /\ CondAbortsAreReports'
    BY DEF NoLostSignal, CondAbortsAreReports
  <2>4. QED
    BY <2>1, <2>2, <2>3
<1>3. QED
  BY <1>1, <1>2

\* The mutex changes hands only between its owner and nobody.
LEMMA LockStepInv ==
    ASSUME CondInv, aborted = "none", NEW t \in Threads, LockStep(t)
    PROVE  CondInv'
<1> USE DEF CondInv, CondTypeOK, LockStep, condVars
<1>1. CondTypeOK' /\ SeqInv' /\ NoLostSignal' /\ CondAbortsAreReports'
  BY DEF SeqInv, Counts, Wrapped, NoLostSignal, Notified, CondAbortsAreReports
<1>2. LockTypes'
  BY CondAssumption DEF LockTypes, L!Acquire, L!Release, L!Finished, L!Return, L!Become
<1>3. ASSUME NEW u \in Threads
      PROVE  Part(u)' /\ (flow'[u] = "relocking" => Truthful(u, outcome[u])')
  <2>1. flow'[u] = "relocking" => Truthful(u, outcome[u])'
    BY DEF Truthful
  <2>2. Part(u)'
    BY CondAssumption DEF LockTypes, Part, L!Acquire, L!Release, L!Finished,
       L!Return, L!Become
  <2>3. QED
    BY <2>1, <2>2
<1>4. QED
  BY <1>1, <1>2, <1>3

\* The client's calls and the clock.
LEMMA ClientStepInv ==
    ASSUME CondInv, aborted = "none", NEW t \in Threads,
           CondInvalid(t) \/ ClientLock(t) \/ ClientUnlock(t) \/ TimePasses(t)
    PROVE  CondInv'
<1> USE DEF CondInv, CondTypeOK, CondInvalid, ClientLock, ClientUnlock,
        TimePasses, Untell, lockVars, L!Invoke, L!Become
<1>1. CondTypeOK'
  OBVIOUS
<1>2. LockTypes'
  BY DEF LockTypes
<1>3. SeqInv' /\ NoLostSignal' /\ CondAbortsAreReports'
  BY DEF SeqInv, Counts, Wrapped, NoLostSignal, Notified, CondAbortsAreReports
<1>4. ASSUME NEW u \in Threads
      PROVE  Part(u)' /\ (flow'[u] = "relocking" => Truthful(u, outcome[u])')
  BY DEF LockTypes, Part, Truthful
<1>5. QED
  BY <1>1, <1>2, <1>3, <1>4

LEMMA CondInit == ASSUME Init PROVE CondInv
<1>1. CondTypeOK
  BY CondAssumption DEF Init, CondTypeOK, InWait
<1>2. LockTypes /\ SeqInv
  BY DEF Init, L!Init, LockTypes, SeqInv, Counts, Wrapped, InWait
<1>3. \A t \in Threads : Part(t) /\ flow[t] # "relocking"
  BY DEF Init, L!Init, Part
<1>4. QED
  BY <1>1, <1>2, <1>3 DEF Init, CondInv, NoLostSignal, CondAbortsAreReports

LEMMA CondInductive ==
    ASSUME CondInv, [Next]_vars
    PROVE  CondInv'
<1>1. CASE UNCHANGED vars
  BY <1>1 DEF vars, lockVars, condVars, CondInv, CondTypeOK, LockTypes, SeqInv,
     Counts, Wrapped, Part, Truthful, NoLostSignal, Notified, CondAbortsAreReports
<1>2. CASE Next
  BY <1>2, WaitStep, UnlockedStep, FutexWaitStep, WakeStep, RelockedStep,
     BroadcastStep, CondWakeStep, LockStepInv, ClientStepInv
     DEF Next, CondStep, ClientStep
<1>3. QED
  BY <1>1, <1>2

\* CondInv is an invariant.
LEMMA CondInvariant == Spec => []CondInv
BY CondInit, CondInductive, PTL DEF Spec

\* What the program and the waits do to the mutex, when no assertion fails:
\* nothing, or a call of lock without it, or of unlock with it.
LEMMA MutexUse ==
    ASSUME CondInv, NEW t \in Threads,
           CondStep(t) \/ CondInterrupted(t) \/ ClientStep(t)
    PROVE  \/ UNCHANGED phase
           \/ phase[t] = "idle" /\ owner # t /\ phase' = [phase EXCEPT ![t] = "lock"]
           \/ phase[t] = "idle" /\ owner = t /\ phase' = [phase EXCEPT ![t] = "unlock"]
<1> USE DEF CondInv, CondTypeOK, LockTypes, Part
<1>1. ASSUME NEW e, Relock(t, e), owner # t
      PROVE  phase[t] = "idle" /\ phase' = [phase EXCEPT ![t] = "lock"]
  BY <1>1 DEF Relock, L!Invoke, L!Become
<1>2. CASE CondUnlocked(t)
  <2>1. UNCHANGED phase \/ (Relock(t, "late") /\ owner # t)
    BY <1>2 DEF CondUnlocked, CondAbort, lockVars
  <2>2. QED
    BY <1>1, <2>1
<1>3. CASE CondFutexWait(t) \/ CondWoken(t) \/ CondInterrupted(t) \/ CondTimedOut(t)
  <2>1. owner # t /\ (UNCHANGED phase \/ \E e : Relock(t, e))
    BY <1>3 DEF CondFutexWait, CondWoken, CondInterrupted, CondTimedOut, lockVars
  <2>2. QED
    BY <1>1, <2>1
<1>4. CASE CondRelocked(t)
  <2>1. owner = t /\ (UNCHANGED phase \/ L!Invoke(t, "unlock"))
    BY <1>4 DEF CondRelocked, CondAbort, Return, Again, lockVars
  <2>2. QED
    BY <2>1 DEF L!Invoke, L!Become
<1>5. CASE ClientLock(t) \/ ClientUnlock(t)
  BY <1>5 DEF ClientLock, ClientUnlock, L!Invoke, L!Become
<1>6. CASE \E abstime \in {"none", "ahead"} : CondWait(t, abstime)
  BY <1>6 DEF CondWait, L!Invoke, L!Become
<1>7. CASE CondWake(t) \/ CondInvalid(t) \/ CondBroadcast(t)
  BY <1>7 DEF CondWake, CondAbort, CondInvalid, CondBroadcast, lockVars
<1>8. QED
  BY <1>2, <1>3, <1>4, <1>5, <1>6, <1>7 DEF CondStep, ClientStep

-----------------------------------------------------------------------------
(* The refinement mapping, step by step                                    *)

Statuses == [t \in Threads |-> Status(t)]

\* A step that leaves the waits and their broadcasts alone leaves the statuses.
LEMMA StatusSame ==
    ASSUME CondInv, NEW t \in Threads, NEW f, flow' = [flow EXCEPT ![t] = f],
           f \in InWait <=> flow[t] \in InWait, UNCHANGED <<posted, since>>
    PROVE  UNCHANGED Statuses
<1>1. \A u \in Threads : flow'[u] \in InWait <=> flow[u] \in InWait
  BY DEF CondInv, CondTypeOK
<1>2. QED
  BY <1>1 DEF Statuses, Status, Notified

\* Steps of the code between two accesses to the mutex are stutters.
LEMMA StutterMaps ==
    ASSUME CondInv, NEW t \in Threads, NEW f, flow' = [flow EXCEPT ![t] = f],
           f \in InWait <=> flow[t] \in InWait,
           UNCHANGED <<lockVars, posted, since, deadline, told>>
    PROVE  UNCHANGED A!vars
<1>1. UNCHANGED Statuses
  BY StatusSame
<1>2. QED
  BY <1>1 DEF A!vars, A!lockVars, lockVars, Statuses

\* A wait calls lock or unlock.
LEMMA InvokeMaps ==
    ASSUME CondInv, NEW t \in Threads, NEW op \in {"lock", "unlock"}, NEW f,
           L!Invoke(t, op), flow' = [flow EXCEPT ![t] = f],
           f \in InWait <=> flow[t] \in InWait,
           UNCHANGED <<posted, since, deadline, told>>
    PROVE  A!Next
<1>1. UNCHANGED Statuses
  BY StatusSame
<1>2. A!L!Invoke(t, op)
  BY DEF L!Invoke, A!L!Invoke, L!Become, A!L!Become
<1>3. A!LockStep(t)
  BY <1>1, <1>2 DEF A!LockStep, Statuses
<1>4. QED
  BY <1>3 DEF A!Next

LEMMA RelockMaps ==
    ASSUME CondInv, NEW t \in Threads, NEW e,
           flow[t] \in {"unlocking", "waiting", "asleep"}, Relock(t, e)
    PROVE  A!Next
<1>1. flow[t] \in InWait /\ "relocking" \in InWait
  BY DEF InWait
<1>2. /\ L!Invoke(t, "lock") /\ flow' = [flow EXCEPT ![t] = "relocking"]
      /\ UNCHANGED <<posted, since, deadline, told>>
  BY DEF Relock, Become
<1>3. QED
  BY <1>1, <1>2, InvokeMaps

\* The wait begins.
LEMMA WaitMaps ==
    ASSUME CondInv, NEW t \in Threads, NEW abstime \in {"none", "ahead"}, CondWait(t, abstime)
    PROVE  A!Next
<1>1. \A u \in Threads : Statuses'[u] = IF u = t THEN "waiting" ELSE Statuses[u]
  BY DEF CondInv, CondTypeOK, CondWait, Become, Statuses, Status, Notified, InWait
<1>2. Statuses' = [Statuses EXCEPT ![t] = "waiting"]
  BY <1>1 DEF Statuses
<1>3. Statuses[t] = "out"
  BY DEF CondWait, Statuses, Status, InWait
<1>4. A!L!Invoke(t, "unlock")
  BY DEF CondWait, L!Invoke, A!L!Invoke, L!Become, A!L!Become
<1>5. A!Wait(t, abstime)
  BY <1>2, <1>3, <1>4 DEF CondWait, Untell, A!Wait, A!HasMutex, A!Tell, Statuses
<1>6. QED
  BY <1>5 DEF A!Next

\* The process is ended by an assertion.
LEMMA AbortMaps == ASSUME NEW why, CondAbort(why) PROVE UNCHANGED A!vars
BY DEF CondAbort, lockVars, condVars, A!vars, A!lockVars, Status, Notified

\* The wait ends, or goes round its loop.
LEMMA RelockedMaps ==
    ASSUME CondInv, NEW t \in Threads, CondRelocked(t)
    PROVE  A!Next \/ UNCHANGED A!vars
<1>1. /\ flow[t] = "relocking" /\ phase[t] = "idle" /\ owner = t /\ depth = 1
      /\ \/ Return(t, "OK") /\ Notified(t)
         \/ Return(t, "ETIMEDOUT") /\ deadline[t] = "passed"
         \/ Again(t)
         \/ \E why : CondAbort(why)
  BY RelockedCases
<1>2. CASE Again(t)
  <2>1. flow[t] \in InWait /\ "unlocking" \in InWait
    BY <1>1 DEF InWait
  <2>2. /\ L!Invoke(t, "unlock") /\ flow' = [flow EXCEPT ![t] = "unlocking"]
        /\ UNCHANGED <<posted, since, deadline, told>>
    BY <1>2 DEF Again, Become
  <2>3. QED
    BY <2>1, <2>2, InvokeMaps
<1>3. ASSUME NEW r \in {"OK", "ETIMEDOUT"}, Return(t, r),
             r = "OK" => Notified(t), r = "ETIMEDOUT" => deadline[t] = "passed"
      PROVE  A!Next
  <2>1. \A u \in Threads : Statuses'[u] = IF u = t THEN "out" ELSE Statuses[u]
    BY <1>3 DEF CondInv, CondTypeOK, Return, Become, Statuses, Status, Notified, InWait
  <2>2. Statuses' = [Statuses EXCEPT ![t] = "out"]
    BY <2>1 DEF Statuses
  <2>3. Statuses[t] # "out" /\ (r = "OK" => Statuses[t] = "notified")
    BY <1>1, <1>3 DEF Statuses, Status, InWait
  <2>4. A!Return(t)
    BY <1>1, <1>3, <2>2, <2>3 DEF Return, lockVars, A!Return, A!HasMutex, A!Tell,
       A!lockVars, Statuses
  <2>5. QED
    BY <2>4 DEF A!Next
<1>4. QED
  BY <1>1, <1>2, <1>3, AbortMaps

\* The increment notifies whoever is in a wait.
LEMMA BroadcastMaps ==
    ASSUME CondInv, NEW t \in Threads, CondBroadcast(t)
    PROVE  A!Next
<1>1. ASSUME NEW u \in Threads
      PROVE  Statuses'[u] = IF Statuses[u] = "out" THEN "out" ELSE "notified"
  <2>1. posted' = posted + 1 /\ since'[u] = since[u]
    BY DEF CondBroadcast
  <2>2. posted \in Int /\ since[u] \in Int /\ since[u] <= posted
    BY DEF CondInv, CondTypeOK
  <2>3. posted' > since'[u]
    BY <2>1, <2>2
  <2>4. flow'[u] \in InWait <=> flow[u] \in InWait
    BY DEF CondInv, CondTypeOK, CondBroadcast, Become, InWait
  <2>5. QED
    BY <2>3, <2>4 DEF Statuses, Status, Notified
<1>2. Statuses' = [u \in Threads |-> IF Statuses[u] = "out" THEN "out" ELSE "notified"]
  BY <1>1 DEF Statuses
<1>3. Statuses[t] = "out"
  BY DEF CondBroadcast, Statuses, Status, InWait
<1>4. A!Broadcast(t)
  BY <1>2, <1>3 DEF CondBroadcast, Untell, lockVars, A!Broadcast, A!Tell, A!lockVars, Statuses
<1>5. QED
  BY <1>4 DEF A!Next

\* The steps that only wait, sleep and wake.
LEMMA SleepMaps ==
    ASSUME CondInv, NEW t \in Threads,
           \/ CondUnlocked(t) \/ CondFutexWait(t) \/ CondWoken(t)
           \/ CondInterrupted(t) \/ CondTimedOut(t) \/ CondWake(t)
    PROVE  A!Next \/ UNCHANGED A!vars
<1>1. CASE \E e : Relock(t, e) /\ flow[t] \in {"unlocking", "waiting", "asleep"}
  BY <1>1, RelockMaps
<1>2. CASE CondUnlocked(t)
  <2>1. answer[t] = "OK" /\ flow[t] = "unlocking"
    BY <1>2 DEF CondUnlocked, CondInv, LockTypes
  <2>2. \/ Relock(t, "late")
        \/ /\ flow' = [flow EXCEPT ![t] = "waiting"]
           /\ UNCHANGED <<lockVars, posted, since, deadline, told>>
        \/ \E why : CondAbort(why)
    BY <1>2, <2>1 DEF CondUnlocked, Become
  <2>3. "waiting" \in InWait /\ flow[t] \in InWait
    BY <2>1 DEF InWait
  <2>4. QED
    BY <1>1, <2>1, <2>2, <2>3, StutterMaps, AbortMaps
<1>3. CASE CondFutexWait(t)
  <2>1. flow[t] = "waiting"
    BY <1>3 DEF CondFutexWait
  <2>2. \/ \E e : Relock(t, e)
        \/ /\ flow' = [flow EXCEPT ![t] = "asleep"]
           /\ UNCHANGED <<lockVars, posted, since, deadline, told>>
    BY <1>3 DEF CondFutexWait, Become
  <2>3. "asleep" \in InWait /\ flow[t] \in InWait
    BY <2>1 DEF InWait
  <2>4. QED
    BY <1>1, <2>1, <2>2, <2>3, StutterMaps
<1>4. CASE CondWoken(t) \/ CondInterrupted(t) \/ CondTimedOut(t)
  BY <1>1, <1>4 DEF CondWoken, CondInterrupted, CondTimedOut
<1>5. CASE CondWake(t) /\ ~\E why : CondAbort(why)
  <2>1. /\ flow' = [flow EXCEPT ![t] = "out"]
        /\ UNCHANGED <<lockVars, posted, since, deadline, told>>
    BY <1>5 DEF CondWake, Become
  <2>2. "out" \notin InWait /\ flow[t] \notin InWait
    BY <1>5 DEF CondWake, InWait
  <2>3. QED
    BY <2>1, <2>2, StutterMaps
<1>6. QED
  BY <1>2, <1>3, <1>4, <1>5, AbortMaps

\* The mutex's own steps, the client's calls of it, EINVAL and the clock.
LEMMA OtherMaps ==
    ASSUME CondInv, NEW t \in Threads,
           \/ LockStep(t) \/ ClientLock(t) \/ ClientUnlock(t)
           \/ CondInvalid(t) \/ TimePasses(t)
    PROVE  A!Next
<1>1. UNCHANGED Statuses
  BY DEF LockStep, ClientLock, ClientUnlock, CondInvalid, TimePasses, condVars,
     Statuses, Status, Notified
<1>2. CASE LockStep(t)
  <2>1. A!L!Acquire(t) \/ A!L!Release(t) \/ A!L!Finished(t)
    BY <1>2 DEF LockStep, L!Acquire, L!Release, L!Finished, L!Return, L!Become,
       A!L!Acquire, A!L!Release, A!L!Finished, A!L!Return, A!L!Become
  <2>2. A!LockStep(t)
    BY <1>1, <1>2, <2>1 DEF LockStep, condVars, A!LockStep, Statuses
  <2>3. QED
    BY <2>2 DEF A!Next
<1>3. CASE ClientLock(t) \/ ClientUnlock(t)
  <2>1. \E op \in {"lock", "unlock"} : A!L!Invoke(t, op)
    BY <1>3 DEF ClientLock, ClientUnlock, L!Invoke, L!Become, A!L!Invoke, A!L!Become
  <2>2. A!LockStep(t)
    BY <1>1, <1>3, <2>1 DEF ClientLock, ClientUnlock, Untell, A!LockStep, A!Tell, Statuses
  <2>3. QED
    BY <2>2 DEF A!Next
<1>4. CASE CondInvalid(t)
  <2>1. Statuses[t] = "out"
    BY <1>4 DEF CondInvalid, Statuses, Status, InWait
  <2>2. A!Refuse(t)
    BY <1>1, <1>4, <2>1 DEF CondInvalid, lockVars, A!Refuse, A!HasMutex, A!Tell,
       A!lockVars, Statuses
  <2>3. QED
    BY <2>2 DEF A!Next
<1>5. CASE TimePasses(t)
  <2>1. A!TimePasses(t)
    BY <1>1, <1>5 DEF TimePasses, lockVars, A!TimePasses, A!lockVars, Statuses
  <2>2. QED
    BY <2>1 DEF A!Next
<1>6. QED
  BY <1>2, <1>3, <1>4, <1>5

-----------------------------------------------------------------------------
(* Theorems                                                                *)

\* The condition variable's state keeps its types, and only sleeping threads
\* are in the queue of its futex.
THEOREM CondTypes == Spec => []CondTypeOK
<1>1. CondInv => CondTypeOK
  BY DEF CondInv
<1>2. QED
  BY <1>1, CondInvariant, PTL

\* A sleeper overtaken by a broadcast has a wake coming, for any number of
\* waiters and broadcasters, with the mutex or without.
THEOREM CondNoLostSignal == Spec => []NoLostSignal
<1>1. CondInv => NoLostSignal
  BY DEF CondInv
<1>2. QED
  BY <1>1, CondInvariant, PTL

\* A thread that waits does not have the mutex.
THEOREM CondWaiterReleased == Spec => []WaiterReleased
<1>1. CondInv => WaiterReleased
  BY DEF CondInv, Part, WaiterReleased
<1>2. QED
  BY <1>1, CondInvariant, PTL

\* An assertion fails only because of what the kernel answered, or on EAGAIN
\* once the sequence number has wrapped round.
THEOREM CondAbortReasons == Spec => []CondAbortsAreReports
<1>1. CondInv => CondAbortsAreReports
  BY DEF CondInv
<1>2. QED
  BY <1>1, CondInvariant, PTL

\* A thread that a broadcast has woken is never sent back to wait as long as the
\* sequence number has not wrapped round, whatever its size and however many
\* broadcasts and rounds came before.
THEOREM CondGenuineWakeup == Spec => GenuineWakeupReturns
<1> DEFINE Sent(t) == Genuine(t) /\ ~Wrapped(t) /\ flow'[t] = "unlocking"
<1>1. CondInv /\ [Next]_vars => \A t \in Threads : ~Sent(t)
  <2> SUFFICES ASSUME CondInv, [Next]_vars, NEW t \in Threads, Sent(t)
               PROVE  FALSE
    OBVIOUS
  <2>1. CASE UNCHANGED vars
    BY <2>1 DEF vars, condVars, Genuine
  <2>2. ASSUME NEW u \in Threads, CondRelocked(u) PROVE FALSE
    <3>1. \/ Return(u, "OK") \/ Return(u, "ETIMEDOUT")
          \/ Again(u) /\ ~(Genuine(u) /\ ~Wrapped(u))
          \/ \E why : CondAbort(why)
      BY <2>2, RelockedCases
    <3>2. QED
      BY <3>1 DEF Genuine, CondAbort, condVars, Return, Again, Become, CondInv, CondTypeOK
  <2>3. ASSUME NEW u \in Threads, \E abstime \in {"none", "ahead"} : CondWait(u, abstime)
        PROVE  FALSE
    BY <2>3 DEF Genuine, CondWait, Become, CondInv, CondTypeOK
  <2>4. ASSUME NEW u \in Threads, CondUnlocked(u) \/ CondFutexWait(u)
        PROVE  FALSE
    BY <2>4 DEF Genuine, CondUnlocked, CondFutexWait, CondAbort, condVars, Relock, Become,
       CondInv, CondTypeOK
  <2>5. ASSUME NEW u \in Threads,
               CondWoken(u) \/ CondInterrupted(u) \/ CondTimedOut(u)
        PROVE  FALSE
    BY <2>5 DEF Genuine, CondWoken, CondInterrupted, CondTimedOut, Relock, Become,
       CondInv, CondTypeOK
  <2>6. ASSUME NEW u \in Threads,
               \/ CondBroadcast(u) \/ CondWake(u) \/ CondInvalid(u) \/ ClientLock(u)
               \/ ClientUnlock(u) \/ TimePasses(u) \/ LockStep(u)
        PROVE  FALSE
    BY <2>6 DEF Genuine, CondAbort, CondBroadcast, CondWake, CondInvalid, ClientLock, ClientUnlock,
       TimePasses, LockStep, condVars, Become, CondInv, CondTypeOK
  <2>7. QED
    BY <2>1, <2>2, <2>3, <2>4, <2>5, <2>6 DEF Next, CondStep, ClientStep
<1>2. CondInv /\ [Next]_vars
        => [\A t \in Threads :
              Genuine(t) /\ ~Wrapped(t) => flow'[t] # "unlocking"]_vars
  BY <1>1
<1>3. QED
  BY <1>2, CondInvariant, PTL DEF Spec, GenuineWakeupReturns

\* Every behaviour of the sequence number, the futex and the mutex is one of
\* the abstract condition variable.
THEOREM CondImplements == Spec => ImplementsCond
<1>1. Init => A!Init
  <2>1. ASSUME Init PROVE Statuses = [t \in Threads |-> "out"]
    BY <2>1 DEF Init, Statuses, Status, InWait
  <2>2. QED
    BY <2>1 DEF Init, L!Init, A!Init, A!L!Init, Statuses
<1>2. CondInv /\ [Next]_vars => [A!Next]_A!vars
  <2> SUFFICES ASSUME CondInv, [Next]_vars
               PROVE  A!Next \/ UNCHANGED A!vars
    OBVIOUS
  <2>1. CASE UNCHANGED vars
    BY <2>1 DEF vars, lockVars, condVars, A!vars, A!lockVars, Status, Notified
  <2>2. CASE Next
    BY <2>2, WaitMaps, RelockedMaps, BroadcastMaps, SleepMaps, OtherMaps
       DEF Next, CondStep, ClientStep
  <2>3. QED
    BY <2>1, <2>2
<1>3. QED
  BY <1>1, <1>2, CondInvariant, PTL DEF Spec, ImplementsCond, A!Spec

=============================================================================
