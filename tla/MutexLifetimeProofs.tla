------------------------- MODULE MutexLifetimeProofs -------------------------
(***************************************************************************)
(* Proofs about MutexLifetime, for any finite set of threads, any type of  *)
(* mutex and any use of the freed memory: the last user finds the mutex    *)
(* free, and the unlocks that are still under way, which still read its    *)
(* type, are not misled by what they find.                                 *)
(***************************************************************************)
EXTENDS MutexLifetime, FiniteSetTheorems, TLAPS

-----------------------------------------------------------------------------
(* The invariant                                                           *)

Roles == {"using", "leaving", "last", "gone"}
Labels == {"idle", "lock", "taken", "asleep", "unlock", "load", "decrement",
           "exchange", "check", "wake"}
Using == {t \in Threads : role[t] = "using"}

Types ==
    /\ state \in M!Word /\ recursion \in Nat
    /\ mpc \in [Threads -> Labels] /\ role \in [Threads -> Roles]
    /\ seen \in [Threads -> M!Word] /\ count \in [Threads -> Nat]
    /\ held \in [Threads -> {0, 1}] /\ ret \in [Threads -> {"OK"}]
    /\ alive \in BOOLEAN

\* Between two calls a thread that uses the object may hold the mutex; in a
\* call the place says whether it does.
HeldInv ==
    \A t \in Threads :
        /\ mpc[t] \in {"unlock", "load", "decrement"} => held[t] = 1
        /\ mpc[t] \notin {"idle", "unlock", "load", "decrement"} => held[t] = 0
        /\ mpc[t] \in {"lock", "taken", "asleep"} => role[t] = "using"
        /\ mpc[t] = "idle" /\ role[t] # "using" => held[t] = 0
        /\ role[t] = "gone" => mpc[t] = "idle"

\* The copies are true where the code relies on them.
CopyInv ==
    \A t \in Threads :
        /\ mpc[t] = "lock" => seen[t].owner # t
        /\ mpc[t] \in {"check", "wake"} => seen[t].owner = t
        /\ mpc[t] \notin {"lock", "check", "wake"} => seen[t] = M!Unlocked
        /\ mpc[t] = "decrement" => count[t] = 1

\* While the memory is the mutex, its fields say who has it.
OwnerInv ==
    alive =>
        /\ state.owner = NoThread => state = M!Unlocked /\ recursion = 0
        /\ \A t \in Threads :
              /\ state.owner = t <=> held[t] = 1 \/ mpc[t] \in {"taken", "exchange"}
              /\ held[t] = 1 => recursion = 1
              /\ mpc[t] \in {"taken", "exchange"} => recursion = 0

\* References are counted, and from the moment the last one is dropped only
\* the thread that dropped it can be before the end of an unlock.
RoleInv ==
    /\ refs = Cardinality(Using)
    /\ \A t \in Threads : role[t] = "last" =>
          /\ alive /\ Using = {}
          /\ \A u \in Threads \ {t} : role[u] # "last" /\ mpc[u] \notin BeforeExchange
    /\ ~alive => Using = {} /\ \A t \in Threads : role[t] # "last" /\ mpc[t] \notin BeforeExchange

LifetimeInv == Types /\ HeldInv /\ CopyInv /\ OwnerInv /\ RoleInv /\ aborted = "none"

-----------------------------------------------------------------------------
(* Steps                                                                   *)

\* No thread is the owner in the value 0.
LEMMA FreeWord ==
    /\ M!Unlocked \in M!Word /\ M!Unlocked.owner = NoThread
    /\ \A t \in Threads : t # NoThread /\ [owner |-> t, waiters |-> FALSE] \in M!Word
BY LifetimeAssumption DEF M!Unlocked, M!Word

\* A thread before its exchange has a mutex to lock or to unlock.
LEMMA Alive ==
    ASSUME LifetimeInv, NEW t \in Threads, mpc[t] \in BeforeExchange \/ role[t] \in {"using", "last"}
    PROVE  alive
BY DEF LifetimeInv, RoleInv, Using, Types

\* A step inside a call leaves the roles alone.  It keeps RoleInv unless it
\* enters the mutex from outside.
LEMMA RoleSame ==
    ASSUME LifetimeInv, NEW t \in Threads, NEW l \in Labels, M!Goto(t, l),
           mpc[t] \in BeforeExchange \/ l \notin BeforeExchange,
           UNCHANGED <<role, refs, alive>>
    PROVE  RoleInv'
<1>1. \A u \in Threads : mpc'[u] = IF u = t THEN l ELSE mpc[u]
  BY DEF M!Goto, LifetimeInv, Types
<1>2. Using' = Using
  BY DEF Using
<1>3. QED
  BY <1>1, <1>2 DEF LifetimeInv, RoleInv

\* lock.
LEMMA LockStep ==
    ASSUME LifetimeInv, NEW t \in Threads, UNCHANGED <<role, refs, alive>>,
           \/ M!LockAcquire(t) \/ M!LockTaken(t) \/ M!LockRelock(t)
           \/ M!LockSetWaiters(t) \/ M!LockWait(t) \/ M!LockWoken(t)
           \/ M!LockInterrupted(t)
    PROVE  LifetimeInv'
<1>1. mpc[t] \in {"lock", "taken", "asleep"}
  BY DEF M!LockAcquire, M!LockTaken, M!LockRelock, M!LockSetWaiters, M!LockWait,
         M!LockWoken, M!LockInterrupted
<1>2. alive /\ role[t] = "using" /\ held[t] = 0 /\ mpc[t] \in BeforeExchange
  BY <1>1, Alive DEF LifetimeInv, HeldInv, BeforeExchange
<1> USE FreeWord DEF LifetimeInv
<1>3. CASE M!LockAcquire(t)
  <2>1. CASE state = M!Unlocked /\ M!Goto(t, "taken")
    <3>1. /\ state' = [owner |-> t, waiters |-> FALSE]
          /\ UNCHANGED <<recursion, seen, count, ret, held, aborted>>
      BY <1>3, <2>1 DEF M!LockAcquire, M!Unread
    <3>2. mpc' = [mpc EXCEPT ![t] = "taken"]
      BY <2>1 DEF M!Goto
    <3>3. Types' /\ HeldInv'
      BY <1>2, <3>1, <3>2 DEF Types, HeldInv, Labels
    <3>4. CopyInv'
      BY <1>2, <1>3, <3>1, <3>2 DEF M!LockAcquire, CopyInv, Types
    <3>5. OwnerInv'
      BY <1>2, <2>1, <3>1, <3>2, ZenonT(30) DEF OwnerInv, Types
    <3>6. RoleInv'
      BY <1>2, <2>1, RoleSame DEF Labels
    <3>7. QED
      BY <3>1, <3>3, <3>4, <3>5, <3>6
  <2>2. CASE ~(state = M!Unlocked /\ M!Goto(t, "taken"))
    <3>1. /\ seen' = [seen EXCEPT ![t] = state]
          /\ UNCHANGED <<state, recursion, mpc, count, ret, held, aborted>>
      BY <1>3, <2>2 DEF M!LockAcquire, M!Unread
    <3>2. state.owner # t
      BY <1>2, <1>3 DEF OwnerInv, M!LockAcquire
    <3>3. Types' /\ CopyInv'
      BY <1>3, <3>1, <3>2 DEF M!LockAcquire, Types, CopyInv
    <3>4. QED
      BY <3>1, <3>3 DEF HeldInv, OwnerInv, RoleInv, Using
  <2>3. QED
    BY <2>1, <2>2
<1>4. CASE M!LockTaken(t)
  <2>1. mpc[t] = "taken" /\ recursion = 0
    BY <1>2, <1>4 DEF M!LockTaken, OwnerInv
  <2>2. /\ recursion' = 1 /\ held' = [held EXCEPT ![t] = 1]
        /\ mpc' = [mpc EXCEPT ![t] = "idle"] /\ ret' = [ret EXCEPT ![t] = "OK"]
        /\ seen' = [seen EXCEPT ![t] = M!Unlocked]
        /\ UNCHANGED <<state, count, aborted>>
    BY <1>4, <2>1 DEF M!LockTaken, M!Ensure, M!Finish, M!Goto, M!Unread
  <2>3. Types'
    BY <2>2, SMTT(30) DEF Types, Labels
  <2>4. HeldInv'
    BY <1>2, <2>1, <2>2, SMTT(30) DEF Types, HeldInv
  <2>5. CopyInv'
    BY <2>2 DEF CopyInv, Types
  <2>6. OwnerInv'
    BY <1>2, <2>1, <2>2 DEF OwnerInv, Types
  <2>7. RoleInv'
    BY <1>2, <2>2, RoleSame DEF Labels, BeforeExchange, M!Goto
  <2>8. QED
    BY <2>2, <2>3, <2>4, <2>5, <2>6, <2>7
<1>5. CASE M!LockRelock(t)
  BY <1>5 DEF M!LockRelock, CopyInv
<1>6. CASE M!LockSetWaiters(t)
  <2>1. /\ mpc[t] = "lock" /\ state.owner # t
        /\ UNCHANGED <<recursion, mpc, count, ret, held, aborted>>
    BY <1>2, <1>6 DEF OwnerInv, M!LockSetWaiters, M!Unread
  <2>2. /\ state' \in M!Word /\ state'.owner = state.owner
        /\ state.owner = NoThread => state' = state
        /\ seen' = [seen EXCEPT ![t] = state']
    <3>1. CASE state = seen[t]
      <4>1. state' = [state EXCEPT !.waiters = TRUE] /\ seen' = [seen EXCEPT ![t] = state']
        BY <1>6, <3>1 DEF M!LockSetWaiters
      <4>2. state # M!Unlocked /\ state.owner # NoThread
        BY <1>2, <1>6, <3>1 DEF M!LockSetWaiters, M!HeldByAnother, OwnerInv
      <4>3. QED
        BY <4>1, <4>2 DEF Types, M!Word
    <3>2. CASE state # seen[t]
      BY <1>6, <3>2 DEF M!LockSetWaiters, Types
    <3>3. QED
      BY <3>1, <3>2
  <2>3. Types' /\ CopyInv'
    BY <2>1, <2>2 DEF Types, CopyInv
  <2>4. OwnerInv'
    BY <2>1, <2>2 DEF OwnerInv
  <2>5. QED
    BY <2>1, <2>3, <2>4 DEF HeldInv, RoleInv, Using
<1>7. CASE M!LockWait(t) \/ M!LockWoken(t) \/ M!LockInterrupted(t)
  <2>1. /\ mpc[t] \in {"lock", "asleep"}
        /\ UNCHANGED <<state, recursion, count, ret, held, aborted>>
    BY <1>7 DEF M!LockWait, M!LockWoken, M!LockInterrupted, M!Unread
  <2>2. PICK l \in {"lock", "asleep"} : mpc' = [mpc EXCEPT ![t] = l]
    <3>1. mpc = [mpc EXCEPT ![t] = mpc[t]]
      BY DEF Types
    <3>2. QED
      BY <1>7, <3>1 DEF M!LockWait, M!LockWoken, M!LockInterrupted, M!Goto
  <2>3. seen' = [seen EXCEPT ![t] = M!Unlocked]
    <3>1. CASE M!LockWait(t)
      BY <3>1 DEF M!LockWait
    <3>2. CASE M!LockWoken(t) \/ M!LockInterrupted(t)
      <4>1. mpc[t] = "asleep" /\ seen' = seen
        BY <3>2 DEF M!LockWoken, M!LockInterrupted, M!Unread
      <4>2. QED
        BY <4>1 DEF CopyInv, Types
    <3>3. QED
      BY <1>7, <3>1, <3>2
  <2>4. Types' /\ HeldInv'
    BY <1>2, <2>1, <2>2, <2>3 DEF Types, HeldInv, Labels
  <2>5. CopyInv'
    BY <2>1, <2>2, <2>3 DEF CopyInv, Types
  <2>6. OwnerInv'
    BY <1>2, <2>1, <2>2 DEF OwnerInv, Types
  <2>7. RoleInv'
    BY <1>2, <2>2, RoleSame DEF Labels, M!Goto
  <2>8. QED
    BY <2>1, <2>4, <2>5, <2>6, <2>7
<1>8. QED
  BY <1>3, <1>4, <1>5, <1>6, <1>7

\* unlock up to the exchange: the caller has the mutex, and gives it back.
LEMMA UnlockStep ==
    ASSUME LifetimeInv, NEW t \in Threads, UNCHANGED <<role, refs, alive>>,
           \/ M!UnlockAssert(t) \/ M!UnlockLoad(t)
           \/ M!UnlockDecrement(t) \/ M!UnlockExchange(t)
    PROVE  LifetimeInv'
<1>1. mpc[t] \in {"unlock", "load", "decrement", "exchange"} /\ mpc[t] \in BeforeExchange
  BY DEF M!UnlockAssert, M!UnlockLoad, M!UnlockDecrement, M!UnlockExchange, BeforeExchange
<1>2. alive /\ state.owner = t /\ role[t] # "gone"
  BY <1>1, Alive DEF LifetimeInv, HeldInv, OwnerInv
<1> USE FreeWord DEF LifetimeInv
<1>6. CASE M!UnlockAssert(t)
  <2>1. mpc[t] = "unlock" /\ held[t] = 1 /\ recursion = 1
    BY <1>2, <1>6 DEF M!UnlockAssert, HeldInv, OwnerInv
  <2>2. /\ mpc' = [mpc EXCEPT ![t] = "load"]
        /\ UNCHANGED <<state, recursion, seen, count, ret, held, aborted>>
    BY <1>6, <2>1 DEF M!UnlockAssert, M!Ensure, M!Goto, M!Unread
  <2>3. Types' /\ HeldInv' /\ CopyInv'
    BY <1>2, <2>1, <2>2 DEF Types, HeldInv, CopyInv, Labels
  <2>4. OwnerInv'
    BY <2>1, <2>2 DEF OwnerInv, Types
  <2>5. RoleInv'
    BY <1>1, <2>2, RoleSame DEF Labels, M!Goto
  <2>6. QED
    BY <2>2, <2>3, <2>4, <2>5
<1>3. CASE M!UnlockLoad(t)
  <2>1. mpc[t] = "load" /\ held[t] = 1 /\ recursion = 1
    BY <1>2, <1>3 DEF M!UnlockLoad, HeldInv, OwnerInv
  <2>2. /\ count' = [count EXCEPT ![t] = 1] /\ mpc' = [mpc EXCEPT ![t] = "decrement"]
        /\ UNCHANGED <<state, recursion, seen, ret, held, aborted>>
    BY <1>3, <2>1 DEF M!UnlockLoad, M!Goto
  <2>3. Types' /\ HeldInv' /\ CopyInv'
    BY <1>2, <2>1, <2>2 DEF Types, HeldInv, CopyInv, Labels
  <2>4. OwnerInv'
    BY <2>1, <2>2 DEF OwnerInv, Types
  <2>5. RoleInv'
    BY <1>1, <2>2, RoleSame DEF Labels, M!Goto
  <2>6. QED
    BY <2>2, <2>3, <2>4, <2>5
<1>4. CASE M!UnlockDecrement(t)
  <2>1. mpc[t] = "decrement" /\ count[t] = 1 /\ held[t] = 1 /\ M!Down(1) = 0
    BY <1>4 DEF M!UnlockDecrement, M!Down, HeldInv, CopyInv
  <2>2. /\ recursion' = 0 /\ count' = [count EXCEPT ![t] = 0]
        /\ held' = [held EXCEPT ![t] = 0]
        /\ mpc' = [mpc EXCEPT ![t] = "exchange"]
        /\ UNCHANGED <<state, seen, ret, aborted>>
    BY <1>4, <2>1 DEF M!UnlockDecrement, M!Goto, Types
  <2>3. Types' /\ HeldInv' /\ CopyInv'
    BY <1>2, <2>1, <2>2 DEF Types, HeldInv, CopyInv, Labels
  <2>4. OwnerInv'
    BY <1>2, <2>1, <2>2 DEF OwnerInv, Types
  <2>5. RoleInv'
    BY <1>1, <2>2, RoleSame DEF Labels, M!Goto
  <2>6. QED
    BY <2>2, <2>3, <2>4, <2>5
<1>5. CASE M!UnlockExchange(t)
  <2>1. /\ mpc[t] = "exchange" /\ recursion = 0
        /\ seen' = [seen EXCEPT ![t] = state] /\ state' = M!Unlocked
        /\ mpc' = [mpc EXCEPT ![t] = "check"]
        /\ UNCHANGED <<recursion, count, ret, held, aborted>>
    BY <1>2, <1>5 DEF M!UnlockExchange, M!Goto, M!Unread, OwnerInv
  <2>2. Types' /\ HeldInv' /\ CopyInv'
    BY <1>2, <2>1 DEF Types, HeldInv, CopyInv, Labels
  <2>3. OwnerInv'
    <3>1. state.owner = t /\ held[t] = 0
      BY <1>2, <2>1 DEF OwnerInv, HeldInv
    <3>2. \A u \in Threads : held[u] # 1 /\ mpc'[u] \notin {"taken", "exchange"}
      BY <1>2, <2>1, <3>1 DEF OwnerInv, Types
    <3>3. QED
      BY <2>1, <3>2 DEF OwnerInv
  <2>4. RoleInv'
    BY <1>1, <2>1, RoleSame DEF Labels, M!Goto
  <2>5. QED
    BY <2>1, <2>2, <2>3, <2>4
<1>7. QED
  BY <1>3, <1>4, <1>5, <1>6

\* A refused wake is tolerated: its error is not negative.
ErrorsArePositive == \A e \in WakeErrors : e >= 0

\* After the exchange the mutex may be gone: the type that is read then makes
\* no difference, and neither does a refused wake.
LEMMA LateStep ==
    ASSUME LifetimeInv, NEW t \in Threads, UNCHANGED <<role, refs, alive>>,
           \/ M!UnlockCheck(t) \/ M!UnlockWake(t)
           \/ \E e \in WakeErrors : e >= 0 /\ M!UnlockWakeRefused(t, e)
    PROVE  LifetimeInv'
<1>1. mpc[t] \in {"check", "wake"} /\ seen[t].owner = t /\ held[t] = 0 /\ role[t] # "gone"
  BY DEF M!UnlockCheck, M!UnlockWake, M!UnlockWakeRefused, LifetimeInv, CopyInv, HeldInv
<1> USE FreeWord DEF LifetimeInv
<1>2. /\ UNCHANGED <<state, recursion, count, held, aborted>>
      /\ \/ mpc' = [mpc EXCEPT ![t] = "wake"] /\ UNCHANGED <<seen, ret>>
         \/ /\ mpc' = [mpc EXCEPT ![t] = "idle"] /\ ret' = [ret EXCEPT ![t] = "OK"]
            /\ seen' = [seen EXCEPT ![t] = M!Unlocked]
  BY <1>1 DEF M!UnlockCheck, M!UnlockWake, M!UnlockWakeRefused, M!Refuse, M!Ensure, M!Finish, M!Goto, M!Unread
<1>3. PICK l \in {"wake", "idle"} : mpc' = [mpc EXCEPT ![t] = l]
  BY <1>2
<1>4. Types' /\ HeldInv' /\ CopyInv'
  BY <1>1, <1>2 DEF Types, HeldInv, CopyInv, Labels
<1>5. OwnerInv'
  BY <1>1, <1>2, <1>3 DEF OwnerInv, Types
<1>6. RoleInv'
  BY <1>1, <1>3, RoleSame DEF Labels, BeforeExchange, M!Goto
<1>7. QED
  BY <1>2, <1>4, <1>5, <1>6

\* trylock is not used.
LEMMA NoTrylock ==
    ASSUME LifetimeInv, NEW t \in Threads
    PROVE  ~M!TryLoad(t) /\ ~M!TryTake(t)
BY DEF LifetimeInv, Types, Labels, M!TryLoad, M!TryTake

\* The next critical section, and the end of one that is not the last.
LEMMA UseStep ==
    ASSUME LifetimeInv, NEW t \in Threads, Begin(t) \/ Keep(t)
    PROVE  LifetimeInv'
<1>1. role[t] = "using" /\ alive
  BY Alive DEF Begin, Keep
<1>2. PICK l \in {"lock", "unlock"} :
         /\ mpc[t] = "idle" /\ mpc' = [mpc EXCEPT ![t] = l]
         /\ l = "lock" => held[t] = 0
         /\ l = "unlock" => held[t] = 1
         /\ UNCHANGED <<state, recursion, seen, count, ret, held, aborted, role, refs, alive>>
  BY DEF Begin, Keep, M!CallLock, M!CallUnlock, M!Enter, M!Goto
<1> USE FreeWord DEF LifetimeInv
<1>3. Types'
  BY <1>2, SMTT(30) DEF Types, Labels
<1>4. HeldInv'
  BY <1>1, <1>2, SMTT(30) DEF Types, HeldInv
<1>5. CopyInv'
  BY <1>2, ZenonT(30) DEF Types, CopyInv
<1>6. OwnerInv'
  BY <1>1, <1>2 DEF OwnerInv, Types
<1>7. RoleInv'
  <2>1. Using' = Using /\ t \in Using
    BY <1>1, <1>2 DEF Using
  <2>2. \A u \in Threads : role[u] # "last"
    BY <2>1 DEF RoleInv
  <2>3. QED
    BY <1>1, <1>2, <2>1, <2>2 DEF RoleInv
<1>8. QED
  BY <1>2, <1>3, <1>4, <1>5, <1>6, <1>7

\* The end of the last one.  The thread has the mutex, so that no thread that
\* has dropped its reference before can still be about to unlock.
LEMMA DropStep ==
    ASSUME LifetimeInv, NEW t \in Threads, Drop(t)
    PROVE  LifetimeInv'
<1>1. role[t] = "using" /\ held[t] = 1 /\ mpc[t] = "idle" /\ alive
  BY Alive DEF Drop, M!CallUnlock, M!Enter
<1>2. /\ mpc' = [mpc EXCEPT ![t] = "unlock"]
      /\ role' = [role EXCEPT ![t] = IF refs' = 0 THEN "last" ELSE "leaving"]
      /\ refs' = refs - 1
      /\ UNCHANGED <<state, recursion, seen, count, ret, held, aborted, alive>>
  BY DEF Drop, Become, M!CallUnlock, M!Enter, M!Goto
<1> USE FreeWord DEF LifetimeInv
<1>3. Types' /\ HeldInv' /\ CopyInv'
  BY <1>1, <1>2 DEF Types, HeldInv, CopyInv, Labels, Roles
<1>4. OwnerInv'
  BY <1>1, <1>2 DEF OwnerInv, Types
<1>5. RoleInv'
  <2>1. Using' = Using \ {t} /\ t \in Using
    BY <1>1, <1>2 DEF Using, Types
  <2>2. IsFiniteSet(Using)
    BY LifetimeAssumption, FS_Subset DEF Using
  <2>3. refs' = Cardinality(Using') /\ IsFiniteSet(Using')
    BY <1>2, <2>1, <2>2, FS_RemoveElement DEF RoleInv
  <2>4. refs' = 0 <=> Using' = {}
    BY <2>3, FS_EmptySet
  <2>5. \A u \in Threads \ {t} : role[u] # "last"
    BY <2>1 DEF RoleInv
  <2>6. \A u \in Threads \ {t} : held[u] # 1 /\ mpc[u] \notin {"taken", "exchange"}
    BY <1>1 DEF OwnerInv
  <2>7. \A u \in Threads \ {t} : role[u] # "using" => mpc[u] \notin BeforeExchange
    BY <2>6 DEF HeldInv, BeforeExchange
  <2>8. refs' = 0 => \A u \in Threads \ {t} : role'[u] # "last" /\ mpc'[u] \notin BeforeExchange
    BY <1>2, <2>1, <2>4, <2>5, <2>7 DEF Types, Using
  <2>9. role'[t] = "last" <=> refs' = 0
    BY <1>2 DEF Types
  <2>10. \A u \in Threads \ {t} : role'[u] # "last"
    BY <1>2, <2>5 DEF Types
  <2>11. QED
    BY <1>1, <1>2, <2>3, <2>4, <2>8, <2>9, <2>10 DEF RoleInv
<1>6. QED
  BY <1>2, <1>3, <1>4, <1>5

\* The last calls return, and the object is freed: nobody has the mutex.
LEMMA EndStep ==
    ASSUME LifetimeInv, NEW t \in Threads, Leave(t) \/ Destroy(t)
    PROVE  LifetimeInv'
<1>1. mpc[t] = "idle" /\ role[t] \in {"leaving", "last"} /\ held[t] = 0
  BY DEF Leave, Destroy, LifetimeInv, HeldInv
<1>2. CASE Leave(t)
  <2>1. /\ role[t] = "leaving" /\ role' = [role EXCEPT ![t] = "gone"]
        /\ UNCHANGED <<mutexVars, refs, alive>>
    BY <1>2 DEF Leave, Become
  <2>2. Using' = Using
    BY <2>1 DEF Using, LifetimeInv, Types
  <2>3. Types' /\ HeldInv' /\ CopyInv' /\ OwnerInv' /\ aborted' = "none"
    BY <1>1, <2>1 DEF LifetimeInv, Types, HeldInv, CopyInv, OwnerInv, mutexVars, Roles
  <2>4. RoleInv'
    BY <2>1, <2>2 DEF LifetimeInv, Types, RoleInv, mutexVars
  <2>5. QED
    BY <2>3, <2>4 DEF LifetimeInv
<1>3. CASE Destroy(t)
  <2>1. role[t] = "last" /\ alive /\ Using = {}
    BY <1>3 DEF Destroy, LifetimeInv, RoleInv
  <2>2. \A u \in Threads : mpc[u] \notin BeforeExchange /\ (u # t => role[u] # "last")
    BY <1>1, <2>1 DEF LifetimeInv, RoleInv, BeforeExchange
  <2>3. \A u \in Threads : held[u] # 1
    BY <2>1, <2>2 DEF LifetimeInv, HeldInv, BeforeExchange, Using, Types, Labels
  <2>4. state = M!Unlocked
    <3>1. \A u \in Threads : state.owner # u
      BY <2>1, <2>2, <2>3 DEF LifetimeInv, OwnerInv, BeforeExchange
    <3>2. state.owner = NoThread
      BY <3>1 DEF LifetimeInv, Types, M!Word
    <3>3. QED
      BY <2>1, <3>2 DEF LifetimeInv, OwnerInv
  <2>5. /\ role' = [role EXCEPT ![t] = "gone"] /\ alive' = FALSE
        /\ UNCHANGED <<mutexVars, refs>>
    BY <1>3, <2>4 DEF Destroy, Become
  <2>6. Using' = Using
    BY <2>1, <2>5 DEF Using, LifetimeInv, Types
  <2>7. Types' /\ HeldInv' /\ CopyInv' /\ OwnerInv' /\ aborted' = "none"
    BY <1>1, <2>5 DEF LifetimeInv, Types, HeldInv, CopyInv, OwnerInv, mutexVars, Roles
  <2>8. RoleInv'
    BY <2>1, <2>2, <2>5, <2>6 DEF LifetimeInv, Types, RoleInv, mutexVars
  <2>9. QED
    BY <2>7, <2>8 DEF LifetimeInv
<1>4. QED
  BY <1>2, <1>3

\* What becomes of the memory concerns nobody.
LEMMA ScribbleStep ==
    ASSUME LifetimeInv, Scribble
    PROVE  LifetimeInv'
<1>1. /\ ~alive /\ state' \in M!Word
      /\ UNCHANGED <<recursion, mpc, seen, count, ret, held, aborted, role, refs, alive>>
  BY DEF Scribble
<1>2. QED
  BY <1>1 DEF LifetimeInv, Types, HeldInv, CopyInv, OwnerInv, RoleInv, Using

\* LifetimeInv holds throughout.
LEMMA LifetimeInvariant ==
    ASSUME ErrorsArePositive
    PROVE  Spec => []LifetimeInv
<1>1. Init => LifetimeInv
  <2> SUFFICES ASSUME Init PROVE LifetimeInv
    OBVIOUS
  <2>1. Using = Threads
    BY DEF Init, Using
  <2>2. Types
    BY FreeWord DEF Init, M!Init, Types, Labels, Roles
  <2>3. /\ state = M!Unlocked /\ recursion = 0
        /\ \A t \in Threads : mpc[t] = "idle" /\ held[t] = 0 /\ seen[t] = M!Unlocked
        /\ \A t \in Threads : role[t] = "using"
    BY DEF Init, M!Init
  <2>4. HeldInv /\ CopyInv /\ OwnerInv
    <3>1. HeldInv
      BY <2>3 DEF HeldInv
    <3>2. CopyInv
      BY <2>3 DEF CopyInv
    <3>3. \A t \in Threads : state.owner # t /\ held[t] # 1
                             /\ mpc[t] \notin {"taken", "exchange"}
      <4> SUFFICES ASSUME NEW t \in Threads
                   PROVE  state.owner # t /\ held[t] # 1
                          /\ mpc[t] \notin {"taken", "exchange"}
        OBVIOUS
      <4>1. state.owner = NoThread /\ NoThread # t
        BY <2>3, FreeWord
      <4>2. QED
        BY <2>3, <4>1
    <3>4. OwnerInv
      BY <2>3, <3>3 DEF OwnerInv
    <3>5. QED
      BY <3>1, <3>2, <3>4
  <2>5. RoleInv
    BY <2>1 DEF Init, RoleInv
  <2>6. QED
    BY <2>2, <2>4, <2>5 DEF Init, M!Init, LifetimeInv
<1>2. LifetimeInv /\ [Next]_vars => LifetimeInv'
  <2> SUFFICES ASSUME LifetimeInv, [Next]_vars PROVE LifetimeInv'
    OBVIOUS
  <2>1. CASE UNCHANGED vars
    BY <2>1 DEF vars, mutexVars, LifetimeInv, Types, HeldInv, CopyInv, OwnerInv, RoleInv, Using
  <2>2. CASE Next
    <3>1. \A t \in Threads : WakeRefused(t) => LifetimeInv'
      BY LateStep DEF WakeRefused, ErrorsArePositive
    <3>2. QED
      BY <2>2, <3>1, LockStep, UnlockStep, LateStep, NoTrylock, UseStep, DropStep, EndStep,
         ScribbleStep DEF Next, Step, M!LibraryStep
  <2>3. QED
    BY <2>1, <2>2
<1>3. QED
  BY <1>1, <1>2, PTL DEF Spec

-----------------------------------------------------------------------------
(* Theorems                                                                *)

\* When the mutex is destroyed, all others are past the exchange of their
\* unlock, however many threads use the object: nobody has still to lock or to
\* unlock it.  (It is not their last access: NoAccessAfterDestroy is violated.)
THEOREM LifetimeDestroyedWhenUnlocked ==
    ASSUME ErrorsArePositive
    PROVE  Spec => []DestroyedWhenUnlocked
<1>1. LifetimeInv => DestroyedWhenUnlocked
  BY DEF LifetimeInv, RoleInv, DestroyedWhenUnlocked
<1>2. QED
  BY <1>1, LifetimeInvariant, PTL

\* No assertion of destroy, lock and unlock fails, and no unlock is refused,
\* whatever the fields become that it reads after its exchange, and whichever
\* error, if it is not negative, its wake gets for an address that is no mutex.
THEOREM LifetimeLateUnlockSucceeds ==
    ASSUME ErrorsArePositive
    PROVE  Spec => []LateUnlockSucceeds
<1>1. LifetimeInv => LateUnlockSucceeds
  BY DEF LifetimeInv, Types, LateUnlockSucceeds
<1>2. QED
  BY <1>1, LifetimeInvariant, PTL

=============================================================================
