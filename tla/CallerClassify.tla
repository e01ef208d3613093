---------------------------- MODULE CallerClassify ----------------------------
(***************************************************************************)
(* is_glibc_caller of src/caller.cpp: is the code at a return address part *)
(* of a glibc binary?  Threads call it at the same time, from addresses    *)
(* that lie in loaded objects or outside of them, and share its cache.     *)
(* Objects are loaded and unloaded; the cache is not told.  An object that *)
(* lacks what the scan takes for granted ends the program.                 *)
(*                                                                         *)
(* The cache is a hash map without a lock.  An insertion reads the table   *)
(* and writes it in two steps, so one that overlaps another may be lost.   *)
(* What overlapping calls may do to the memory of the map itself is not    *)
(* modelled: the map is not part of this repository.                       *)
(***************************************************************************)
EXTENDS Integers, Sequences

CONSTANTS Threads,
          Addresses,  \* return addresses
          Objects,    \* what the loaded objects may look like, see Object
          NoObject    \* an address outside of every object

\* EI_OSABI is ELFOSABI_SOLARIS; there is a DT_STRTAB; DT_VERNEEDNUM; and the
\* chain of the version needs: for each, whether its version names start with
\* "GLIBC_".  The chain is empty without a DT_VERNEED.
ASSUME CallerAssumption ==
    /\ NoObject \notin Objects
    /\ \A o \in Objects :
          /\ o.solaris \in BOOLEAN /\ o.strtab \in BOOLEAN /\ o.count \in Nat
          /\ o.chain \in Seq(Seq(BOOLEAN))
          /\ \A i \in 1 .. Len(o.chain) : o.chain[i] # <<>>

VARIABLES object,  \* the object at each address
          past,    \* history: "fresh" until a call from an object at the
                   \* address is classified, then "known", and "reused"
                   \* once the object is replaced after that
          cache,   \* the cache: pairs of an address and a verdict
          pc,      \* where each thread is
          addr,    \* return_addr of the call
          need,    \* how far ptr is in the chain
          aux,     \* how far aux is in the names of that need
          glibc,   \* is_glibc
          table,   \* the cache as an insertion read it
          verdict, \* what the last call of the thread returned, if any
          crashed  \* the program has ended

locals == <<object, past, cache, pc, addr, need, aux, glibc, table, verdict>>
callerVars == <<locals, crashed>>

Init ==
    /\ object \in [Addresses -> Objects \cup {NoObject}]
    /\ past = [a \in Addresses |-> "fresh"]
    /\ cache = {}
    /\ pc = [t \in Threads |-> "idle"]
    /\ addr \in [Threads -> {CHOOSE a \in Addresses : TRUE}]
    /\ need = [t \in Threads |-> 1]
    /\ aux = [t \in Threads |-> 1]
    /\ glibc = [t \in Threads |-> FALSE]
    /\ table = [t \in Threads |-> {}]
    /\ verdict = [t \in Threads |-> "none"]
    /\ crashed = FALSE

Goto(t, l) == pc' = [pc EXCEPT ![t] = l]
Here(t) == object[addr[t]]

Named(v) == IF v THEN "glibc" ELSE "mlibc"

\* The call returns v; its locals are gone.
Return(t, v) ==
    /\ Goto(t, "idle")
    /\ verdict' = [verdict EXCEPT ![t] = Named(v)]
    /\ need' = [need EXCEPT ![t] = 1]
    /\ aux' = [aux EXCEPT ![t] = 1]
    /\ glibc' = [glibc EXCEPT ![t] = FALSE]
    /\ table' = [table EXCEPT ![t] = {}]

Call(t, a) ==
    /\ pc[t] = "idle"
    /\ addr' = [addr EXCEPT ![t] = a]
    /\ verdict' = [verdict EXCEPT ![t] = "none"]
    /\ Goto(t, "find")
    /\ UNCHANGED <<object, past, cache, need, aux, glibc, table>>

\* cache.find(return_addr).
Find(t) ==
    /\ pc[t] = "find"
    /\ \/ \E v \in BOOLEAN : <<addr[t], v>> \in cache /\ Return(t, v)
       \/ /\ \A v \in BOOLEAN : <<addr[t], v>> \notin cache
          /\ Goto(t, "dladdr")
          /\ UNCHANGED <<need, aux, glibc, table, verdict>>
    /\ UNCHANGED <<object, past, cache, addr>>

\* assert(strtab) fails, or the needs that DT_VERNEEDNUM counts are looked for at
\* a null ptr.
Unreadable(o) == ~o.strtab \/ (o.count > 0 /\ o.chain = <<>>)

\* Mutant: a failure of dladdr1 is cached like an answer.
DladdrCachesFailure(t) ==
    /\ pc[t] = "dladdr"
    /\ \/ /\ Here(t) = NoObject
          /\ cache' = cache \cup {<<addr[t], FALSE>>}
          /\ Return(t, FALSE)
       \/ /\ Here(t) # NoObject
          /\ Here(t).solaris \/ ~Unreadable(Here(t))
          /\ glibc' = [glibc EXCEPT ![t] = Here(t).solaris]
          /\ Goto(t, IF Here(t).solaris \/ Here(t).count = 0 THEN "insert" ELSE "scan")
          /\ UNCHANGED <<cache, need, aux, table, verdict>>
    /\ UNCHANGED <<object, past, addr>>

\* A call from such an object ends the program, unless it is patched.
Crash(t) ==
    /\ pc[t] = "dladdr"
    /\ Here(t) # NoObject /\ ~Here(t).solaris /\ Unreadable(Here(t))
    /\ crashed' = TRUE
    /\ UNCHANGED locals

\* dladdr1 and the two quick answers.  A failure is not cached.
Dladdr(t) ==
    /\ pc[t] = "dladdr"
    /\ \/ Here(t) = NoObject /\ Return(t, FALSE)
       \/ /\ Here(t) # NoObject /\ Here(t).solaris
          /\ glibc' = [glibc EXCEPT ![t] = TRUE]
          /\ Goto(t, "insert")
          /\ UNCHANGED <<need, aux, table, verdict>>
       \/ /\ Here(t) # NoObject /\ ~Here(t).solaris /\ ~Unreadable(Here(t))
          /\ Goto(t, IF Here(t).count = 0 THEN "insert" ELSE "scan")
          /\ UNCHANGED <<need, aux, glibc, table, verdict>>
    /\ UNCHANGED <<object, past, cache, addr>>

\* Mutant: tests the number of the need after it has moved on.
LastNeedEarly(t) == need[t] = Len(Here(t).chain) \/ need[t] + 1 = Here(t).count

\* No vn_next, or the loop counter has reached ver_need_count.
LastNeed(t) == need[t] = Len(Here(t).chain) \/ need[t] = Here(t).count

\* Mutant: a name that is not glibc's takes an earlier verdict back.
ScanForgets(t) ==
    LET names == Here(t).chain[need[t]]
        starts == names[aux[t]]
    IN  /\ pc[t] = "scan"
        /\ glibc' = [glibc EXCEPT ![t] = starts]
        /\ IF ~starts /\ aux[t] < Len(names)
           THEN aux' = [aux EXCEPT ![t] = @ + 1] /\ UNCHANGED <<pc, need>>
           ELSE IF LastNeed(t)
           THEN Goto(t, "insert") /\ UNCHANGED <<need, aux>>
           ELSE /\ need' = [need EXCEPT ![t] = @ + 1]
                /\ aux' = [aux EXCEPT ![t] = 1]
                /\ UNCHANGED pc
        /\ UNCHANGED <<object, past, cache, addr, table, verdict>>

\* Mutant: aux is not moved to the next name.
ScanStays(t) ==
    LET names == Here(t).chain[need[t]]
        starts == names[aux[t]]
    IN  /\ pc[t] = "scan"
        /\ glibc' = [glibc EXCEPT ![t] = @ \/ starts]
        /\ IF ~starts /\ aux[t] < Len(names)
           THEN UNCHANGED <<pc, need, aux>>
           ELSE IF LastNeed(t)
           THEN Goto(t, "insert") /\ UNCHANGED <<need, aux>>
           ELSE /\ need' = [need EXCEPT ![t] = @ + 1]
                /\ aux' = [aux EXCEPT ![t] = 1]
                /\ UNCHANGED pc
        /\ UNCHANGED <<object, past, cache, addr, table, verdict>>

\* One turn of the inner loop: a name that starts with "GLIBC_" ends it, so
\* does the last name; then the outer loop goes on with the next need.
Scan(t) ==
    LET names == Here(t).chain[need[t]]
        starts == names[aux[t]]
    IN  /\ pc[t] = "scan"
        /\ glibc' = [glibc EXCEPT ![t] = @ \/ starts]
        /\ IF ~starts /\ aux[t] < Len(names)
           THEN aux' = [aux EXCEPT ![t] = @ + 1] /\ UNCHANGED <<pc, need>>
           ELSE IF LastNeed(t)
           THEN Goto(t, "insert") /\ UNCHANGED <<need, aux>>
           ELSE /\ need' = [need EXCEPT ![t] = @ + 1]
                /\ aux' = [aux EXCEPT ![t] = 1]
                /\ UNCHANGED pc
        /\ UNCHANGED <<object, past, cache, addr, table, verdict>>

\* cache.insert(return_addr, is_glibc): the table is read ...
Insert(t) ==
    /\ pc[t] = "insert"
    /\ table' = [table EXCEPT ![t] = cache]
    /\ Goto(t, "store")
    /\ UNCHANGED <<object, past, cache, addr, need, aux, glibc, verdict>>

\* ... and written, and the call returns.
Store(t) ==
    /\ pc[t] = "store"
    /\ cache' = table[t] \cup {<<addr[t], glibc[t]>>}
    /\ past' = [past EXCEPT ![addr[t]] = IF @ = "fresh" THEN "known" ELSE @]
    /\ Return(t, glibc[t])
    /\ UNCHANGED <<object, addr>>

\* dlopen and dlclose put another object, or none, where no call is under way.
\* What was answered before is no matter any more.
Reload(a, o) ==
    /\ \A t \in Threads : pc[t] # "idle" => addr[t] # a
    /\ object' = [object EXCEPT ![a] = o]
    /\ past' = [past EXCEPT ![a] = IF @ = "known" THEN "reused" ELSE @]
    /\ verdict' = [t \in Threads |-> IF addr[t] = a THEN "none" ELSE verdict[t]]
    /\ UNCHANGED <<cache, pc, addr, need, aux, glibc, table>>

Proceed(t) == Find(t) \/ Dladdr(t) \/ Scan(t) \/ Insert(t) \/ Store(t)

\* A step of a call.
Step(t) ==
    /\ ~crashed
    /\ \/ Proceed(t) /\ UNCHANGED crashed
       \/ Crash(t)

Next ==
    \/ \E t \in Threads : Step(t)
    \/ /\ ~crashed /\ UNCHANGED crashed
       /\ \/ \E t \in Threads, a \in Addresses : Call(t, a)
          \/ \E a \in Addresses, o \in Objects \cup {NoObject} :
                o # object[a] /\ Reload(a, o)

Spec == Init /\ [][Next]_callerVars

\* A call that has begun is scheduled to its end.
FairSpec == Spec /\ \A t \in Threads : WF_callerVars(Step(t))

-----------------------------------------------------------------------------
(* Properties                                                              *)

\* The verdict by definition: patched by mlibcify, or some version it needs,
\* among the first DT_VERNEEDNUM entries, is one of glibc's.
IsGlibc(o) ==
    /\ o # NoObject
    /\ \/ o.solaris
       \/ \E i \in 1 .. o.count :
             /\ i <= Len(o.chain)
             /\ \E j \in 1 .. Len(o.chain[i]) : o.chain[i][j]

\* Every call is told the truth about the object its caller lies in, whatever
\* the other threads insert and lose meanwhile; so all calls from one object
\* get the same answer, on which the mutex functions rely.  The exception are
\* addresses at which an object was replaced after a call from it.
VerdictIsTrue ==
    \A t \in Threads :
        verdict[t] # "none" /\ past[addr[t]] # "reused" =>
            verdict[t] = Named(IsGlibc(object[addr[t]]))

\* With the same exception the cache never contradicts the objects.  Addresses
\* dladdr1 knows nothing about are not in it, so loading the first object at
\* an address never meets an old verdict.
CacheIsTrue ==
    \A e \in cache :
        /\ past[e[1]] # "fresh"
        /\ past[e[1]] = "known" => object[e[1]] # NoObject /\ e[2] = IsGlibc(object[e[1]])

\* Both scan loops end, within the chain.
ScanInBounds ==
    \A t \in Threads : pc[t] = "scan" =>
        /\ need[t] <= Len(Here(t).chain) /\ need[t] <= Here(t).count
        /\ aux[t] <= Len(Here(t).chain[need[t]])

\* Every call returns, unless the program ends.
CallReturns == \A t \in Threads : pc[t] # "idle" ~> pc[t] = "idle" \/ crashed

=============================================================================
