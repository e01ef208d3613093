------------------------------ MODULE ThreadAttr ------------------------------
(***************************************************************************)
(* The thread attributes of src/thread.cpp, which keeps them in a          *)
(* structure of its own (glibc's object is too small for mlibc's), and     *)
(* pthread_create, which rebuilds a real attribute object from it.         *)
(*                                                                         *)
(* A field holds an int.  In the three one-bit fields 0 is the first       *)
(* constant of the header (JOINABLE, SYSTEM, INHERIT) and 1 the other.     *)
(* asked is history: what the setters were last given.                     *)
(***************************************************************************)
EXTENDS Bitfields

CONSTANTS Attrs,     \* attribute objects of the program
          Blocks,    \* what malloc can return
          Null,      \* the null pointer
          CpuSets,   \* values of a cpu_set_t
          EmptySet,  \* the value-initialised cpu_set_t
          Words,     \* values of the int and size fields
          Settable   \* the fields the program sets

OneBit == {"detach", "scope", "inherit"}
Fields == OneBit \cup {"stack", "stackSize", "guardSize", "param", "policy"}

ASSUME ThreadAttrAssumption ==
    /\ Null \notin Blocks
    /\ EmptySet \notin CpuSets
    /\ Words \subseteq Int
    /\ Settable \subseteq Fields

VARIABLES alive,   \* the objects that have been initialised and not destroyed
          threadAttr,    \* their fields
          cpuSet,  \* their pointers cpu_set
          heap,    \* what the allocated blocks hold
          asked,
          made,    \* the attributes of the thread the last call created, if any
          threadGot,     \* what the last call read, if it was a getter
          threadAborted  \* the __ensure that ended the process, or "none"

threadVars == <<alive, threadAttr, cpuSet, heap, asked, made, threadGot, threadAborted>>

Fresh == [f \in Fields |-> CASE f = "stackSize" -> 2097152
                             [] f = "guardSize" -> 4096
                             [] OTHER -> 0]

ThreadInit ==
    /\ alive = {}
    /\ threadAttr = [a \in Attrs |-> Fresh]
    /\ cpuSet = [a \in Attrs |-> Null]
    /\ heap = [b \in {} |-> EmptySet]
    /\ asked = [a \in Attrs |-> [fields |-> Fresh, cpus |-> EmptySet]]
    /\ made = {}
    /\ threadGot = {}
    /\ threadAborted = "none"

\* A call that neither creates a thread nor reads a field.
Quiet == made' = {} /\ threadGot' = {} /\ UNCHANGED threadAborted

Ensure(holds, why, Rest) ==
    IF holds THEN Rest
    ELSE /\ threadAborted' = why
         /\ UNCHANGED <<alive, threadAttr, cpuSet, heap, asked, made, threadGot>>

AttrInit(a) ==
    /\ a \notin alive
    /\ alive' = alive \cup {a}
    /\ threadAttr' = [threadAttr EXCEPT ![a] = Fresh]
    /\ cpuSet' = [cpuSet EXCEPT ![a] = Null]
    /\ asked' = [asked EXCEPT ![a] = [fields |-> Fresh, cpus |-> EmptySet]]
    /\ Quiet /\ UNCHANGED heap

\* The pointer is freed and left as it is.
AttrDestroy(a) ==
    /\ a \in alive
    /\ alive' = alive \ {a}
    /\ heap' = [b \in DOMAIN heap \ {cpuSet[a]} |-> heap[b]]
    /\ Quiet /\ UNCHANGED <<threadAttr, cpuSet, asked>>

Stored(f, v) == IF f \in OneBit THEN SignedField(1, v) ELSE v

\* The setters of one field, which accept any value.
SetField(a, f, v) ==
    /\ a \in alive
    /\ threadAttr' = [threadAttr EXCEPT ![a][f] = Stored(f, v)]
    /\ asked' = [asked EXCEPT ![a].fields[f] = v]
    /\ Quiet /\ UNCHANGED <<alive, cpuSet, heap>>

\* Mutant: the size is left out.
SetStackOnly(a, v, w) ==
    /\ a \in alive
    /\ threadAttr' = [threadAttr EXCEPT ![a]["stack"] = v]
    /\ asked' = [asked EXCEPT ![a].fields["stack"] = v,
                              ![a].fields["stackSize"] = w]
    /\ Quiet /\ UNCHANGED <<alive, cpuSet, heap>>

SetStack(a, v, w) ==
    /\ a \in alive
    /\ threadAttr' = [threadAttr EXCEPT ![a]["stack"] = v, ![a]["stackSize"] = w]
    /\ asked' = [asked EXCEPT ![a].fields["stack"] = v,
                              ![a].fields["stackSize"] = w]
    /\ Quiet /\ UNCHANGED <<alive, cpuSet, heap>>

\* Mutant: a second call allocates again.
SetAffinityAnew(a, whole, s) ==
    /\ a \in alive
    /\ Ensure(whole, "size", \E b \in Blocks \cup {Null} :
          /\ b = Null \/ b \notin DOMAIN heap
          /\ Ensure(b # Null, "malloc",
                /\ cpuSet' = [cpuSet EXCEPT ![a] = b]
                /\ heap' = [c \in DOMAIN heap \cup {b} |->
                               IF c = b THEN s ELSE heap[c]]
                /\ asked' = [asked EXCEPT ![a].cpus = s]
                /\ Quiet /\ UNCHANGED <<alive, threadAttr>>))

\* Allocates at the first call; malloc may fail.  whole: the size passed is
\* that of a cpu_set_t.
SetAffinity(a, whole, s) ==
    /\ a \in alive
    /\ Ensure(whole, "size", \E b \in Blocks \cup {Null} :
          /\ IF cpuSet[a] # Null THEN b = cpuSet[a]
                                 ELSE b = Null \/ b \notin DOMAIN heap
          /\ Ensure(b # Null, "malloc",
                /\ cpuSet' = [cpuSet EXCEPT ![a] = b]
                /\ heap' = [c \in DOMAIN heap \cup {b} |->
                               IF c = b THEN s ELSE heap[c]]
                /\ asked' = [asked EXCEPT ![a].cpus = s]
                /\ Quiet /\ UNCHANGED <<alive, threadAttr>>))

Cpus(a) == IF cpuSet[a] = Null THEN EmptySet ELSE heap[cpuSet[a]]

GetField(a, f) ==
    /\ a \in alive
    /\ threadGot' = {[field |-> f, read |-> threadAttr[a][f], asked |-> asked[a].fields[f]]}
    /\ made' = {}
    /\ UNCHANGED <<alive, threadAttr, cpuSet, heap, asked, threadAborted>>

GetAffinity(a, whole) ==
    /\ a \in alive
    /\ Ensure(whole, "size",
          /\ threadGot' = {[field |-> "cpus", read |-> Cpus(a), asked |-> asked[a].cpus]}
          /\ made' = {}
          /\ UNCHANGED <<alive, threadAttr, cpuSet, heap, asked, threadAborted>>)

\* getsigmask_np, setsigmask_np and getattr_np.
NotImplemented ==
    /\ threadAborted' = "not_implemented"
    /\ UNCHANGED <<alive, threadAttr, cpuSet, heap, asked, made, threadGot>>

\* Mutant: compared with the other constant.
GivenIfOther(f, v) == IF f \in OneBit THEN IF v = 1 THEN 1 ELSE 0 ELSE v

\* What pthread_create passes to the real setters: the first constant if the
\* field equals it, else the other.
Given(f, v) == IF f \in OneBit THEN IF v = 0 THEN 0 ELSE 1 ELSE v

\* pthread_create with an attribute object.  A null cpu_set asks for no
\* affinity, like an empty one.
Create(a) ==
    /\ a \in alive
    /\ made' = {[real |-> [fields |-> [f \in Fields |-> Given(f, threadAttr[a][f])],
                           cpus |-> Cpus(a)],
                 asked |-> asked[a]]}
    /\ threadGot' = {}
    /\ UNCHANGED <<alive, threadAttr, cpuSet, heap, asked, threadAborted>>

ThreadNext ==
    /\ threadAborted = "none"
    /\ \/ \E a \in Attrs :
             \/ AttrInit(a) \/ AttrDestroy(a) \/ Create(a)
             \/ \E f \in Settable : GetField(a, f) \/ \E v \in Words : SetField(a, f, v)
             \/ /\ {"stack", "stackSize"} \subseteq Settable
                /\ \E v, w \in Words : SetStack(a, v, w)
             \/ \E whole \in BOOLEAN :
                   GetAffinity(a, whole) \/ \E s \in CpuSets : SetAffinity(a, whole, s)
       \/ NotImplemented

ThreadSpec == ThreadInit /\ [][ThreadNext]_threadVars

-----------------------------------------------------------------------------
(* Properties                                                              *)

\* The values that mean something to a setter.
Constants(f) == IF f \in OneBit THEN {0, 1} ELSE Int

\* A thread is created with the attributes the program last set, those that
\* went through a one-bit signed field included, unless a setter was given a
\* number that is none of its constants: it is not refused, and only its lowest
\* bit counts.
CreatedAsAsked ==
    \A m \in made :
        /\ m.real.cpus = m.asked.cpus
        /\ \A f \in Fields : m.asked.fields[f] \in Constants(f)
                               => m.real.fields[f] = m.asked.fields[f]

\* A program that reads an attribute and sets it again later, maybe in another
\* object, creates threads with what was first asked for.  A field that is no
\* bit-field reads as it was set; a one-bit field need not, it reads -1 for 1.
ReadBack ==
    \A g \in threadGot :
        IF g.field \in OneBit
        THEN g.asked \in Constants(g.field)
                => Given(g.field, Stored(g.field, g.read)) = g.asked
        ELSE g.read = g.asked

\* Every live object has its own live block or none and no block is leaked,
\* so that no call on a live object touches freed memory.
CpuSetsOwned ==
    /\ DOMAIN heap = {cpuSet[a] : a \in alive} \ {Null}
    /\ \A a, b \in alive : cpuSet[a] = cpuSet[b] => a = b \/ cpuSet[a] = Null

=============================================================================
