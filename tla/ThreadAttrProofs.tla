--------------------------- MODULE ThreadAttrProofs ---------------------------
(***************************************************************************)
(* Proofs about ThreadAttr, for any number of attribute objects and blocks *)
(* of memory and any values: an object holds what the program set, through *)
(* the bit-fields and through the block its affinity lives in, so a thread *)
(* is created with it.                                                     *)
(***************************************************************************)
EXTENDS ThreadAttr, TLAPS

-----------------------------------------------------------------------------
(* The invariant                                                           *)

AllCpuSets == CpuSets \cup {EmptySet}

Types ==
    /\ alive \subseteq Attrs
    /\ threadAttr \in [Attrs -> [Fields -> Int]]
    /\ cpuSet \in [Attrs -> Blocks \cup {Null}]
    /\ asked \in [Attrs -> [fields : [Fields -> Int], cpus : AllCpuSets]]

\* The fields are what a store makes of the values asked for.
FieldsHold ==
    \A a \in Attrs : \A f \in Fields : threadAttr[a][f] = Stored(f, asked[a].fields[f])

\* The block of a live object holds its affinity.
CpusHold == \A a \in alive : Cpus(a) = asked[a].cpus

ObjectsInv == Types /\ FieldsHold /\ CpusHold /\ CpuSetsOwned

ThreadAttrInv == ObjectsInv /\ CreatedAsAsked /\ ReadBack

-----------------------------------------------------------------------------
(* The bit-fields                                                          *)

\* The remainder of a number that is known to be odd.
LEMMA OddRemainder ==
    ASSUME NEW a \in Int, NEW q \in Int, a = q * 2 + 1
    PROVE  a % 2 = 1
<1> DEFINE m == 2
<1>1. m \in Nat \ {0} /\ 1 \in 0 .. m - 1
  OBVIOUS
<1> HIDE DEF m
<1>2. \A r \in 0 .. m - 1 : a = q * m + r => a % m = r
  BY <1>1
<1>3. QED
  BY <1>1, <1>2 DEF m

\* 0 stays 0 in a one-bit signed field, 1 becomes -1, and so does -1.
LEMMA OneBitField ==
    /\ SignedField(1, 0) = 0 /\ SignedField(1, 1) = -1
    /\ \A v \in Int : v = -1 => SignedField(1, v) = -1
    /\ \A v \in Int : SignedField(1, v) \in {0, -1}
<1>1. 2^1 = 2 /\ 2^(1 - 1) = 1
  OBVIOUS
<1>2. \A v \in Int : v % 2 \in {0, 1}
  OBVIOUS
<1>3. 0 % 2 = 0 /\ 1 % 2 = 1
  OBVIOUS
<1>4. \A v \in Int : v = -1 => v % 2 = 1
  <2>1. ASSUME NEW v \in Int, v = -1 PROVE v = (-1) * 2 + 1 /\ -1 \in Int
    BY <2>1
  <2>2. QED
    BY <2>1, OddRemainder
<1>5. \A v \in Int : v = -1 => SignedField(1, v) = -1
  BY <1>1, <1>4 DEF SignedField
<1>6. QED
  BY <1>1, <1>2, <1>3, <1>5 DEF SignedField

\* What a store leaves is an int, which pthread_create turns into the constant
\* stored, even when it was read and stored once more.
LEMMA StoredTells ==
    ASSUME NEW f \in Fields, NEW v \in Int
    PROVE  /\ Stored(f, v) \in Int
           /\ v \in Constants(f) => Given(f, Stored(f, v)) = v
           /\ v \in Constants(f) => Given(f, Stored(f, Stored(f, v))) = v
           /\ f \notin OneBit => Stored(f, v) = v
<1>1. CASE f \in OneBit
  BY <1>1, OneBitField DEF Stored, Given, Constants
<1>2. CASE f \notin OneBit
  BY <1>2 DEF Stored, Given
<1>3. QED
  BY <1>1, <1>2

\* A new object asks for the defaults.
LEMMA FreshFields ==
    /\ Fresh \in [Fields -> Int]
    /\ \A f \in Fields : Fresh[f] = Stored(f, Fresh[f])
<1>1. Fresh \in [Fields -> Int] /\ \A f \in OneBit : Fresh[f] = 0
  BY DEF Fresh, Fields, OneBit
<1>2. \A f \in Fields : Fresh[f] = Stored(f, Fresh[f])
  BY <1>1, OneBitField DEF Stored
<1>3. QED
  BY <1>1, <1>2

-----------------------------------------------------------------------------
(* Steps                                                                   *)

\* A call that neither creates nor reads claims nothing.
LEMMA QuietInv ==
    ASSUME Quiet, ObjectsInv'
    PROVE  ThreadAttrInv'
BY DEF Quiet, ThreadAttrInv, CreatedAsAsked, ReadBack

\* A call that leaves the objects alone.
LEMMA SameObjects ==
    ASSUME ObjectsInv, UNCHANGED <<alive, threadAttr, cpuSet, heap, asked>>
    PROVE  ObjectsInv'
BY DEF ObjectsInv, Types, FieldsHold, CpusHold, Cpus, CpuSetsOwned

\* A failed __ensure.
LEMMA AbortInv ==
    ASSUME ThreadAttrInv, UNCHANGED <<alive, threadAttr, cpuSet, heap, asked, made, threadGot>>
    PROVE  ThreadAttrInv'
BY SameObjects DEF ThreadAttrInv, CreatedAsAsked, ReadBack

\* An object begins with the defaults and no block.
LEMMA InitStep ==
    ASSUME ThreadAttrInv, NEW a \in Attrs, AttrInit(a)
    PROVE  ThreadAttrInv'
<1>1. /\ a \notin alive /\ alive' = alive \cup {a} /\ heap' = heap
      /\ threadAttr' = [threadAttr EXCEPT ![a] = Fresh]
      /\ cpuSet' = [cpuSet EXCEPT ![a] = Null]
      /\ asked' = [asked EXCEPT ![a] = [fields |-> Fresh, cpus |-> EmptySet]]
  BY DEF AttrInit
<1> USE DEF ThreadAttrInv, ObjectsInv
<1>2. Types'
  BY <1>1, FreshFields DEF Types, AllCpuSets
<1>3. FieldsHold'
  BY <1>1, FreshFields DEF FieldsHold, Types
<1>4. \A b \in alive : b # a /\ cpuSet'[b] = cpuSet[b] /\ asked'[b] = asked[b]
  BY <1>1 DEF Types
<1>5. cpuSet'[a] = Null /\ asked'[a].cpus = EmptySet
  BY <1>1 DEF Types
<1>6. CpusHold'
  BY <1>1, <1>4, <1>5 DEF CpusHold, Cpus
<1>7. CpuSetsOwned'
  BY <1>1, <1>4, <1>5 DEF CpuSetsOwned
<1>8. QED
  BY <1>2, <1>3, <1>6, <1>7, QuietInv DEF AttrInit

\* The block goes with its object, and it is nobody else's.
LEMMA DestroyStep ==
    ASSUME ThreadAttrInv, NEW a \in Attrs, AttrDestroy(a)
    PROVE  ThreadAttrInv'
<1>1. /\ a \in alive /\ alive' = alive \ {a} /\ UNCHANGED <<threadAttr, cpuSet, asked>>
      /\ heap' = [b \in DOMAIN heap \ {cpuSet[a]} |-> heap[b]]
  BY DEF AttrDestroy
<1> USE DEF ThreadAttrInv, ObjectsInv
<1>2. Types' /\ FieldsHold'
  BY <1>1 DEF Types, FieldsHold
<1>3. \A b \in alive' : cpuSet[b] # Null => heap'[cpuSet[b]] = heap[cpuSet[b]]
                                            /\ cpuSet[b] \in DOMAIN heap'
  BY <1>1 DEF CpuSetsOwned
<1>4. CpusHold'
  BY <1>1, <1>3 DEF CpusHold, Cpus
<1>5. CpuSetsOwned'
  BY <1>1, <1>3 DEF CpuSetsOwned
<1>6. QED
  BY <1>2, <1>4, <1>5, QuietInv DEF AttrDestroy

\* The setters of fields.
LEMMA SetFieldStep ==
    ASSUME ThreadAttrInv, NEW a \in Attrs, NEW f \in Fields, NEW v \in Words, SetField(a, f, v)
    PROVE  ThreadAttrInv'
<1> USE DEF ThreadAttrInv, ObjectsInv
<1>1. /\ threadAttr' = [threadAttr EXCEPT ![a][f] = Stored(f, v)]
      /\ asked' = [asked EXCEPT ![a].fields[f] = v]
      /\ UNCHANGED <<alive, cpuSet, heap>> /\ v \in Int
  BY ThreadAttrAssumption DEF SetField
<1>2. Stored(f, v) \in Int
  BY <1>1, StoredTells
<1>3. Types'
  BY <1>1, <1>2 DEF Types
<1>4. FieldsHold'
  BY <1>1 DEF Types, FieldsHold
<1>5. \A b \in Attrs : asked'[b].cpus = asked[b].cpus
  BY <1>1 DEF Types
<1>6. CpusHold' /\ CpuSetsOwned'
  BY <1>1, <1>5 DEF Types, CpusHold, Cpus, CpuSetsOwned
<1>7. QED
  BY <1>3, <1>4, <1>6, QuietInv DEF SetField

LEMMA SetStackStep ==
    ASSUME ThreadAttrInv, NEW a \in Attrs, NEW v \in Words, NEW w \in Words, SetStack(a, v, w)
    PROVE  ThreadAttrInv'
<1> USE DEF ThreadAttrInv, ObjectsInv
<1>1. /\ threadAttr' = [threadAttr EXCEPT ![a]["stack"] = v, ![a]["stackSize"] = w]
      /\ asked' = [asked EXCEPT ![a].fields["stack"] = v, ![a].fields["stackSize"] = w]
      /\ UNCHANGED <<alive, cpuSet, heap>> /\ v \in Int /\ w \in Int
  BY ThreadAttrAssumption DEF SetStack
<1>2. {"stack", "stackSize"} \subseteq Fields \ OneBit
  BY DEF Fields, OneBit
<1>3. Types'
  BY <1>1, <1>2 DEF Types
<1>4. FieldsHold'
  BY <1>1, <1>2, SMTT(30) DEF Types, FieldsHold, Stored
<1>5. \A b \in Attrs : asked'[b].cpus = asked[b].cpus
  BY <1>1 DEF Types
<1>6. CpusHold' /\ CpuSetsOwned'
  BY <1>1, <1>5 DEF Types, CpusHold, Cpus, CpuSetsOwned
<1>7. QED
  BY <1>3, <1>4, <1>6, QuietInv DEF SetStack

\* The affinity goes to the block of the object, or to a new one.
LEMMA SetAffinityStep ==
    ASSUME ThreadAttrInv, NEW a \in Attrs, NEW whole \in BOOLEAN, NEW s \in CpuSets,
           SetAffinity(a, whole, s)
    PROVE  ThreadAttrInv'
<1> USE DEF ThreadAttrInv, ObjectsInv
<1>1. a \in alive
  BY DEF SetAffinity
<1>2. CASE UNCHANGED <<alive, threadAttr, cpuSet, heap, asked, made, threadGot>>
  BY <1>2, AbortInv
<1>3. CASE \E b \in Blocks : /\ IF cpuSet[a] # Null THEN b = cpuSet[a] ELSE b \notin DOMAIN heap
                             /\ cpuSet' = [cpuSet EXCEPT ![a] = b]
                             /\ heap' = [c \in DOMAIN heap \cup {b} |-> IF c = b THEN s ELSE heap[c]]
                             /\ asked' = [asked EXCEPT ![a].cpus = s]
                             /\ Quiet /\ UNCHANGED <<alive, threadAttr>>
  <2>1. PICK b \in Blocks : /\ IF cpuSet[a] # Null THEN b = cpuSet[a] ELSE b \notin DOMAIN heap
                            /\ cpuSet' = [cpuSet EXCEPT ![a] = b]
                            /\ heap' = [c \in DOMAIN heap \cup {b} |-> IF c = b THEN s ELSE heap[c]]
                            /\ asked' = [asked EXCEPT ![a].cpus = s]
                            /\ Quiet /\ UNCHANGED <<alive, threadAttr>>
    BY <1>3
  <2>2. b # Null
    BY <2>1, ThreadAttrAssumption
  <2>3. Types'
    BY <2>1 DEF Types, AllCpuSets
  <2>4. FieldsHold'
    BY <2>1 DEF Types, FieldsHold
  <2>5. cpuSet'[a] = b /\ heap'[b] = s /\ asked'[a].cpus = s
    BY <2>1 DEF Types
  <2>6. \A c \in alive \ {a} :
            /\ cpuSet'[c] = cpuSet[c] /\ cpuSet[c] # b /\ asked'[c].cpus = asked[c].cpus
            /\ cpuSet[c] # Null => cpuSet[c] \in DOMAIN heap /\ heap'[cpuSet[c]] = heap[cpuSet[c]]
    BY <1>1, <2>1, <2>2 DEF Types, CpuSetsOwned
  <2>7. CpusHold'
    <3>1. alive' = alive
      BY <2>1
    <3>2. Cpus(a)' = asked'[a].cpus
      BY <2>2, <2>5 DEF Cpus
    <3>3. ASSUME NEW c \in alive \ {a}
          PROVE  Cpus(c)' = asked'[c].cpus
      <4>1. Cpus(c)' = Cpus(c)
        BY <2>6 DEF Cpus
      <4>2. QED
        BY <2>6, <4>1 DEF CpusHold
    <3>4. QED
      BY <3>1, <3>2, <3>3 DEF CpusHold
  <2>8. DOMAIN heap' = {cpuSet'[c] : c \in alive'} \ {Null}
    <3>1. DOMAIN heap' = DOMAIN heap \cup {b}
      BY <2>1
    <3>2. DOMAIN heap \cup {b} = ({cpuSet[c] : c \in alive \ {a}} \ {Null}) \cup {b}
      BY <1>1, <2>1 DEF CpuSetsOwned
    <3>3. QED
      BY <1>1, <2>1, <2>2, <2>5, <2>6, <3>1, <3>2
  <2>9. CpuSetsOwned'
    BY <2>1, <2>2, <2>5, <2>6, <2>8 DEF CpuSetsOwned
  <2>10. QED
    BY <2>1, <2>3, <2>4, <2>7, <2>9, QuietInv
<1>4. QED
  BY <1>2, <1>3 DEF SetAffinity, Ensure

\* Getters.
LEMMA GetStep ==
    ASSUME ThreadAttrInv, NEW a \in Attrs,
           \/ \E f \in Fields : GetField(a, f)
           \/ \E whole \in BOOLEAN : GetAffinity(a, whole)
    PROVE  ThreadAttrInv'
<1> USE DEF ThreadAttrInv, ObjectsInv
<1>1. ASSUME NEW f \in Fields, GetField(a, f)
      PROVE  ThreadAttrInv'
  <2>1. /\ threadGot' = {[field |-> f, read |-> threadAttr[a][f], asked |-> asked[a].fields[f]]}
        /\ made' = {} /\ UNCHANGED <<alive, threadAttr, cpuSet, heap, asked>>
    BY <1>1 DEF GetField
  <2>2. IF f \in OneBit
        THEN asked[a].fields[f] \in Constants(f)
                => Given(f, Stored(f, threadAttr[a][f])) = asked[a].fields[f]
        ELSE threadAttr[a][f] = asked[a].fields[f]
    BY StoredTells DEF FieldsHold, Types
  <2>3. ReadBack' /\ CreatedAsAsked'
    BY <2>1, <2>2 DEF ReadBack, CreatedAsAsked
  <2>4. QED
    BY <2>1, <2>3, SameObjects
<1>2. ASSUME NEW whole \in BOOLEAN, GetAffinity(a, whole)
      PROVE  ThreadAttrInv'
  <2>1. CASE whole
    <3>1. /\ a \in alive
          /\ threadGot' = {[field |-> "cpus", read |-> Cpus(a), asked |-> asked[a].cpus]}
          /\ made' = {} /\ UNCHANGED <<alive, threadAttr, cpuSet, heap, asked>>
      BY <1>2, <2>1 DEF GetAffinity, Ensure
    <3>2. ReadBack' /\ CreatedAsAsked'
      BY <3>1 DEF ReadBack, CreatedAsAsked, CpusHold, OneBit
    <3>3. QED
      BY <3>1, <3>2, SameObjects
  <2>2. CASE ~whole
    BY <1>2, <2>2, AbortInv DEF GetAffinity, Ensure
  <2>3. QED
    BY <2>1, <2>2
<1>3. QED
  BY <1>1, <1>2

\* pthread_create.
LEMMA CreateStep ==
    ASSUME ThreadAttrInv, NEW a \in Attrs, Create(a)
    PROVE  ThreadAttrInv'
<1> USE DEF ThreadAttrInv, ObjectsInv
<1>1. /\ a \in alive
      /\ made' = {[real |-> [fields |-> [f \in Fields |-> Given(f, threadAttr[a][f])],
                             cpus |-> Cpus(a)],
                   asked |-> asked[a]]}
      /\ threadGot' = {} /\ UNCHANGED <<alive, threadAttr, cpuSet, heap, asked>>
  BY DEF Create
<1>2. \A f \in Fields : asked[a].fields[f] \in Constants(f)
                           => Given(f, threadAttr[a][f]) = asked[a].fields[f]
  BY StoredTells DEF FieldsHold, Types
<1>3. Cpus(a) = asked[a].cpus
  BY <1>1 DEF CpusHold
<1>4. CreatedAsAsked' /\ ReadBack'
  BY <1>1, <1>2, <1>3 DEF CreatedAsAsked, ReadBack, Constants
<1>5. QED
  BY <1>1, <1>4, SameObjects

\* ThreadAttrInv holds throughout.
LEMMA ThreadAttrInvariant == ThreadSpec => []ThreadAttrInv
<1>1. ThreadInit => ThreadAttrInv
  <2> SUFFICES ASSUME ThreadInit PROVE ThreadAttrInv
    OBVIOUS
  <2>1. Types
    BY FreshFields DEF ThreadInit, Types, AllCpuSets
  <2>2. FieldsHold
    BY FreshFields DEF ThreadInit, FieldsHold
  <2>3. CpusHold /\ CpuSetsOwned
    BY DEF ThreadInit, CpusHold, CpuSetsOwned
  <2>4. CreatedAsAsked /\ ReadBack
    BY DEF ThreadInit, CreatedAsAsked, ReadBack
  <2>5. QED
    BY <2>1, <2>2, <2>3, <2>4 DEF ThreadAttrInv, ObjectsInv
<1>2. ThreadAttrInv /\ [ThreadNext]_threadVars => ThreadAttrInv'
  <2> SUFFICES ASSUME ThreadAttrInv, [ThreadNext]_threadVars PROVE ThreadAttrInv'
    OBVIOUS
  <2>1. CASE UNCHANGED threadVars
    BY <2>1, AbortInv DEF threadVars
  <2>2. CASE ThreadNext
    <3>1. CASE NotImplemented
      BY <3>1, AbortInv DEF NotImplemented
    <3>2. Settable \subseteq Fields
      BY ThreadAttrAssumption
    <3>3. QED
      BY <2>2, <3>1, <3>2, InitStep, DestroyStep, SetFieldStep, SetStackStep,
         SetAffinityStep, GetStep, CreateStep DEF ThreadNext
  <2>3. QED
    BY <2>1, <2>2
<1>3. QED
  BY <1>1, <1>2, PTL DEF ThreadSpec

-----------------------------------------------------------------------------
(* Theorems                                                                *)

\* pthread_create passes on what the setters were given, if it is one of their
\* constants and whatever malloc returned.
THEOREM ThreadCreatedAsAsked == ThreadSpec => []CreatedAsAsked
<1>1. ThreadAttrInv => CreatedAsAsked
  BY DEF ThreadAttrInv
<1>2. QED
  BY <1>1, ThreadAttrInvariant, PTL

\* What a getter returns asks, given to the setter, for what was first set.
THEOREM ThreadReadBack == ThreadSpec => []ReadBack
<1>1. ThreadAttrInv => ReadBack
  BY DEF ThreadAttrInv
<1>2. QED
  BY <1>1, ThreadAttrInvariant, PTL

\* Blocks of affinities are neither shared, nor leaked, nor used after free.
THEOREM ThreadCpuSetsOwned == ThreadSpec => []CpuSetsOwned
<1>1. ThreadAttrInv => CpuSetsOwned
  BY DEF ThreadAttrInv, ObjectsInv
<1>2. QED
  BY <1>1, ThreadAttrInvariant, PTL

=============================================================================
