---------------------------- MODULE SyncAttrProofs ----------------------------
(***************************************************************************)
(* Proofs about SyncAttr, for whatever ints programs pass to the setters:  *)
(* the bit-fields always hold what was asked for, in the form the fields   *)
(* give it, and so do the objects that were initialised from them.         *)
(***************************************************************************)
EXTENDS SyncAttr, TLAPS

-----------------------------------------------------------------------------
(* The invariant                                                           *)

Wishes == [type : Meanings, robust : {Stalled, Robust},
           protocol : {PrioNone, PrioInherit, PrioProtect}, pshared : {Private, Shared}]
CondWishes == [pshared : {Private, Shared}, clock : Clocks]

\* What the two-bit and one-bit fields make of the numbers asked for.
TypeField(m) == IF m = "normal" THEN TimedNp ELSE IF m = "recursive" THEN RecursiveNp ELSE -2
ProtocolField(v) == IF v = PrioProtect THEN -2 ELSE v

FieldsOf(w) == [type |-> TypeField(w.type), robust |-> -w.robust,
                protocol |-> ProtocolField(w.protocol), pshared |-> -w.pshared]
CondFieldsOf(w) == [pshared |-> -w.pshared, clock |-> w.clock]

AttrsHold ==
    /\ wanted \in Wishes /\ attr = FieldsOf(wanted)
    /\ wantedCond \in CondWishes /\ condattr = CondFieldsOf(wantedCond)

MutexHolds ==
    /\ mutex.asked \in Wishes
    /\ mutex.type = TypeField(mutex.asked.type)
    /\ mutex.asked.robust = Stalled /\ mutex.asked.pshared = Private

CondHolds ==
    /\ cond.asked \in CondWishes
    /\ cond.clock = cond.asked.clock /\ cond.flags = -cond.asked.pshared

AbortHolds ==
    /\ result \in {"OK", "EINVAL"}
    /\ aborted \in {"none", "mutex_init", "cond_wait"}
    /\ aborted = "mutex_init" => wanted.robust = Robust \/ wanted.pshared = Shared
    /\ aborted = "cond_wait" => cond.asked.pshared = Shared

AttrInv == AttrsHold /\ MutexHolds /\ CondHolds /\ AbortHolds /\ GettersTell

-----------------------------------------------------------------------------
(* The bit-fields                                                          *)

\* What a store into the fields does to the numbers the setters let through.
LEMMA SmallFields ==
    /\ SignedField(1, 0) = 0 /\ SignedField(1, 1) = -1
    /\ SignedField(2, 0) = 0 /\ SignedField(2, 1) = 1 /\ SignedField(2, 2) = -2
<1>1. 2^1 = 2 /\ 2^(1 - 1) = 1 /\ 2^2 = 4 /\ 2^(2 - 1) = 2
  OBVIOUS
<1>2. QED
  BY <1>1 DEF SignedField

\* The type stored is that of the meaning, in either numbering.
LEMMA TypeOfMeaning ==
    ASSUME NEW c \in {"glibc", "mlibc"}, NEW v,
           Translated(c, v) \in {TimedNp, RecursiveNp, ErrorCheckNp}
    PROVE  /\ Meaning(c, v) \in Meanings
           /\ SignedField(2, Translated(c, v)) = TypeField(Meaning(c, v))
<1>1. v \in {0, 1, 2}
  BY DEF Translated, TimedNp, RecursiveNp, ErrorCheckNp
<1>2. CASE v = 0
  BY <1>2, SmallFields DEF Translated, Meaning, Meanings, TypeField, TimedNp
<1>3. CASE v = 1
  BY <1>3, SmallFields DEF Translated, Meaning, Meanings, TypeField, TimedNp, RecursiveNp, ErrorCheckNp
<1>4. CASE v = 2
  BY <1>4, SmallFields DEF Translated, Meaning, Meanings, TypeField, TimedNp, RecursiveNp, ErrorCheckNp
<1>5. QED
  BY <1>1, <1>2, <1>3, <1>4

-----------------------------------------------------------------------------
(* Steps                                                                   *)

\* A call that only answers, and refuses or reads nothing.
LEMMA AnswerInv ==
    ASSUME AttrInv, NEW r \in {"OK", "EINVAL"}, aborted = "none", Answer(r)
    PROVE  AbortHolds' /\ GettersTell'
BY DEF AttrInv, AbortHolds, Answer, GettersTell, NothingGot

\* A refusal.
LEMMA RefuseInv ==
    ASSUME AttrInv, aborted = "none", Refuse, UNCHANGED <<mutex, cond>>
    PROVE  AttrInv'
BY AnswerInv DEF Refuse, AttrInv, AttrsHold, MutexHolds, CondHolds

\* A setter of the mutex attribute.
LEMMA MutexattrInv ==
    ASSUME AttrInv, aborted = "none", Answer("OK"),
           UNCHANGED <<condattr, wantedCond, mutex, cond>>,
           wanted' \in Wishes, attr' = FieldsOf(wanted')
    PROVE  AttrInv'
BY AnswerInv DEF AttrInv, AttrsHold, MutexHolds, CondHolds

\* A setter of the condition attribute.
LEMMA CondattrInv ==
    ASSUME AttrInv, aborted = "none", Answer("OK"),
           UNCHANGED <<attr, wanted, mutex, cond>>,
           wantedCond' \in CondWishes, condattr' = CondFieldsOf(wantedCond')
    PROVE  AttrInv'
BY AnswerInv DEF AttrInv, AttrsHold, MutexHolds, CondHolds

\* pthread_mutexattr_init, settype and the other setters.
LEMMA MutexattrStep ==
    ASSUME AttrInv, aborted = "none", NEW v \in Values, NEW c \in Callers,
           \/ MutexattrReset \/ MutexattrSettype(c, v) \/ MutexattrSetrobust(v)
           \/ MutexattrSetpshared(v) \/ MutexattrSetprotocol(v)
    PROVE  AttrInv'
<1> USE SmallFields DEF AttrInv, AttrsHold, Wishes, FieldsOf
<1>1. CASE MutexattrReset
  <2>1. FreshWanted \in Wishes /\ FreshAttr = FieldsOf(FreshWanted)
    BY DEF FreshWanted, FreshAttr, Meanings, Stalled, Robust, PrioNone, PrioInherit,
           PrioProtect, Private, Shared, TypeField, ProtocolField, TimedNp
  <2>2. QED
    BY <1>1, <2>1, MutexattrInv DEF MutexattrReset
<1>2. CASE MutexattrSettype(c, v)
  <2>1. CASE Translated(c, v) \in {TimedNp, RecursiveNp, ErrorCheckNp}
    <3>1. /\ Meaning(c, v) \in Meanings
          /\ SignedField(2, Translated(c, v)) = TypeField(Meaning(c, v))
      BY <2>1, TypeOfMeaning, AttrAssumption
    <3>2. /\ attr' = [attr EXCEPT !.type = SignedField(2, Translated(c, v))]
          /\ wanted' = [wanted EXCEPT !.type = Meaning(c, v)]
          /\ Answer("OK") /\ UNCHANGED <<condattr, wantedCond, mutex, cond>>
      BY <1>2, <2>1 DEF MutexattrSettype
    <3>3. QED
      BY <3>1, <3>2, MutexattrInv
  <2>2. CASE Translated(c, v) \notin {TimedNp, RecursiveNp, ErrorCheckNp}
    BY <1>2, <2>2, RefuseInv DEF MutexattrSettype
  <2>3. QED
    BY <2>1, <2>2
<1>3. CASE MutexattrSetrobust(v)
  <2>1. CASE v \in {Stalled, Robust}
    <3>1. SignedField(1, v) = -v
      BY <2>1 DEF Stalled, Robust
    <3>2. QED
      BY <1>3, <2>1, <3>1, MutexattrInv DEF MutexattrSetrobust
  <2>2. QED
    BY <1>3, <2>1, RefuseInv DEF MutexattrSetrobust
<1>4. CASE MutexattrSetpshared(v)
  <2>1. CASE v \in {Private, Shared}
    <3>1. SignedField(1, v) = -v
      BY <2>1 DEF Private, Shared
    <3>2. QED
      BY <1>4, <2>1, <3>1, MutexattrInv DEF MutexattrSetpshared
  <2>2. QED
    BY <1>4, <2>1, RefuseInv DEF MutexattrSetpshared
<1>5. CASE MutexattrSetprotocol(v)
  <2>1. CASE v \in {PrioNone, PrioInherit, PrioProtect}
    <3>1. SignedField(2, v) = ProtocolField(v)
      BY <2>1 DEF PrioNone, PrioInherit, PrioProtect, ProtocolField
    <3>2. QED
      BY <1>5, <2>1, <3>1, MutexattrInv DEF MutexattrSetprotocol
  <2>2. QED
    BY <1>5, <2>1, RefuseInv DEF MutexattrSetprotocol
<1>6. QED
  BY <1>1, <1>2, <1>3, <1>4, <1>5

\* The condition attribute.
LEMMA CondattrStep ==
    ASSUME AttrInv, aborted = "none", NEW v \in Values,
           CondattrReset \/ CondattrSetclock(v) \/ CondattrSetpshared(v)
    PROVE  AttrInv'
<1> USE SmallFields DEF AttrInv, AttrsHold, CondWishes, CondFieldsOf
<1>1. CASE CondattrReset
  <2>1. FreshCondattr \in CondWishes /\ FreshCondattr = CondFieldsOf(FreshCondattr)
    BY DEF FreshCondattr, Private, Shared, Realtime, Clocks
  <2>2. QED
    BY <1>1, <2>1, CondattrInv DEF CondattrReset
<1>2. CASE CondattrSetclock(v)
  <2>1. CASE v \in Clocks
    BY <1>2, <2>1, CondattrInv DEF CondattrSetclock
  <2>2. QED
    BY <1>2, <2>1, RefuseInv DEF CondattrSetclock
<1>3. CASE CondattrSetpshared(v)
  <2>1. CASE v \in {Private, Shared}
    <3>1. SignedField(1, v) = -v
      BY <2>1 DEF Private, Shared
    <3>2. QED
      BY <1>3, <2>1, <3>1, CondattrInv DEF CondattrSetpshared
  <2>2. QED
    BY <1>3, <2>1, RefuseInv DEF CondattrSetpshared
<1>4. QED
  BY <1>1, <1>2, <1>3

\* The getters.
LEMMA GetStep ==
    ASSUME AttrInv, aborted = "none",
           \/ \E f \in DOMAIN attr : MutexattrGet(f)
           \/ \E f \in DOMAIN condattr : CondattrGet(f)
    PROVE  AttrInv'
<1>1. /\ result' = "OK"
      /\ UNCHANGED <<attr, condattr, wanted, wantedCond, mutex, cond, aborted>>
  BY DEF MutexattrGet, CondattrGet, Get
<1>2. AttrsHold' /\ MutexHolds' /\ CondHolds' /\ AbortHolds'
  BY <1>1 DEF AttrInv, AttrsHold, MutexHolds, CondHolds, AbortHolds
<1>3. GettersTell'
  <2>1. CASE \E f \in DOMAIN attr : MutexattrGet(f)
    <3>1. PICK f \in DOMAIN attr : MutexattrGet(f)
      BY <2>1
    <3>2. f \in {"type", "robust", "protocol", "pshared"}
      BY <3>1 DEF AttrInv, AttrsHold, FieldsOf
    <3>3. got' = [field |-> f, value |-> attr[f], asked |-> wanted[f]]
      BY <3>1 DEF MutexattrGet, Get
    <3>4. wanted \in Wishes /\ attr = FieldsOf(wanted)
      BY DEF AttrInv, AttrsHold
    <3>5. CASE f = "type"
      BY <3>3, <3>4, <3>5 DEF GettersTell, Wishes, FieldsOf, TypeField, Meanings,
             TimedNp, RecursiveNp
    <3>6. CASE f # "type"
      <4>1. wanted[f] \in {0, 1, 2} /\ (attr[f] = 0 <=> wanted[f] = 0)
        BY <3>2, <3>4, <3>6 DEF Wishes, FieldsOf, ProtocolField, PrioNone, PrioInherit,
               PrioProtect, Private, Shared, Stalled, Robust
      <4>2. QED
        BY <3>2, <3>3, <3>6, <4>1 DEF GettersTell
    <3>7. QED
      BY <3>5, <3>6
  <2>2. CASE \E f \in DOMAIN condattr : CondattrGet(f)
    <3>1. PICK f \in DOMAIN condattr : CondattrGet(f)
      BY <2>2
    <3>2. f \in {"pshared", "clock"}
      BY <3>1 DEF AttrInv, AttrsHold, CondFieldsOf
    <3>3. got' = [field |-> f, value |-> condattr[f], asked |-> wantedCond[f]]
      BY <3>1 DEF CondattrGet, Get
    <3>4. wantedCond \in CondWishes /\ condattr = CondFieldsOf(wantedCond)
      BY DEF AttrInv, AttrsHold
    <3>5. QED
      BY <3>2, <3>3, <3>4 DEF GettersTell, CondWishes, CondFieldsOf, Private, Shared
  <2>3. QED
    BY <2>1, <2>2
<1>4. QED
  BY <1>2, <1>3 DEF AttrInv

\* pthread_mutex_init: its assertions see what robust and pshared were set to.
LEMMA MutexInitStep ==
    ASSUME AttrInv, aborted = "none", NEW c, NEW a, NEW w \in Wishes, a = FieldsOf(w),
           w = wanted \/ w = FreshWanted, MutexInit(c, a, w)
    PROVE  AttrInv'
<1>1. Supported(a) <=> w.robust = Stalled /\ w.pshared = Private
  BY DEF Supported, FieldsOf, Wishes, Stalled, Robust, Private, Shared
<1>2. UNCHANGED <<attr, condattr, wanted, wantedCond, cond>>
  BY DEF MutexInit
<1>3. CASE Supported(a)
  <2>1. mutex' = [caller |-> c, type |-> a.type, asked |-> w] /\ Answer("OK")
    BY <1>3 DEF MutexInit
  <2>2. MutexHolds'
    BY <1>1, <1>3, <2>1 DEF MutexHolds, FieldsOf
  <2>3. QED
    BY <1>2, <2>1, <2>2, AnswerInv DEF AttrInv, AttrsHold, CondHolds
<1>4. CASE ~Supported(a)
  <2>1. aborted' = "mutex_init" /\ UNCHANGED <<mutex, result, got>>
    BY <1>4 DEF MutexInit
  <2>2. w # FreshWanted /\ (w.robust = Robust \/ w.pshared = Shared)
    BY <1>1, <1>4 DEF FreshWanted, Wishes, Stalled, Robust, Private, Shared
  <2>3. QED
    BY <1>2, <2>1, <2>2 DEF AttrInv, AttrsHold, MutexHolds, CondHolds, AbortHolds, GettersTell
<1>5. QED
  BY <1>3, <1>4

\* pthread_cond_init, and the assertion of a wait.
LEMMA CondStep ==
    ASSUME AttrInv, aborted = "none",
           \/ CondInit(condattr, wantedCond) \/ CondInit(FreshCondattr, FreshCondattr)
           \/ CondWaitAsserts
    PROVE  AttrInv'
<1>1. FreshCondattr \in CondWishes /\ FreshCondattr = CondFieldsOf(FreshCondattr)
  BY DEF FreshCondattr, CondWishes, CondFieldsOf, Private, Shared, Realtime, Clocks
<1>2. ASSUME NEW a, NEW w \in CondWishes, a = CondFieldsOf(w), CondInit(a, w)
      PROVE  AttrInv'
  <2>1. CondHolds'
    BY <1>2 DEF CondInit, CondHolds, CondFieldsOf
  <2>2. QED
    BY <1>2, <2>1, AnswerInv DEF CondInit, AttrInv, AttrsHold, MutexHolds
<1>3. CASE CondWaitAsserts
  <2>1. cond.flags = 0 <=> cond.asked.pshared # Shared
    BY DEF AttrInv, CondHolds, CondWishes, Private, Shared
  <2>2. UNCHANGED <<attr, condattr, wanted, wantedCond, mutex, cond>>
    BY <1>3 DEF CondWaitAsserts
  <2>3. CASE cond.flags = 0
    BY <1>3, <2>2, <2>3, AnswerInv
       DEF CondWaitAsserts, AttrInv, AttrsHold, MutexHolds, CondHolds
  <2>4. CASE cond.flags # 0
    BY <1>3, <2>1, <2>2, <2>4
       DEF CondWaitAsserts, AttrInv, AttrsHold, MutexHolds, CondHolds, AbortHolds, GettersTell
  <2>5. QED
    BY <2>3, <2>4
<1>4. QED
  BY <1>1, <1>2, <1>3 DEF AttrInv, AttrsHold

\* Every call keeps the invariant.
LEMMA AttrInvariant == Spec => []AttrInv
<1>1. FreshWanted \in Wishes /\ FreshAttr = FieldsOf(FreshWanted)
  BY DEF FreshWanted, FreshAttr, Wishes, FieldsOf, Meanings, Stalled, Robust, PrioNone,
         PrioInherit, PrioProtect, Private, Shared, TypeField, ProtocolField, TimedNp
<1>2. FreshCondattr \in CondWishes /\ FreshCondattr = CondFieldsOf(FreshCondattr)
  BY DEF FreshCondattr, CondWishes, CondFieldsOf, Private, Shared, Realtime, Clocks
<1>3. Init => AttrInv
  <2> SUFFICES ASSUME Init PROVE AttrInv
    OBVIOUS
  <2>1. AttrsHold
    BY <1>1, <1>2 DEF Init, AttrsHold
  <2>2. MutexHolds
    BY <1>1 DEF Init, MutexHolds, StaticMutex, FreshWanted, TypeField
  <2>3. CondHolds
    BY <1>2 DEF Init, CondHolds, StaticCond, FreshCondattr, Private
  <2>4. AbortHolds /\ GettersTell
    BY DEF Init, AbortHolds, GettersTell, NothingGot
  <2>5. QED
    BY <2>1, <2>2, <2>3, <2>4 DEF AttrInv
<1>4. AttrInv /\ [Next]_attrVars => AttrInv'
  <2> SUFFICES ASSUME AttrInv, [Next]_attrVars PROVE AttrInv'
    OBVIOUS
  <2>1. CASE UNCHANGED attrVars
    BY <2>1 DEF attrVars, AttrInv, AttrsHold, MutexHolds, CondHolds, AbortHolds, GettersTell
  <2>2. CASE Next
    <3>1. aborted = "none"
      BY <2>2 DEF Next
    <3>2. CASE MutexattrPrioceiling
      BY <3>1, <3>2, RefuseInv DEF MutexattrPrioceiling
    <3>3. CASE MutexattrReset
      <4>1. wanted' \in Wishes /\ attr' = FieldsOf(wanted')
        BY <1>1, <3>3 DEF MutexattrReset
      <4>2. QED
        BY <3>1, <3>3, <4>1, MutexattrInv DEF MutexattrReset
    <3>4. CASE CondattrReset
      <4>1. wantedCond' \in CondWishes /\ condattr' = CondFieldsOf(wantedCond')
        BY <1>2, <3>4 DEF CondattrReset
      <4>2. QED
        BY <3>1, <3>4, <4>1, CondattrInv DEF CondattrReset
    <3>5. ASSUME NEW v \in Values,
                 \/ \E c \in Callers : MutexattrSettype(c, v)
                 \/ MutexattrSetrobust(v) \/ MutexattrSetpshared(v)
                 \/ MutexattrSetprotocol(v)
          PROVE  AttrInv'
      <4>1. Callers # {}
        BY AttrAssumption
      <4>2. QED
        BY <3>1, <3>5, <4>1, MutexattrStep
    <3>6. ASSUME NEW v \in Values, CondattrSetclock(v) \/ CondattrSetpshared(v)
          PROVE  AttrInv'
      BY <3>1, <3>6, CondattrStep
    <3>7. ASSUME NEW c \in Callers,
                 MutexInit(c, attr, wanted) \/ MutexInit(c, FreshAttr, FreshWanted)
          PROVE  AttrInv'
      BY <1>1, <3>1, <3>7, MutexInitStep DEF AttrInv, AttrsHold
    <3>8. QED
      BY <2>2, <3>1, <3>2, <3>3, <3>4, <3>5, <3>6, <3>7, GetStep, CondStep DEF Next
  <2>3. QED
    BY <2>1, <2>2
<1>5. QED
  BY <1>3, <1>4, PTL DEF Spec

-----------------------------------------------------------------------------
(* Theorems                                                                *)

\* The fields of the attributes stay within their bits.
THEOREM AttrTypes == Spec => []AttrTypeOK
<1>1. AttrInv => AttrTypeOK
  <2> SUFFICES ASSUME AttrInv PROVE AttrTypeOK
    OBVIOUS
  <2>1. TypeField(wanted.type) \in -2 .. 1 /\ ProtocolField(wanted.protocol) \in -2 .. 1
    BY DEF AttrInv, AttrsHold, Wishes, Meanings, TypeField, ProtocolField, TimedNp,
           RecursiveNp, PrioNone, PrioInherit, PrioProtect
  <2>2. -wanted.robust \in -1 .. 0 /\ -wanted.pshared \in -1 .. 0
    BY DEF AttrInv, AttrsHold, Wishes, Stalled, Robust, Private, Shared
  <2>3. -wantedCond.pshared \in -1 .. 0 /\ wantedCond.clock \in Clocks
    BY DEF AttrInv, AttrsHold, CondWishes, Private, Shared
  <2>4. QED
    BY <2>1, <2>2, <2>3 DEF AttrInv, AttrsHold, AbortHolds, FieldsOf, CondFieldsOf, AttrTypeOK
<1>2. QED
  BY <1>1, AttrInvariant, PTL

\* A mutex is recursive exactly if that was asked for, by either numbering.
THEOREM AttrRecursiveSurvives == Spec => []RecursiveSurvives
<1>1. AttrInv => RecursiveSurvives
  BY DEF AttrInv, MutexHolds, RecursiveSurvives, TypeField, Wishes, Meanings, TimedNp, RecursiveNp
<1>2. QED
  BY <1>1, AttrInvariant, PTL

\* init accepts no attribute that asks for a robust or shared mutex.
THEOREM AttrUnsupportedIsNoticed == Spec => []UnsupportedIsNoticed
<1>1. AttrInv => UnsupportedIsNoticed
  BY DEF AttrInv, MutexHolds, AbortHolds, UnsupportedIsNoticed
<1>2. QED
  BY <1>1, AttrInvariant, PTL

\* The clock of a condition variable is the one last set, and a shared one is
\* noticed by the first wait.
THEOREM AttrClockSurvives == Spec => []ClockSurvives
<1>1. AttrInv => ClockSurvives
  BY DEF AttrInv, CondHolds, AbortHolds, ClockSurvives, CondWishes, Private, Shared
<1>2. QED
  BY <1>1, AttrInvariant, PTL

\* A getter answers with the default exactly if that was asked for.
THEOREM AttrGettersTell == Spec => []GettersTell
<1>1. AttrInv => GettersTell
  BY DEF AttrInv
<1>2. QED
  BY <1>1, AttrInvariant, PTL

\* A refused value leaves both attributes as they were.
THEOREM AttrRefusals == Spec => RefusalChangesNothing
<1>1. [Next]_attrVars => [result' = "EINVAL" => UNCHANGED <<attr, condattr>>]_attrVars
  <2> SUFFICES ASSUME Next, result' = "EINVAL" PROVE UNCHANGED <<attr, condattr>>
    OBVIOUS
  <2>1. ~Answer("OK")
    BY DEF Answer
  <2>2. ASSUME NEW v, NEW c,
               \/ MutexattrSettype(c, v) \/ MutexattrSetrobust(v) \/ MutexattrSetpshared(v)
               \/ MutexattrSetprotocol(v) \/ CondattrSetclock(v) \/ CondattrSetpshared(v)
        PROVE  UNCHANGED <<attr, condattr>>
    BY <2>1, <2>2 DEF MutexattrSettype, MutexattrSetrobust, MutexattrSetpshared,
           MutexattrSetprotocol, CondattrSetclock, CondattrSetpshared, Refuse
  <2>3. QED
    BY <2>1, <2>2 DEF Next, MutexattrReset, CondattrReset, MutexattrPrioceiling, Refuse,
           MutexattrGet, CondattrGet, Get, MutexInit, CondInit, CondWaitAsserts
<1>2. QED
  BY <1>1, PTL DEF Spec, RefusalChangesNothing

=============================================================================
