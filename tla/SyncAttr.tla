------------------------------- MODULE SyncAttr -------------------------------
(***************************************************************************)
(* The attribute objects of mutexes and condition variables, and the two   *)
(* init functions that read them (src/mlibc_thread.cpp).  Every field of   *)
(* an attribute is a bit-field of an int: what a setter accepts and what   *)
(* init finds need not be the same number.                                 *)
(*                                                                         *)
(* wanted and wantedCond are history: what the last successful setters     *)
(* asked for, in terms of meaning, not of a header's numbering.            *)
(***************************************************************************)
EXTENDS Bitfields

CONSTANTS Callers,  \* classes of code that call: "glibc", "mlibc"
          Values    \* the ints programs pass to the setters

\* Type numbers as stored, which are glibc's, and the other constants.
TimedNp == 0
RecursiveNp == 1
ErrorCheckNp == 2
Stalled == 0
Robust == 1
PrioNone == 0
PrioInherit == 1
PrioProtect == 2
Private == 0
Shared == 1

\* CLOCK_REALTIME, MONOTONIC, MONOTONIC_RAW, REALTIME_COARSE,
\* MONOTONIC_COARSE and BOOTTIME, as Linux numbers them.
Realtime == 0
Clocks == {Realtime, 1, 4, 5, 6, 7}

ASSUME AttrAssumption ==
    /\ Callers # {} /\ Callers \subseteq {"glibc", "mlibc"}
    /\ Values \subseteq Int

VARIABLES attr,       \* Mutexattr
          condattr,   \* Condattr
          mutex,      \* what the last __pthread_mutex_init left
          cond,       \* what the last __pthread_cond_init left
          wanted, wantedCond,
          result,     \* what the last call returned
          got,        \* what the last getter stored, and the wish then
          aborted     \* the __ensure that ended the process, or "none"

attrVars == <<attr, condattr, mutex, cond, wanted, wantedCond, result, got,
              aborted>>

\* The types by meaning.
Meanings == {"normal", "recursive", "errorcheck"}

FreshAttr == [type |-> 0, robust |-> 0, protocol |-> 0, pshared |-> 0]
FreshWanted == [type |-> "normal", robust |-> Stalled,
                protocol |-> PrioNone, pshared |-> Private]
FreshCondattr == [pshared |-> Private, clock |-> Realtime]

\* Static initialisers are zero bytes.
StaticMutex == [caller |-> "static", type |-> TimedNp, asked |-> FreshWanted]
NothingGot == [field |-> "none", value |-> 0, asked |-> 0]
StaticCond == [clock |-> Realtime, flags |-> 0, asked |-> FreshCondattr]

Init ==
    /\ attr = FreshAttr /\ wanted = FreshWanted
    /\ condattr = FreshCondattr /\ wantedCond = FreshCondattr
    /\ mutex = StaticMutex /\ cond = StaticCond
    /\ result = "OK" /\ got = NothingGot
    /\ aborted = "none"

Answer(r) == result' = r /\ got' = NothingGot /\ UNCHANGED aborted

Refuse == Answer("EINVAL") /\ UNCHANGED <<attr, condattr, wanted, wantedCond>>

-----------------------------------------------------------------------------
(* Mutex attributes                                                        *)

\* pthread_mutexattr_init, and pthread_mutexattr_destroy, which clears it all.
MutexattrReset ==
    /\ attr' = FreshAttr /\ wanted' = FreshWanted
    /\ Answer("OK")
    /\ UNCHANGED <<condattr, wantedCond, mutex, cond>>

\* What a number means in the headers of each class of caller.
Meaning(c, v) ==
    CASE v = 0 -> "normal"
      [] v = 1 -> IF c = "glibc" THEN "recursive" ELSE "errorcheck"
      [] v = 2 -> IF c = "glibc" THEN "errorcheck" ELSE "recursive"

\* Mutant: no translation for mlibc callers.
Untranslated(c, v) == v

\* mlibc numbers the types differently.
Translated(c, v) ==
    IF c = "mlibc" /\ v = 1 THEN ErrorCheckNp
    ELSE IF c = "mlibc" /\ v = 2 THEN RecursiveNp
    ELSE v

MutexattrSettype(c, v) ==
    /\ \/ /\ Translated(c, v) \in {TimedNp, RecursiveNp, ErrorCheckNp}
          /\ attr' = [attr EXCEPT !.type = SignedField(2, Translated(c, v))]
          /\ wanted' = [wanted EXCEPT !.type = Meaning(c, v)]
          /\ Answer("OK") /\ UNCHANGED <<condattr, wantedCond>>
       \/ /\ Translated(c, v) \notin {TimedNp, RecursiveNp, ErrorCheckNp}
          /\ Refuse
    /\ UNCHANGED <<mutex, cond>>

MutexattrSetrobust(v) ==
    /\ \/ /\ v \in {Stalled, Robust}
          /\ attr' = [attr EXCEPT !.robust = SignedField(1, v)]
          /\ wanted' = [wanted EXCEPT !.robust = v]
          /\ Answer("OK") /\ UNCHANGED <<condattr, wantedCond>>
       \/ v \notin {Stalled, Robust} /\ Refuse
    /\ UNCHANGED <<mutex, cond>>

MutexattrSetpshared(v) ==
    /\ \/ /\ v \in {Private, Shared}
          /\ attr' = [attr EXCEPT !.pshared = SignedField(1, v)]
          /\ wanted' = [wanted EXCEPT !.pshared = v]
          /\ Answer("OK") /\ UNCHANGED <<condattr, wantedCond>>
       \/ v \notin {Private, Shared} /\ Refuse
    /\ UNCHANGED <<mutex, cond>>

\* Mutant: one bit for three protocols.
MutexattrSetprotocolOneBit(v) ==
    /\ \/ /\ v \in {PrioNone, PrioInherit, PrioProtect}
          /\ attr' = [attr EXCEPT !.protocol = SignedField(1, v)]
          /\ wanted' = [wanted EXCEPT !.protocol = v]
          /\ Answer("OK") /\ UNCHANGED <<condattr, wantedCond>>
       \/ v \notin {PrioNone, PrioInherit, PrioProtect} /\ Refuse
    /\ UNCHANGED <<mutex, cond>>

MutexattrSetprotocol(v) ==
    /\ \/ /\ v \in {PrioNone, PrioInherit, PrioProtect}
          /\ attr' = [attr EXCEPT !.protocol = SignedField(2, v)]
          /\ wanted' = [wanted EXCEPT !.protocol = v]
          /\ Answer("OK") /\ UNCHANGED <<condattr, wantedCond>>
       \/ v \notin {PrioNone, PrioInherit, PrioProtect} /\ Refuse
    /\ UNCHANGED <<mutex, cond>>

\* A getter of field f of object a stores the field into an int, sign-extended
\* and, for types, in the numbering of glibc.
Get(a, w, f) ==
    /\ got' = [field |-> f, value |-> a[f], asked |-> w[f]]
    /\ result' = "OK"
    /\ UNCHANGED <<attr, condattr, wanted, wantedCond, mutex, cond, aborted>>

MutexattrGet(f) == Get(attr, wanted, f)
CondattrGet(f) == Get(condattr, wantedCond, f)

\* Priority ceilings are not implemented: both calls fail.
MutexattrPrioceiling == Refuse /\ UNCHANGED <<mutex, cond>>

-----------------------------------------------------------------------------
(* Mutexes                                                                 *)

\* Mutant: the fields are compared with the constants the setters took.
SupportedByName(a) == a.robust # Robust /\ a.pshared # Shared

\* The two assertions at the end of init.
Supported(a) == a.robust = 0 /\ a.pshared = 0

\* pthread_mutex_init(mutex, a) called by code of class c; asked is what the
\* caller had put into a.  The type goes where calls of that class look for it.
MutexInit(c, a, asked) ==
    /\ IF Supported(a)
       THEN /\ mutex' = [caller |-> c, type |-> a.type, asked |-> asked]
            /\ Answer("OK")
       ELSE /\ aborted' = "mutex_init"
            /\ UNCHANGED <<mutex, result, got>>
    /\ UNCHANGED <<attr, condattr, wanted, wantedCond, cond>>

-----------------------------------------------------------------------------
(* Condition variables                                                     *)

CondattrReset ==
    /\ condattr' = FreshCondattr /\ wantedCond' = FreshCondattr
    /\ Answer("OK")
    /\ UNCHANGED <<attr, wanted, mutex, cond>>

CondattrSetclock(v) ==
    /\ \/ /\ v \in Clocks
          /\ condattr' = [condattr EXCEPT !.clock = v]
          /\ wantedCond' = [wantedCond EXCEPT !.clock = v]
          /\ Answer("OK") /\ UNCHANGED <<attr, wanted>>
       \/ v \notin Clocks /\ Refuse
    /\ UNCHANGED <<mutex, cond>>

CondattrSetpshared(v) ==
    /\ \/ /\ v \in {Private, Shared}
          /\ condattr' = [condattr EXCEPT !.pshared = SignedField(1, v)]
          /\ wantedCond' = [wantedCond EXCEPT !.pshared = v]
          /\ Answer("OK") /\ UNCHANGED <<attr, wanted>>
       \/ v \notin {Private, Shared} /\ Refuse
    /\ UNCHANGED <<mutex, cond>>

\* Mutant: a null attribute leaves the clock as it was.
CondInitKeepsClock(a, asked) ==
    /\ cond' = [clock |-> IF a = FreshCondattr
                          THEN cond.clock ELSE a.clock,
                flags |-> a.pshared, asked |-> asked]
    /\ Answer("OK")
    /\ UNCHANGED <<attr, condattr, wanted, wantedCond, mutex>>

\* pthread_cond_init: clock and pshared are copied; nothing is refused here.
CondInit(a, asked) ==
    /\ cond' = [clock |-> a.clock, flags |-> a.pshared, asked |-> asked]
    /\ Answer("OK")
    /\ UNCHANGED <<attr, condattr, wanted, wantedCond, mutex>>

\* The first assertion of a wait: pshared is not supported.
CondWaitAsserts ==
    /\ IF cond.flags = 0
       THEN Answer("OK")
       ELSE aborted' = "cond_wait" /\ UNCHANGED <<result, got>>
    /\ UNCHANGED <<attr, condattr, wanted, wantedCond, mutex, cond>>

-----------------------------------------------------------------------------

Next ==
    /\ aborted = "none"
    /\ \/ MutexattrReset \/ MutexattrPrioceiling \/ CondattrReset
       \/ \E f \in DOMAIN attr : MutexattrGet(f)
       \/ \E f \in DOMAIN condattr : CondattrGet(f)
       \/ \E v \in Values :
             \/ \E c \in Callers : MutexattrSettype(c, v)
             \/ MutexattrSetrobust(v) \/ MutexattrSetpshared(v)
             \/ MutexattrSetprotocol(v)
             \/ CondattrSetclock(v) \/ CondattrSetpshared(v)
       \/ \E c \in Callers :
             \/ MutexInit(c, attr, wanted)
             \/ MutexInit(c, FreshAttr, FreshWanted)    \* a null pointer
       \/ CondInit(condattr, wantedCond)
       \/ CondInit(FreshCondattr, FreshCondattr)        \* a null pointer
       \/ CondWaitAsserts

Spec == Init /\ [][Next]_attrVars

-----------------------------------------------------------------------------
(* Properties                                                              *)

\* Every field stays within its bits, whatever is passed to the setters.
AttrTypeOK ==
    /\ attr \in [type : -2 .. 1, robust : -1 .. 0, protocol : -2 .. 1,
                 pshared : -1 .. 0]
    /\ condattr \in [pshared : -1 .. 0, clock : Clocks]
    /\ result \in {"OK", "EINVAL"}
    /\ aborted \in {"none", "mutex_init", "cond_wait"}

\* A mutex that init accepts is recursive exactly if the type last set was
\* recursive, through the numbering of mlibc as well as that of glibc.
RecursiveSurvives ==
    mutex.type = RecursiveNp <=> mutex.asked.type = "recursive"

\* Robust and process-shared mutexes are not supported, and asking for one is
\* never forgotten on the way: init accepts no such attribute.
UnsupportedIsNoticed ==
    /\ mutex.asked.robust = Stalled /\ mutex.asked.pshared = Private
    /\ aborted = "mutex_init" => wanted.robust = Robust \/ wanted.pshared = Shared

\* A condition variable measures abstime on the clock its attribute was last
\* given, and a wait on it dies exactly if it was made process-shared.
ClockSurvives ==
    /\ cond.clock = cond.asked.clock
    /\ cond.flags # 0 <=> cond.asked.pshared = Shared
    /\ aborted = "cond_wait" => cond.asked.pshared = Shared

\* A getter answers 0 exactly if the default was last asked for, 1 for a type
\* exactly if it is recursive, and the very clock: of what was asked, only
\* the sign and the numbering can be lost on the way through the bit-fields.
GettersTell ==
    CASE got.field = "none" -> TRUE
      [] got.field = "type" ->
             /\ got.value = TimedNp <=> got.asked = "normal"
             /\ got.value = RecursiveNp <=> got.asked = "recursive"
      [] got.field = "clock" -> got.value = got.asked
      [] OTHER -> got.value = 0 <=> got.asked = 0

\* A setter that refuses a value leaves the attributes alone.
RefusalChangesNothing ==
    [][result' = "EINVAL" => UNCHANGED <<attr, condattr>>]_attrVars

=============================================================================
