----------------------------- MODULE MCAttributes -----------------------------
(***************************************************************************)
(* SyncAttr and ThreadAttr in one instance for TLC.  They share nothing,   *)
(* so a behaviour is of one of them.                                       *)
(*                                                                         *)
(* SyncAttr: both classes of callers, every constant of the headers and    *)
(* one number that is none.  ThreadAttr: two objects, a one-bit field and  *)
(* the two fields that share a setter; the two constants and a number that *)
(* is none in a one-bit field.                                             *)
(***************************************************************************)
EXTENDS SyncAttr, ThreadAttr

BothCallers == {"glibc", "mlibc"}
SomeInts == 0 .. 3

SomeFields == {"detach", "stack", "stackSize"}
SomeWords == {0, 1, 2}

VARIABLE part \* of which of the two the behaviour is

AttributesInit == Init /\ ThreadInit /\ part \in {"sync", "thread"}

AttributesNext ==
    /\ UNCHANGED part
    /\ \/ part = "sync" /\ Next /\ UNCHANGED threadVars
       \/ part = "thread" /\ ThreadNext /\ UNCHANGED attrVars

AttributesSpec ==
    AttributesInit /\ [][AttributesNext]_<<attrVars, threadVars, part>>
=============================================================================
