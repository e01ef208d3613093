---------------------------- MODULE MCSystemCalls ----------------------------
(***************************************************************************)
(* An instance of SystemCalls for TLC: 8-bit registers, and a kernel whose *)
(* results reach into their upper half, up to the largest positive long.   *)
(***************************************************************************)
EXTENDS SystemCalls

Bits == 4
LastErrno == 12
LastResult == 127

\* WAIT, WAKE, REQUEUE, CMP_REQUEUE, WAIT_BITSET, each also with the flag of a
\* private futex.
SomeOps == {0, 1, 3, 4, 9} \cup {128, 129, 131, 132, 137}
=============================================================================
