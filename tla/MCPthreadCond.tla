---------------------------- MODULE MCPthreadCond ----------------------------
(***************************************************************************)
(* Instances of PthreadCond for TLC.                                       *)
(***************************************************************************)
EXTENDS PthreadCond, TLC

Symmetry == Permutations(Threads)

\* sys_futex_wait as its declaration means it (the errno value), as the Linux
\* build makes it (0) and as the Managarm build does (-1), for each error anew.
AnyReport == [e \in WaitErrors |-> {e, "OK", "-1"}]

\* The Linux build as built: every error is lost, see SystemCalls.
AsStub == [e \in WaitErrors |-> {"OK"}]
=============================================================================
