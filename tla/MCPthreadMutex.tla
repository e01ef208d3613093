---------------------------- MODULE MCPthreadMutex ----------------------------
(***************************************************************************)
(* Instances of PthreadMutex for TLC.                                      *)
(***************************************************************************)
EXTENDS PthreadMutex, TLC

Symmetry == Permutations(Threads)

By(c, v, ty) == [caller |-> c, via |-> v, type |-> ty]

\* PTHREAD_ERRORCHECK_MUTEX_INITIALIZER_NP, and an attribute object with the
\* same type.
ErrorCheckStatic == {By("glibc", "static", ErrorCheckNp)}
ErrorCheckByAttr == {By("glibc", "attr", ErrorCheckNp)}

Zero == {0}
=============================================================================
