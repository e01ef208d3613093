-------------------------- MODULE MCMutexRefinement --------------------------
(***************************************************************************)
(* Instances of MutexRefinement for TLC.                                   *)
(***************************************************************************)
EXTENDS MutexRefinement

By(c, v, ty) == [caller |-> c, via |-> v, type |-> ty]

\* A glibc binary's initialisers whose type survives: the two types an
\* attribute can carry, and the other two as static initialisers.
GlibcAll == {By("glibc", "attr", ty) : ty \in {TimedNp, RecursiveNp}}
            \cup {By("glibc", "static", ty) : ty \in {ErrorCheckNp, AdaptiveNp}}

Zero == {0}
=============================================================================
