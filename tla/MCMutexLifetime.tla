--------------------------- MODULE MCMutexLifetime ---------------------------
(***************************************************************************)
(* Instances of MutexLifetime for TLC.                                     *)
(***************************************************************************)
EXTENDS MutexLifetime

By(ty) == [caller |-> "mlibc", via |-> "attr", type |-> ty]

\* A normal and a recursive mutex of mlibc code, by their type numbers.
Shared == {By(0), By(1)}
Zero == {0}

\* sys_futex_wake of Linux: always 0 as it is built, or an error of the kernel
\* (EFAULT, EINVAL) as it is declared.
Wakes == {0, 14, 22}

\* Among other things the fields may say "error-checking" afterwards.
AnyFlags == {0, 2 * 2}
=============================================================================
