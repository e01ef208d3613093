----------------------------- MODULE MCCondMutex -----------------------------
(***************************************************************************)
(* An instance of CondMutex for TLC.                                       *)
(***************************************************************************)
EXTENDS CondMutex

\* sys_futex_wait of the Linux build as built: every error is lost, see
\* SystemCalls.
AsStub == [e \in {"EAGAIN", "EINTR", "ETIMEDOUT"} |-> {"OK"}]

\* PTHREAD_MUTEX_INITIALIZER in a glibc binary.
Normal == {[caller |-> "glibc", via |-> "static", type |-> TimedNp]}
=============================================================================
