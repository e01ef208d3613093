----------------------------- MODULE MCMiscCalls -----------------------------
(***************************************************************************)
(* Sendfile, StatelessCalls and SystemCalls in one instance for TLC.  They *)
(* share nothing, so a behaviour is of one of them: calls of sendfile,     *)
(* whose loop is in the Managarm build only; one call without state; or    *)
(* system calls of one build.                                              *)
(*                                                                         *)
(* Ints of 5 bits, 4 ms to a second and 3 ns to one; words of 4 bits, 2    *)
(* bits to a byte; registers as in MCSystemCalls.                          *)
(***************************************************************************)
EXTENDS Sendfile, StatelessCalls, MCSystemCalls

MiscInit == Init /\ StatelessInit /\ SysInit

\* Each of them has not begun.
NoSendfile == calls = 0
NoStateless == called.name = "none"
NoSyscall == rax = 0 /\ errno = 0 /\ did = "none"

MiscNext ==
    \/ /\ build = "managarm" /\ NoStateless /\ NoSyscall
       /\ Next /\ UNCHANGED <<called, sysVars>>
    \/ NoSendfile /\ NoStateless /\ NoSyscall /\ StatelessNext /\ UNCHANGED <<vars, sysVars>>
    \/ NoSendfile /\ NoStateless /\ SysNext /\ UNCHANGED <<vars, called>>

MiscSpec ==
    /\ MiscInit /\ [][MiscNext]_<<vars, called, sysVars>>
    /\ \A t \in Threads : WF_vars(Step(t))
=============================================================================
