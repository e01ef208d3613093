----------------------------- MODULE SystemCalls -----------------------------
(***************************************************************************)
(* The raw syscall of src/misc.cpp and the futex functions of sysdeps/, in *)
(* both builds.                                                            *)
(*                                                                         *)
(* Linux: an assembly stub.  The kernel answers in rax, -1 .. -MaxErrno    *)
(* for an error; the stub negates an error into errno and returns through  *)
(* "mov $-1, %eax", a store to the lower half of rax, which clears the     *)
(* upper half.  The futex functions call syscall.                          *)
(*                                                                         *)
(* Managarm: there are no system calls.  syscall is a C function with a    *)
(* switch over the numbers it knows, which calls the futex functions, and  *)
(* these call the kernel interface hel.                                    *)
(***************************************************************************)
EXTENDS Bitfields

CONSTANTS Builds,     \* "linux", "managarm"
          Half,       \* width of eax: 32
          MaxErrno,   \* 4095
          ENOSYS,     \* 38
          MaxResult,  \* bound on the results of the kernel
          FutexOps    \* operations that programs pass to SYS_futex

FutexWait == 0
FutexWake == 1
Gettid == 186
Futex == 202

ASSUME SyscallAssumption ==
    /\ Builds # {} /\ Builds \subseteq {"linux", "managarm"}
    /\ Half \in Nat \ {0}
    /\ ENOSYS \in Nat \ {0} /\ MaxErrno \in ENOSYS .. 2^Half - 1
    /\ MaxResult \in 2^(Half - 1) - 1 .. 2^(2 * Half - 1) - 1
    /\ FutexOps \subseteq Nat

\* The law of powers at these widths, which proofs cite: the provers know 2^n
\* for numerals only.
ASSUME RegisterPowers ==
    /\ 2^(Half - 1) \in Nat \ {0} /\ 2^Half = 2 * 2^(Half - 1)
    /\ 2^(2 * Half - 1) = 2^Half * 2^(Half - 1)
    /\ 2^(2 * Half) = 2 * 2^(2 * Half - 1)

VARIABLES build,
          kernel, \* what the kernel answered to the last call
          rax,    \* what syscall returned, as the 2 * Half bits of rax
          errno,  \* 0 until an error is stored
          did     \* what the wrapped call did

sysVars == <<build, kernel, rax, errno, did>>

AsRegister(r) == r % 2^(2 * Half)

\* The value of a register for a caller that declares it long, or int.
AsLong(r) == SignedField(2 * Half, r)
AsInt(r) == SignedField(Half, r)

SysInit ==
    /\ build \in Builds
    /\ kernel = 0 /\ rax = 0 /\ errno = 0
    /\ did = "none"

-----------------------------------------------------------------------------
(* Linux                                                                   *)

\* mov $-1, %eax.
MinusOne == 2^Half - 1

\* Mutant: "ja" for "jae".
IsErrorAbove(r) == r > AsRegister(-MaxErrno)

\* cmpq $-4095, %rax; jae: an unsigned comparison.
IsError(r) == r >= AsRegister(-MaxErrno)

\* Mutant: the value is stored without being negated.
ErrnoRaw(r) == AsInt(r)

\* neg %eax.
ErrnoOf(r) == (-r) % 2^Half

\* syscall(...), whatever the number and the arguments: results may need all of
\* rax, as offsets and addresses do.
LinuxSyscall ==
    /\ build = "linux"
    /\ \E r \in -MaxErrno .. MaxResult :
        /\ kernel' = r
        /\ \/ /\ IsError(AsRegister(r))
              /\ rax' = MinusOne
              /\ errno' = ErrnoOf(AsRegister(r))
           \/ /\ ~IsError(AsRegister(r))
              /\ rax' = AsRegister(r)
              /\ UNCHANGED errno
    /\ UNCHANGED <<build, did>>

\* What sys_futex_wait and sys_futex_wake of the Linux build make of it.
FutexResult == IF AsLong(rax) < 0 THEN errno ELSE 0

-----------------------------------------------------------------------------
(* Managarm                                                                *)

\* a1 & FUTEX_WAKE: every operation is taken for a wait or a wake by its lowest
\* bit, FUTEX_WAIT_BITSET (9) for a wake.
IsWake(op) == op % 2 = FutexWake

\* sys_futex_wait and sys_futex_wake: -1 for every error hel reports.
HelResult(e) == IF e # 0 THEN -1 ELSE 0

\* The wrapped syscall(num, word, op, ...).  kernel is the result of hel, or
\* of gettid, or what Linux would have answered to an unknown number.
WrappedSyscall(num, op) ==
    /\ build = "managarm"
    /\ \/ \E tid \in 1 .. 2^(Half - 1) - 1 :
             /\ num = Gettid
             /\ kernel' = tid /\ rax' = tid
             /\ did' = "gettid"
             /\ UNCHANGED errno
       \/ \E e \in {0, -1} :
             /\ num = Futex
             /\ kernel' = e
             /\ rax' = AsRegister(IF HelResult(e) # 0 THEN -1 ELSE 0)
             /\ did' = IF IsWake(op) THEN "wake" ELSE "wait"
             /\ errno' = IF HelResult(e) # 0 THEN HelResult(e) % 2^Half ELSE errno
       \/ /\ num \notin {Gettid, Futex}
          /\ kernel' = -ENOSYS /\ rax' = AsRegister(-1)
          /\ did' = "none"
          /\ errno' = ENOSYS
    /\ UNCHANGED build

SysNext ==
    \/ LinuxSyscall
    \/ \E num \in {Gettid, Futex, 0}, op \in FutexOps : WrappedSyscall(num, op)

SysSpec == SysInit /\ [][SysNext]_sysVars

-----------------------------------------------------------------------------
(* Properties                                                              *)

\* A caller that keeps the result in an int, as C programs do for most calls,
\* sees -1 whenever the call failed, the last of the errors included, and never
\* for a result that an int can hold.  One that keeps it in a long gets every
\* result whole; it sees -1 for a failure in the wrapped build, and on Linux
\* it sees no failure at all.
CallersSeeFailure ==
    /\ kernel < 0 => AsInt(rax) = -1
    /\ kernel \in 0 .. 2^(Half - 1) - 1 => AsInt(rax) # -1
    /\ kernel >= 0 => AsLong(rax) = kernel
    /\ IF build = "linux" THEN AsLong(rax) >= 0 ELSE AsLong(rax) = -1 <=> kernel < 0

\* A failure stores an errno and a success does not touch it; on Linux, and
\* for an unknown number, it is the kernel's.
ErrnoIsKernels ==
    [][/\ kernel' >= 0 => errno' = errno
       /\ kernel' < 0 => errno' # 0
       /\ kernel' < 0 /\ (build = "linux" \/ did' = "none") => errno' = -kernel']_sysVars

\* The comment at mlibc_thread.cpp:131 ("If the wait returns EAGAIN, ...") and
\* the cases 2 to 4 of the one at mlibc_thread.cpp:438: a wait that ends with
\* an error returns it.
FutexWaitReturnsErrors == kernel < 0 => FutexResult = -kernel

=============================================================================
