---------------------------- MODULE StatelessCalls ----------------------------
(***************************************************************************)
(* Functions of the library that keep no state: close_range, epoll_pwait2  *)
(* and __sched_cpucount of src/misc.cpp, the timeout that                  *)
(* pthread_cond_timedwait makes of its deadline, and the character tables. *)
(* called is the last call, its arguments and what came out; a property    *)
(* compares that with what the function is meant to give, for every input  *)
(* in the bounds.                                                          *)
(***************************************************************************)
EXTENDS Bitfields, CharTables, FiniteSets

CONSTANTS Width,      \* bits of an int
          Second,     \* milliseconds in a second: 1000
          Milli,      \* nanoseconds in a millisecond: 1000000
          WordBits,   \* __NCPUBITS: 64, eight times the bytes of a word
          ByteBits,   \* 8
          MaxSeconds, \* bound on times
          MaxBytes,   \* bound on the size of CPU sets
          NullTimeout \* a null timeout

ASSUME StatelessAssumption ==
    /\ {Width, Second, Milli, WordBits, ByteBits} \subseteq Nat \ {0}
    /\ MaxSeconds \in Nat /\ MaxBytes \in Nat

\* The law of powers at this width, which proofs cite: the provers know 2^n
\* for numerals only.
ASSUME WidthPowers ==
    2^(Width - 1) \in Nat \ {0} /\ 2^Width = 2 * 2^(Width - 1)

VARIABLE called

NanosPerSecond == Second * Milli
Times == [sec : 0 .. MaxSeconds, nsec : 0 .. NanosPerSecond - 1]
Nanos(time) == time.sec * NanosPerSecond + time.nsec

StatelessInit == called = [name |-> "none"]

-----------------------------------------------------------------------------
(* close_range                                                             *)

UnsignedInt == 0 .. 2^Width - 1

\* The value of i in turn k of the loop, if there is such a turn.
LoopFd(first, k) == (first + k) % 2^Width

\* Mutant: stops before last.
InLoopStrict(i, last) == i < last

\* i <= last.
InLoop(i, last) == i <= last

\* The turns made; the values repeat after 2^Width of them.
Turns(first, last) ==
    {k \in UnsignedInt : \A j \in 0 .. k : InLoop(LoopFd(first, j), last)}

Closed(first, last) == {LoopFd(first, k) : k \in Turns(first, last)}
LoopEnds(first, last) == Turns(first, last) # UnsignedInt

CloseRange(first, last) ==
    called' = [name |-> "close_range", first |-> first, last |-> last,
               closed |-> Closed(first, last), returns |-> LoopEnds(first, last)]

-----------------------------------------------------------------------------
(* epoll_pwait2                                                            *)

\* Mutant: the two factors swapped.
EpollTimeoutSwapped(sec, nsec) == SignedField(Width, sec * Milli + nsec \div Second)

\* timeout_ms, an int.
EpollTimeout(sec, nsec) == SignedField(Width, sec * Second + nsec \div Milli)

\* A null timeout, which asks to wait without limit, is read like any other.
EpollPwait2(timeout) ==
    \/ /\ timeout = NullTimeout
       /\ called' = [name |-> "fault"]
    \/ /\ timeout # NullTimeout
       /\ called' = [name |-> "epoll_pwait2", sec |-> timeout.sec, nsec |-> timeout.nsec,
                     ms |-> EpollTimeout(timeout.sec, timeout.nsec)]

-----------------------------------------------------------------------------
(* __sched_cpucount                                                        *)

\* Mutant: one word too many.
WordsInclusive(bytes) == bytes \div WordBits + 1

\* set_size / __NCPUBITS: bytes divided by bits.
Words(bytes) == bytes \div WordBits

\* The bits set in those words of a set.
CpuCount(bytes, set) == Cardinality({c \in set : c \div WordBits < Words(bytes)})

SchedCpucount(bytes, set) ==
    called' = [name |-> "cpucount", bytes |-> bytes, set |-> set,
               words |-> Words(bytes), count |-> CpuCount(bytes, set)]

-----------------------------------------------------------------------------
(* The timeout of pthread_cond_timedwait                                   *)

Difference(abstime, now) ==
    [sec |-> abstime.sec - now.sec, nsec |-> abstime.nsec - now.nsec]

\* The check if abstime has passed.
Passed(d) == d.sec < 0 \/ (d.sec = 0 /\ d.nsec < 0)

\* Mutant: the borrowed second is not given back.
TimeoutUnborrowed(d) ==
    IF d.nsec >= NanosPerSecond THEN [sec |-> d.sec + 1, nsec |-> d.nsec - NanosPerSecond]
    ELSE IF d.nsec < 0 THEN [d EXCEPT !.nsec = @ + NanosPerSecond]
    ELSE d

\* The carry and the borrow.
Timeout(d) ==
    IF d.nsec >= NanosPerSecond THEN [sec |-> d.sec + 1, nsec |-> d.nsec - NanosPerSecond]
    ELSE IF d.nsec < 0 THEN [sec |-> d.sec - 1, nsec |-> d.nsec + NanosPerSecond]
    ELSE d

TimeUntil(abstime, now) ==
    LET d == Difference(abstime, now) IN
    called' = [name |-> "timedwait", abstime |-> abstime, now |-> now,
               passed |-> Passed(d), timeout |-> Timeout(d)]

-----------------------------------------------------------------------------
(* The tables of ctype.h                                                   *)

CtypeLookup(c) ==
    called' = [name |-> "ctype", c |-> c, classes |-> Classes(c),
               lower |-> ToLower(c), upper |-> ToUpper(c)]

-----------------------------------------------------------------------------

StatelessNext ==
    /\ called.name # "fault"
    /\ \/ \E first, last \in UnsignedInt : CloseRange(first, last)
       \/ \E timeout \in Times \cup {NullTimeout} : EpollPwait2(timeout)
       \/ \E bytes \in 1 .. MaxBytes :
             \E set \in SUBSET (0 .. bytes * ByteBits - 1) : SchedCpucount(bytes, set)
       \/ \E abstime, now \in Times : TimeUntil(abstime, now)
       \/ \E c \in Index : CtypeLookup(c)

StatelessSpec == StatelessInit /\ [][StatelessNext]_called

-----------------------------------------------------------------------------
(* Properties                                                              *)

\* close_range closes the descriptors of its range and no other, and returns,
\* for every range that ends before UINT_MAX, where i would wrap round to 0.
CloseRangeExact ==
    called.name = "close_range" /\ called.last # 2^Width - 1 =>
        called.returns /\ called.closed = called.first .. called.last

\* With a timeout whose milliseconds fit an int, the wait is never longer than
\* asked for, less than a millisecond shorter, and never taken for one without
\* limit.
EpollTimeoutClose ==
    called.name = "epoll_pwait2" /\ (called.sec + 1) * Second <= 2^(Width - 1) =>
        LET asked == called.sec * NanosPerSecond + called.nsec IN
        /\ called.ms >= 0
        /\ called.ms * Milli <= asked /\ asked < (called.ms + 1) * Milli

\* The words looked at lie within the set, no CPU is counted twice, and of a
\* set of n bytes the CPUs below n, rounded down to whole words, are all counted.
CpuCountOfFirst ==
    called.name = "cpucount" =>
        /\ called.words * WordBits <= called.bytes * ByteBits
        /\ called.count <= Cardinality(called.set)
        /\ (\A c \in called.set : c < called.bytes - (called.bytes % WordBits))
              => called.count = Cardinality(called.set)

\* The futex is given exactly what is left until abstime, as a time it accepts,
\* and ETIMEDOUT without a sleep is answered exactly if abstime is over.
TimeoutExact ==
    called.name = "timedwait" =>
        /\ called.passed <=> Nanos(called.abstime) < Nanos(called.now)
        /\ ~called.passed =>
              /\ called.timeout \in Times
              /\ Nanos(called.timeout) = Nanos(called.abstime) - Nanos(called.now)

\* The three tables, written out by hand, agree with each other: a listed
\* character is changed by one conversion exactly if its class says the other
\* case, a conversion is undone by the other and keeps the remaining classes,
\* and a character that is not listed is neither printed nor a letter or digit.
TablesAgree ==
    called.name = "ctype" =>
        LET c == called.c
            other(d) == (Classes(d) \ {"UPPER", "LOWER"}) = (called.classes \ {"UPPER", "LOWER"})
        IN  IF c \in Listed
            THEN /\ called.lower # c <=> "UPPER" \in called.classes
                 /\ called.upper # c <=> "LOWER" \in called.classes
                 /\ other(called.lower) /\ other(called.upper)
                 /\ "UPPER" \in called.classes => ToUpper(called.lower) = c
                 /\ "LOWER" \in called.classes => ToLower(called.upper) = c
            ELSE called.classes \cap {"PRINT", "ALPHA", "DIGIT"} = {}

\* The four functions without state do what is said above, for every input that
\* is not excepted there.
CallsExact == CloseRangeExact /\ EpollTimeoutClose /\ CpuCountOfFirst /\ TablesAgree

=============================================================================
