------------------------------- MODULE Sendfile -------------------------------
(***************************************************************************)
(* sendfile of src/misc.cpp where there is no such system call: a loop of  *)
(* read and write through a buffer of Chunk bytes.  The position of the    *)
(* input belongs to the open file, so threads that send from the same file *)
(* share it, and a call with an offset moves it by lseek.  Reads and       *)
(* writes may be short and may fail; the input may be a pipe, on which     *)
(* lseek fails.                                                            *)
(*                                                                         *)
(* A byte is named by its position in the input.  The last variables are   *)
(* history: no step of the code reads them.                                *)
(***************************************************************************)
EXTENDS Integers, Sequences, SequencesExt

CONSTANTS Threads,
          Length,   \* bytes in the input
          Chunk,    \* size of the buffer: 512 in the code
          MaxCount, \* bound on count
          MaxCalls, \* bound on the calls of a behaviour
          NoOffset  \* a null offset

ASSUME SendfileAssumption ==
    /\ Chunk \in Nat \ {0} /\ Length \in Nat
    /\ MaxCount \in Nat /\ MaxCalls \in Nat
    /\ NoOffset \notin 0 .. Length

VARIABLES seekable, \* is the input a file, or a pipe?
          pos,      \* position of the input
          calls,    \* how many calls there have been
          pc, offset, count, res, cur, buffer, \* each thread in sendfile;
                    \* res is also what the last call returned
          sent,     \* what the call of the thread has written
          start,    \* where it should begin
          alone,    \* has no other thread moved pos during the call?
          short,    \* has a read or write of the call failed or been short?
          rewound   \* has any call moved pos by lseek?

locals == <<offset, count, cur>>
history == <<start, rewound>>
vars == <<seekable, pos, calls, pc, locals, res, buffer, sent, alone, short, history>>

Init ==
    /\ seekable \in BOOLEAN /\ rewound = FALSE
    /\ pos = 0 /\ calls = 0
    /\ pc = [t \in Threads |-> "idle"]
    /\ offset = [t \in Threads |-> NoOffset]
    /\ count = [t \in Threads |-> 0] /\ res = [t \in Threads |-> 0]
    /\ cur = [t \in Threads |-> 0] /\ start = [t \in Threads |-> 0]
    /\ buffer = [t \in Threads |-> <<>>] /\ sent = [t \in Threads |-> <<>>]
    /\ alone = [t \in Threads |-> TRUE] /\ short = [t \in Threads |-> FALSE]

Goto(t, l) == pc' = [pc EXCEPT ![t] = l]

Smaller(a, b) == IF a < b THEN a ELSE b

\* The bytes from p on, as a read of n bytes at p finds them.
Bytes(p, n) == [i \in 1 .. n |-> p + i - 1]

\* t moves the position to p.
Move(t, p) ==
    /\ pos' = p
    /\ alone' = [u \in Threads |-> alone[u] /\ (u = t \/ p = pos)]

\* sendfile(out, in, o, n).
Call(t, o, n) ==
    /\ pc[t] = "idle" /\ calls < MaxCalls
    /\ calls' = calls + 1
    /\ offset' = [offset EXCEPT ![t] = o] /\ count' = [count EXCEPT ![t] = n]
    /\ res' = [res EXCEPT ![t] = 0] /\ cur' = [cur EXCEPT ![t] = 0]
    /\ sent' = [sent EXCEPT ![t] = <<>>]
    /\ start' = [start EXCEPT ![t] = IF o # NoOffset /\ seekable THEN o ELSE pos]
    /\ alone' = [alone EXCEPT ![t] = TRUE] /\ short' = [short EXCEPT ![t] = FALSE]
    /\ Goto(t, IF o # NoOffset THEN "seek" ELSE IF n # 0 THEN "read" ELSE "finish")
    /\ UNCHANGED <<seekable, pos, buffer, rewound>>

\* cur = lseek(in, *offset, SEEK_SET): the position it has moved to, or -1.
Seek(t) ==
    /\ pc[t] = "seek"
    /\ \/ seekable /\ cur' = [cur EXCEPT ![t] = offset[t]] /\ Move(t, offset[t])
       \/ ~seekable /\ cur' = [cur EXCEPT ![t] = -1] /\ UNCHANGED <<pos, alone>>
    /\ rewound' = seekable
    /\ Goto(t, IF count[t] # 0 THEN "read" ELSE "finish")
    /\ UNCHANGED <<seekable, calls, offset, count, res, buffer, sent, start, short>>

\* A read or a write has failed: -1 is returned, whatever res was.
Fail(t) ==
    /\ res' = [res EXCEPT ![t] = -1] /\ short' = [short EXCEPT ![t] = TRUE]
    /\ Goto(t, "finish")

ToCopy(t) == Smaller(count[t], Chunk)

\* read(in, buffer, to_copy): some bytes, none only at the end of the input.
Read(t) ==
    /\ pc[t] = "read"
    /\ \/ /\ Fail(t)
          /\ UNCHANGED <<pos, alone, buffer>>
       \/ \E n \in 0 .. Smaller(ToCopy(t), Length - pos) :
             /\ n = 0 => pos >= Length
             /\ buffer' = [buffer EXCEPT ![t] = Bytes(pos, n)]
             /\ Move(t, pos + n)
             /\ short' = [short EXCEPT ![t] = @ \/ n < ToCopy(t)]
             /\ Goto(t, "write") /\ UNCHANGED res
    /\ UNCHANGED <<seekable, calls, locals, sent, history>>

\* Mutant: after a short write the loop reads on.
MoreUnlessEnd(t, n) == count[t] # n /\ n # 0

\* Mutant: compares with what was read, which is nothing at the end.
MoreIfWritten(t, n) == count[t] # n /\ n = Len(buffer[t])

\* Mutant: one turn only.
MoreNever(t, n) == FALSE

\* The loop goes round if all of to_copy was written and something is left.
More(t, n) == n = ToCopy(t) /\ count[t] # n

\* write(out, buffer, read_res): at least a byte, if there is one.
Write(t) ==
    /\ pc[t] = "write"
    /\ \/ Fail(t) /\ UNCHANGED <<count, sent>>
       \/ \E n \in 0 .. Len(buffer[t]) :
             /\ n = 0 => buffer[t] = <<>>
             /\ sent' = [sent EXCEPT ![t] = @ \o SubSeq(buffer[t], 1, n)]
             /\ res' = [res EXCEPT ![t] = @ + n]
             /\ count' = [count EXCEPT ![t] = @ - n]
             /\ short' = [short EXCEPT ![t] = @ \/ n < Len(buffer[t])]
             /\ Goto(t, IF More(t, n) THEN "read" ELSE "finish")
    /\ buffer' = [buffer EXCEPT ![t] = <<>>]
    /\ UNCHANGED <<seekable, pos, calls, offset, cur, alone, history>>

\* Mutant: lseek without an offset, to the initial value of cur.
FinishAlways(t) ==
    /\ pc[t] = "finish"
    /\ IF seekable THEN Move(t, cur[t]) ELSE UNCHANGED <<pos, alone>>
    /\ Goto(t, "idle")
    /\ UNCHANGED <<seekable, calls, locals, res, buffer, sent, short, history>>

\* lseek(in, cur, SEEK_SET) if there is an offset, and the return.
Finish(t) ==
    /\ pc[t] = "finish"
    /\ IF offset[t] # NoOffset /\ seekable
       THEN Move(t, cur[t]) ELSE UNCHANGED <<pos, alone>>
    /\ Goto(t, "idle")
    /\ UNCHANGED <<seekable, calls, locals, res, buffer, sent, short, history>>

Step(t) == Seek(t) \/ Read(t) \/ Write(t) \/ Finish(t)

Next ==
    \E t \in Threads :
        \/ Step(t)
        \/ \E o \in {NoOffset} \cup 0 .. Length, n \in 0 .. MaxCount : Call(t, o, n)

\* read and write return some day: the other ends of pipes go on.
Spec == Init /\ [][Next]_vars /\ \A t \in Threads : WF_vars(Step(t))

-----------------------------------------------------------------------------
(* Properties                                                              *)

\* What a call returns is the number of bytes it has sent.  -1 means that a
\* read or a write failed, and less than count that one was short.
CountIsSent ==
    \A t \in Threads : pc[t] = "idle" =>
        /\ res[t] # -1 => res[t] = Len(sent[t])
        /\ res[t] = -1 \/ count[t] # 0 => short[t]

\* A call that has the input to itself sends a contiguous part of it from the
\* position, or the offset, on: a short write never leaves a gap before more.
SentInOrder ==
    \A t \in Threads : alone[t] => sent[t] = Bytes(start[t], Len(sent[t]))

\* Overlapping calls that share the position never send a byte twice, as long
\* as nobody uses an offset.
NoByteTwice ==
    ~rewound => \A t, u \in Threads : t # u => ToSet(sent[t]) \cap ToSet(sent[u]) = {}

\* Every call returns, at the end of the input too.
SendReturns == \A t \in Threads : pc[t] # "idle" ~> pc[t] = "idle"

=============================================================================
