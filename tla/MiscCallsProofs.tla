--------------------------- MODULE MiscCallsProofs ---------------------------
(***************************************************************************)
(* Proofs about the functions of src/misc.cpp and their neighbours.        *)
(* sendfile: for any number of threads, any length of the input, any       *)
(* buffer and any number of calls.  The calls without state: for any       *)
(* widths and any arguments.  The system calls: for any width of the       *)
(* registers, any results of the kernel and any futex operations.          *)
(***************************************************************************)
EXTENDS Sendfile, StatelessCalls, SystemCalls,
        FiniteSetTheorems, SequenceTheorems, TLAPS

-----------------------------------------------------------------------------
(* Arithmetic                                                              *)

\* Quotient and remainder are determined by the equation they satisfy.
LEMMA DivMod ==
    ASSUME NEW m \in Nat \ {0}, NEW q \in Int, NEW r \in 0 .. m - 1, NEW a \in Int,
           a = q * m + r
    PROVE  a % m = r /\ a \div m = q
OBVIOUS

\* ... and exist.
LEMMA DivModExist ==
    ASSUME NEW m \in Nat \ {0}, NEW a \in Int
    PROVE  a \div m \in Int /\ a % m \in 0 .. m - 1 /\ a = (a \div m) * m + (a % m)
<1>1. a \div m \in Int /\ a % m \in 0 .. m - 1
  OBVIOUS
<1>2. a = m * (a \div m) + (a % m)
  OBVIOUS
<1> DEFINE q == a \div m
<1> HIDE DEF q
<1>3. m * q = q * m
  BY <1>1 DEF q
<1>4. QED
  BY <1>1, <1>2, <1>3 DEF q

-----------------------------------------------------------------------------
(* The invariant                                                           *)

Labels == {"idle", "seek", "read", "write", "finish"}
Offsets == {NoOffset} \cup 0 .. Length

Types ==
    /\ seekable \in BOOLEAN /\ rewound \in BOOLEAN
    /\ pos \in 0 .. Length
    /\ pc \in [Threads -> Labels] /\ offset \in [Threads -> Offsets]
    /\ count \in [Threads -> Nat] /\ res \in [Threads -> Int]
    /\ cur \in [Threads -> Int] /\ start \in [Threads -> Nat]
    /\ buffer \in [Threads -> Seq(Nat)] /\ sent \in [Threads -> Seq(Nat)]
    /\ alone \in [Threads -> BOOLEAN] /\ short \in [Threads -> BOOLEAN]

\* What each place of the loop knows of its locals.
LoopAt(t) ==
    /\ res[t] # -1 => res[t] = Len(sent[t])
    /\ pc[t] \in {"seek", "read", "write"} => res[t] # -1
    /\ pc[t] \in {"read", "write"} => count[t] # 0
    /\ pc[t] = "write" => /\ Len(buffer[t]) <= ToCopy(t)
                          /\ Len(buffer[t]) < ToCopy(t) => short[t]
    /\ pc[t] # "write" => buffer[t] = <<>>
    /\ pc[t] \in {"finish", "idle"} => (res[t] = -1 \/ count[t] # 0 => short[t])

\* A call with an offset has moved the position, and knows where to.
SeekAt(t) ==
    /\ pc[t] = "seek" => offset[t] # NoOffset
    /\ pc[t] \in {"read", "write", "finish"} /\ offset[t] # NoOffset /\ seekable
       => rewound /\ cur[t] = offset[t]

\* While nobody disturbs a call the position is that of its next byte.
PlaceAt(t) ==
    /\ sent[t] = Bytes(start[t], Len(sent[t]))
    /\ pc[t] = "seek" => sent[t] = <<>> /\ start[t] = IF seekable THEN offset[t] ELSE pos
    /\ pc[t] = "read" => pos = start[t] + Len(sent[t])
    /\ pc[t] = "write" =>
          /\ pos = start[t] + Len(sent[t]) + Len(buffer[t])
          /\ buffer[t] = Bytes(start[t] + Len(sent[t]), Len(buffer[t]))

\* The bytes a call has read.
Taken(t) == ToSet(sent[t]) \cup ToSet(buffer[t])

\* As long as nobody moves the position back, no byte before it is read again.
OnceInv ==
    ~rewound => /\ \A t \in Threads : \A b \in Taken(t) : b < pos
                /\ \A t, u \in Threads : t # u => Taken(t) \cap Taken(u) = {}

SendInv ==
    /\ Types /\ OnceInv /\ (rewound => seekable)
    /\ \A t \in Threads : LoopAt(t) /\ SeekAt(t) /\ (alone[t] => PlaceAt(t))

-----------------------------------------------------------------------------
(* Sequences of bytes                                                      *)

LEMMA BytesSeq ==
    ASSUME NEW p \in Nat, NEW n \in Nat
    PROVE  /\ Bytes(p, n) \in Seq(Nat) /\ Len(Bytes(p, n)) = n
           /\ \A i \in 1 .. n : Bytes(p, n)[i] = p + i - 1
           /\ ToSet(Bytes(p, n)) = p .. p + n - 1
           /\ (n = 0 => Bytes(p, n) = <<>>)
<1>1. /\ Bytes(p, n) \in Seq(Nat) /\ Len(Bytes(p, n)) = n
      /\ DOMAIN Bytes(p, n) = 1 .. n
      /\ \A i \in 1 .. n : Bytes(p, n)[i] = p + i - 1
  BY DEF Bytes
<1>2. ToSet(Bytes(p, n)) = {p + i - 1 : i \in 1 .. n}
  BY <1>1 DEF ToSet
<1>3. ASSUME NEW b \in p .. p + n - 1
      PROVE  b \in {p + i - 1 : i \in 1 .. n}
  <2>1. b - p + 1 \in 1 .. n /\ b = p + (b - p + 1) - 1
    OBVIOUS
  <2>2. QED
    BY <2>1
<1>4. ASSUME NEW i \in 1 .. n
      PROVE  p + i - 1 \in p .. p + n - 1
  OBVIOUS
<1>5. {p + i - 1 : i \in 1 .. n} = p .. p + n - 1
  BY <1>3, <1>4, Zenon
<1>6. ToSet(Bytes(p, n)) = p .. p + n - 1
  BY <1>2, <1>5, Zenon
<1>7. n = 0 => Bytes(p, n) = <<>>
  BY <1>1, EmptySeq
<1>8. QED
  BY <1>1, <1>6, <1>7

\* The beginning of a sequence.
LEMMA Prefix ==
    ASSUME NEW b \in Seq(Nat), NEW n \in 0 .. Len(b)
    PROVE  /\ SubSeq(b, 1, n) \in Seq(Nat) /\ Len(SubSeq(b, 1, n)) = n
           /\ \A i \in 1 .. n : SubSeq(b, 1, n)[i] = b[i]
<1>1. \A i \in 1 .. n : b[i] \in Nat
  BY ElementOfSeq
<1>2. QED
  BY <1>1, SubSeqProperties

\* Writing the beginning of what follows.
LEMMA BytesAppend ==
    ASSUME NEW p \in Nat, NEW m \in Nat, NEW k \in Nat, NEW n \in 0 .. k
    PROVE  Bytes(p, m) \o SubSeq(Bytes(p + m, k), 1, n) = Bytes(p, m + n)
<1> DEFINE b == SubSeq(Bytes(p + m, k), 1, n)
<1>1. /\ Bytes(p, m) \in Seq(Nat) /\ Len(Bytes(p, m)) = m
      /\ \A i \in 1 .. m : Bytes(p, m)[i] = p + i - 1
  BY BytesSeq
<1> DEFINE q == p + m
<1>2. /\ Bytes(q, k) \in Seq(Nat) /\ Len(Bytes(q, k)) = k
      /\ \A i \in 1 .. k : Bytes(q, k)[i] = q + i - 1
  <2>1. q \in Nat
    OBVIOUS
  <2>2. QED
    BY <2>1, BytesSeq
<1>3. b \in Seq(Nat) /\ Len(b) = n /\ \A i \in 1 .. n : b[i] = p + m + i - 1
  <2>1. n \in 0 .. Len(Bytes(q, k)) /\ \A i \in 1 .. n : i \in 1 .. k
    BY <1>2
  <2>2. b \in Seq(Nat) /\ Len(b) = n /\ \A i \in 1 .. n : b[i] = Bytes(q, k)[i]
    BY <1>2, <2>1, Prefix
  <2>3. QED
    BY <1>2, <2>1, <2>2
<1> HIDE DEF b
<1>4. /\ Bytes(p, m) \o b \in Seq(Nat) /\ Len(Bytes(p, m) \o b) = m + n
      /\ \A i \in 1 .. m + n :
            (Bytes(p, m) \o b)[i] = IF i <= m THEN Bytes(p, m)[i] ELSE b[i - m]
  <2>1. /\ Bytes(p, m) \o b \in Seq(Nat)
        /\ Len(Bytes(p, m) \o b) = Len(Bytes(p, m)) + Len(b)
        /\ \A i \in 1 .. Len(Bytes(p, m)) + Len(b) :
              (Bytes(p, m) \o b)[i] =
                  IF i <= Len(Bytes(p, m)) THEN Bytes(p, m)[i] ELSE b[i - Len(Bytes(p, m))]
    BY <1>1, <1>3, ConcatProperties
  <2>2. QED
    BY <1>1, <1>3, <2>1
<1> DEFINE l == m + n
<1>5. /\ Bytes(p, l) \in Seq(Nat) /\ Len(Bytes(p, l)) = l
      /\ \A i \in 1 .. l : Bytes(p, l)[i] = p + i - 1
  <2>1. l \in Nat
    OBVIOUS
  <2>2. QED
    BY <2>1, BytesSeq
<1>6. ASSUME NEW i \in 1 .. l
      PROVE  (Bytes(p, m) \o b)[i] = Bytes(p, l)[i]
  <2>1. i \in Int /\ i >= 1 /\ i <= m + n /\ n \in Int /\ (i <= m \/ i > m)
    OBVIOUS
  <2>2. CASE i <= m
    <3>1. i \in 1 .. m
      BY <2>1, <2>2
    <3>2. QED
      BY <1>1, <1>4, <1>5, <2>2, <3>1
  <2>3. CASE i > m
    <3>1. i - m \in 1 .. n /\ ~(i <= m)
      BY <2>1, <2>3
    <3>2. (Bytes(p, m) \o b)[i] = b[i - m]
      BY <1>4, <3>1
    <3>3. b[i - m] = p + m + (i - m) - 1
      BY <1>3, <3>1
    <3>4. p + m + (i - m) - 1 = p + i - 1
      BY <2>1
    <3>5. QED
      BY <1>5, <3>2, <3>3, <3>4
  <2>4. QED
    BY <2>1, <2>2, <2>3
<1>7. Bytes(p, m) \o b = Bytes(p, m + n)
  BY <1>4, <1>5, <1>6, SeqEqual
<1>8. QED
  BY <1>7 DEF b

\* A write adds bytes of the buffer and no others.
LEMMA WriteSet ==
    ASSUME NEW s \in Seq(Nat), NEW b \in Seq(Nat), NEW n \in 0 .. Len(b)
    PROVE  /\ s \o SubSeq(b, 1, n) \in Seq(Nat)
           /\ Len(s \o SubSeq(b, 1, n)) = Len(s) + n
           /\ ToSet(s \o SubSeq(b, 1, n)) \subseteq ToSet(s) \cup ToSet(b)
<1> DEFINE c == SubSeq(b, 1, n)
<1>1. c \in Seq(Nat) /\ Len(c) = n /\ \A i \in 1 .. n : c[i] = b[i]
  BY Prefix
<1> HIDE DEF c
<1>2. /\ s \o c \in Seq(Nat) /\ Len(s \o c) = Len(s) + n
      /\ \A i \in 1 .. Len(s) + n : (s \o c)[i] = IF i <= Len(s) THEN s[i] ELSE c[i - Len(s)]
  BY <1>1, ConcatProperties
<1>3. DOMAIN s = 1 .. Len(s) /\ DOMAIN b = 1 .. Len(b) /\ DOMAIN (s \o c) = 1 .. Len(s) + n
      /\ Len(s) \in Nat /\ Len(b) \in Nat
  BY <1>2, LenProperties
<1>4. ASSUME NEW i \in 1 .. Len(s) + n
      PROVE  (s \o c)[i] \in ToSet(s) \cup ToSet(b)
  <2>1. CASE i <= Len(s)
    <3>1. i \in DOMAIN s /\ (s \o c)[i] = s[i]
      BY <1>2, <1>3, <2>1
    <3>2. QED
      BY <3>1 DEF ToSet
  <2>2. CASE i > Len(s)
    <3>1. i - Len(s) \in 1 .. n /\ i - Len(s) \in DOMAIN b /\ ~(i <= Len(s))
      BY <1>3, <2>2
    <3>2. (s \o c)[i] = b[i - Len(s)]
      BY <1>1, <1>2, <3>1
    <3>3. QED
      BY <3>1, <3>2 DEF ToSet
  <2>3. QED
    BY <1>3, <2>1, <2>2
<1>5. ToSet(s \o c) \subseteq ToSet(s) \cup ToSet(b)
  BY <1>3, <1>4 DEF ToSet
<1>6. QED
  BY <1>2, <1>5 DEF c

LEMMA RangeNat ==
    ASSUME NEW s \in Seq(Nat)
    PROVE  ToSet(s) \subseteq Nat
<1>1. DOMAIN s = 1 .. Len(s) /\ \A i \in 1 .. Len(s) : s[i] \in Nat
  BY LenProperties, ElementOfSeq
<1>2. QED
  BY <1>1 DEF ToSet

LEMMA NoBytes == <<>> \in Seq(Nat) /\ Len(<<>>) = 0 /\ ToSet(<<>>) = {}
<1>1. DOMAIN <<>> = {}
  OBVIOUS
<1>2. QED
  BY <1>1, EmptySeq DEF ToSet

-----------------------------------------------------------------------------
(* Steps                                                                   *)

\* The locals of u stay as they are.
Kept(u) ==
    /\ pc'[u] = pc[u] /\ offset'[u] = offset[u] /\ count'[u] = count[u]
    /\ res'[u] = res[u] /\ cur'[u] = cur[u] /\ start'[u] = start[u]
    /\ buffer'[u] = buffer[u] /\ sent'[u] = sent[u] /\ short'[u] = short[u]
    /\ alone'[u] => alone[u] /\ pos' = pos

\* A step of t leaves the others' part of the invariant alone.
LEMMA Frame ==
    ASSUME SendInv, NEW t \in Threads, \A u \in Threads \ {t} : Kept(u),
           seekable' = seekable, rewound' = rewound \/ rewound' = TRUE,
           Types', OnceInv', rewound' => seekable,
           LoopAt(t)', SeekAt(t)', alone'[t] => PlaceAt(t)'
    PROVE  SendInv'
<1> SUFFICES ASSUME NEW u \in Threads \ {t}
             PROVE  LoopAt(u)' /\ SeekAt(u)' /\ (alone'[u] => PlaceAt(u)')
  BY DEF SendInv
<1>1. Kept(u) /\ LoopAt(u) /\ SeekAt(u) /\ (alone[u] => PlaceAt(u))
  BY DEF SendInv
<1>2. LoopAt(u)'
  BY <1>1 DEF Kept, LoopAt, ToCopy
<1>3. SeekAt(u)'
  BY <1>1 DEF Kept, SeekAt
<1>4. alone'[u] => PlaceAt(u)'
  BY <1>1 DEF Kept, PlaceAt
<1>5. QED
  BY <1>2, <1>3, <1>4

\* A step of t that takes bytes from the position on, or none.
LEMMA OnceFrame ==
    ASSUME SendInv, NEW t \in Threads, \A u \in Threads \ {t} : Kept(u),
           rewound' = rewound, pos' \in Nat, pos <= pos',
           Taken(t)' \subseteq Taken(t) \cup pos .. pos' - 1
    PROVE  OnceInv'
<1> SUFFICES ASSUME ~rewound
             PROVE  /\ \A v \in Threads : \A b \in Taken(v)' : b < pos'
                    /\ \A v, w \in Threads : v # w => Taken(v)' \cap Taken(w)' = {}
  BY DEF OnceInv
<1>1. pos \in Nat
  BY DEF SendInv, Types
<1>2. /\ \A v \in Threads : \A b \in Taken(v) : b < pos
      /\ \A v, w \in Threads : v # w => Taken(v) \cap Taken(w) = {}
  BY DEF SendInv, OnceInv
<1>3. \A u \in Threads \ {t} : Taken(u)' = Taken(u) /\ Taken(u) \subseteq Nat
  <2>1. ASSUME NEW u \in Threads \ {t} PROVE Taken(u)' = Taken(u)
    BY Kept(u) DEF Kept, Taken
  <2>2. ASSUME NEW u \in Threads PROVE Taken(u) \subseteq Nat
    BY RangeNat DEF Taken, SendInv, Types
  <2>3. QED
    BY <2>1, <2>2
<1>4. \A v \in Threads : \A b \in Taken(v)' : b < pos'
  <2>1. Taken(t) \subseteq Nat
    BY RangeNat DEF Taken, SendInv, Types
  <2>2. QED
    BY <1>1, <1>2, <1>3, <2>1
<1>5. \A u \in Threads \ {t} : Taken(t)' \cap Taken(u) = {}
  BY <1>1, <1>2, <1>3
<1>6. QED
  BY <1>2, <1>3, <1>4, <1>5

\* Moving the position spoils PlaceAt for the others, and alone says so.
LEMMA MoveKeeps ==
    ASSUME Types, NEW t \in Threads, NEW p, Move(t, p)
    PROVE  /\ pos' = p /\ alone' \in [Threads -> BOOLEAN] /\ alone'[t] = alone[t]
           /\ \A u \in Threads \ {t} : alone'[u] => alone[u] /\ pos' = pos
BY DEF Move, Types

\* The beginning of a call.
LEMMA CallStep ==
    ASSUME SendInv, NEW t \in Threads, NEW o \in Offsets, NEW n \in Nat, Call(t, o, n)
    PROVE  SendInv'
<1> DEFINE l == IF o # NoOffset THEN "seek" ELSE IF n # 0 THEN "read" ELSE "finish"
           p == IF o # NoOffset /\ seekable THEN o ELSE pos
<1>1. /\ pc[t] = "idle"
      /\ offset' = [offset EXCEPT ![t] = o] /\ count' = [count EXCEPT ![t] = n]
      /\ res' = [res EXCEPT ![t] = 0] /\ cur' = [cur EXCEPT ![t] = 0]
      /\ sent' = [sent EXCEPT ![t] = <<>>] /\ start' = [start EXCEPT ![t] = p]
      /\ alone' = [alone EXCEPT ![t] = TRUE] /\ short' = [short EXCEPT ![t] = FALSE]
      /\ pc' = [pc EXCEPT ![t] = l]
      /\ UNCHANGED <<seekable, pos, buffer, rewound>>
  BY DEF Call, Goto
<1>2. Types /\ buffer[t] = <<>> /\ (rewound => seekable)
  BY <1>1 DEF SendInv, LoopAt
<1>3. l \in Labels /\ p \in 0 .. Length /\ p \in Nat
  <2>1. l \in Labels
    BY DEF Labels
  <2>2. p \in 0 .. Length
    BY <1>2 DEF Offsets, Types
  <2>3. QED
    BY <2>1, <2>2
<1> HIDE DEF p
<1>4. Types'
  <2> HIDE DEF l
  <2>1. QED
    BY <1>1, <1>2, <1>3, NoBytes DEF Types
<1>5. \A u \in Threads \ {t} : Kept(u)
  BY <1>1, <1>2 DEF Kept, Types
<1>6. /\ pc'[t] = l /\ offset'[t] = o /\ count'[t] = n /\ res'[t] = 0
      /\ sent'[t] = <<>> /\ start'[t] = p /\ buffer'[t] = <<>>
  BY <1>1, <1>2 DEF Types
<1>7. LoopAt(t)'
  BY <1>6, NoBytes DEF LoopAt
<1>8. SeekAt(t)'
  BY <1>6 DEF SeekAt
<1>9. PlaceAt(t)'
  <2>1. <<>> = Bytes(p, 0)
    BY <1>3, BytesSeq
  <2>2. sent'[t] = Bytes(start'[t], Len(sent'[t]))
    BY <1>6, <2>1, NoBytes
  <2>3. pc'[t] = "seek" => start'[t] = IF seekable' THEN offset'[t] ELSE pos'
    BY <1>1, <1>6 DEF p
  <2>4. pc'[t] = "read" => pos' = start'[t] + Len(sent'[t])
    BY <1>1, <1>2, <1>6, NoBytes DEF p, Types
  <2>5. QED
    BY <1>6, <2>2, <2>3, <2>4 DEF PlaceAt
<1>10. OnceInv'
  <2>1. Taken(t)' = {}
    BY <1>6, NoBytes DEF Taken
  <2>2. pos' = pos /\ pos \in Nat
    BY <1>1, <1>2, SendfileAssumption DEF Types
  <2>3. Taken(t)' \subseteq Taken(t) \cup pos .. pos' - 1
    BY <2>1
  <2>4. QED
    BY <1>1, <1>5, <2>2, <2>3, OnceFrame
<1>11. QED
  BY <1>1, <1>2, <1>4, <1>5, <1>7, <1>8, <1>9, <1>10, Frame

\* lseek to the offset.
LEMMA SeekStep ==
    ASSUME SendInv, NEW t \in Threads, Seek(t)
    PROVE  SendInv'
<1> DEFINE l == IF count[t] # 0 THEN "read" ELSE "finish"
           c == IF seekable THEN offset[t] ELSE -1
<1>1. /\ pc[t] = "seek" /\ pc' = [pc EXCEPT ![t] = l]
      /\ cur' = [cur EXCEPT ![t] = c] /\ rewound' = seekable
      /\ IF seekable THEN Move(t, offset[t]) ELSE UNCHANGED <<pos, alone>>
      /\ UNCHANGED <<seekable, calls, offset, count, res, buffer, sent, start, short>>
  BY DEF Seek, Goto
<1>2. /\ Types /\ (rewound => seekable) /\ l \in Labels
      /\ LoopAt(t) /\ SeekAt(t) /\ (alone[t] => PlaceAt(t))
  BY DEF SendInv, Labels
<1>3. offset[t] # NoOffset /\ offset[t] \in 0 .. Length /\ c \in Int
  BY <1>1, <1>2 DEF SeekAt, Types, Offsets
<1>4. /\ alone' \in [Threads -> BOOLEAN] /\ alone'[t] = alone[t]
      /\ pos' = IF seekable THEN offset[t] ELSE pos
      /\ \A u \in Threads \ {t} : alone'[u] => alone[u] /\ pos' = pos
  BY <1>1, <1>2, MoveKeeps DEF Types
<1>5. Types'
  <2> HIDE DEF l, c
  <2>1. pos' \in 0 .. Length
    BY <1>2, <1>3, <1>4 DEF Types
  <2>2. QED
    BY <1>1, <1>2, <1>3, <1>4, <2>1 DEF Types
<1>6. \A u \in Threads \ {t} : Kept(u)
  BY <1>1, <1>2, <1>4 DEF Kept, Types
<1>7. pc'[t] = l /\ cur'[t] = c
  BY <1>1, <1>2 DEF Types
<1>8. LoopAt(t)'
  BY <1>1, <1>2, <1>7 DEF LoopAt
<1>9. SeekAt(t)'
  BY <1>1, <1>7 DEF SeekAt
<1>10. alone'[t] => PlaceAt(t)'
  <2>1. SUFFICES ASSUME alone[t] PROVE PlaceAt(t)'
    BY <1>4
  <2>2. sent[t] = <<>> /\ start[t] = pos' /\ sent[t] = Bytes(start[t], Len(sent[t]))
    BY <1>1, <1>2, <1>4, <2>1 DEF PlaceAt
  <2>3. pos' = start[t] + Len(sent[t])
    <3>1. Len(sent[t]) = 0
      BY <2>2, NoBytes
    <3>2. start[t] = pos'
      BY <2>2
    <3>3. start[t] = start[t] + 0
      BY <1>2 DEF Types
    <3>4. QED
      BY <3>1, <3>2, <3>3, Zenon
  <2>4. QED
    BY <1>1, <1>7, <2>2, <2>3 DEF PlaceAt
<1>11. OnceInv'
  <2>1. CASE seekable
    BY <1>1, <2>1 DEF OnceInv
  <2>2. CASE ~seekable
    <3>1. rewound' = rewound /\ pos' = pos /\ pos \in Nat
      BY <1>1, <1>2, <1>4, <2>2 DEF Types
    <3>2. Taken(t)' = Taken(t)
      BY <1>1 DEF Taken
    <3>3. QED
      BY <1>6, <3>1, <3>2, OnceFrame
  <2>3. QED
    BY <2>1, <2>2
<1>12. QED
  <2>1. seekable' = seekable /\ (rewound' = rewound \/ rewound' = TRUE) /\ (rewound' => seekable)
    BY <1>1, <1>2 DEF Types
  <2>2. QED
    BY <1>5, <1>6, <1>8, <1>9, <1>10, <1>11, <2>1, Frame

\* A read or a write that fails.
LEMMA FailStep ==
    ASSUME SendInv, NEW t \in Threads, pc[t] \in {"read", "write"}, Fail(t),
           buffer' = [buffer EXCEPT ![t] = <<>>],
           UNCHANGED <<seekable, pos, alone, offset, count, cur, sent, start, rewound>>
    PROVE  SendInv'
<1>1. /\ Types /\ (rewound => seekable)
      /\ LoopAt(t) /\ SeekAt(t) /\ (alone[t] => PlaceAt(t))
  BY DEF SendInv
<1>2. /\ pc' = [pc EXCEPT ![t] = "finish"] /\ res' = [res EXCEPT ![t] = -1]
      /\ short' = [short EXCEPT ![t] = TRUE]
  BY DEF Fail, Goto
<1>3. Types'
  BY <1>1, <1>2, NoBytes DEF Types, Labels
<1>4. \A u \in Threads \ {t} : Kept(u)
  BY <1>1, <1>2 DEF Kept, Types
<1>5. pc'[t] = "finish" /\ res'[t] = -1 /\ short'[t] /\ buffer'[t] = <<>>
  BY <1>1, <1>2 DEF Types
<1>6. LoopAt(t)' /\ SeekAt(t)' /\ (alone'[t] => PlaceAt(t)')
  BY <1>1, <1>5 DEF LoopAt, SeekAt, PlaceAt
<1>7. OnceInv'
  <2>1. Taken(t)' \subseteq Taken(t)
    BY <1>5, NoBytes DEF Taken
  <2>2. pos \in Nat
    BY <1>1, SendfileAssumption DEF Types
  <2>3. QED
    BY <1>4, <2>1, <2>2, OnceFrame
<1>8. QED
  BY <1>1, <1>3, <1>4, <1>6, <1>7, Frame

\* A read.
LEMMA ReadStep ==
    ASSUME SendInv, NEW t \in Threads, Read(t)
    PROVE  SendInv'
<1>1. /\ Types /\ (rewound => seekable) /\ pc[t] = "read"
      /\ LoopAt(t) /\ SeekAt(t) /\ (alone[t] => PlaceAt(t))
  BY DEF SendInv, Read
<1>2. /\ pos \in Nat /\ Length \in Nat /\ count[t] \in Nat /\ Chunk \in Nat
      /\ start[t] \in Nat /\ sent[t] \in Seq(Nat) /\ Len(sent[t]) \in Nat
      /\ buffer[t] = <<>>
  <2>1. Length \in Nat /\ Chunk \in Nat
    BY SendfileAssumption
  <2>2. sent[t] \in Seq(Nat)
    BY <1>1 DEF Types
  <2>3. QED
    BY <1>1, <2>1, <2>2, LenProperties DEF Types, LoopAt
<1>3. CASE Fail(t) /\ UNCHANGED <<pos, alone, buffer>>
  <2>1. buffer' = [buffer EXCEPT ![t] = <<>>]
    BY <1>1, <1>2, <1>3 DEF Types
  <2>2. QED
    BY <1>1, <1>3, <2>1, FailStep DEF Read, locals, history
<1>4. ASSUME NEW n \in 0 .. Smaller(ToCopy(t), Length - pos),
             buffer' = [buffer EXCEPT ![t] = Bytes(pos, n)], Move(t, pos + n),
             short' = [short EXCEPT ![t] = @ \/ n < ToCopy(t)],
             Goto(t, "write"), UNCHANGED res,
             UNCHANGED <<seekable, calls, locals, sent, history>>
      PROVE  SendInv'
  <2>1. /\ n \in Nat /\ n <= ToCopy(t) /\ pos + n \in 0 .. Length
        /\ pos + n \in Nat /\ ToCopy(t) \in Nat
    BY <1>1, <1>2, <1>4 DEF ToCopy, Smaller, Types
  <2>2. /\ Bytes(pos, n) \in Seq(Nat) /\ Len(Bytes(pos, n)) = n
        /\ ToSet(Bytes(pos, n)) = pos .. pos + n - 1
    BY <1>2, <2>1, BytesSeq
  <2>3. /\ pos' = pos + n /\ alone' \in [Threads -> BOOLEAN] /\ alone'[t] = alone[t]
        /\ \A u \in Threads \ {t} : alone'[u] => alone[u] /\ pos' = pos
    BY <1>1, <1>4, MoveKeeps
  <2>4. pc' = [pc EXCEPT ![t] = "write"] /\ UNCHANGED <<offset, count, cur, start, rewound>>
    BY <1>4 DEF Goto, locals, history
  <2>5. short' \in [Threads -> BOOLEAN] /\ (n < ToCopy(t) => short'[t])
        /\ \A u \in Threads \ {t} : short'[u] = short[u]
    BY <1>1, <1>4 DEF Types
  <2>6. Types'
    BY <1>1, <1>4, <2>1, <2>2, <2>3, <2>4, <2>5 DEF Types, Labels
  <2>7. \A u \in Threads \ {t} : Kept(u)
    BY <1>1, <1>4, <2>3, <2>4, <2>5 DEF Kept, Types
  <2>8. pc'[t] = "write" /\ buffer'[t] = Bytes(pos, n) /\ Len(buffer'[t]) = n
    BY <1>1, <1>4, <2>2, <2>4 DEF Types
  <2>9. LoopAt(t)'
    <3>1. ToCopy(t)' = ToCopy(t)
      BY <2>4 DEF ToCopy
    <3>2. res[t] # -1 /\ res[t] = Len(sent[t]) /\ count[t] # 0
      BY <1>1 DEF LoopAt
    <3>3. res' = res /\ sent' = sent /\ count' = count
      BY <1>4, <2>4
    <3>4. n < ToCopy(t) => short'[t]
      BY <2>5
    <3>5. QED
      BY <2>1, <2>8, <3>1, <3>2, <3>3, <3>4 DEF LoopAt
  <2>10. SeekAt(t)'
    BY <1>1, <1>4, <2>4, <2>8 DEF SeekAt
  <2>11. alone'[t] => PlaceAt(t)'
    <3>1. SUFFICES ASSUME alone[t] PROVE PlaceAt(t)'
      BY <2>3
    <3>2. pos = start[t] + Len(sent[t]) /\ sent[t] = Bytes(start[t], Len(sent[t]))
      BY <1>1, <3>1 DEF PlaceAt
    <3>3. QED
      BY <1>4, <2>3, <2>4, <2>8, <3>2 DEF PlaceAt
  <2>12. OnceInv'
    <3>1. Taken(t)' = ToSet(sent[t]) \cup pos .. pos + n - 1
      BY <1>4, <2>2, <2>8 DEF Taken
    <3>2. Taken(t)' \subseteq Taken(t) \cup pos .. pos' - 1
      <4>1. ToSet(sent[t]) \subseteq Taken(t)
        BY DEF Taken
      <4>2. pos' - 1 = pos + n - 1
        BY <1>2, <2>1, <2>3
      <4>3. QED
        BY <3>1, <4>1, <4>2
    <3>3. pos' \in Nat /\ pos <= pos'
      BY <1>2, <2>1, <2>3
    <3>4. QED
      BY <2>4, <2>7, <3>2, <3>3, OnceFrame
  <2>13. QED
    BY <1>1, <1>4, <2>4, <2>6, <2>7, <2>9, <2>10, <2>11, <2>12, Frame
<1>5. QED
  BY <1>3, <1>4 DEF Read

\* A write: it goes on only after all of a full buffer, so that nothing is
\* left out between what has been sent and what comes next.
LEMMA WriteStep ==
    ASSUME SendInv, NEW t \in Threads, Write(t)
    PROVE  SendInv'
<1>1. /\ Types /\ (rewound => seekable) /\ pc[t] = "write"
      /\ LoopAt(t) /\ SeekAt(t) /\ (alone[t] => PlaceAt(t))
      /\ buffer' = [buffer EXCEPT ![t] = <<>>]
      /\ UNCHANGED <<seekable, pos, calls, offset, cur, alone, start, rewound>>
  BY DEF SendInv, Write, history
<1>2. CASE Fail(t) /\ UNCHANGED <<count, sent>>
  BY <1>1, <1>2, FailStep
<1>3. ASSUME NEW n \in 0 .. Len(buffer[t]),
             sent' = [sent EXCEPT ![t] = @ \o SubSeq(buffer[t], 1, n)],
             res' = [res EXCEPT ![t] = @ + n],
             count' = [count EXCEPT ![t] = @ - n],
             short' = [short EXCEPT ![t] = @ \/ n < Len(buffer[t])],
             Goto(t, IF More(t, n) THEN "read" ELSE "finish")
      PROVE  SendInv'
  <2> DEFINE s == sent[t] \o SubSeq(buffer[t], 1, n)
             l == IF More(t, n) THEN "read" ELSE "finish"
             m == Len(sent[t])
             k == Len(buffer[t])
  <2>1. /\ sent[t] \in Seq(Nat) /\ buffer[t] \in Seq(Nat) /\ m \in Nat /\ k \in Nat
        /\ count[t] \in Nat /\ ToCopy(t) \in Nat /\ ToCopy(t) <= count[t]
        /\ start[t] \in Nat /\ pos \in Nat /\ n \in Nat /\ n <= k
    <3>1. sent[t] \in Seq(Nat) /\ buffer[t] \in Seq(Nat)
      BY <1>1 DEF Types
    <3>2. m \in Nat /\ k \in Nat
      BY <3>1, LenProperties
    <3>3. QED
      BY <1>1, <3>1, <3>2, SendfileAssumption DEF Types, ToCopy, Smaller
  <2>2. res[t] = m /\ k <= ToCopy(t) /\ (k < ToCopy(t) => short[t])
    BY <1>1 DEF LoopAt
  <2>3. s \in Seq(Nat) /\ Len(s) = m + n /\ ToSet(s) \subseteq Taken(t)
    BY <2>1, WriteSet DEF Taken
  <2>4. count[t] - n \in Nat /\ l \in Labels
    BY <2>1, <2>2 DEF Labels
  <2> HIDE DEF s
  <2>5. sent' = [sent EXCEPT ![t] = s]
    BY <1>3 DEF s
  <2>6. /\ pc'[t] = l /\ sent'[t] = s /\ res'[t] = m + n /\ count'[t] = count[t] - n
        /\ (short'[t] <=> short[t] \/ n < k) /\ buffer'[t] = <<>>
    BY <1>1, <1>3, <2>2, <2>5 DEF Types, Goto
  <2>7. Types'
    <3>1. pc' \in [Threads -> Labels]
      BY <1>1, <1>3, <2>4 DEF Types, Goto
    <3>2. res' \in [Threads -> Int]
      BY <1>1, <1>3 DEF Types
    <3>3. short' \in [Threads -> BOOLEAN]
      BY <1>1, <1>3 DEF Types
    <3>4. sent' \in [Threads -> Seq(Nat)]
      BY <1>1, <1>3, <2>3, <2>5 DEF Types
    <3>5. count' \in [Threads -> Nat]
      BY <1>1, <1>3, <2>4 DEF Types
    <3>6. buffer' \in [Threads -> Seq(Nat)]
      BY <1>1, NoBytes DEF Types
    <3>7. QED
      BY <1>1, <3>1, <3>2, <3>3, <3>4, <3>5, <3>6 DEF Types
  <2>8. \A u \in Threads \ {t} : Kept(u)
    BY <1>1, <1>3 DEF Kept, Types, Goto
  <2>9. LoopAt(t)'
    <3>1. l = "read" => count[t] - n # 0
      BY <2>1 DEF More
    <3>2. l = "finish" => (count[t] - n # 0 => short[t] \/ n < k)
      BY <2>1, <2>2 DEF More
    <3>3. QED
      BY <2>1, <2>3, <2>6, <3>1, <3>2 DEF LoopAt
  <2>10. SeekAt(t)'
    BY <1>1, <2>6 DEF SeekAt
  <2>11. alone'[t] => PlaceAt(t)'
    <3>1. SUFFICES ASSUME alone[t] PROVE PlaceAt(t)'
      BY <1>1
    <3>2. /\ sent[t] = Bytes(start[t], m) /\ buffer[t] = Bytes(start[t] + m, k)
          /\ pos = start[t] + m + k
      BY <1>1, <3>1 DEF PlaceAt
    <3>3. s = Bytes(start[t], m + n)
      <4>1. s = Bytes(start[t], m) \o SubSeq(Bytes(start[t] + m, k), 1, n)
        BY <3>2 DEF s
      <4>2. \A p, a, c \in Nat : \A e \in 0 .. c :
                Bytes(p, a) \o SubSeq(Bytes(p + a, c), 1, e) = Bytes(p, a + e)
        BY BytesAppend
      <4> HIDE DEF m, k
      <4>3. start[t] \in Nat /\ m \in Nat /\ k \in Nat /\ n \in 0 .. k
        BY <2>1
      <4>4. QED
        BY <4>1, <4>2, <4>3, Zenon
    <3>4. l = "read" => n = k
      BY <2>1, <2>2 DEF More
    <3>5. l = "read" => pos = start[t] + (m + n)
      <4> HIDE DEF l, m, k
      <4>1. QED
        BY <2>1, <3>2, <3>4
    <3>6. l # "seek" /\ l # "write"
      OBVIOUS
    <3> HIDE DEF l
    <3>7. QED
      BY <1>1, <2>3, <2>6, <3>3, <3>5, <3>6 DEF PlaceAt
  <2>12. OnceInv'
    <3>1. Taken(t)' \subseteq Taken(t)
      BY <2>3, <2>6, NoBytes DEF Taken
    <3>2. rewound' = rewound /\ pos' \in Nat /\ pos <= pos'
      BY <1>1, <2>1
    <3>3. Taken(t)' \subseteq Taken(t) \cup pos .. pos' - 1
      BY <3>1
    <3>4. QED
      BY <2>8, <3>2, <3>3, OnceFrame
  <2>13. QED
    BY <1>1, <2>7, <2>8, <2>9, <2>10, <2>11, <2>12, Frame
<1>4. QED
  BY <1>2, <1>3 DEF Write

\* The return, with lseek if there is an offset.
LEMMA FinishStep ==
    ASSUME SendInv, NEW t \in Threads, Finish(t)
    PROVE  SendInv' /\ (offset[t] # NoOffset /\ seekable => pos' = offset[t])
<1>1. /\ Types /\ (rewound => seekable) /\ pc[t] = "finish"
      /\ LoopAt(t) /\ SeekAt(t) /\ (alone[t] => PlaceAt(t))
      /\ pc' = [pc EXCEPT ![t] = "idle"]
      /\ UNCHANGED <<seekable, offset, count, cur, res, buffer, sent, short, start, rewound>>
  BY DEF SendInv, Finish, Goto, locals, history
<1>2. /\ alone' \in [Threads -> BOOLEAN] /\ alone'[t] = alone[t]
      /\ \A u \in Threads \ {t} : alone'[u] => alone[u] /\ pos' = pos
      /\ IF offset[t] # NoOffset /\ seekable THEN pos' = cur[t] ELSE pos' = pos
  <2>1. CASE offset[t] # NoOffset /\ seekable
    BY <1>1, <2>1, MoveKeeps DEF Finish
  <2>2. CASE ~(offset[t] # NoOffset /\ seekable)
    BY <1>1, <2>2 DEF Finish, Types
  <2>3. QED
    BY <2>1, <2>2
<1>3. offset[t] # NoOffset /\ seekable => rewound /\ pos' = offset[t] /\ pos' \in 0 .. Length
  BY <1>1, <1>2 DEF SeekAt, Types, Offsets
<1>4. Types'
  BY <1>1, <1>2, <1>3 DEF Types, Labels
<1>5. \A u \in Threads \ {t} : Kept(u)
  BY <1>1, <1>2 DEF Kept, Types
<1>6. pc'[t] = "idle"
  BY <1>1 DEF Types
<1>7. LoopAt(t)' /\ SeekAt(t)' /\ (alone'[t] => PlaceAt(t)')
  BY <1>1, <1>2, <1>6 DEF LoopAt, SeekAt, PlaceAt
<1>8. OnceInv'
  <2>1. CASE rewound
    BY <1>1, <2>1 DEF OnceInv
  <2>2. CASE ~rewound
    <3>1. pos' = pos /\ pos \in Nat
      BY <1>1, <1>2, <1>3, <2>2, SendfileAssumption DEF Types
    <3>2. Taken(t)' = Taken(t)
      BY <1>1 DEF Taken
    <3>3. QED
      BY <1>1, <1>5, <3>1, <3>2, OnceFrame
  <2>3. QED
    BY <2>1, <2>2
<1>9. SendInv'
  BY <1>1, <1>4, <1>5, <1>7, <1>8, Frame
<1>10. QED
  BY <1>3, <1>9

\* SendInv holds throughout.
LEMMA SendInvariant == Spec => []SendInv
<1>1. Init => SendInv
  <2> SUFFICES ASSUME Init PROVE SendInv
    OBVIOUS
  <2>1. Types /\ rewound = FALSE
    <3>1. /\ pos = 0 /\ seekable \in BOOLEAN /\ rewound = FALSE
          /\ pc \in [Threads -> {"idle"}] /\ offset \in [Threads -> {NoOffset}]
          /\ count \in [Threads -> {0}] /\ res \in [Threads -> {0}]
          /\ cur \in [Threads -> {0}] /\ start \in [Threads -> {0}]
          /\ alone \in [Threads -> BOOLEAN] /\ short \in [Threads -> BOOLEAN]
      BY DEF Init
    <3>2. buffer \in [Threads -> Seq(Nat)] /\ sent \in [Threads -> Seq(Nat)]
      BY NoBytes DEF Init
    <3>3. QED
      <4>1. 0 \in 0 .. Length
        BY SendfileAssumption
      <4>2. pc \in [Threads -> Labels] /\ offset \in [Threads -> Offsets]
        BY <3>1 DEF Labels, Offsets
      <4>3. /\ count \in [Threads -> Nat] /\ start \in [Threads -> Nat]
            /\ res \in [Threads -> Int] /\ cur \in [Threads -> Int]
        BY <3>1
      <4>4. QED
        BY <3>1, <3>2, <4>1, <4>2, <4>3 DEF Types
  <2>2. \A t \in Threads : /\ pc[t] = "idle" /\ count[t] = 0 /\ res[t] = 0 /\ start[t] = 0
                           /\ buffer[t] = <<>> /\ sent[t] = <<>>
    BY DEF Init
  <2>3. <<>> = Bytes(0, 0)
    BY BytesSeq
  <2>4. \A t \in Threads : LoopAt(t) /\ SeekAt(t) /\ PlaceAt(t)
    BY <2>2, <2>3, NoBytes DEF LoopAt, SeekAt, PlaceAt
  <2>5. \A t \in Threads : Taken(t) = {}
    BY <2>2, NoBytes DEF Taken
  <2>6. OnceInv
    BY <2>5 DEF OnceInv
  <2>7. QED
    BY <2>1, <2>4, <2>6 DEF SendInv
<1>2. SendInv /\ [Next]_vars => SendInv'
  <2> SUFFICES ASSUME SendInv, [Next]_vars PROVE SendInv'
    OBVIOUS
  <2>1. CASE UNCHANGED vars
    BY <2>1 DEF vars, locals, history, SendInv, Types, OnceInv, Taken, LoopAt, SeekAt,
                PlaceAt, ToCopy
  <2>2. CASE Next
    <3>1. \A n \in 0 .. MaxCount : n \in Nat
      BY SendfileAssumption
    <3>2. QED
      BY <2>2, <3>1, CallStep, SeekStep, ReadStep, WriteStep, FinishStep DEF Next, Step, Offsets
  <2>3. QED
    BY <2>1, <2>2
<1>3. QED
  BY <1>1, <1>2, PTL DEF Spec

-----------------------------------------------------------------------------
(* Theorems                                                                *)

\* The result is the number of bytes written, or a read or write has failed;
\* and a call that sends less than it was asked to had a reason.
THEOREM SendCountIsSent == Spec => []CountIsSent
<1>1. SendInv => CountIsSent
  BY DEF SendInv, LoopAt, CountIsSent
<1>2. QED
  BY <1>1, SendInvariant, PTL

\* The bytes a call sends are those from where it began, without a gap.
THEOREM SendSentInOrder == Spec => []SentInOrder
<1>1. SendInv => SentInOrder
  BY DEF SendInv, PlaceAt, SentInOrder
<1>2. QED
  BY <1>1, SendInvariant, PTL

\* Calls that share the position share no byte, while nobody uses an offset.
THEOREM SendNoByteTwice == Spec => []NoByteTwice
<1>1. SendInv => NoByteTwice
  BY DEF SendInv, OnceInv, Taken, NoByteTwice
<1>2. QED
  BY <1>1, SendInvariant, PTL

\* The steps a call may still take, two for each byte at most.
StepsLeft(t) ==
    CASE pc[t] = "idle" -> 0 [] pc[t] = "finish" -> 1 [] pc[t] = "write" -> 2 * count[t]
      [] pc[t] = "read" -> 2 * count[t] + 1 [] pc[t] = "seek" -> 2 * count[t] + 2

\* A turn of the loop that goes on has sent a whole buffer.
LEMMA StepIsFewer ==
    ASSUME SendInv, NEW t \in Threads, Step(t)
    PROVE  StepsLeft(t) \in Nat /\ StepsLeft(t)' \in Nat /\ StepsLeft(t)' < StepsLeft(t)
<1>1. /\ pc \in [Threads -> Labels] /\ count \in [Threads -> Nat] /\ count[t] \in Nat
      /\ Chunk \in Nat \ {0}
  BY SendfileAssumption DEF SendInv, Types
<1>2. pc[t] \in {"read", "write"} => count[t] >= 1
  BY <1>1 DEF SendInv, LoopAt
<1>3. ASSUME NEW l \in Labels, Goto(t, l) PROVE pc'[t] = l
  BY <1>1, <1>3 DEF Goto
<1>4. CASE Seek(t)
  <2>1. pc[t] = "seek" /\ pc'[t] \in {"read", "finish"} /\ count'[t] = count[t]
    BY <1>3, <1>4 DEF Seek, Labels
  <2>2. QED
    BY <1>1, <2>1 DEF StepsLeft
<1>5. CASE Read(t)
  <2>1. pc[t] = "read" /\ pc'[t] \in {"write", "finish"} /\ count'[t] = count[t]
    BY <1>3, <1>5 DEF Read, Fail, Labels, locals
  <2>2. QED
    BY <1>1, <1>2, <2>1 DEF StepsLeft
<1>6. CASE Write(t)
  <2>1. pc[t] = "write" /\ count[t] >= 1
    BY <1>2, <1>6 DEF Write
  <2>2. CASE Fail(t) /\ UNCHANGED count
    <3>1. pc'[t] = "finish" /\ count'[t] = count[t]
      BY <1>3, <2>2 DEF Fail, Labels
    <3>2. QED
      BY <1>1, <2>1, <3>1 DEF StepsLeft
  <2>3. ASSUME NEW n \in 0 .. Len(buffer[t]), count' = [count EXCEPT ![t] = @ - n],
               Goto(t, IF More(t, n) THEN "read" ELSE "finish")
        PROVE  StepsLeft(t) \in Nat /\ StepsLeft(t)' \in Nat /\ StepsLeft(t)' < StepsLeft(t)
    <3>1. CASE More(t, n)
      <4>1. pc'[t] = "read" /\ count'[t] = count[t] - n
        BY <1>1, <1>3, <2>3, <3>1 DEF Labels
      <4>2. n \in Nat /\ n >= 1 /\ n <= count[t]
        BY <1>1, <2>1, <3>1 DEF More, ToCopy, Smaller
      <4>3. QED
        BY <1>1, <2>1, <4>1, <4>2 DEF StepsLeft
    <3>2. CASE ~More(t, n)
      <4>1. pc'[t] = "finish"
        BY <1>3, <2>3, <3>2 DEF Labels
      <4>2. QED
        BY <1>1, <2>1, <4>1 DEF StepsLeft
    <3>3. QED
      BY <3>1, <3>2
  <2>4. QED
    BY <1>6, <2>2, <2>3 DEF Write
<1>7. CASE Finish(t)
  <2>1. pc[t] = "finish" /\ pc'[t] = "idle"
    BY <1>3, <1>7 DEF Finish, Labels
  <2>2. QED
    BY <2>1 DEF StepsLeft
<1>8. QED
  BY <1>4, <1>5, <1>6, <1>7 DEF Step

\* The loop ends: every step of a call leaves it fewer, whatever the reads and
\* writes return and the other threads do, and theirs leave it as many.
THEOREM SendAdvances ==
    Spec => [][\A t \in Threads : pc[t] # "idle" =>
                  /\ StepsLeft(t) \in Nat /\ StepsLeft(t)' \in Nat
                  /\ Step(t) => StepsLeft(t)' < StepsLeft(t)
                  /\ ~Step(t) => StepsLeft(t)' = StepsLeft(t)]_vars
<1>1. ASSUME SendInv, NEW t \in Threads, pc[t] # "idle", Next, ~Step(t)
      PROVE  pc'[t] = pc[t] /\ count'[t] = count[t]
  <2>1. pc \in [Threads -> Labels] /\ count \in [Threads -> Nat]
    BY <1>1 DEF SendInv, Types
  <2>2. ASSUME NEW u \in Threads, NEW o, NEW n, Call(u, o, n)
        PROVE  pc'[t] = pc[t] /\ count'[t] = count[t]
    <3>1. u # t
      BY <1>1, <2>2 DEF Call
    <3>2. QED
      BY <2>1, <2>2, <3>1 DEF Call, Goto
  <2>3. ASSUME NEW u \in Threads, Step(u)
        PROVE  pc'[t] = pc[t] /\ count'[t] = count[t]
    <3>1. u # t
      BY <1>1, <2>3
    <3>2. ASSUME NEW l, Goto(u, l) PROVE pc'[t] = pc[t]
      BY <2>1, <3>1, <3>2 DEF Goto
    <3>3. \/ UNCHANGED count
          \/ \E n \in 0 .. Len(buffer[u]) : count' = [count EXCEPT ![u] = @ - n]
      BY <2>3 DEF Step, Seek, Read, Write, Finish, locals
    <3>4. pc'[t] = pc[t]
      BY <2>3, <3>2 DEF Step, Seek, Read, Write, Finish, Fail
    <3>5. QED
      BY <2>1, <3>1, <3>3, <3>4
  <2>4. QED
    BY <1>1, <2>2, <2>3 DEF Next
<1>2. ASSUME SendInv, NEW t \in Threads PROVE StepsLeft(t) \in Nat
  BY <1>2 DEF SendInv, Types, Labels, StepsLeft
<1>3. SendInv /\ [Next]_vars =>
        [\A t \in Threads : pc[t] # "idle" =>
            /\ StepsLeft(t) \in Nat /\ StepsLeft(t)' \in Nat
            /\ Step(t) => StepsLeft(t)' < StepsLeft(t)
            /\ ~Step(t) => StepsLeft(t)' = StepsLeft(t)]_vars
  <2> SUFFICES ASSUME SendInv, Next, NEW t \in Threads, pc[t] # "idle"
               PROVE  /\ StepsLeft(t) \in Nat /\ StepsLeft(t)' \in Nat
                      /\ Step(t) => StepsLeft(t)' < StepsLeft(t)
                      /\ ~Step(t) => StepsLeft(t)' = StepsLeft(t)
    OBVIOUS
  <2>1. CASE Step(t)
    BY <2>1, StepIsFewer
  <2>2. CASE ~Step(t)
    <3>1. StepsLeft(t)' = StepsLeft(t)
      BY <1>1, <2>2 DEF StepsLeft
    <3>2. QED
      BY <1>2, <2>2, <3>1
  <2>3. QED
    BY <2>1, <2>2
<1>4. QED
  BY <1>3, SendInvariant, PTL DEF Spec

-----------------------------------------------------------------------------
(* close_range                                                             *)

\* Before it wraps round, turn k looks at first + k.
LEMMA LoopFdPlain ==
    ASSUME NEW first \in UnsignedInt, NEW k \in Nat, first + k < 2^Width
    PROVE  LoopFd(first, k) = first + k
BY WidthPowers DEF LoopFd, UnsignedInt

\* A range that stops short of UINT_MAX takes one turn for each descriptor.
LEMMA TurnsOfRange ==
    ASSUME NEW first \in UnsignedInt, NEW last \in UnsignedInt, last # 2^Width - 1
    PROVE  Turns(first, last) = {k \in Nat : first + k <= last}
<1>1. ASSUME NEW k \in Turns(first, last)
      PROVE  k \in Nat /\ first + k <= last
  <2>1. k \in Nat /\ \A j \in 0 .. k : LoopFd(first, j) <= last
    BY WidthPowers DEF Turns, UnsignedInt, InLoop
  <2>2. CASE first > last
    <3>1. LoopFd(first, 0) = first
      BY LoopFdPlain, WidthPowers DEF UnsignedInt
    <3>2. QED
      BY <2>1, <2>2, <3>1 DEF UnsignedInt
  <2>3. CASE first <= last
    <3> DEFINE j == last - first + 1
    <3>1. j \in Nat /\ first + j = last + 1 /\ last + 1 < 2^Width
      BY <2>3, WidthPowers DEF UnsignedInt
    <3>2. LoopFd(first, j) = last + 1
      BY <3>1, LoopFdPlain
    <3>3. ~(j <= k)
      BY <2>1, <3>1, <3>2 DEF UnsignedInt
    <3>4. QED
      BY <2>1, <3>1, <3>3 DEF UnsignedInt
  <2>4. QED
    BY <2>2, <2>3 DEF UnsignedInt
<1>2. ASSUME NEW k \in Nat, first + k <= last
      PROVE  k \in Turns(first, last)
  <2>1. ASSUME NEW j \in 0 .. k PROVE LoopFd(first, j) <= last
    <3>1. j \in Nat /\ first + j <= last /\ first + j < 2^Width
      BY <1>2, WidthPowers DEF UnsignedInt
    <3>2. QED
      BY <3>1, LoopFdPlain
  <2>2. k \in UnsignedInt
    BY <1>2, WidthPowers DEF UnsignedInt
  <2>3. QED
    BY <2>1, <2>2 DEF Turns, InLoop
<1>3. QED
  BY <1>1, <1>2

LEMMA CloseRangeStep ==
    ASSUME NEW first \in UnsignedInt, NEW last \in UnsignedInt, CloseRange(first, last)
    PROVE  CloseRangeExact'
<1>1. /\ called'.first = first /\ called'.last = last
      /\ called'.closed = Closed(first, last) /\ called'.returns = LoopEnds(first, last)
  BY DEF CloseRange
<1> SUFFICES ASSUME last # 2^Width - 1
             PROVE  LoopEnds(first, last) /\ Closed(first, last) = first .. last
  BY <1>1 DEF CloseRangeExact
<1>2. Turns(first, last) = {k \in Nat : first + k <= last}
  BY TurnsOfRange
<1>3. \A k \in Turns(first, last) : LoopFd(first, k) = first + k
  BY <1>2, LoopFdPlain, WidthPowers DEF UnsignedInt
<1>4. Closed(first, last) = {first + k : k \in {j \in Nat : first + j <= last}}
  BY <1>2, <1>3 DEF Closed
<1>5. ASSUME NEW d \in first .. last
      PROVE  d - first \in Nat /\ first + (d - first) = d /\ first + (d - first) <= last
  BY DEF UnsignedInt
<1>6. Closed(first, last) = first .. last
  BY <1>4, <1>5 DEF UnsignedInt
<1>7. 2^Width - 1 \in UnsignedInt /\ 2^Width - 1 \notin Turns(first, last)
  BY <1>2, WidthPowers DEF UnsignedInt
<1>8. QED
  BY <1>6, <1>7 DEF LoopEnds

-----------------------------------------------------------------------------
(* epoll_pwait2                                                            *)

\* A value that an int can hold is stored as it is.
LEMMA FitsInt ==
    ASSUME NEW v \in Nat, v < 2^(Width - 1)
    PROVE  SignedField(Width, v) = v
BY WidthPowers DEF SignedField

\* Dividing by b what is below a * b gives less than a.
LEMMA QuotientBelow ==
    ASSUME NEW a \in Nat \ {0}, NEW b \in Nat \ {0}, NEW n \in 0 .. a * b - 1
    PROVE  n \div b \in 0 .. a - 1
<1>1. n \div b \in Int /\ n % b \in 0 .. b - 1 /\ n = (n \div b) * b + (n % b)
  BY DivModExist
<1> DEFINE q == n \div b
<1> HIDE DEF q
<1>2. q * b <= n /\ n < q * b + b
  BY <1>1 DEF q
<1>3. ASSUME q >= a PROVE FALSE
  <2>1. q * b >= a * b
    BY <1>1, <1>3 DEF q
  <2>2. QED
    BY <1>2, <2>1, <1>1 DEF q
<1>4. ASSUME q < 0 PROVE FALSE
  <2>1. (q + 1) * b <= 0
    BY <1>1, <1>4 DEF q
  <2>2. QED
    BY <1>2, <2>1, <1>1 DEF q
<1>5. QED
  BY <1>1, <1>3, <1>4 DEF q

LEMMA EpollStep ==
    ASSUME NEW time \in Times, time # NullTimeout, EpollPwait2(time)
    PROVE  EpollTimeoutClose'
<1> DEFINE sec == time.sec
           nsec == time.nsec
           ms == nsec \div Milli
<1>1. sec \in Nat /\ nsec \in 0 .. Second * Milli - 1 /\ Second \in Nat \ {0} /\ Milli \in Nat \ {0}
  BY StatelessAssumption DEF Times, NanosPerSecond
<1>2. ms \in 0 .. Second - 1
  BY <1>1, QuotientBelow
<1>3. ms * Milli <= nsec /\ nsec < (ms + 1) * Milli
  <2>1. nsec % Milli \in 0 .. Milli - 1 /\ nsec = ms * Milli + (nsec % Milli) /\ ms \in Int
    <3>1. nsec \in Int
      BY <1>1
    <3>2. QED
      BY <1>1, <3>1, DivModExist
  <2> HIDE DEF ms
  <2>2. (ms + 1) * Milli = ms * Milli + Milli
    BY <1>1, <2>1
  <2>3. QED
    BY <1>1, <2>1, <2>2
<1>4. /\ called'.sec = sec /\ called'.nsec = nsec
      /\ called'.ms = SignedField(Width, sec * Second + ms)
  BY DEF EpollPwait2, EpollTimeout
<1> HIDE DEF sec, nsec, ms
<1> SUFFICES ASSUME (sec + 1) * Second <= 2^(Width - 1)
             PROVE  LET span == sec * (Second * Milli) + nsec
                        m == SignedField(Width, sec * Second + ms)
                    IN  m >= 0 /\ m * Milli <= span /\ span < (m + 1) * Milli
  BY <1>4 DEF EpollTimeoutClose, NanosPerSecond
<1>5. sec * Second \in Nat /\ (sec + 1) * Second = sec * Second + Second
  BY <1>1
<1>6. SignedField(Width, sec * Second + ms) = sec * Second + ms
  <2>1. sec * Second + ms \in Nat /\ sec * Second + ms < 2^(Width - 1)
    BY <1>1, <1>2, <1>5, WidthPowers
  <2>2. QED
    BY <2>1, FitsInt
<1>7. /\ (sec * Second + ms) * Milli = sec * (Second * Milli) + ms * Milli
      /\ (sec * Second + ms + 1) * Milli = sec * (Second * Milli) + (ms + 1) * Milli
      /\ sec * (Second * Milli) \in Nat /\ ms * Milli \in Nat /\ (ms + 1) * Milli \in Nat
  BY <1>1, <1>2
<1>8. QED
  BY <1>1, <1>2, <1>3, <1>5, <1>6, <1>7

-----------------------------------------------------------------------------
(* __sched_cpucount                                                        *)

\* Which words a CPU number falls in.
LEMMA InWords ==
    ASSUME NEW n \in Nat, NEW c \in Nat
    PROVE  c \div WordBits < n \div WordBits <=> c < n - (n % WordBits)
<1> DEFINE w == WordBits
           p == c \div w
           q == n \div w
<1>1. w \in Nat \ {0}
  BY StatelessAssumption
<1>2. /\ p \in Int /\ c % w \in 0 .. w - 1 /\ c = p * w + (c % w)
      /\ q \in Int /\ n % w \in 0 .. w - 1 /\ n = q * w + (n % w)
  BY <1>1, DivModExist
<1> HIDE DEF w, p, q
<1>3. ASSUME p < q PROVE p * w + w <= q * w
  <2>1. (p + 1) * w <= q * w
    BY <1>1, <1>2, <1>3
  <2>2. QED
    BY <1>1, <1>2, <2>1
<1>4. ASSUME ~(p < q) PROVE q * w <= p * w
  BY <1>1, <1>2, <1>4
<1>5. p * w \in Int /\ q * w \in Int
  BY <1>1, <1>2
<1>6. p < q <=> c < n - (n % w)
  BY <1>1, <1>2, <1>3, <1>4, <1>5
<1>7. QED
  BY <1>6 DEF w, p, q

LEMMA CpuCountStep ==
    ASSUME NEW bytes \in 1 .. MaxBytes, NEW set \in SUBSET (0 .. bytes * ByteBits - 1),
           SchedCpucount(bytes, set)
    PROVE  CpuCountOfFirst'
<1> DEFINE part == {c \in set : c \div WordBits < Words(bytes)}
<1>1. /\ called'.bytes = bytes /\ called'.set = set
      /\ called'.words = Words(bytes) /\ called'.count = Cardinality(part)
  BY DEF SchedCpucount, CpuCount
<1>2. bytes \in Nat /\ bytes * ByteBits \in Nat
  BY StatelessAssumption
<1>3. IsFiniteSet(set) /\ set \subseteq Nat
  <2>1. IsFiniteSet(0 .. bytes * ByteBits - 1)
    BY <1>2, FS_Interval
  <2>2. 0 .. bytes * ByteBits - 1 \subseteq Nat
    BY <1>2
  <2>3. QED
    BY <2>1, <2>2, FS_Subset
<1>4. Cardinality(part) <= Cardinality(set)
  BY <1>3, FS_Subset
<1>5. part = set <=> \A c \in set : c < bytes - (bytes % WordBits)
  <2>1. \A c \in set : c \div WordBits < Words(bytes) <=> c < bytes - (bytes % WordBits)
    BY <1>2, <1>3, InWords DEF Words
  <2>2. QED
    BY <2>1
<1>6. Words(bytes) * WordBits <= bytes * ByteBits
  <2> DEFINE q == bytes \div WordBits
  <2>1. WordBits \in Nat \ {0} /\ ByteBits \in Nat \ {0} /\ bytes \in Int
    BY <1>2, StatelessAssumption
  <2>2. /\ q \in Int /\ bytes % WordBits \in 0 .. WordBits - 1
        /\ bytes = q * WordBits + (bytes % WordBits)
    BY <2>1, DivModExist
  <2>3. Words(bytes) = q
    BY DEF Words
  <2> HIDE DEF q
  <2>4. q * WordBits <= bytes
    BY <1>2, <2>1, <2>2
  <2>5. bytes <= bytes * ByteBits
    BY <1>2, <2>1
  <2>6. QED
    BY <1>2, <2>1, <2>2, <2>3, <2>4, <2>5
<1>7. QED
  BY <1>1, <1>4, <1>5, <1>6 DEF CpuCountOfFirst

-----------------------------------------------------------------------------
(* The timeout of pthread_cond_timedwait                                   *)

LEMMA TimeoutStep ==
    ASSUME NEW abstime \in Times, NEW now \in Times, TimeUntil(abstime, now)
    PROVE  TimeoutExact'
<1> DEFINE N == NanosPerSecond
           d == Difference(abstime, now)
           r == Timeout(d)
<1>1. N \in Nat \ {0} /\ MaxSeconds \in Nat
  BY StatelessAssumption DEF NanosPerSecond
<1>2. /\ abstime.sec \in 0 .. MaxSeconds /\ abstime.nsec \in 0 .. N - 1
      /\ now.sec \in 0 .. MaxSeconds /\ now.nsec \in 0 .. N - 1
  BY DEF Times
<1>3. /\ called'.abstime = abstime /\ called'.now = now
      /\ called'.passed = Passed(d) /\ called'.timeout = r
  BY DEF TimeUntil
<1>4. /\ d = [sec |-> abstime.sec - now.sec, nsec |-> abstime.nsec - now.nsec]
      /\ d.sec \in Int /\ d.nsec \in Int /\ d.nsec < N /\ d.nsec > -N
      /\ d.sec <= MaxSeconds
  BY <1>1, <1>2 DEF Difference
<1>5. Nanos(abstime) - Nanos(now) = d.sec * N + d.nsec /\ Nanos(abstime) \in Int /\ Nanos(now) \in Int
  BY <1>1, <1>2, <1>4 DEF Nanos
<1>6. r = IF d.nsec < 0 THEN [sec |-> d.sec - 1, nsec |-> d.nsec + N] ELSE d
  BY <1>1, <1>4 DEF Timeout
<1> HIDE DEF N, d, r
<1>7. Passed(d) <=> d.sec * N + d.nsec < 0
  <2>1. CASE d.sec < 0
    <3>1. d.sec * N <= -N
      BY <1>1, <1>4, <2>1
    <3>2. QED
      BY <1>1, <1>4, <2>1, <3>1 DEF Passed
  <2>2. CASE d.sec = 0
    <3>1. d.sec * N = 0
      BY <1>1, <2>2
    <3>2. QED
      BY <1>4, <2>2, <3>1 DEF Passed
  <2>3. CASE d.sec > 0
    <3>1. d.sec * N >= N
      BY <1>1, <1>4, <2>3
    <3>2. QED
      BY <1>1, <1>4, <2>3, <3>1 DEF Passed
  <2>4. QED
    BY <1>4, <2>1, <2>2, <2>3
<1>8. ASSUME ~Passed(d)
      PROVE  r \in Times /\ Nanos(r) = d.sec * N + d.nsec
  <2>1. CASE d.nsec < 0
    <3>1. r = [sec |-> d.sec - 1, nsec |-> d.nsec + N]
      BY <1>6, <2>1
    <3>2. d.sec > 0
      BY <1>4, <1>8, <2>1 DEF Passed
    <3>3. (d.sec - 1) * N + (d.nsec + N) = d.sec * N + d.nsec
      BY <1>1, <1>4
    <3>4. d.sec - 1 \in 0 .. MaxSeconds /\ d.nsec + N \in 0 .. N - 1
      BY <1>1, <1>4, <2>1, <3>2
    <3>5. QED
      BY <3>1, <3>3, <3>4 DEF Times, Nanos, N
  <2>2. CASE d.nsec >= 0
    <3>1. r = d /\ d.sec \in 0 .. MaxSeconds /\ d.nsec \in 0 .. N - 1
      BY <1>1, <1>4, <1>6, <1>8, <2>2 DEF Passed
    <3>2. d \in Times
      BY <1>4, <3>1 DEF Times, N
    <3>3. QED
      BY <3>1, <3>2 DEF Nanos, N
  <2>3. QED
    BY <1>4, <2>1, <2>2
<1>9. QED
  BY <1>3, <1>5, <1>7, <1>8 DEF TimeoutExact

-----------------------------------------------------------------------------
(* The tables of ctype.h                                                   *)

Case == {"UPPER", "LOWER"}

\* Apart from its case, a letter has the classes of its other form.
LEMMA SameButCase ==
    ASSUME NEW c \in Upper
    PROVE  Classes(c) \ Case = Classes(c + 32) \ Case
<1>1. c \in Int /\ c + 32 \in Int /\ c \in 65 .. 90
  BY DEF Upper
<1>2. /\ c \notin Class.CTRL /\ c + 32 \notin Class.CTRL
      /\ c \notin Class.BLANK /\ c + 32 \notin Class.BLANK
      /\ c \notin Class.SPACE /\ c + 32 \notin Class.SPACE
  BY <1>1 DEF Class
<1>3. /\ c \notin Class.PUNCT /\ c + 32 \notin Class.PUNCT
      /\ c \notin Class.DIGIT /\ c + 32 \notin Class.DIGIT
      /\ c \in Class.XDIGIT <=> c + 32 \in Class.XDIGIT
  BY <1>1 DEF Class, Upper, Lower, Digit, Letters
<1>4. /\ c \in Class.ALPHA /\ c + 32 \in Class.ALPHA
      /\ c \in Class.PRINT /\ c + 32 \in Class.PRINT
      /\ c \in Class.GRAPH /\ c + 32 \in Class.GRAPH
  BY <1>1 DEF Class, Upper, Lower, Graphic
<1>5. DOMAIN Class = {"CTRL", "BLANK", "SPACE", "PUNCT", "DIGIT", "XDIGIT", "UPPER",
                      "LOWER", "ALPHA", "PRINT", "GRAPH"}
  BY DEF Class
<1>6. \A k \in DOMAIN Class \ Case : c \in Class[k] <=> c + 32 \in Class[k]
  BY <1>2, <1>3, <1>4, <1>5 DEF Case
<1>7. QED
  BY <1>6 DEF Classes

\* What the other cases need of the table.
LEMMA ClassesOf ==
    ASSUME NEW c
    PROVE  /\ "UPPER" \in Classes(c) <=> c \in Upper
           /\ "LOWER" \in Classes(c) <=> c \in Lower
           /\ "DIGIT" \in Classes(c) <=> c \in Digit
           /\ "ALPHA" \in Classes(c) <=> c \in Upper \cup Lower
           /\ "PRINT" \in Classes(c) <=> c \in Graphic \cup {32}
BY DEF Classes, Class

LEMMA CtypeStep ==
    ASSUME NEW c \in Index, CtypeLookup(c)
    PROVE  TablesAgree'
<1>1. /\ called'.c = c /\ called'.classes = Classes(c)
      /\ called'.lower = ToLower(c) /\ called'.upper = ToUpper(c)
  BY DEF CtypeLookup
<1>2. c \in Int
  BY DEF Index
<1>3. CASE c \in Upper
  <2>1. c \in Listed /\ c \notin Lower /\ c + 32 \in Lower /\ (c + 32) - 32 = c /\ c + 32 # c
    BY <1>3 DEF Upper, Lower, Listed
  <2>2. ToLower(c) = c + 32 /\ ToUpper(c) = c /\ ToUpper(c + 32) = c
    BY <1>3, <2>1 DEF ToLower, ToUpper, EOF, Upper, Lower
  <2>3. "UPPER" \in Classes(c) /\ "LOWER" \notin Classes(c)
    BY <1>3, <2>1, ClassesOf
  <2>4. QED
    BY <1>1, <1>3, <2>1, <2>2, <2>3, SameButCase DEF TablesAgree, Case
<1>4. CASE c \in Lower
  <2>1. /\ c \in Listed /\ c \notin Upper /\ c - 32 \in Upper /\ (c - 32) + 32 = c
        /\ c - 32 # c
    BY <1>4 DEF Upper, Lower, Listed
  <2>2. ToLower(c) = c /\ ToUpper(c) = c - 32 /\ ToLower(c - 32) = c
    BY <1>4, <2>1 DEF ToLower, ToUpper, EOF, Upper, Lower
  <2>3. "LOWER" \in Classes(c) /\ "UPPER" \notin Classes(c)
    BY <1>4, <2>1, ClassesOf
  <2>4. Classes(c - 32) \ Case = Classes(c) \ Case
    BY <2>1, SameButCase
  <2>5. QED
    BY <1>1, <2>1, <2>2, <2>3, <2>4 DEF TablesAgree, Case
<1>5. CASE c \in Listed \ (Upper \cup Lower)
  <2>1. ToLower(c) = c /\ ToUpper(c) = c
    BY <1>5 DEF ToLower, ToUpper
  <2>2. "UPPER" \notin Classes(c) /\ "LOWER" \notin Classes(c)
    BY <1>5, ClassesOf
  <2>3. QED
    BY <1>1, <1>5, <2>1, <2>2 DEF TablesAgree
<1>6. CASE c \notin Listed
  <2>1. c \notin Upper /\ c \notin Lower /\ c \notin Digit /\ c \notin Graphic \cup {32}
    BY <1>2, <1>6 DEF Listed, Upper, Lower, Digit, Graphic
  <2>2. "PRINT" \notin Classes(c) /\ "ALPHA" \notin Classes(c) /\ "DIGIT" \notin Classes(c)
    BY <2>1, ClassesOf
  <2>3. QED
    BY <1>1, <1>6, <2>2 DEF TablesAgree
<1>7. QED
  BY <1>3, <1>4, <1>5, <1>6

-----------------------------------------------------------------------------
(* The theorems                                                            *)

\* A call is of one function, so that the properties of the others do not
\* speak of it.
LEMMA StatelessStep ==
    ASSUME StatelessNext
    PROVE  CallsExact' /\ TimeoutExact'
<1> USE DEF CallsExact, CloseRangeExact, EpollTimeoutClose, CpuCountOfFirst,
            TimeoutExact, TablesAgree
<1>1. ASSUME NEW first \in UnsignedInt, NEW last \in UnsignedInt, CloseRange(first, last)
      PROVE  CallsExact' /\ TimeoutExact'
  <2>1. called'.name = "close_range"
    BY <1>1 DEF CloseRange
  <2>2. CloseRangeExact'
    BY <1>1, CloseRangeStep
  <2>3. QED
    BY <2>1, <2>2
<1>2. ASSUME NEW timeout \in Times \cup {NullTimeout}, EpollPwait2(timeout)
      PROVE  CallsExact' /\ TimeoutExact'
  <2>1. CASE timeout = NullTimeout
    <3>1. called'.name = "fault"
      BY <1>2, <2>1 DEF EpollPwait2
    <3>2. QED
      BY <3>1
  <2>2. CASE timeout # NullTimeout
    <3>1. called'.name = "epoll_pwait2"
      BY <1>2, <2>2 DEF EpollPwait2
    <3>2. EpollTimeoutClose'
      BY <1>2, <2>2, EpollStep
    <3>3. QED
      BY <3>1, <3>2
  <2>3. QED
    BY <2>1, <2>2
<1>3. ASSUME NEW bytes \in 1 .. MaxBytes, NEW set \in SUBSET (0 .. bytes * ByteBits - 1),
             SchedCpucount(bytes, set)
      PROVE  CallsExact' /\ TimeoutExact'
  <2>1. called'.name = "cpucount"
    BY <1>3 DEF SchedCpucount
  <2>2. CpuCountOfFirst'
    BY <1>3, CpuCountStep
  <2>3. QED
    BY <2>1, <2>2
<1>4. ASSUME NEW abstime \in Times, NEW now \in Times, TimeUntil(abstime, now)
      PROVE  CallsExact' /\ TimeoutExact'
  <2>1. called'.name = "timedwait"
    BY <1>4 DEF TimeUntil
  <2>2. TimeoutExact'
    BY <1>4, TimeoutStep
  <2>3. QED
    BY <2>1, <2>2
<1>5. ASSUME NEW c \in Index, CtypeLookup(c)
      PROVE  CallsExact' /\ TimeoutExact'
  <2>1. called'.name = "ctype"
    BY <1>5 DEF CtypeLookup
  <2>2. TablesAgree'
    BY <1>5, CtypeStep
  <2>3. QED
    BY <2>1, <2>2
<1>6. QED
  BY <1>1, <1>2, <1>3, <1>4, <1>5 DEF StatelessNext

LEMMA StatelessInv == StatelessSpec => [](CallsExact /\ TimeoutExact)
<1>1. StatelessInit => CallsExact /\ TimeoutExact
  BY DEF StatelessInit, CallsExact, CloseRangeExact, EpollTimeoutClose, CpuCountOfFirst,
         TimeoutExact, TablesAgree
<1>2. CallsExact /\ TimeoutExact /\ [StatelessNext]_called => (CallsExact /\ TimeoutExact)'
  BY StatelessStep DEF CallsExact, CloseRangeExact, EpollTimeoutClose, CpuCountOfFirst,
                       TimeoutExact, TablesAgree
<1>3. QED
  BY <1>1, <1>2, PTL DEF StatelessSpec

\* close_range on ranges that end before UINT_MAX, epoll_pwait2 with a timeout
\* that fits, __sched_cpucount on the CPUs it looks at and the tables, at any
\* width of an int and of the words.
THEOREM StatelessCallsExact == StatelessSpec => []CallsExact
BY StatelessInv, PTL

\* The timeout of pthread_cond_timedwait is what is left until abstime, and
\* the early ETIMEDOUT is true, for any two times.
THEOREM StatelessTimeoutExact == StatelessSpec => []TimeoutExact
BY StatelessInv, PTL

-----------------------------------------------------------------------------
(* Registers                                                               *)

H == 2^Half
P == 2^(Half - 1)
R == 2^(2 * Half)

\* The sizes involved.
LEMMA Sizes ==
    /\ P \in Nat \ {0} /\ H = 2 * P /\ R = H * H /\ 2^(2 * Half - 1) = H * P
    /\ H <= R - P /\ H <= H * P /\ R = 2 * (H * P) /\ R \in Nat /\ R > H
    /\ MaxErrno \in Nat /\ MaxErrno < H /\ MaxResult \in P - 1 .. H * P - 1
    /\ ENOSYS \in Nat \ {0} /\ ENOSYS <= MaxErrno
<1>1. /\ P \in Nat \ {0} /\ H = 2 * P /\ 2^(2 * Half - 1) = H * P /\ R = 2 * (H * P)
  BY RegisterPowers DEF P, H, R
<1>2. H \in Nat /\ H >= 2 /\ H * P \in Nat
  BY <1>1
<1>3. /\ MaxErrno \in Nat /\ MaxErrno < H /\ MaxResult \in P - 1 .. H * P - 1
      /\ ENOSYS \in Nat \ {0} /\ ENOSYS <= MaxErrno
  BY <1>1, <1>2, SyscallAssumption DEF H, P
<1>4. H * P >= H
  BY <1>1, <1>2
<1>5. R = H * H
  BY <1>1, <1>2
<1>6. R - P >= H /\ R > H /\ R \in Nat
  BY <1>1, <1>2, <1>4
<1>7. QED
  BY <1>1, <1>2, <1>3, <1>4, <1>5, <1>6

\* A result is the same in a register, positive as a long, and positive as an
\* int if it fits.
LEMMA ResultKept ==
    ASSUME NEW r \in 0 .. MaxResult
    PROVE  /\ AsRegister(r) = r /\ AsLong(r) = r /\ ~IsError(r)
           /\ r < P => AsInt(r) = r
<1>1. r \in Nat /\ r < H * P /\ r < R /\ H * P \in Nat
  BY Sizes
<1>2. r % R = r
  BY <1>1, Sizes
<1>3. AsRegister(r) = r
  BY <1>2 DEF AsRegister, R
<1>4. r < P => AsInt(r) = r
  <2>1. r < P => r < H /\ r % H = r
    BY <1>1, Sizes
  <2>2. QED
    BY <1>1, <2>1, RegisterPowers DEF AsInt, SignedField, H, P
<1>5. AsLong(r) = r
  BY <1>1, <1>2, Sizes DEF AsLong, SignedField, R
<1>6. AsRegister(-MaxErrno) = R - MaxErrno
  <2>1. (-1) * R + (R - MaxErrno) = -MaxErrno /\ R - MaxErrno \in Int /\ R - MaxErrno >= 0
    BY Sizes
  <2>2. CASE MaxErrno > 0
    <3>1. R - MaxErrno \in 0 .. R - 1 /\ R \in Nat \ {0} /\ -MaxErrno \in Int /\ -1 \in Int
      BY <2>2, Sizes
    <3>2. (-MaxErrno) % R = R - MaxErrno
      <4> DEFINE a == -MaxErrno
                 d == R - MaxErrno
      <4>1. a = (-1) * R + d /\ a \in Int /\ d \in 0 .. R - 1
        BY <2>1, <3>1
      <4> HIDE DEF a, d
      <4>2. a % R = d
        BY <3>1, <4>1, DivMod
      <4>3. QED
        BY <4>2 DEF a, d
    <3>3. QED
      BY <3>2 DEF AsRegister, R
  <2>3. QED
    BY <2>2, Sizes
<1>7. ~(r >= R - MaxErrno)
  <2>1. R - MaxErrno > R - H /\ R - H >= H * P
    BY Sizes
  <2>2. QED
    BY <1>1, <2>1, Sizes
<1>8. QED
  BY <1>3, <1>4, <1>5, <1>6, <1>7 DEF IsError

\* The register of an error, and the errno stored for it.
LEMMA ErrorResult ==
    ASSUME NEW e \in 1 .. MaxErrno
    PROVE  /\ AsRegister(-e) = R - e
           /\ IsError(AsRegister(-e))
           /\ ErrnoOf(AsRegister(-e)) = e
<1>1. \A n \in 1 .. MaxErrno : AsRegister(-n) = R - n
  <2> SUFFICES ASSUME NEW n \in 1 .. MaxErrno PROVE (-n) % R = R - n
    BY DEF AsRegister, R
  <2>1. (-1) * R + (R - n) = -n /\ R - n \in 0 .. R - 1 /\ R \in Nat \ {0}
        /\ -n \in Int /\ -1 \in Int
    BY Sizes
  <2> DEFINE a == -n
             d == R - n
  <2>2. a = (-1) * R + d /\ a \in Int /\ d \in 0 .. R - 1
    BY <2>1
  <2> HIDE DEF a, d
  <2>3. a % R = d
    BY <2>1, <2>2, DivMod
  <2>4. QED
    BY <2>3 DEF a, d
<1>2. IsError(R - e)
  BY <1>1, Sizes DEF IsError
<1>3. ErrnoOf(R - e) = e
  <2>1. -(R - e) = (-H) * H + e /\ e \in 0 .. H - 1 /\ H \in Nat \ {0} /\ -H \in Int
        /\ -(R - e) \in Int
    BY Sizes
  <2>2. QED
    BY <2>1, DivMod DEF ErrnoOf, H
<1>4. QED
  BY <1>1, <1>2, <1>3

\* -1 in all of a register, and in its lower half only.
LEMMA MinusOnes ==
    /\ AsRegister(-1) = R - 1
    /\ AsInt(R - 1) = -1 /\ AsLong(R - 1) = -1
    /\ AsInt(MinusOne) = -1 /\ AsLong(MinusOne) = MinusOne /\ MinusOne \in Nat
<1>1. AsRegister(-1) = R - 1
  BY ErrorResult, Sizes
<1>2. (R - 1) % H = H - 1
  <2>1. /\ R - 1 = (H - 1) * H + (H - 1) /\ H - 1 \in 0 .. H - 1 /\ H \in Nat \ {0}
        /\ R - 1 \in Int /\ H - 1 \in Int
    BY Sizes
  <2>2. QED
    BY <2>1, DivMod
<1>3. (H - 1) % H = H - 1 /\ H - 1 >= P /\ (H - 1) - H = -1
  BY Sizes
<1>4. AsInt(R - 1) = -1
  BY <1>2, <1>3 DEF AsInt, SignedField, H, P
<1>5. AsInt(MinusOne) = -1
  BY <1>3 DEF AsInt, SignedField, MinusOne, H, P
<1>6. (R - 1) % R = R - 1 /\ R - 1 >= H * P /\ (R - 1) - R = -1
  BY Sizes
<1>7. AsLong(R - 1) = -1
  BY <1>6, Sizes DEF AsLong, SignedField, R
<1>8. (H - 1) % R = H - 1 /\ ~(H - 1 >= H * P)
  BY Sizes
<1>9. AsLong(MinusOne) = MinusOne
  BY <1>8, Sizes DEF AsLong, SignedField, MinusOne, R, H
<1>10. QED
  BY <1>1, <1>4, <1>5, <1>7, <1>9, Sizes DEF MinusOne, H

-----------------------------------------------------------------------------
(* The invariant                                                           *)

\* What syscall returns is told by what the kernel answered: an error is -1 in
\* the lower half on Linux, and in the whole register in the other build.
Failed == IF build = "linux" THEN MinusOne ELSE R - 1

SysInv ==
    /\ build \in {"linux", "managarm"}
    /\ \/ kernel \in 0 .. MaxResult /\ rax = kernel
       \/ kernel \in -MaxErrno .. -1 /\ rax = Failed

\* hel's results, which are 0 and -1.
LEMMA HelResults == MaxErrno >= 1 /\ HelResult(0) = 0 /\ HelResult(-1) = -1
BY Sizes DEF HelResult

\* A step, together with what it does to errno.
LEMMA SysStep ==
    ASSUME SysInv, SysNext
    PROVE  /\ SysInv'
           /\ kernel' >= 0 => errno' = errno
           /\ kernel' < 0 => errno' # 0
           /\ kernel' < 0 /\ (build = "linux" \/ did' = "none") => errno' = -kernel'
<1>1. CASE LinuxSyscall
  <2>1. PICK r \in -MaxErrno .. MaxResult :
           /\ kernel' = r
           /\ \/ /\ IsError(AsRegister(r))
                 /\ rax' = MinusOne
                 /\ errno' = ErrnoOf(AsRegister(r))
              \/ /\ ~IsError(AsRegister(r))
                 /\ rax' = AsRegister(r)
                 /\ UNCHANGED errno
    BY <1>1 DEF LinuxSyscall
  <2>2. build = "linux" /\ UNCHANGED <<build, did>>
    BY <1>1 DEF LinuxSyscall
  <2>3. CASE r >= 0
    <3>1. r \in 0 .. MaxResult /\ AsRegister(r) = r /\ ~IsError(r)
      BY <2>3, ResultKept, Sizes
    <3>2. QED
      BY <2>1, <2>2, <3>1 DEF SysInv
  <2>4. CASE r < 0
    <3>1. -r \in 1 .. MaxErrno /\ -(-r) = r /\ r \in -MaxErrno .. -1
      BY <2>4, Sizes
    <3>2. IsError(AsRegister(r)) /\ ErrnoOf(AsRegister(r)) = -r
      BY <3>1, ErrorResult
    <3>3. QED
      BY <2>1, <2>2, <3>1, <3>2 DEF SysInv, Failed
  <2>5. QED
    BY <2>3, <2>4, Sizes
<1>2. ASSUME NEW num \in {Gettid, Futex, 0}, NEW op \in FutexOps, WrappedSyscall(num, op)
      PROVE  /\ SysInv'
             /\ kernel' >= 0 => errno' = errno
             /\ kernel' < 0 => errno' # 0
             /\ kernel' < 0 /\ (build = "linux" \/ did' = "none") => errno' = -kernel'
  <2>1. /\ build = "managarm" /\ build' = build
        /\ Gettid # Futex /\ Failed' = R - 1
    BY <1>2, SyscallAssumption DEF WrappedSyscall, Gettid, Futex, Failed
  <2>2. ASSUME NEW tid \in 1 .. P - 1, num = Gettid, kernel' = tid, rax' = tid,
               did' = "gettid", UNCHANGED errno
        PROVE  SysInv' /\ kernel' >= 0 /\ errno' = errno
    <3>1. tid \in 0 .. MaxResult /\ tid >= 0
      BY Sizes
    <3>2. QED
      BY <2>1, <2>2, <3>1 DEF SysInv
  <2>3. ASSUME NEW e \in {0, -1}, kernel' = e,
               rax' = AsRegister(IF HelResult(e) # 0 THEN -1 ELSE 0),
               did' = IF IsWake(op) THEN "wake" ELSE "wait",
               errno' = IF HelResult(e) # 0 THEN HelResult(e) % 2^Half ELSE errno
        PROVE  /\ SysInv' /\ did' # "none"
               /\ kernel' >= 0 => errno' = errno
               /\ kernel' < 0 => errno' # 0
    <3>1. CASE e = 0
      <4>1. rax' = 0 /\ errno' = errno /\ 0 \in 0 .. MaxResult
        BY <2>3, <3>1, HelResults, ResultKept, Sizes
      <4>2. QED
        BY <2>1, <2>3, <3>1, <4>1 DEF SysInv
    <3>2. CASE e = -1
      <4>1. rax' = R - 1 /\ errno' = (-1) % H
        BY <2>3, <3>2, HelResults, MinusOnes DEF H
      <4>2. (-1) % H = H - 1 /\ H - 1 # 0 /\ -1 \in -MaxErrno .. -1
        BY Sizes, HelResults
      <4>3. kernel' \in -MaxErrno .. -1 /\ rax' = Failed'
        BY <2>1, <2>3, <3>2, <4>1, <4>2
      <4>4. kernel' < 0 /\ ~(kernel' >= 0) /\ errno' # 0
        <5>1. kernel' = -1 /\ errno' = H - 1
          BY <2>3, <3>2, <4>1, <4>2
        <5>2. -1 < 0 /\ ~(-1 >= 0)
          OBVIOUS
        <5>3. QED
          BY <4>2, <5>1, <5>2
      <4>5. did' # "none"
        BY <2>3
      <4>6. SysInv'
        BY <2>1, <2>3, <4>3 DEF SysInv
      <4>7. QED
        BY <4>4, <4>5, <4>6
    <3>3. QED
      BY <3>1, <3>2
  <2>4. ASSUME num \notin {Gettid, Futex}, kernel' = -ENOSYS, rax' = AsRegister(-1),
               did' = "none", errno' = ENOSYS
        PROVE  SysInv' /\ kernel' < 0 /\ errno' # 0 /\ errno' = -kernel'
    <3>1. -ENOSYS \in -MaxErrno .. -1 /\ -(-ENOSYS) = ENOSYS /\ ENOSYS # 0
      BY Sizes
    <3>2. rax' = R - 1
      BY <2>4, MinusOnes
    <3>3. QED
      BY <2>1, <2>4, <3>1, <3>2 DEF SysInv
  <2>5. CASE num = Gettid
    <3>1. PICK tid \in 1 .. P - 1 :
             kernel' = tid /\ rax' = tid /\ did' = "gettid" /\ UNCHANGED errno
      BY <1>2, <2>1, <2>5 DEF WrappedSyscall, P
    <3>2. QED
      BY <2>2, <2>5, <3>1
  <2>6. CASE num = Futex
    <3>1. PICK e \in {0, -1} :
             /\ kernel' = e
             /\ rax' = AsRegister(IF HelResult(e) # 0 THEN -1 ELSE 0)
             /\ did' = IF IsWake(op) THEN "wake" ELSE "wait"
             /\ errno' = IF HelResult(e) # 0 THEN HelResult(e) % 2^Half ELSE errno
      BY <1>2, <2>1, <2>6 DEF WrappedSyscall
    <3>2. QED
      BY <2>1, <2>3, <3>1
  <2>7. CASE num \notin {Gettid, Futex}
    <3>1. kernel' = -ENOSYS /\ rax' = AsRegister(-1) /\ did' = "none" /\ errno' = ENOSYS
      BY <1>2, <2>7 DEF WrappedSyscall
    <3>2. kernel' < 0 /\ errno' # 0 /\ errno' = -kernel' /\ SysInv'
      BY <2>4, <2>7, <3>1
    <3>3. ~(kernel' >= 0)
      BY <3>1, <3>2, Sizes
    <3>4. QED
      BY <3>2, <3>3
  <2>8. QED
    BY <2>5, <2>6, <2>7
<1>3. QED
  BY <1>1, <1>2 DEF SysNext

LEMMA SysInvariant == SysSpec => []SysInv
<1>1. SysInit => SysInv
  BY SyscallAssumption, Sizes DEF SysInit, SysInv, Gettid, Futex, FutexWait
<1>2. SysInv /\ [SysNext]_sysVars => SysInv'
  BY SysStep DEF SysInv, sysVars, Failed
<1>3. QED
  BY <1>1, <1>2, PTL DEF SysSpec

-----------------------------------------------------------------------------
(* The theorems                                                            *)

\* What callers that keep the result in an int or a long see of a failure.
THEOREM SysCallersSeeFailure == SysSpec => []CallersSeeFailure
<1>1. SysInv => CallersSeeFailure
  <2> SUFFICES ASSUME SysInv PROVE CallersSeeFailure
    OBVIOUS
  <2>1. CASE kernel \in 0 .. MaxResult /\ rax = kernel
    <3>1. /\ AsLong(rax) = kernel /\ kernel >= 0 /\ kernel \in Int
          /\ kernel < P => AsInt(rax) = kernel
      BY <2>1, ResultKept, Sizes
    <3>2. QED
      BY <2>1, <3>1, Sizes DEF CallersSeeFailure, P
  <2>2. CASE kernel \in -MaxErrno .. -1 /\ rax = Failed
    <3>1. kernel < 0
      BY <2>2, Sizes
    <3>2. QED
      BY <2>2, <3>1, MinusOnes DEF CallersSeeFailure, Failed, SysInv
  <2>3. QED
    BY <2>1, <2>2 DEF SysInv
<1>2. QED
  BY <1>1, SysInvariant, PTL

\* errno is stored exactly for failures, and is the kernel's where the library
\* does not make one up.
THEOREM SysErrnoIsKernels == SysSpec => ErrnoIsKernels
<1>1. SysInv /\ [SysNext]_sysVars =>
          [/\ kernel' >= 0 => errno' = errno
           /\ kernel' < 0 => errno' # 0
           /\ kernel' < 0 /\ (build = "linux" \/ did' = "none") => errno' = -kernel']_sysVars
  BY SysStep
<1>2. QED
  BY <1>1, SysInvariant, PTL DEF SysSpec, ErrnoIsKernels

\* No error of the kernel gets through sys_futex_wait of the Linux build: what
\* the condition variable is told there is always 0.
THEOREM SysFutexHidesErrors == SysSpec => [](build = "linux" => FutexResult = 0)
<1>1. SysInv => (build = "linux" => FutexResult = 0)
  <2> SUFFICES ASSUME SysInv, build = "linux" PROVE ~(AsLong(rax) < 0)
    BY DEF FutexResult
  <2>1. CASE kernel \in 0 .. MaxResult /\ rax = kernel
    BY <2>1, ResultKept, Sizes
  <2>2. CASE rax = MinusOne
    BY <2>2, MinusOnes
  <2>3. QED
    BY <2>1, <2>2 DEF SysInv, Failed
<1>2. QED
  BY <1>1, SysInvariant, PTL

=============================================================================
