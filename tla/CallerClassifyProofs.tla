------------------------- MODULE CallerClassifyProofs -------------------------
(***************************************************************************)
(* Proofs about CallerClassify, for any threads, addresses and objects:    *)
(* the unlocked cache loses entries but never holds or spreads a wrong     *)
(* one, and the scan stays inside the chain, finds what is there and ends. *)
(***************************************************************************)
EXTENDS CallerClassify, TLAPS

-----------------------------------------------------------------------------
(* The inductive invariant                                                 *)

Places == {"idle", "find", "dladdr", "scan", "insert", "store"}

CallTypes ==
    /\ object \in [Addresses -> Objects \cup {NoObject}]
    /\ past \in [Addresses -> {"fresh", "known", "reused"}]
    /\ pc \in [Threads -> Places]
    /\ addr \in [Threads -> Addresses]
    /\ need \in [Threads -> Nat] /\ aux \in [Threads -> Nat]
    /\ glibc \in [Threads -> BOOLEAN]
    /\ DOMAIN table = Threads
    /\ DOMAIN verdict = Threads

\* What a pair in the cache, or in a copy of it, tells.
EntryTrue(e) ==
    /\ e[1] \in Addresses /\ past[e[1]] # "fresh"
    /\ past[e[1]] = "known" => object[e[1]] # NoObject /\ e[2] = IsGlibc(object[e[1]])

EntriesTrue ==
    /\ \A e \in cache : EntryTrue(e)
    /\ \A t \in Threads : pc[t] = "store" => \A e \in table[t] : EntryTrue(e)

\* Some name of need i is one of glibc's.
NeedsGlibc(o, i) == \E j \in 1 .. Len(o.chain[i]) : o.chain[i][j]

\* The scan of o has come to name a of need n with the verdict g so far.
ScanAt(o, n, a, g) ==
    /\ o \in Objects /\ ~o.solaris
    /\ n \in 1 .. Len(o.chain) /\ n <= o.count
    /\ a \in 1 .. Len(o.chain[n])
    /\ g = \E i \in 1 .. n - 1 : NeedsGlibc(o, i)
    /\ \A j \in 1 .. a - 1 : ~o.chain[n][j]

Progress(t) ==
    /\ pc[t] \in {"idle", "find", "dladdr"} => need[t] = 1 /\ aux[t] = 1 /\ glibc[t] = FALSE
    /\ pc[t] = "scan" => ScanAt(Here(t), need[t], aux[t], glibc[t])
    /\ pc[t] \in {"insert", "store"} => Here(t) \in Objects /\ glibc[t] = IsGlibc(Here(t))

CallerInv ==
    /\ CallTypes /\ EntriesTrue /\ VerdictIsTrue
    /\ \A t \in Threads : Progress(t)

-----------------------------------------------------------------------------
(* The scan                                                                *)

\* What the assumption says of one object.
LEMMA ChainTypes ==
    ASSUME NEW o \in Objects
    PROVE  /\ o.count \in Nat /\ o # NoObject
           /\ o.solaris \in BOOLEAN
           /\ Len(o.chain) \in Nat
           /\ o.chain # <<>> => Len(o.chain) >= 1
           /\ \A i \in 1 .. Len(o.chain) :
                 /\ Len(o.chain[i]) \in Nat /\ Len(o.chain[i]) >= 1
                 /\ \A j \in 1 .. Len(o.chain[i]) : o.chain[i][j] \in BOOLEAN
<1>1. /\ o.count \in Nat /\ o # NoObject /\ o.solaris \in BOOLEAN
      /\ o.chain \in Seq(Seq(BOOLEAN))
      /\ \A i \in 1 .. Len(o.chain) : o.chain[i] # <<>>
  BY CallerAssumption
<1>2. Len(o.chain) \in Nat /\ (o.chain # <<>> => Len(o.chain) >= 1)
  BY <1>1
<1>3. ASSUME NEW i \in 1 .. Len(o.chain)
      PROVE  /\ Len(o.chain[i]) \in Nat /\ Len(o.chain[i]) >= 1
             /\ \A j \in 1 .. Len(o.chain[i]) : o.chain[i][j] \in BOOLEAN
  <2>1. o.chain[i] \in Seq(BOOLEAN) /\ o.chain[i] # <<>>
    BY <1>1, <1>3
  <2>2. QED
    BY <2>1
<1>4. QED
  BY <1>1, <1>2, <1>3

\* The definition of the verdict, for an object without the mark.
LEMMA VerdictOfNeeds ==
    ASSUME NEW o \in Objects, ~o.solaris
    PROVE  IsGlibc(o) = \E i \in 1 .. o.count : i <= Len(o.chain) /\ NeedsGlibc(o, i)
BY ChainTypes DEF IsGlibc, NeedsGlibc

\* The scan begins at the first name of the first need.
LEMMA ScanBegins ==
    ASSUME NEW o \in Objects, ~o.solaris, ~Unreadable(o), o.count # 0
    PROVE  ScanAt(o, 1, 1, FALSE)
<1>1. o.count \in Nat /\ Len(o.chain) \in Nat /\ Len(o.chain) >= 1 /\ o.count >= 1
  BY ChainTypes DEF Unreadable
<1>2. 1 \in 1 .. Len(o.chain) /\ 1 \in 1 .. Len(o.chain[1])
  BY <1>1, ChainTypes
<1>3. QED
  BY <1>1, <1>2 DEF ScanAt

\* After the last name that matters of a need, the verdict is the one of the
\* needs so far.
LEMMA NeedDone ==
    ASSUME NEW o, NEW n, NEW a, NEW g \in BOOLEAN, ScanAt(o, n, a, g),
           o.chain[n][a] \/ a = Len(o.chain[n])
    PROVE  (g \/ o.chain[n][a]) = \E i \in 1 .. n : NeedsGlibc(o, i)
<1>1. /\ o \in Objects /\ n \in 1 .. Len(o.chain) /\ Len(o.chain) \in Nat /\ n \in Nat
      /\ a \in 1 .. Len(o.chain[n]) /\ Len(o.chain[n]) \in Nat /\ a \in Nat
      /\ o.chain[n][a] \in BOOLEAN
  BY ChainTypes DEF ScanAt
<1>2. NeedsGlibc(o, n) <=> o.chain[n][a]
  <2>1. CASE o.chain[n][a]
    BY <1>1, <2>1 DEF NeedsGlibc
  <2>2. CASE ~o.chain[n][a] /\ a = Len(o.chain[n])
    <3>1. \A j \in 1 .. Len(o.chain[n]) : j = a \/ j \in 1 .. a - 1
      BY <1>1, <2>2
    <3>2. \A j \in 1 .. Len(o.chain[n]) : ~o.chain[n][j]
      BY <2>2, <3>1 DEF ScanAt
    <3>3. QED
      BY <2>2, <3>2 DEF NeedsGlibc
  <2>3. QED
    BY <2>1, <2>2
<1>3. (\E i \in 1 .. n : NeedsGlibc(o, i))
        <=> NeedsGlibc(o, n) \/ \E i \in 1 .. n - 1 : NeedsGlibc(o, i)
  <2>1. \A i : i \in 1 .. n <=> i = n \/ i \in 1 .. n - 1
    BY <1>1
  <2>2. QED
    BY <2>1
<1>4. g <=> \E i \in 1 .. n - 1 : NeedsGlibc(o, i)
  BY DEF ScanAt
<1>5. QED
  BY <1>1, <1>2, <1>3, <1>4

\* One turn of the loops, on the locals of a call.
LEMMA Turn ==
    ASSUME NEW o, NEW n, NEW a, NEW g \in BOOLEAN, ScanAt(o, n, a, g)
    PROVE  /\ o.chain[n][a] \in BOOLEAN
           /\ ~o.chain[n][a] /\ a < Len(o.chain[n])
                => ScanAt(o, n, a + 1, g \/ o.chain[n][a])
           /\ o.chain[n][a] \/ ~(a < Len(o.chain[n])) =>
                /\ n = Len(o.chain) \/ n = o.count
                     => (g \/ o.chain[n][a]) = IsGlibc(o)
                /\ ~(n = Len(o.chain) \/ n = o.count)
                     => ScanAt(o, n + 1, 1, g \/ o.chain[n][a])
<1>1. /\ o \in Objects /\ ~o.solaris /\ o.count \in Nat
      /\ n \in 1 .. Len(o.chain) /\ Len(o.chain) \in Nat /\ n \in Nat /\ n <= o.count
      /\ a \in 1 .. Len(o.chain[n]) /\ Len(o.chain[n]) \in Nat /\ a \in Nat
      /\ o.chain[n][a] \in BOOLEAN
  <2>1. /\ o \in Objects /\ ~o.solaris /\ n \in 1 .. Len(o.chain) /\ n <= o.count
        /\ a \in 1 .. Len(o.chain[n])
    BY DEF ScanAt
  <2>2. o.count \in Nat /\ Len(o.chain) \in Nat
    BY <2>1, ChainTypes
  <2>3. Len(o.chain[n]) \in Nat /\ o.chain[n][a] \in BOOLEAN
    BY <2>1, ChainTypes
  <2>4. QED
    BY <2>1, <2>2, <2>3
<1>2. ASSUME ~o.chain[n][a], a < Len(o.chain[n])
      PROVE  ScanAt(o, n, a + 1, g \/ o.chain[n][a])
  <2>1. a + 1 \in 1 .. Len(o.chain[n])
    BY <1>1, <1>2
  <2>2. \A j \in 1 .. (a + 1) - 1 : j = a \/ j \in 1 .. a - 1
    BY <1>1
  <2>3. \A j \in 1 .. (a + 1) - 1 : ~o.chain[n][j]
    BY <1>2, <2>2 DEF ScanAt
  <2>4. (g \/ o.chain[n][a]) = g
    BY <1>2
  <2>5. QED
    BY <2>1, <2>3, <2>4 DEF ScanAt
<1>3. ASSUME o.chain[n][a] \/ ~(a < Len(o.chain[n]))
      PROVE  (g \/ o.chain[n][a]) = \E i \in 1 .. n : NeedsGlibc(o, i)
  <2>1. o.chain[n][a] \/ a = Len(o.chain[n])
    BY <1>1, <1>3
  <2>2. QED
    BY <2>1, NeedDone
<1>4. ASSUME n = Len(o.chain) \/ n = o.count
      PROVE  (\E i \in 1 .. n : NeedsGlibc(o, i)) <=> IsGlibc(o)
  <2>1. \A i : i \in 1 .. n <=> i \in 1 .. o.count /\ i <= Len(o.chain)
    BY <1>1, <1>4
  <2>2. QED
    BY <1>1, <2>1, VerdictOfNeeds
<1>5. ASSUME ~(n = Len(o.chain) \/ n = o.count),
             (g \/ o.chain[n][a]) = \E i \in 1 .. n : NeedsGlibc(o, i)
      PROVE  ScanAt(o, n + 1, 1, g \/ o.chain[n][a])
  <2>1. n + 1 \in 1 .. Len(o.chain) /\ n + 1 <= o.count /\ (n + 1) - 1 = n
    BY <1>1, <1>5
  <2>2. 1 \in 1 .. Len(o.chain[n + 1])
    BY <1>1, <2>1, ChainTypes
  <2>3. \A j \in 1 .. 1 - 1 : ~o.chain[n + 1][j]
    OBVIOUS
  <2>4. QED
    BY <1>1, <1>5, <2>1, <2>2, <2>3 DEF ScanAt
<1>6. IsGlibc(o) \in BOOLEAN
  BY DEF IsGlibc
<1>7. QED
  BY <1>1, <1>2, <1>3, <1>4, <1>5, <1>6

-----------------------------------------------------------------------------
(* The steps                                                               *)

\* The step of a thread that leaves the cache and the objects alone.
LEMMA OwnStep ==
    ASSUME CallerInv, NEW t \in Threads, CallTypes', Progress(t)',
           UNCHANGED <<object, past, cache, addr>>,
           \A u \in Threads \ {t} :
               pc'[u] = pc[u] /\ need'[u] = need[u] /\ aux'[u] = aux[u]
               /\ glibc'[u] = glibc[u] /\ table'[u] = table[u] /\ verdict'[u] = verdict[u],
           pc'[t] = "store" => \A e \in table'[t] : EntryTrue(e),
           verdict'[t] # "none" /\ past[addr[t]] # "reused" =>
               verdict'[t] = Named(IsGlibc(object[addr[t]]))
    PROVE  CallerInv'
<1>1. EntriesTrue'
  BY DEF CallerInv, EntriesTrue, EntryTrue
<1>2. VerdictIsTrue'
  BY DEF CallerInv, VerdictIsTrue
<1>3. \A u \in Threads : Progress(u)'
  BY DEF CallerInv, Progress, Here
<1>4. QED
  BY <1>1, <1>2, <1>3 DEF CallerInv

\* A return keeps the types.
LEMMA ReturnTypes ==
    ASSUME CallTypes, NEW t \in Threads, NEW v, Return(t, v),
           UNCHANGED <<object, past, addr>>
    PROVE  CallTypes'
<1>1. pc' \in [Threads -> Places]
  BY DEF CallTypes, Return, Goto, Places
<1>2. need' \in [Threads -> Nat] /\ aux' \in [Threads -> Nat]
  BY DEF CallTypes, Return
<1>3. glibc' \in [Threads -> BOOLEAN]
  BY DEF CallTypes, Return
<1>4. DOMAIN table' = Threads /\ DOMAIN verdict' = Threads
  BY DEF CallTypes, Return
<1>5. QED
  BY <1>1, <1>2, <1>3, <1>4 DEF CallTypes

\* A return touches no other call.
LEMMA ReturnOthers ==
    ASSUME CallTypes, NEW t \in Threads, NEW v, Return(t, v), NEW u \in Threads \ {t}
    PROVE  pc'[u] = pc[u] /\ need'[u] = need[u] /\ aux'[u] = aux[u]
          /\ glibc'[u] = glibc[u] /\ table'[u] = table[u] /\ verdict'[u] = verdict[u]
BY DEF CallTypes, Return, Goto

\* A hit is true, because the entry is.
LEMMA FindStep ==
    ASSUME CallerInv, NEW t \in Threads, Find(t)
    PROVE  CallerInv'
<1>1. CallTypes'
  <2>1. CASE \E v \in BOOLEAN : Return(t, v)
    BY <2>1, ReturnTypes DEF CallerInv, Find
  <2>2. CASE Goto(t, "dladdr") /\ UNCHANGED <<need, aux, glibc, table, verdict>>
    BY <2>2 DEF CallerInv, CallTypes, Find, Goto, Places
  <2>3. QED
    BY <2>1, <2>2 DEF Find
<1>2. Progress(t)'
  BY ZenonT(30) DEF CallerInv, CallTypes, Progress, Find, Return, Goto, Places
<1>3. verdict'[t] # "none" /\ past[addr[t]] # "reused" =>
          verdict'[t] = Named(IsGlibc(object[addr[t]]))
  <2>1. CASE \E v \in BOOLEAN : <<addr[t], v>> \in cache /\ Return(t, v)
    <3>1. PICK v \in BOOLEAN : <<addr[t], v>> \in cache /\ Return(t, v)
      BY <2>1
    <3>2. EntryTrue(<<addr[t], v>>)
      BY <3>1 DEF CallerInv, EntriesTrue
    <3>3. addr[t] \in Addresses /\ past[addr[t]] \in {"fresh", "known", "reused"}
      BY DEF CallerInv, CallTypes
    <3>4. past[addr[t]] # "reused" => v = IsGlibc(object[addr[t]])
      BY <3>2, <3>3 DEF EntryTrue
    <3>5. verdict'[t] = Named(v)
      BY <3>1 DEF Return, CallerInv, CallTypes
    <3>6. QED
      BY <3>4, <3>5
  <2>2. CASE UNCHANGED verdict
    BY <2>2 DEF CallerInv, VerdictIsTrue
  <2>3. QED
    BY <2>1, <2>2 DEF Find
<1>4. pc'[t] # "store" /\ UNCHANGED <<object, past, cache, addr>>
  BY DEF CallerInv, CallTypes, Find, Return, Goto
<1>5. ASSUME NEW u \in Threads \ {t}
      PROVE  pc'[u] = pc[u] /\ need'[u] = need[u] /\ aux'[u] = aux[u]
          /\ glibc'[u] = glibc[u] /\ table'[u] = table[u] /\ verdict'[u] = verdict[u]
  <2>1. \A l : Goto(t, l) => pc'[u] = pc[u]
    BY DEF CallerInv, CallTypes, Goto
  <2>2. CASE \E v \in BOOLEAN : Return(t, v)
    BY <2>2, ReturnOthers DEF CallerInv
  <2>3. CASE Goto(t, "dladdr") /\ UNCHANGED <<need, aux, glibc, table, verdict>>
    BY <2>1, <2>3
  <2>4. QED
    BY <2>2, <2>3 DEF Find
<1>6. QED
  BY <1>1, <1>2, <1>3, <1>4, <1>5, OwnStep

\* The quick answers: no object is no glibc, the mark is glibc, and so is not
\* an object without version needs.
LEMMA DladdrStep ==
    ASSUME CallerInv, NEW t \in Threads, Dladdr(t)
    PROVE  CallerInv'
<1>1. CallTypes'
  <2>1. CASE Return(t, FALSE)
    BY <2>1, ReturnTypes DEF CallerInv, Dladdr
  <2>2. CASE /\ Goto(t, "insert") \/ Goto(t, "scan")
             /\ UNCHANGED glibc \/ glibc' = [glibc EXCEPT ![t] = TRUE]
             /\ UNCHANGED <<need, aux, table, verdict>>
    <3>1. pc' \in [Threads -> Places]
      BY <2>2 DEF CallerInv, CallTypes, Goto, Places
    <3>2. glibc' \in [Threads -> BOOLEAN]
      <4>1. \A f \in [Threads -> BOOLEAN] : [f EXCEPT ![t] = TRUE] \in [Threads -> BOOLEAN]
        OBVIOUS
      <4>2. QED
        BY <2>2, <4>1 DEF CallerInv, CallTypes
    <3>3. UNCHANGED <<object, past, addr>>
      BY DEF Dladdr
    <3>4. QED
      BY <2>2, <3>1, <3>2, <3>3 DEF CallerInv, CallTypes
  <2>3. Goto(t, IF Here(t).count = 0 THEN "insert" ELSE "scan")
           => Goto(t, "insert") \/ Goto(t, "scan")
    BY DEF Goto
  <2>4. ASSUME ~Return(t, FALSE)
        PROVE  /\ Goto(t, "insert") \/ Goto(t, "scan")
               /\ UNCHANGED glibc \/ glibc' = [glibc EXCEPT ![t] = TRUE]
               /\ UNCHANGED <<need, aux, table, verdict>>
    BY <2>3, <2>4 DEF Dladdr
  <2>5. QED
    BY <2>1, <2>2, <2>4
<1>2. pc[t] = "dladdr" /\ need[t] = 1 /\ aux[t] = 1 /\ glibc[t] = FALSE
  BY DEF CallerInv, Progress, Dladdr
<1>3. Here(t) \in Objects \cup {NoObject} /\ UNCHANGED <<object, past, cache, addr>>
  BY DEF CallerInv, CallTypes, Here, Dladdr
<1>4. Progress(t)' /\ pc'[t] # "store"
  <2>1. CASE Here(t) = NoObject
    BY <1>3, <2>1 DEF CallerInv, CallTypes, Dladdr, Return, Goto, Progress
  <2>2. CASE Here(t) \in Objects /\ Here(t).solaris
    <3>1. Here(t) # NoObject /\ IsGlibc(Here(t)) = TRUE
      BY <2>2, ChainTypes DEF IsGlibc
    <3>2. pc'[t] = "insert" /\ glibc'[t] = TRUE /\ Here(t)' = Here(t)
      BY <1>3, <2>2, <3>1 DEF CallerInv, CallTypes, Dladdr, Goto, Here
    <3>3. QED
      BY <2>2, <3>1, <3>2 DEF Progress
  <2>3. CASE Here(t) \in Objects /\ ~Here(t).solaris /\ Here(t).count = 0
    <3>1. Here(t) # NoObject /\ IsGlibc(Here(t)) = FALSE
      BY <2>3, ChainTypes DEF IsGlibc
    <3>2. pc'[t] = "insert" /\ glibc'[t] = FALSE /\ Here(t)' = Here(t)
      BY <1>2, <1>3, <2>3, <3>1 DEF CallerInv, CallTypes, Dladdr, Goto, Here
    <3>3. QED
      BY <2>3, <3>1, <3>2 DEF Progress
  <2>4. CASE Here(t) \in Objects /\ ~Here(t).solaris /\ Here(t).count # 0
    <3>1. Here(t) # NoObject /\ ScanAt(Here(t), 1, 1, FALSE)
      BY <2>4, ChainTypes, ScanBegins DEF Dladdr
    <3>2. /\ pc'[t] = "scan" /\ Here(t)' = Here(t)
          /\ need'[t] = 1 /\ aux'[t] = 1 /\ glibc'[t] = FALSE
      BY <1>2, <1>3, <2>4, <3>1 DEF CallerInv, CallTypes, Dladdr, Goto, Here
    <3>3. QED
      BY <3>1, <3>2 DEF Progress
  <2>5. QED
    BY <1>3, <2>1, <2>2, <2>3, <2>4
<1>5. verdict'[t] # "none" /\ past[addr[t]] # "reused" =>
          verdict'[t] = Named(IsGlibc(object[addr[t]]))
  <2>1. CASE Here(t) = NoObject /\ Return(t, FALSE)
    <3>1. verdict'[t] = Named(FALSE) /\ IsGlibc(object[addr[t]]) = FALSE
      BY <2>1 DEF Return, Here, IsGlibc, CallerInv, CallTypes
    <3>2. QED
      BY <3>1
  <2>2. CASE UNCHANGED verdict
    BY <2>2 DEF CallerInv, VerdictIsTrue
  <2>3. QED
    BY <2>1, <2>2 DEF Dladdr
<1>6. ASSUME NEW u \in Threads \ {t}
      PROVE  pc'[u] = pc[u] /\ need'[u] = need[u] /\ aux'[u] = aux[u]
          /\ glibc'[u] = glibc[u] /\ table'[u] = table[u] /\ verdict'[u] = verdict[u]
  <2>1. \A l : Goto(t, l) => pc'[u] = pc[u]
    BY DEF CallerInv, CallTypes, Goto
  <2>2. CASE Return(t, FALSE)
    BY <2>2, ReturnOthers DEF CallerInv
  <2>3. CASE glibc' = [glibc EXCEPT ![t] = TRUE] /\ Goto(t, "insert")
             /\ UNCHANGED <<need, aux, table, verdict>>
    BY <2>1, <2>3 DEF CallerInv, CallTypes
  <2>4. CASE Goto(t, IF Here(t).count = 0 THEN "insert" ELSE "scan")
             /\ UNCHANGED <<need, aux, glibc, table, verdict>>
    BY <2>1, <2>4
  <2>5. QED
    BY <2>2, <2>3, <2>4 DEF Dladdr
<1>7. QED
  BY <1>1, <1>3, <1>4, <1>5, <1>6, OwnStep

\* One turn of the scan.
LEMMA ScanStep ==
    ASSUME CallerInv, NEW t \in Threads, Scan(t)
    PROVE  CallerInv'
<1> DEFINE o == Here(t)
           n == need[t]
           a == aux[t]
           g == glibc[t]
<1>1. /\ pc[t] = "scan" /\ ScanAt(o, n, a, g) /\ g \in BOOLEAN
      /\ UNCHANGED <<object, past, cache, addr, table, verdict>> /\ Here(t)' = o
  BY DEF CallerInv, CallTypes, Progress, Scan, Here
<1>2. o.chain[n][a] \in BOOLEAN /\ n \in Nat /\ a \in Nat
  BY <1>1, Turn DEF CallerInv, CallTypes
<1>3. /\ glibc' = [glibc EXCEPT ![t] = g \/ o.chain[n][a]]
      /\ \/ /\ ~o.chain[n][a] /\ a < Len(o.chain[n])
            /\ aux' = [aux EXCEPT ![t] = a + 1] /\ UNCHANGED <<pc, need>>
         \/ /\ ~(~o.chain[n][a] /\ a < Len(o.chain[n]))
            /\ n = Len(o.chain) \/ n = o.count
            /\ Goto(t, "insert") /\ UNCHANGED <<need, aux>>
         \/ /\ ~(~o.chain[n][a] /\ a < Len(o.chain[n]))
            /\ ~(n = Len(o.chain) \/ n = o.count)
            /\ need' = [need EXCEPT ![t] = n + 1]
            /\ aux' = [aux EXCEPT ![t] = 1]
            /\ UNCHANGED pc
  BY DEF Scan, LastNeed
<1> HIDE DEF o, n, a, g
<1>4. glibc'[t] = (g \/ o.chain[n][a])
  BY <1>3 DEF CallerInv, CallTypes
<1>5. CallTypes'
  <2>1. glibc' \in [Threads -> BOOLEAN]
    <3> DEFINE v == g \/ o.chain[n][a]
    <3>1. v \in BOOLEAN
      OBVIOUS
    <3>2. glibc' = [glibc EXCEPT ![t] = v] /\ glibc \in [Threads -> BOOLEAN]
      BY <1>3 DEF CallerInv, CallTypes
    <3>3. QED
      <4> HIDE DEF v
      <4> QED
        BY <3>1, <3>2
  <2>2. need' \in [Threads -> Nat] /\ aux' \in [Threads -> Nat]
    <3>1. n + 1 \in Nat /\ a + 1 \in Nat
      BY <1>2
    <3>2. UNCHANGED need \/ need' = [need EXCEPT ![t] = n + 1]
      BY <1>3
    <3>3. \/ UNCHANGED aux \/ aux' = [aux EXCEPT ![t] = a + 1]
          \/ aux' = [aux EXCEPT ![t] = 1]
      BY <1>3
    <3>4. QED
      BY <3>1, <3>2, <3>3 DEF CallerInv, CallTypes
  <2>3. pc' \in [Threads -> Places]
    <3>1. UNCHANGED pc \/ Goto(t, "insert")
      BY <1>3
    <3>2. QED
      BY <3>1 DEF CallerInv, CallTypes, Goto, Places
  <2>4. QED
    BY <1>1, <2>1, <2>2, <2>3 DEF CallerInv, CallTypes
<1>6. Progress(t)' /\ pc'[t] # "store"
  <2>1. CASE ~o.chain[n][a] /\ a < Len(o.chain[n])
    <3>1. pc'[t] = "scan" /\ need'[t] = n /\ aux'[t] = a + 1
      BY <1>1, <1>3, <2>1 DEF CallerInv, CallTypes, n
    <3>2. ScanAt(o, n, a + 1, g \/ o.chain[n][a])
      BY <1>1, <2>1, Turn
    <3>3. QED
      BY <1>1, <1>4, <3>1, <3>2 DEF Progress
  <2>2. CASE ~(~o.chain[n][a] /\ a < Len(o.chain[n])) /\ (n = Len(o.chain) \/ n = o.count)
    <3>1. pc'[t] = "insert"
      BY <1>3, <2>2 DEF CallerInv, CallTypes, Goto
    <3>2. (g \/ o.chain[n][a]) = IsGlibc(o) /\ o \in Objects
      <4>1. o.chain[n][a] \/ ~(a < Len(o.chain[n]))
        BY <1>2, <2>2
      <4>2. QED
        <5>1. (g \/ o.chain[n][a]) = IsGlibc(o)
          BY <1>1, <2>2, <4>1, Turn
        <5>2. o \in Objects
          BY <1>1 DEF ScanAt
        <5>3. QED
          BY <5>1, <5>2
    <3>3. QED
      BY <1>1, <1>4, <3>1, <3>2 DEF Progress
  <2>3. CASE ~(~o.chain[n][a] /\ a < Len(o.chain[n])) /\ ~(n = Len(o.chain) \/ n = o.count)
    <3>1. pc'[t] = "scan" /\ need'[t] = n + 1 /\ aux'[t] = 1
      BY <1>1, <1>3, <2>3 DEF CallerInv, CallTypes
    <3>2. ScanAt(o, n + 1, 1, g \/ o.chain[n][a])
      BY <1>1, <2>3, Turn
    <3>3. QED
      BY <1>1, <1>4, <3>1, <3>2 DEF Progress
  <2>4. QED
    BY <2>1, <2>2, <2>3
<1>7. \A u \in Threads \ {t} :
          pc'[u] = pc[u] /\ need'[u] = need[u] /\ aux'[u] = aux[u]
          /\ glibc'[u] = glibc[u] /\ table'[u] = table[u] /\ verdict'[u] = verdict[u]
  BY <1>1, <1>3 DEF CallerInv, CallTypes, Goto
<1>8. verdict'[t] # "none" /\ past[addr[t]] # "reused" =>
          verdict'[t] = Named(IsGlibc(object[addr[t]]))
  BY <1>1 DEF CallerInv, VerdictIsTrue
<1>9. QED
  BY <1>1, <1>5, <1>6, <1>7, <1>8, OwnStep

\* The copy of the table is as true as the table.
LEMMA InsertStep ==
    ASSUME CallerInv, NEW t \in Threads, Insert(t)
    PROVE  CallerInv'
<1>1. CallTypes' /\ UNCHANGED <<object, past, cache, addr, verdict>>
  BY DEF CallerInv, CallTypes, Insert, Goto, Places
<1>2. Progress(t)' /\ pc'[t] = "store" /\ table'[t] = cache
  BY DEF CallerInv, CallTypes, Progress, Insert, Goto, Here
<1>3. \A u \in Threads \ {t} :
          pc'[u] = pc[u] /\ need'[u] = need[u] /\ aux'[u] = aux[u]
          /\ glibc'[u] = glibc[u] /\ table'[u] = table[u] /\ verdict'[u] = verdict[u]
  BY DEF CallerInv, CallTypes, Insert, Goto
<1>4. \A e \in table'[t] : EntryTrue(e)
  BY <1>2 DEF CallerInv, EntriesTrue
<1>5. verdict'[t] # "none" /\ past[addr[t]] # "reused" =>
          verdict'[t] = Named(IsGlibc(object[addr[t]]))
  BY <1>1 DEF CallerInv, VerdictIsTrue
<1>6. QED
  BY <1>1, <1>2, <1>3, <1>4, <1>5, OwnStep

\* An entry that was true stays so when an address becomes known: no address
\* of an entry is fresh.
LEMMA StoreStep ==
    ASSUME CallerInv, NEW t \in Threads, Store(t)
    PROVE  CallerInv'
<1>1. /\ pc[t] = "store" /\ Here(t) \in Objects /\ glibc[t] = IsGlibc(Here(t))
      /\ addr[t] \in Addresses /\ Here(t) = object[addr[t]] /\ Here(t) # NoObject
  BY ChainTypes DEF CallerInv, CallTypes, Progress, Store, Here
<1>2. /\ cache' = table[t] \cup {<<addr[t], glibc[t]>>} /\ UNCHANGED <<object, addr>>
      /\ past' = [past EXCEPT ![addr[t]] = IF @ = "fresh" THEN "known" ELSE @]
      /\ Return(t, glibc[t])
  BY DEF Store
<1>3. CallTypes'
  <2>1. past' \in [Addresses -> {"fresh", "known", "reused"}]
    BY <1>2 DEF CallerInv, CallTypes
  <2>2. QED
    BY <1>2, <2>1 DEF CallerInv, CallTypes, Return, Goto, Places
<1>4. ASSUME NEW e, EntryTrue(e) PROVE EntryTrue(e)'
  BY <1>2, <1>4 DEF CallerInv, CallTypes, EntryTrue
<1>5. ASSUME NEW e, e = <<addr[t], glibc[t]>> PROVE EntryTrue(e)'
  <2>1. past'[addr[t]] # "fresh"
    BY <1>1, <1>2 DEF CallerInv, CallTypes
  <2>2. object'[addr[t]] # NoObject /\ glibc[t] = IsGlibc(object'[addr[t]])
    BY <1>1, <1>2
  <2>3. e[1] = addr[t] /\ e[2] = glibc[t]
    BY <1>5
  <2>4. QED
    BY <1>1, <1>2, <2>1, <2>2, <2>3 DEF EntryTrue
<1>6. EntriesTrue'
  <2>1. \A e \in cache' : EntryTrue(e)'
    BY <1>1, <1>2, <1>4, <1>5 DEF CallerInv, EntriesTrue
  <2>2. ASSUME NEW u \in Threads, pc'[u] = "store" PROVE \A e \in table'[u] : EntryTrue(e)'
    <3>1. u # t /\ pc[u] = "store" /\ table'[u] = table[u]
      BY <1>2, <2>2 DEF CallerInv, CallTypes, Return, Goto
    <3>2. QED
      BY <1>4, <3>1 DEF CallerInv, EntriesTrue
  <2>3. QED
    BY <2>1, <2>2 DEF EntriesTrue
<1>7. VerdictIsTrue'
  <2> SUFFICES ASSUME NEW u \in Threads, verdict'[u] # "none", past'[addr[u]] # "reused"
               PROVE  verdict'[u] = Named(IsGlibc(object[addr[u]]))
    BY <1>2 DEF VerdictIsTrue
  <2>1. CASE u = t
    <3>1. verdict'[t] = Named(glibc[t])
      BY <1>2 DEF Return, CallerInv, CallTypes
    <3>2. QED
      BY <1>1, <2>1, <3>1
  <2>2. CASE u # t
    <3>1. verdict'[u] = verdict[u] /\ past[addr[u]] # "reused"
      BY <1>2, <2>2 DEF Return, CallerInv, CallTypes
    <3>2. QED
      BY <3>1 DEF CallerInv, VerdictIsTrue
  <2>3. QED
    BY <2>1, <2>2
<1>8. ASSUME NEW u \in Threads PROVE Progress(u)'
  BY <1>2 DEF CallerInv, CallTypes, Progress, Return, Goto, Here
<1>9. QED
  BY <1>3, <1>6, <1>7, <1>8 DEF CallerInv

LEMMA CallStep ==
    ASSUME CallerInv, NEW t \in Threads, NEW x \in Addresses, Call(t, x)
    PROVE  CallerInv'
<1>1. CallTypes'
  BY DEF CallerInv, CallTypes, Call, Goto, Places
<1>2. EntriesTrue'
  BY DEF CallerInv, CallTypes, EntriesTrue, EntryTrue, Call, Goto
<1>3. VerdictIsTrue'
  BY DEF CallerInv, CallTypes, VerdictIsTrue, Call
<1>4. ASSUME NEW u \in Threads PROVE Progress(u)'
  BY DEF CallerInv, CallTypes, Progress, Call, Goto, Here
<1>5. QED
  BY <1>1, <1>2, <1>3, <1>4 DEF CallerInv

\* An object that is replaced takes its entry out of the promise.
LEMMA ReloadStep ==
    ASSUME CallerInv, NEW x \in Addresses, NEW o \in Objects \cup {NoObject}, Reload(x, o)
    PROVE  CallerInv'
<1>1. CallTypes'
  BY DEF CallerInv, CallTypes, Reload
<1>2. ASSUME NEW e, EntryTrue(e) PROVE EntryTrue(e)'
  BY <1>2 DEF CallerInv, CallTypes, EntryTrue, Reload
<1>3. EntriesTrue'
  BY <1>2 DEF CallerInv, EntriesTrue, Reload
<1>4. VerdictIsTrue'
  <2> SUFFICES ASSUME NEW u \in Threads, verdict'[u] # "none", past'[addr[u]] # "reused"
               PROVE  verdict'[u] = Named(IsGlibc(object'[addr[u]]))
    BY DEF VerdictIsTrue, Reload
  <2>1. addr[u] # x /\ verdict'[u] = verdict[u]
    BY DEF Reload
  <2>2. object'[addr[u]] = object[addr[u]] /\ past'[addr[u]] = past[addr[u]]
    BY <2>1 DEF Reload, CallerInv, CallTypes
  <2>3. QED
    BY <2>1, <2>2 DEF CallerInv, VerdictIsTrue
<1>5. ASSUME NEW u \in Threads PROVE Progress(u)'
  <2>1. CASE pc[u] = "idle"
    BY <2>1 DEF CallerInv, Progress, Reload
  <2>2. CASE pc[u] # "idle"
    <3>1. Here(u)' = Here(u)
      BY <2>2 DEF Reload, Here, CallerInv, CallTypes
    <3>2. QED
      BY <3>1 DEF CallerInv, Progress, Reload
  <2>3. QED
    BY <2>1, <2>2
<1>6. QED
  BY <1>1, <1>3, <1>4, <1>5 DEF CallerInv

-----------------------------------------------------------------------------
(* Theorems                                                                *)

LEMMA CallerInvariant ==
    ASSUME Addresses # {}
    PROVE  Spec => []CallerInv
<1>1. Init => CallerInv
  <2> SUFFICES ASSUME Init PROVE CallerInv
    OBVIOUS
  <2>1. (CHOOSE a \in Addresses : TRUE) \in Addresses
    OBVIOUS
  <2>2. CallTypes
    BY <2>1 DEF Init, CallTypes, Places
  <2>3. EntriesTrue /\ VerdictIsTrue /\ \A t \in Threads : Progress(t)
    BY DEF Init, EntriesTrue, VerdictIsTrue, Progress
  <2>4. QED
    BY <2>2, <2>3 DEF CallerInv
<1>2. CallerInv /\ [Next]_callerVars => CallerInv'
  <2> SUFFICES ASSUME CallerInv, [Next]_callerVars PROVE CallerInv'
    OBVIOUS
  <2>1. CASE UNCHANGED locals
    BY <2>1 DEF locals, CallerInv, CallTypes, EntriesTrue, EntryTrue, VerdictIsTrue,
       Progress, Here
  <2>2. CASE Next
    BY <2>1, <2>2, CallStep, ReloadStep, FindStep, DladdrStep, ScanStep, InsertStep,
       StoreStep DEF Next, Step, Proceed, Crash
  <2>3. QED
    BY <2>1, <2>2 DEF callerVars
<1>3. QED
  BY <1>1, <1>2, PTL DEF Spec

\* Whatever the threads insert and lose, and whatever is loaded and unloaded,
\* a call from an object that has not replaced another one is told the truth.
THEOREM CallerVerdicts ==
    ASSUME Addresses # {}
    PROVE  Spec => []VerdictIsTrue
<1>1. CallerInv => VerdictIsTrue
  BY DEF CallerInv
<1>2. QED
  BY <1>1, CallerInvariant, PTL

\* The cache never holds a wrong verdict for such an object, and none for an
\* address where no call has been classified.
THEOREM CallerCache ==
    ASSUME Addresses # {}
    PROVE  Spec => []CacheIsTrue
<1>1. CallerInv => CacheIsTrue
  BY DEF CallerInv, EntriesTrue, EntryTrue, CacheIsTrue
<1>2. QED
  BY <1>1, CallerInvariant, PTL

\* No scan reads past the end of a chain or of the names of a need.
THEOREM CallerScans ==
    ASSUME Addresses # {}
    PROVE  Spec => []ScanInBounds
<1>1. CallerInv => ScanInBounds
  <2> SUFFICES ASSUME CallerInv, NEW t \in Threads, pc[t] = "scan"
               PROVE  /\ need[t] <= Len(Here(t).chain) /\ need[t] <= Here(t).count
                      /\ aux[t] <= Len(Here(t).chain[need[t]])
    BY DEF ScanInBounds
  <2>1. ScanAt(Here(t), need[t], aux[t], glibc[t])
    BY DEF CallerInv, Progress
  <2>2. Len(Here(t).chain) \in Nat /\ Len(Here(t).chain[need[t]]) \in Nat
    BY <2>1, ChainTypes DEF ScanAt
  <2>3. QED
    BY <2>1, <2>2 DEF ScanAt
<1>2. QED
  BY <1>1, CallerInvariant, PTL

-----------------------------------------------------------------------------
(* Progress, without fairness                                              *)

\* The places a call may still come to.
PlacesLeft(t) ==
    CASE pc[t] = "idle" -> 0 [] pc[t] = "store" -> 1 [] pc[t] = "insert" -> 2
      [] pc[t] = "scan" -> 3 [] pc[t] = "dladdr" -> 4 [] pc[t] = "find" -> 5

\* The needs, and the names of this need, that a scan has not come to.
NeedsLeft(t) == Len(Here(t).chain) - need[t]
NamesLeft(t) == Len(Here(t).chain[need[t]]) - aux[t]

\* The three numbers become smaller, in lexicographic order.
CallAdvances(t) ==
    \/ PlacesLeft(t)' < PlacesLeft(t)
    \/ /\ pc[t] = "scan" /\ UNCHANGED pc[t]
       /\ \/ NeedsLeft(t)' < NeedsLeft(t)
          \/ UNCHANGED need[t] /\ NamesLeft(t)' < NamesLeft(t)

\* Nothing the call depends on is changed, but perhaps the cache.
CallStands(t) ==
    /\ pc'[t] = pc[t] /\ addr'[t] = addr[t] /\ Here(t)' = Here(t)
    /\ need'[t] = need[t] /\ aux'[t] = aux[t]

\* They are natural numbers, so a call cannot advance for ever.
LEMMA LeftNat ==
    ASSUME CallerInv, NEW t \in Threads
    PROVE  /\ PlacesLeft(t) \in 0 .. 5
           /\ pc[t] = "scan" => NeedsLeft(t) \in Nat /\ NamesLeft(t) \in Nat
<1>1. PlacesLeft(t) \in 0 .. 5
  BY DEF CallerInv, CallTypes, Places, PlacesLeft
<1>2. ASSUME pc[t] = "scan" PROVE NeedsLeft(t) \in Nat /\ NamesLeft(t) \in Nat
  <2>1. ScanAt(Here(t), need[t], aux[t], glibc[t])
    BY <1>2 DEF CallerInv, Progress
  <2>2. Len(Here(t).chain) \in Nat /\ Len(Here(t).chain[need[t]]) \in Nat
    BY <2>1, ChainTypes DEF ScanAt
  <2>3. /\ need[t] \in 1 .. Len(Here(t).chain)
        /\ aux[t] \in 1 .. Len(Here(t).chain[need[t]])
    BY <2>1 DEF ScanAt
  <2>4. \A l \in Nat : \A i \in 1 .. l : l - i \in Nat
    OBVIOUS
  <2>5. QED
    BY <2>2, <2>3, <2>4 DEF NeedsLeft, NamesLeft
<1>3. QED
  BY <1>1, <1>2

\* A turn of the scan.
LEMMA ScanAdvances ==
    ASSUME CallerInv, NEW t \in Threads, Scan(t)
    PROVE  CallAdvances(t)
<1>1. /\ pc \in [Threads -> Places] /\ need \in [Threads -> Nat] /\ aux \in [Threads -> Nat]
      /\ pc[t] = "scan" /\ Here(t)' = Here(t)
  BY DEF CallerInv, CallTypes, Scan, Here
<1>2. NeedsLeft(t) \in Nat /\ NamesLeft(t) \in Nat
  BY <1>1, LeftNat
<1>3. ScanAt(Here(t), need[t], aux[t], glibc[t])
  BY <1>1 DEF CallerInv, Progress
<1>4. Len(Here(t).chain) \in Nat /\ Len(Here(t).chain[need[t]]) \in Nat
  BY <1>3, ChainTypes DEF ScanAt
<1>5. CASE aux' = [aux EXCEPT ![t] = @ + 1] /\ UNCHANGED <<pc, need>>
  <2>1. aux'[t] = aux[t] + 1 /\ need'[t] = need[t] /\ pc'[t] = pc[t]
    BY <1>1, <1>5
  <2>2. NamesLeft(t)' < NamesLeft(t)
    BY <1>1, <1>4, <2>1 DEF NamesLeft
  <2>3. QED
    BY <1>1, <2>1, <2>2 DEF CallAdvances
<1>6. CASE Goto(t, "insert")
  <2>1. pc'[t] = "insert"
    BY <1>1, <1>6 DEF Goto
  <2>2. PlacesLeft(t)' = 2 /\ PlacesLeft(t) = 3
    BY <1>1, <2>1 DEF PlacesLeft
  <2>3. QED
    BY <2>2 DEF CallAdvances
<1>7. CASE need' = [need EXCEPT ![t] = @ + 1] /\ UNCHANGED pc
  <2>1. need'[t] = need[t] + 1 /\ pc'[t] = pc[t]
    BY <1>1, <1>7
  <2>2. NeedsLeft(t)' < NeedsLeft(t)
    BY <1>1, <1>4, <2>1 DEF NeedsLeft
  <2>3. QED
    BY <1>1, <2>1, <2>2 DEF CallAdvances
<1>8. QED
  BY <1>5, <1>6, <1>7 DEF Scan

\* Any step of the call: outside of the scan it only goes forward.
LEMMA StepAdvances ==
    ASSUME CallerInv, NEW t \in Threads, Proceed(t)
    PROVE  CallAdvances(t)
<1>1. pc \in [Threads -> Places]
  BY DEF CallerInv, CallTypes
<1>2. ASSUME NEW l \in Places, Goto(t, l) PROVE pc'[t] = l
  BY <1>1, <1>2 DEF Goto
<1>3. CASE Find(t)
  <2>1. pc[t] = "find" /\ pc'[t] \in {"idle", "dladdr"}
    BY <1>2, <1>3 DEF Find, Return, Places
  <2>2. QED
    BY <2>1 DEF CallAdvances, PlacesLeft
<1>4. CASE Dladdr(t)
  <2>1. pc[t] = "dladdr" /\ pc'[t] \in {"idle", "insert", "scan"}
    <3>1. Goto(t, "idle") \/ Goto(t, "insert") \/ Goto(t, "scan")
      BY <1>4 DEF Dladdr, Return, Goto
    <3>2. QED
      BY <1>2, <1>4, <3>1 DEF Dladdr, Places
  <2>2. QED
    BY <2>1 DEF CallAdvances, PlacesLeft
<1>5. CASE Insert(t)
  <2>1. pc[t] = "insert" /\ pc'[t] = "store"
    BY <1>2, <1>5 DEF Insert, Places
  <2>2. QED
    BY <2>1 DEF CallAdvances, PlacesLeft
<1>6. CASE Store(t)
  <2>1. pc[t] = "store" /\ pc'[t] = "idle"
    BY <1>2, <1>6 DEF Store, Return, Places
  <2>2. QED
    BY <2>1 DEF CallAdvances, PlacesLeft
<1>7. QED
  BY <1>3, <1>4, <1>5, <1>6, ScanAdvances DEF Proceed

\* What the other threads, and the loader, do to a call.
LEMMA OthersStand ==
    ASSUME CallerInv, NEW t \in Threads, pc[t] # "idle", Next, ~Step(t)
    PROVE  CallStands(t)
<1>1. CallTypes
  BY DEF CallerInv
<1>2. ASSUME NEW u \in Threads, u # t, Step(u)
      PROVE  CallStands(t)
  <2>1. ASSUME NEW l, Goto(u, l) PROVE pc'[t] = pc[t]
    BY <1>1, <1>2, <2>1 DEF CallTypes, Goto
  <2>2. ASSUME NEW v, Return(u, v)
        PROVE  pc'[t] = pc[t] /\ need'[t] = need[t] /\ aux'[t] = aux[t]
    BY <1>1, <1>2, <2>1, <2>2 DEF CallTypes, Return
  <2>3. UNCHANGED <<object, addr>>
    BY <1>2 DEF Step, Proceed, Find, Dladdr, Scan, Insert, Store, Crash, locals
  <2>4. Here(t)' = Here(t) /\ addr'[t] = addr[t]
    BY <2>3 DEF Here
  <2>5. pc'[t] = pc[t] /\ need'[t] = need[t] /\ aux'[t] = aux[t]
    <3>1. CASE Find(u)
      BY <2>1, <2>2, <3>1 DEF Find
    <3>2. CASE Dladdr(u)
      BY <2>1, <2>2, <3>2 DEF Dladdr
    <3>3. CASE Scan(u)
      <4>1. pc'[t] = pc[t]
        BY <2>1, <3>3 DEF Scan
      <4>2. /\ UNCHANGED need \/ need' = [need EXCEPT ![u] = @ + 1]
            /\ \/ UNCHANGED aux \/ aux' = [aux EXCEPT ![u] = @ + 1]
               \/ aux' = [aux EXCEPT ![u] = 1]
        BY <3>3 DEF Scan
      <4>3. QED
        BY <1>1, <1>2, <4>1, <4>2 DEF CallTypes
    <3>4. CASE Insert(u)
      BY <2>1, <3>4 DEF Insert
    <3>5. CASE Store(u)
      BY <2>2, <3>5 DEF Store
    <3>6. QED
      BY <1>2, <3>1, <3>2, <3>3, <3>4, <3>5 DEF Step, Proceed, Crash, locals
  <2>6. QED
    BY <2>4, <2>5 DEF CallStands
<1>3. ASSUME NEW u \in Threads, NEW x \in Addresses, Call(u, x)
      PROVE  CallStands(t)
  <2>1. u # t
    BY <1>3 DEF Call
  <2>2. addr'[t] = addr[t] /\ pc'[t] = pc[t]
    BY <1>1, <1>3, <2>1 DEF CallTypes, Call, Goto
  <2>3. UNCHANGED <<object, need, aux>>
    BY <1>3 DEF Call
  <2>4. QED
    BY <2>2, <2>3 DEF Here, CallStands
<1>4. ASSUME NEW x \in Addresses, NEW o \in Objects \cup {NoObject}, Reload(x, o)
      PROVE  CallStands(t)
  <2>1. addr[t] # x
    BY <1>4 DEF Reload
  <2>2. QED
    BY <1>1, <1>4, <2>1 DEF CallTypes, Reload, Here, CallStands
<1>5. QED
  BY <1>2, <1>3, <1>4 DEF Next

\* Every step of a call comes nearer to its return or ends the program, whatever
\* object it scans, by numbers that are never negative, and no step of another
\* thread or of the loader takes it back: both loops of the scan end.
THEOREM CallerAdvances ==
    ASSUME Addresses # {}
    PROVE  Spec => [][\A t \in Threads : pc[t] # "idle" =>
                        /\ PlacesLeft(t) \in 0 .. 5
                        /\ pc[t] = "scan" => NeedsLeft(t) \in Nat /\ NamesLeft(t) \in Nat
                        /\ Step(t) => CallAdvances(t) \/ crashed'
                        /\ ~Step(t) => CallStands(t)]_callerVars
<1>1. CallerInv /\ [Next]_callerVars =>
        [\A t \in Threads : pc[t] # "idle" =>
            /\ PlacesLeft(t) \in 0 .. 5
            /\ pc[t] = "scan" => NeedsLeft(t) \in Nat /\ NamesLeft(t) \in Nat
            /\ Step(t) => CallAdvances(t) \/ crashed'
            /\ ~Step(t) => CallStands(t)]_callerVars
  BY LeftNat, StepAdvances, OthersStand DEF Step, Crash
<1>2. QED
  BY <1>1, CallerInvariant, PTL DEF Spec

=============================================================================
