-------------------------- MODULE ParquetSinkProofs --------------------------
(***************************************************************************)
(* Proofs about ParquetSink.                                               *)
(***************************************************************************)
EXTENDS ParquetSink, DataFacts

-----------------------------------------------------------------------------
(* Batches                                                                 *)

RowsIn(s) == {s[i] : i \in DOMAIN s}
Ascending(s) == \A i, j \in DOMAIN s : i < j => s[i].id < s[j].id

(* The rows of two sequences put together are those of both.               *)
LEMMA JoinedRows ==
  ASSUME NEW s \in Seq(Row), NEW t \in Seq(Row)
  PROVE  RowsIn(s \o t) = RowsIn(s) \cup RowsIn(t)
<1>1. PICK u : u = s \o t
  OBVIOUS
<1>2. /\ DOMAIN u = 1..Len(s) + Len(t)
      /\ DOMAIN s = 1..Len(s) /\ DOMAIN t = 1..Len(t) /\ Len(s) \in Nat /\ Len(t) \in Nat
      /\ \A i \in 1..Len(s) : u[i] = s[i]
      /\ \A i \in 1..Len(t) : u[Len(s) + i] = t[i]
  BY <1>1, Joined
<1>3. ASSUME NEW r \in RowsIn(u) PROVE r \in RowsIn(s) \cup RowsIn(t)
  <2>1. PICK i \in 1..Len(s) + Len(t) : r = u[i]
    BY <1>2, <1>3 DEF RowsIn
  <2>2. CASE i \in 1..Len(s)
    BY <1>2, <2>1, <2>2 DEF RowsIn
  <2>3. CASE i \notin 1..Len(s)
    <3>1. PICK j \in 1..Len(t) : i = Len(s) + j
      <4>1. i - Len(s) \in 1..Len(t) /\ i = Len(s) + (i - Len(s))
        BY <1>2, <2>3
      <4> QED
        BY <4>1
    <3> QED
      BY <1>2, <2>1, <3>1 DEF RowsIn
  <2> QED
    BY <2>2, <2>3
<1>4. ASSUME NEW r \in RowsIn(s) PROVE r \in RowsIn(u)
  <2>1. PICK i \in 1..Len(s) : r = s[i]
    BY <1>2, <1>4 DEF RowsIn
  <2>2. i \in 1..Len(s) + Len(t)
    BY <1>2
  <2> QED
    BY <1>2, <2>1, <2>2 DEF RowsIn
<1>5. ASSUME NEW r \in RowsIn(t) PROVE r \in RowsIn(u)
  <2>1. PICK i \in 1..Len(t) : r = t[i]
    BY <1>2, <1>5 DEF RowsIn
  <2>2. Len(s) + i \in 1..Len(s) + Len(t)
    BY <1>2
  <2> QED
    BY <1>2, <2>1, <2>2 DEF RowsIn
<1> QED
  BY <1>1, <1>3, <1>4, <1>5

(* The bounds as numbers.                                                  *)
LEMMA Bounds ==
  /\ QueueMax \in Nat \ {0} /\ BatchSize \in Nat \ {0} /\ FlushInterval \in Nat \ {0}
  /\ CheckpointInterval \in Nat \ {0} /\ StallTimeout \in Nat \ {0}
  /\ MaxRow \in Nat \ {0} /\ MaxHour \in Nat \ {0}
BY SinkAssumption

(* A row's number and hour are naturals, its feed is a feed.               *)
LEMMA RowTyped ==
  \A r \in Row : /\ r.id \in 1..MaxRow /\ r.id \in Nat /\ r.feed \in Feed
               /\ r.hour \in 1..MaxHour /\ r.hour \in Nat
BY Bounds DEF Row

(* The recursion of RowsOfGroup, unrolled.                                 *)
FoundTo(rows, g, n) ==
  LET found[m \in 0..Len(rows)] ==
        IF m = 0 THEN <<>>
        ELSE IF GroupOf(rows[m]) = g THEN Append(found[m - 1], rows[m]) ELSE found[m - 1]
  IN  found[n]

(* FoundTo goes through the batch, taking the rows of the group.           *)
LEMMA FoundSteps ==
  ASSUME NEW rows, NEW g, Len(rows) \in Nat
  PROVE  /\ RowsOfGroup(rows, g) = FoundTo(rows, g, Len(rows))
         /\ FoundTo(rows, g, 0) = <<>>
         /\ \A n \in 1..Len(rows) :
              FoundTo(rows, g, n) =
                IF GroupOf(rows[n]) = g THEN Append(FoundTo(rows, g, n - 1), rows[n])
                ELSE FoundTo(rows, g, n - 1)
<1> DEFINE Turn(x, n) == IF GroupOf(rows[n]) = g THEN Append(x, rows[n]) ELSE x
           M == Len(rows)
           Is(f, m) == f = [n \in 0..m |-> IF n = 0 THEN <<>> ELSE Turn(f[n - 1], n)]
           T == {m \in Nat : \E f : Is(f, m)}
<1> HIDE DEF Turn
<1>1. 0 \in T
  <2>1. Is([n \in 0..0 |-> <<>>], 0)
    OBVIOUS
  <2> QED
    BY <2>1
<1>2. ASSUME NEW m \in Nat, m \in T PROVE m + 1 \in T
  <2>1. PICK f : Is(f, m)
    BY <1>2
  <2> DEFINE h == [n \in 0..m + 1 |-> IF n = m + 1 THEN Turn(f[m], m + 1) ELSE f[n]]
  <2>2. \A n \in 0..m : h[n] = f[n]
    OBVIOUS
  <2>3. ASSUME NEW n \in 0..m + 1 PROVE h[n] = IF n = 0 THEN <<>> ELSE Turn(h[n - 1], n)
    <3>1. CASE n = m + 1
      <4>1. n - 1 = m /\ n # 0 /\ m \in 0..m
        BY <3>1
      <4> QED
        BY <3>1, <4>1, <2>2
    <3>2. CASE n # m + 1
      <4>1. n \in 0..m /\ (n # 0 => n - 1 \in 0..m)
        BY <3>2
      <4>2. f[n] = IF n = 0 THEN <<>> ELSE Turn(f[n - 1], n)
        BY <2>1, <4>1
      <4> QED
        BY <2>2, <4>1, <4>2
    <3> QED
      BY <3>1, <3>2
  <2>4. Is(h, m + 1)
    BY <2>3
  <2> HIDE DEF h
  <2> QED
    BY <2>4
<1>3. PICK f : Is(f, M)
  <2>1. M \in T
    BY <1>1, <1>2, AllNaturals
  <2> QED
    BY <2>1
<1> DEFINE w == CHOOSE x : Is(x, M)
<1>4. Is(w, M)
  BY <1>3
<1>5. RowsOfGroup(rows, g) = w[M] /\ \A n : FoundTo(rows, g, n) = w[n]
  BY DEF RowsOfGroup, FoundTo, Turn
<1> HIDE DEF w
<1>6. 0 \in 0..M /\ \A n \in 1..M : n \in 0..M /\ n # 0
  OBVIOUS
<1>7. w[0] = <<>> /\ \A n \in 1..M : w[n] = Turn(w[n - 1], n)
  BY <1>4, <1>6
<1> QED
  BY <1>5, <1>7 DEF Turn

(* A group has the rows of it, in the order they have in the batch.        *)
LEMMA GroupIs ==
  ASSUME NEW rows \in Seq(Row), NEW g
  PROVE  LET s == RowsOfGroup(rows, g)
         IN  /\ s \in Seq(Row)
             /\ RowsIn(s) = {r \in RowsIn(rows) : GroupOf(r) = g}
             /\ Ascending(rows) => Ascending(s)
<1> DEFINE M == Len(rows)
           x(n) == FoundTo(rows, g, n)
           Good(n) == /\ x(n) \in Seq(Row)
                      /\ \A r : r \in RowsIn(x(n)) <=> \E j \in 1..n : r = rows[j] /\ GroupOf(r) = g
                      /\ Ascending(rows) => Ascending(x(n))
           T == {n \in Nat : n <= M => Good(n)}
           Turn(y, n) == IF GroupOf(rows[n]) = g THEN Append(y, rows[n]) ELSE y
<1>1. M \in Nat /\ DOMAIN rows = 1..M /\ \A j \in 1..M : rows[j] \in Row /\ rows[j].id \in Nat
  BY RowTyped
<1>2. /\ x(0) = <<>>
      /\ \A n \in 1..M : x(n) = Turn(x(n - 1), n)
  BY <1>1, FoundSteps
<1> HIDE DEF x, Turn
<1>3. 0 \in T
  <2>1. <<>> \in Seq(Row) /\ RowsIn(<<>>) = {} /\ Ascending(<<>>)
    BY DEF RowsIn, Ascending
  <2>2. \A j : j \notin 1..0
    OBVIOUS
  <2> QED
    BY <1>2, <2>1, <2>2
<1>4. ASSUME NEW n \in Nat, n \in T PROVE n + 1 \in T
  <2> SUFFICES ASSUME n + 1 <= M PROVE Good(n + 1)
    OBVIOUS
  <2>1. Good(n) /\ n + 1 \in 1..M /\ n + 1 - 1 = n
    BY <1>1, <1>4
  <2>2. PICK s : s = x(n)
    OBVIOUS
  <2>3. PICK r : r = rows[n + 1]
    OBVIOUS
  <2>4. x(n + 1) = IF GroupOf(r) = g THEN Append(s, r) ELSE s
    <3>1. x(n + 1) = Turn(s, n + 1)
      BY <1>2, <2>1, <2>2
    <3> QED
      BY <2>3, <3>1 DEF Turn
  <2>5. s \in Seq(Row) /\ r \in Row /\ r.id \in Nat
    BY <1>1, <2>1, <2>2, <2>3
  <2>6. \A y : y \in RowsIn(s) <=> \E j \in 1..n : y = rows[j] /\ GroupOf(y) = g
    BY <2>1, <2>2
  <2>7. CASE GroupOf(r) = g
    <3> DEFINE t == Append(s, r)
    <3>1. /\ t \in Seq(Row) /\ Len(t) = Len(s) + 1 /\ Len(s) \in Nat
          /\ DOMAIN t = 1..Len(s) + 1 /\ DOMAIN s = 1..Len(s)
          /\ \A i \in 1..Len(s) : t[i] = s[i]
          /\ t[Len(s) + 1] = r
      BY <2>5, Appended
    <3> HIDE DEF t
    <3>2. \A y : y \in RowsIn(t) <=> y \in RowsIn(s) \/ y = r
      BY <3>1 DEF RowsIn
    <3>3. \A y : y \in RowsIn(t) <=> \E j \in 1..n + 1 : y = rows[j] /\ GroupOf(y) = g
      <4>1. \A j : j \in 1..n + 1 <=> j \in 1..n \/ j = n + 1
        OBVIOUS
      <4> QED
        BY <2>3, <2>6, <2>7, <3>2, <4>1
    <3>4. ASSUME Ascending(rows) PROVE Ascending(t)
      <4>1. Ascending(s)
        BY <2>1, <2>2, <3>4
      <4>2. \A y \in RowsIn(s) : y.id < r.id
        <5>1. \A j \in 1..n : rows[j].id < rows[n + 1].id
          BY <1>1, <2>1, <3>4 DEF Ascending
        <5> QED
          BY <2>3, <2>6, <5>1
      <4> SUFFICES ASSUME NEW i \in 1..Len(s) + 1, NEW j \in 1..Len(s) + 1, i < j
                   PROVE  t[i].id < t[j].id
        BY <3>1 DEF Ascending
      <4>3. CASE j = Len(s) + 1
        <5>1. i \in DOMAIN s /\ s[i] \in RowsIn(s)
          BY <3>1, <4>3 DEF RowsIn
        <5> QED
          BY <3>1, <4>2, <4>3, <5>1
      <4>4. CASE j # Len(s) + 1
        <5>1. i \in 1..Len(s) /\ j \in 1..Len(s)
          BY <3>1, <4>4
        <5> QED
          BY <3>1, <4>1, <5>1 DEF Ascending
      <4> QED
        BY <4>3, <4>4
    <3>5. x(n + 1) = t
      BY <2>4, <2>7 DEF t
    <3> QED
      BY <3>1, <3>3, <3>4, <3>5
  <2>8. CASE GroupOf(r) # g
    <3>1. \A j : j \in 1..n + 1 <=> j \in 1..n \/ j = n + 1
      OBVIOUS
    <3>2. \A y : y \in RowsIn(s) <=> \E j \in 1..n + 1 : y = rows[j] /\ GroupOf(y) = g
      BY <2>3, <2>6, <2>8, <3>1
    <3> QED
      BY <2>1, <2>2, <2>4, <2>8, <3>2
  <2> QED
    BY <2>7, <2>8
<1>5. Good(M)
  <2>1. Nat \subseteq T
    BY <1>3, <1>4, AllNaturals
  <2> HIDE DEF Good
  <2>2. M <= M
    BY <1>1
  <2>3. M \in T => Good(M)
    BY <2>2
  <2> HIDE DEF T, M
  <2> QED
    BY <1>1, <2>1, <2>3
<1>6. RowsOfGroup(rows, g) = x(M)
  BY <1>1, FoundSteps DEF x
<1>7. RowsIn(x(M)) = {r \in RowsIn(rows) : GroupOf(r) = g}
  BY <1>1, <1>5 DEF RowsIn
<1> QED
  BY <1>5, <1>6, <1>7

(* The recursion of FlushTo, unrolled.                                     *)
LEMMA FlushSteps ==
  ASSUME NEW disk, NEW rows, Len(rows) \in Nat
  PROVE  /\ FlushTo(disk, rows, 0) = disk
         /\ \A n \in 1..Len(rows) :
              FlushTo(disk, rows, n) =
                IF n \in Leads(rows)
                THEN WriteGroup(FlushTo(disk, rows, n - 1), rows, GroupOf(rows[n]))
                ELSE FlushTo(disk, rows, n - 1)
<1> DEFINE Turn(d, n) == IF n \in Leads(rows) THEN WriteGroup(d, rows, GroupOf(rows[n])) ELSE d
           M == Len(rows)
           Is(f, m) == f = [n \in 0..m |-> IF n = 0 THEN disk ELSE Turn(f[n - 1], n)]
           T == {m \in Nat : \E f : Is(f, m)}
<1> HIDE DEF Turn
<1>1. 0 \in T
  <2>1. Is([n \in 0..0 |-> disk], 0)
    OBVIOUS
  <2> QED
    BY <2>1
<1>2. ASSUME NEW m \in Nat, m \in T PROVE m + 1 \in T
  <2>1. PICK f : Is(f, m)
    BY <1>2
  <2> DEFINE g == [n \in 0..m + 1 |-> IF n = m + 1 THEN Turn(f[m], m + 1) ELSE f[n]]
  <2>2. \A n \in 0..m : g[n] = f[n]
    OBVIOUS
  <2>3. ASSUME NEW n \in 0..m + 1 PROVE g[n] = IF n = 0 THEN disk ELSE Turn(g[n - 1], n)
    <3>1. CASE n = m + 1
      <4>1. n - 1 = m /\ n # 0 /\ m \in 0..m
        BY <3>1
      <4> QED
        BY <3>1, <4>1, <2>2
    <3>2. CASE n # m + 1
      <4>1. n \in 0..m /\ (n # 0 => n - 1 \in 0..m)
        BY <3>2
      <4>2. f[n] = IF n = 0 THEN disk ELSE Turn(f[n - 1], n)
        BY <2>1, <4>1
      <4> QED
        BY <2>2, <4>1, <4>2
    <3> QED
      BY <3>1, <3>2
  <2>4. Is(g, m + 1)
    BY <2>3
  <2> HIDE DEF g
  <2> QED
    BY <2>4
<1>3. M \in T
  BY <1>1, <1>2, AllNaturals
<1>4. PICK f : Is(f, M)
  BY <1>3
<1> DEFINE w == CHOOSE f_1 : Is(f_1, M)
<1>5. Is(w, M)
  BY <1>4
<1>6. \A n : FlushTo(disk, rows, n) = w[n]
  BY DEF FlushTo, Turn
<1> HIDE DEF w
<1>7. 0 \in 0..M /\ \A n \in 1..M : n \in 0..M /\ n # 0
  OBVIOUS
<1>8. w[0] = disk /\ \A n \in 1..M : w[n] = Turn(w[n - 1], n)
  BY <1>5, <1>7
<1> QED
  BY <1>6, <1>8 DEF Turn


(* The group a row leads is not empty, and all of it is written.           *)
LEMMA LedGroup ==
  ASSUME NEW rows \in Seq(Row), NEW n \in Leads(rows)
  PROVE  LET s == RowsOfGroup(rows, GroupOf(rows[n]))
         IN  /\ n \in 1..Len(rows) /\ rows[n] \in Row /\ rows[n] \in RowsIn(rows)
             /\ s \in Seq(Row) /\ s # <<>> /\ s[1] \in RowsIn(s)
             /\ RowsIn(s) = {r \in RowsIn(rows) : GroupOf(r) = GroupOf(rows[n])}
             /\ Ascending(rows) => Ascending(s)
<1>1. n \in DOMAIN rows /\ DOMAIN rows = 1..Len(rows)
  BY DEF Leads
<1>2. rows[n] \in Row /\ rows[n] \in RowsIn(rows)
  BY <1>1 DEF RowsIn
<1>3. PICK s : s = RowsOfGroup(rows, GroupOf(rows[n]))
  OBVIOUS
<1>4. /\ s \in Seq(Row)
      /\ RowsIn(s) = {r \in RowsIn(rows) : GroupOf(r) = GroupOf(rows[n])}
      /\ Ascending(rows) => Ascending(s)
  BY <1>3, GroupIs
<1>5. rows[n] \in RowsIn(s)
  BY <1>2, <1>4
<1>6. s # <<>> /\ s[1] \in RowsIn(s)
  BY <1>4, <1>5 DEF RowsIn
<1> QED
  BY <1>1, <1>2, <1>3, <1>4, <1>6

-----------------------------------------------------------------------------
(* Disks                                                                   *)

Writer == [open : BOOLEAN, hour : 0..MaxHour, next : Nat, rows : Seq(Row),
           age : 0..CheckpointInterval]
Key    == Feed \X (1..MaxHour) \X Nat
Files  == UNION {[K -> Seq(Row)] : K \in SUBSET Key}

(* An open file has its hour and its number.                               *)
Numbered(w) == w.open => w.next > 0 /\ w.hour > 0

DiskTyped(d) ==
  /\ d \in [writer : [Feed -> Writer], files : Files]
  /\ \A f \in Feed : Numbered(d.writer[f])

OpenIn(d, S) == {f \in S : d.writer[f].open}
PartsOf(d, S) == {Part(d, f) : f \in OpenIn(d, S)}

(* Closing a writer leaves it its hour and its next number, and no rows.   *)
LEMMA ClosedIs ==
  ASSUME NEW w \in Writer
  PROVE  /\ Closed(w) \in Writer /\ ~ Closed(w).open /\ Closed(w).rows = <<>>
         /\ Closed(w).hour = w.hour /\ Closed(w).next = w.next
<1>1. <<>> \in Seq(Row) /\ 0 \in 0..CheckpointInterval
  BY Bounds
<1>2. Closed(w) = [open |-> FALSE, hour |-> w.hour, next |-> w.next, rows |-> <<>>, age |-> 0]
  BY DEF Closed
<1>3. w.hour \in 0..MaxHour /\ w.next \in Nat
  BY DEF Writer
<1> QED
  BY <1>1, <1>2, <1>3 DEF Writer

(* Files are sequences of rows under typed names.                          *)
LEMMA FilesHave ==
  ASSUME NEW files_1 \in Files
  PROVE  /\ DOMAIN files_1 \subseteq Key
         /\ \A k \in DOMAIN files_1 : files_1[k] \in Seq(Row)
BY DEF Files

(* A function of names to sequences of rows is a set of files.             *)
LEMMA FilesMade ==
  ASSUME NEW K, K \subseteq Key, NEW g, g = [k \in K |-> g[k]], \A k \in K : g[k] \in Seq(Row)
  PROVE  g \in Files
<1>1. g \in [K -> Seq(Row)]
  OBVIOUS
<1> QED
  BY <1>1 DEF Files

(* What finalizing does to each writer and to each file.                   *)
LEMMA FinalizeIs ==
  ASSUME NEW d, DiskTyped(d), NEW S, S \subseteq Feed
  PROVE  LET e == Finalize(d, S)
         IN  /\ DiskTyped(e)
             /\ \A f \in S : /\ ~ e.writer[f].open
                             /\ e.writer[f].hour = d.writer[f].hour
                             /\ e.writer[f].next = d.writer[f].next
                             /\ e.writer[f].rows = IF d.writer[f].open THEN <<>> ELSE d.writer[f].rows
             /\ \A f \in Feed \ S : e.writer[f] = d.writer[f]
             /\ DOMAIN e.files = DOMAIN d.files \cup PartsOf(d, S)
             /\ \A k \in PartsOf(d, S) : e.files[k] = d.writer[k[1]].rows
             /\ \A k \in DOMAIN d.files \ PartsOf(d, S) : e.files[k] = d.files[k]
<1> DEFINE e == Finalize(d, S)
           P == PartsOf(d, S)
<1>1. /\ e.writer = [f \in Feed |-> IF f \in S /\ d.writer[f].open
                                    THEN Closed(d.writer[f]) ELSE d.writer[f]]
      /\ e.files = [k \in DOMAIN d.files \cup P |->
                      IF k \in P THEN d.writer[k[1]].rows ELSE d.files[k]]
  BY DEF Finalize, PartsOf, OpenIn
<1> HIDE DEF e
<1>2. \A f \in Feed : d.writer[f] \in Writer /\ Numbered(d.writer[f])
  BY DEF DiskTyped
<1>3. \A f \in Feed : e.writer[f] = IF f \in S /\ d.writer[f].open
                                    THEN Closed(d.writer[f]) ELSE d.writer[f]
  BY <1>1
<1>4. \A f \in Feed : e.writer[f] \in Writer /\ Numbered(e.writer[f])
  <2> SUFFICES ASSUME NEW f \in Feed PROVE e.writer[f] \in Writer /\ Numbered(e.writer[f])
    OBVIOUS
  <2>1. CASE f \in S /\ d.writer[f].open
    BY <1>2, <1>3, <2>1, ClosedIs DEF Numbered
  <2>2. CASE ~ (f \in S /\ d.writer[f].open)
    BY <1>2, <1>3, <2>2
  <2> QED
    BY <2>1, <2>2
<1>5. e.writer \in [Feed -> Writer]
  BY <1>1, <1>4
<1>6. P \subseteq Key /\ \A k \in P : k[1] \in Feed
  <2> SUFFICES ASSUME NEW f \in Feed, d.writer[f].open PROVE Part(d, f) \in Key
    BY DEF PartsOf, OpenIn, Key
  <2>1. /\ d.writer[f].hour \in 1..MaxHour /\ d.writer[f].next - 1 \in Nat
    <3>1. d.writer[f].hour \in 0..MaxHour /\ d.writer[f].next \in Nat
      BY <1>2 DEF Writer
    <3> QED
      BY <1>2, <3>1 DEF Numbered
  <2> QED
    BY <2>1 DEF Part, Key
<1>7. \A k \in DOMAIN d.files \cup P : e.files[k] \in Seq(Row)
  <2>1. \A k \in P : d.writer[k[1]].rows \in Seq(Row)
    BY <1>2, <1>6 DEF Writer
  <2>2. \A k \in DOMAIN d.files : d.files[k] \in Seq(Row)
    BY FilesHave DEF DiskTyped
  <2> QED
    BY <1>1, <2>1, <2>2
<1>8. e.files \in Files
  <2>1. DOMAIN d.files \cup P \subseteq Key
    BY <1>6, FilesHave DEF DiskTyped
  <2>2. e.files = [k \in DOMAIN d.files \cup P |-> e.files[k]]
    BY <1>1
  <2> QED
    BY <1>7, <2>1, <2>2, FilesMade
<1>9. DiskTyped(e)
  <2>1. e = [writer |-> e.writer, files |-> e.files]
    BY DEF e, Finalize
  <2> QED
    BY <1>4, <1>5, <1>8, <2>1 DEF DiskTyped
<1>10. \A f \in S : /\ ~ e.writer[f].open
                    /\ e.writer[f].hour = d.writer[f].hour
                    /\ e.writer[f].next = d.writer[f].next
                    /\ e.writer[f].rows = IF d.writer[f].open THEN <<>> ELSE d.writer[f].rows
  BY <1>2, <1>3, ClosedIs
<1> QED
  BY <1>1, <1>3, <1>9, <1>10 DEF e

(* What changing one writer of a disk comes to.                            *)
LEMMA WriterChanged ==
  ASSUME NEW d, DiskTyped(d), NEW f \in Feed, NEW w \in Writer, Numbered(w)
  PROVE  LET e == [d EXCEPT !.writer[f] = w]
         IN  /\ DiskTyped(e) /\ e.files = d.files /\ e.writer[f] = w
             /\ \A g \in Feed \ {f} : e.writer[g] = d.writer[g]
<1>1. d.writer \in [Feed -> Writer] /\ d.files \in Files
  BY DEF DiskTyped
<1>2. [d EXCEPT !.writer[f] = w] = [writer |-> [d.writer EXCEPT ![f] = w], files |-> d.files]
  BY DEF DiskTyped
<1>3. [d.writer EXCEPT ![f] = w] \in [Feed -> Writer]
  BY <1>1
<1> QED
  BY <1>1, <1>2, <1>3 DEF DiskTyped

(* A file is opened for an hour, numbered on within the hour.              *)
LEMMA OpenIs ==
  ASSUME NEW d, DiskTyped(d), NEW f \in Feed, NEW h \in 1..MaxHour
  PROVE  LET e == Open(d, f, h)
             w == d.writer[f]
         IN  /\ DiskTyped(e) /\ e.files = d.files
             /\ \A g \in Feed \ {f} : e.writer[g] = d.writer[g]
             /\ e.writer[f].open /\ e.writer[f].hour = h /\ e.writer[f].rows = <<>>
             /\ e.writer[f].next = IF h = w.hour THEN w.next + 1 ELSE 1
<1> DEFINE w == d.writer[f]
           n == IF h = w.hour THEN w.next + 1 ELSE 1
           v == [open |-> TRUE, hour |-> h, next |-> n, rows |-> <<>>, age |-> 0]
<1>1. w \in Writer
  BY DEF DiskTyped
<1>2. n \in Nat /\ n > 0
  BY <1>1 DEF Writer
<1>3. v \in Writer /\ Numbered(v)
  <2>1. <<>> \in Seq(Row) /\ 0 \in 0..CheckpointInterval /\ h \in 0..MaxHour
    BY Bounds
  <2> HIDE DEF n
  <2> QED
    BY <1>2, <2>1, Bounds DEF Writer, Numbered
<1>4. Open(d, f, h) = [d EXCEPT !.writer[f] = v]
  BY DEF Open, DiskTyped
<1>5. v.open /\ v.hour = h /\ v.rows = <<>> /\ v.next = n
  OBVIOUS
<1> HIDE DEF v
<1> QED
  BY <1>3, <1>4, <1>5, WriterChanged

(* The disk with rows appended to the open file of feed f.                 *)
Extended(d, f, new) == [d EXCEPT !.writer[f].rows = @ \o new]

(* Only the writer's rows change.                                          *)
LEMMA AppendedTo ==
  ASSUME NEW d, DiskTyped(d), NEW f \in Feed, NEW new \in Seq(Row)
  PROVE  LET e == Extended(d, f, new)
             w == d.writer[f]
         IN  /\ DiskTyped(e) /\ e.files = d.files
             /\ \A g \in Feed \ {f} : e.writer[g] = d.writer[g]
             /\ e.writer[f].open = w.open /\ e.writer[f].hour = w.hour
             /\ e.writer[f].next = w.next /\ e.writer[f].rows = w.rows \o new
<1> DEFINE w == d.writer[f]
           v == [w EXCEPT !.rows = w.rows \o new]
<1>1. w \in Writer /\ Numbered(w)
  BY DEF DiskTyped
<1>2. w.rows \in Seq(Row) /\ w.rows \o new \in Seq(Row)
  BY <1>1 DEF Writer
<1>a. PICK e : e = Extended(d, f, new)
  OBVIOUS
<1>3. e = [d EXCEPT !.writer[f] = v]
  BY <1>a DEF DiskTyped, Extended
<1> HIDE DEF w
<1>4. /\ v \in Writer /\ v.open = w.open /\ v.hour = w.hour
      /\ v.next = w.next /\ v.rows = w.rows \o new
  BY <1>1, <1>2 DEF Writer
<1> HIDE DEF v
<1>5. Numbered(v)
  BY <1>1, <1>4 DEF Numbered
<1>7. /\ DiskTyped(e) /\ e.files = d.files /\ e.writer[f] = v
      /\ \A g \in Feed \ {f} : e.writer[g] = d.writer[g]
  BY <1>3, <1>4, <1>5, WriterChanged
<1> QED
  BY ONLY <1>4, <1>a, <1>7 DEF w

-----------------------------------------------------------------------------
(* Disks that are in order                                                 *)

(* A writer's rows are of its feed and hour, those of a closed one are     *)
(* written, and the number of its next file has not been taken.            *)
WriterOK(d, f) ==
  /\ \A r \in RowsIn(d.writer[f].rows) : GroupOf(r) = <<f, d.writer[f].hour>>
  /\ d.writer[f].open \/ d.writer[f].rows = <<>>
  /\ \A k \in DOMAIN d.files :
       k[1] = f /\ k[2] = d.writer[f].hour =>
         k[3] < IF d.writer[f].open THEN d.writer[f].next - 1 ELSE d.writer[f].next

FileOK(d, k) == \A r \in RowsIn(d.files[k]) : GroupOf(r) = <<k[1], k[2]>>

DiskOK(d) ==
  /\ DiskTyped(d)
  /\ \A f \in Feed : WriterOK(d, f)
  /\ \A k \in DOMAIN d.files : FileOK(d, k)

(* The writer of feed f may go on to hour h: no file there is in its way.  *)
Reaches(d, f, h) ==
  /\ d.writer[f].hour <= h
  /\ \A k \in DOMAIN d.files : k[1] = f => k[2] = d.writer[f].hour \/ k[2] < h

RowsOpen(d) == UNION {RowsIn(d.writer[f].rows) : f \in Feed}
RowsDone(d) == UNION {RowsIn(d.files[k]) : k \in DOMAIN d.files}
HeldBy(d)   == RowsOpen(d) \cup RowsDone(d)

Keeps(d, e) == \A k \in DOMAIN d.files : k \in DOMAIN e.files /\ e.files[k] = d.files[k]

(* A row is held by a disk when it is in an open file or in a final one.   *)
LEMMA HeldIs ==
  ASSUME NEW d
  PROVE  \A r : r \in HeldBy(d) <=> \/ \E f \in Feed : r \in RowsIn(d.writer[f].rows)
                                    \/ \E k \in DOMAIN d.files : r \in RowsIn(d.files[k])
<1>1. \A r : r \in RowsOpen(d) <=> \E f \in Feed : r \in RowsIn(d.writer[f].rows)
  BY DEF RowsOpen
<1>2. \A r : r \in RowsDone(d) <=> \E k \in DOMAIN d.files : r \in RowsIn(d.files[k])
  BY DEF RowsDone
<1>3. \A r : r \in HeldBy(d) <=> r \in RowsOpen(d) \/ r \in RowsDone(d)
  BY DEF HeldBy
<1> QED
  BY <1>1, <1>2, <1>3

(* What is known of one writer of a typed disk.                            *)
LEMMA WriterTyped ==
  ASSUME NEW d, DiskTyped(d), NEW f \in Feed
  PROVE  /\ d.writer[f].hour \in 0..MaxHour /\ d.writer[f].hour \in Nat
         /\ d.writer[f].next \in Nat /\ d.writer[f].rows \in Seq(Row)
         /\ d.writer[f].open => d.writer[f].next > 0 /\ d.writer[f].hour > 0
<1>1. d.writer[f] \in Writer /\ Numbered(d.writer[f])
  BY DEF DiskTyped
<1> QED
  BY <1>1, Bounds DEF Writer, Numbered

(* What is known of one file of a typed disk.                              *)
LEMMA FilesTyped ==
  ASSUME NEW d, DiskTyped(d), NEW k \in DOMAIN d.files
  PROVE  /\ k[1] \in Feed /\ k[2] \in 1..MaxHour /\ k[2] \in Nat /\ k[3] \in Nat
         /\ k = <<k[1], k[2], k[3]>> /\ d.files[k] \in Seq(Row)
<1>1. k \in Key /\ d.files[k] \in Seq(Row)
  BY FilesHave DEF DiskTyped
<1> QED
  BY <1>1, Bounds DEF Key

(* What a writer is given is held, and whatever else changes, no row comes *)
(* from anywhere but the disk and the batch.                               *)
LEMMA AppendedHolds ==
  ASSUME NEW d, DiskTyped(d), NEW f \in Feed, NEW new \in Seq(Row)
  PROVE  HeldBy(Extended(d, f, new)) = HeldBy(d) \cup RowsIn(new)
<1>1. PICK e : e = Extended(d, f, new)
  OBVIOUS
<1>2. /\ e.files = d.files
      /\ \A g \in Feed \ {f} : e.writer[g] = d.writer[g]
      /\ e.writer[f].rows = d.writer[f].rows \o new
  BY <1>1, AppendedTo
<1>3. RowsIn(e.writer[f].rows) = RowsIn(d.writer[f].rows) \cup RowsIn(new)
  BY <1>2, WriterTyped, JoinedRows
<1>4. \A r, g : g \in Feed \ {f} =>
         (r \in RowsIn(e.writer[g].rows) <=> r \in RowsIn(d.writer[g].rows))
  BY <1>2
<1>5. \A r : (\E g \in Feed : r \in RowsIn(e.writer[g].rows)) <=>
              (\E g \in Feed : r \in RowsIn(d.writer[g].rows)) \/ r \in RowsIn(new)
  BY ONLY <1>3, <1>4, f \in Feed
<1>6. \A r : r \in HeldBy(e) <=> r \in HeldBy(d) \/ r \in RowsIn(new)
  BY ONLY <1>2, <1>5, HeldIs
<1> QED
  BY <1>1, <1>6

(* Finalizing brings no row onto the disk.                                 *)
LEMMA FinalizeHolds ==
  ASSUME NEW d, DiskTyped(d), NEW S, S \subseteq Feed
  PROVE  HeldBy(Finalize(d, S)) \subseteq HeldBy(d)
<1>1. PICK e : e = Finalize(d, S)
  OBVIOUS
<1>2. /\ \A f \in S : e.writer[f].rows = IF d.writer[f].open THEN <<>> ELSE d.writer[f].rows
      /\ \A f \in Feed \ S : e.writer[f] = d.writer[f]
      /\ DOMAIN e.files = DOMAIN d.files \cup PartsOf(d, S)
      /\ \A k \in PartsOf(d, S) : e.files[k] = d.writer[k[1]].rows
      /\ \A k \in DOMAIN d.files \ PartsOf(d, S) : e.files[k] = d.files[k]
  BY <1>1, FinalizeIs
<1>3. RowsIn(<<>>) = {} /\ \A k \in PartsOf(d, S) : k[1] \in Feed
  BY DEF RowsIn, PartsOf, OpenIn, Part
<1>4. ASSUME NEW r, NEW f \in Feed, r \in RowsIn(e.writer[f].rows) PROVE r \in HeldBy(d)
  BY <1>2, <1>3, <1>4, HeldIs
<1>5. ASSUME NEW r, NEW k \in DOMAIN e.files, r \in RowsIn(e.files[k]) PROVE r \in HeldBy(d)
  BY <1>2, <1>3, <1>5, HeldIs
<1> QED
  BY <1>1, <1>4, <1>5, HeldIs

(* Nor does opening a file.                                                *)
LEMMA OpenHolds ==
  ASSUME NEW d, DiskTyped(d), NEW f \in Feed, NEW h \in 1..MaxHour
  PROVE  HeldBy(Open(d, f, h)) \subseteq HeldBy(d)
<1>1. PICK e : e = Open(d, f, h)
  OBVIOUS
<1>2. /\ e.files = d.files /\ e.writer[f].rows = <<>>
      /\ \A g \in Feed \ {f} : e.writer[g] = d.writer[g]
  BY <1>1, OpenIs
<1>3. RowsIn(<<>>) = {}
  BY DEF RowsIn
<1> QED
  BY <1>1, <1>2, <1>3, HeldIs

(* A writer whose file could not be created counts the number as used.     *)
LEMMA ShutIs ==
  ASSUME NEW d, DiskTyped(d), NEW f \in Feed
  PROVE  LET e == [d EXCEPT !.writer[f].open = FALSE]
             w == d.writer[f]
         IN  /\ DiskTyped(e) /\ e.files = d.files /\ HeldBy(e) = HeldBy(d)
             /\ \A g \in Feed \ {f} : e.writer[g] = d.writer[g]
             /\ ~ e.writer[f].open /\ e.writer[f].hour = w.hour
             /\ e.writer[f].next = w.next /\ e.writer[f].rows = w.rows
<1>1. PICK e : e = [d EXCEPT !.writer[f].open = FALSE]
  OBVIOUS
<1>2. PICK w : w = d.writer[f]
  OBVIOUS
<1>3. PICK v : v = [w EXCEPT !.open = FALSE]
  OBVIOUS
<1>4. w \in Writer
  BY <1>2 DEF DiskTyped
<1>5. /\ v \in Writer /\ ~ v.open /\ v.hour = w.hour
      /\ v.next = w.next /\ v.rows = w.rows
  BY <1>3, <1>4 DEF Writer
<1>6. Numbered(v)
  BY <1>5 DEF Numbered
<1>7. e = [d EXCEPT !.writer[f] = v]
  BY <1>1, <1>2, <1>3 DEF DiskTyped
<1>8. /\ DiskTyped(e) /\ e.files = d.files /\ e.writer[f] = v
      /\ \A g \in Feed \ {f} : e.writer[g] = d.writer[g]
  BY <1>5, <1>6, <1>7, WriterChanged
<1>9. HeldBy(e) = HeldBy(d)
  <2>1. \A g \in Feed : e.writer[g].rows = d.writer[g].rows
    BY <1>2, <1>5, <1>8
  <2>2. \A r : r \in HeldBy(e) <=> r \in HeldBy(d)
    BY <1>8, <2>1, HeldIs
  <2> QED
    BY <2>2
<1> QED
  BY <1>1, <1>2, <1>5, <1>8, <1>9

(* Writing a batch brings no rows but its own onto the disk.               *)
LEMMA WriteHolds ==
  ASSUME NEW d, DiskTyped(d), NEW new \in Seq(Row), new # <<>>
  PROVE  /\ DiskTyped(WriteBatch(d, new))
         /\ HeldBy(WriteBatch(d, new)) \subseteq HeldBy(d) \cup RowsIn(new)
<1>1. PICK f \in Feed, h \in 1..MaxHour : f = new[1].feed /\ h = new[1].hour
  <2>1. new[1] \in Row
    OBVIOUS
  <2> QED
    BY <2>1, RowTyped
<1>2. PICK ready : ready = IF NeedsRotation(d.writer[f], h)
                           THEN Open(Finalize(d, {f}), f, h) ELSE d
  OBVIOUS
<1>3. DiskTyped(ready) /\ HeldBy(ready) \subseteq HeldBy(d)
  <2>1. DiskTyped(Finalize(d, {f})) /\ HeldBy(Finalize(d, {f})) \subseteq HeldBy(d)
    BY FinalizeIs, FinalizeHolds
  <2>2. /\ DiskTyped(Open(Finalize(d, {f}), f, h))
        /\ HeldBy(Open(Finalize(d, {f}), f, h)) \subseteq HeldBy(Finalize(d, {f}))
    BY <2>1, OpenIs, OpenHolds
  <2> QED
    BY <1>2, <2>1, <2>2
<1>4. WriteBatch(d, new) = Extended(ready, f, new)
  BY <1>1, <1>2 DEF WriteBatch, Extended
<1>5. DiskTyped(Extended(ready, f, new))
  BY <1>3, AppendedTo
<1>6. HeldBy(Extended(ready, f, new)) = HeldBy(ready) \cup RowsIn(new)
  BY <1>3, AppendedHolds
<1> QED
  BY <1>3, <1>4, <1>5, <1>6

(* The first groups of a flush leave a typed disk with rows of the batch.  *)
LEMMA FlushHolds ==
  ASSUME NEW d, DiskTyped(d), NEW rows \in Seq(Row), NEW n \in 0..Len(rows)
  PROVE  /\ DiskTyped(FlushTo(d, rows, n))
         /\ HeldBy(FlushTo(d, rows, n)) \subseteq HeldBy(d) \cup RowsIn(rows)
<1> DEFINE x(m) == FlushTo(d, rows, m)
           Good(m) == DiskTyped(x(m)) /\ HeldBy(x(m)) \subseteq HeldBy(d) \cup RowsIn(rows)
           T == {m \in Nat : m <= Len(rows) => Good(m)}
<1>1. Len(rows) \in Nat
  OBVIOUS
<1>2. /\ x(0) = d
      /\ \A m \in 1..Len(rows) :
           x(m) = IF m \in Leads(rows) THEN WriteGroup(x(m - 1), rows, GroupOf(rows[m]))
                  ELSE x(m - 1)
  BY <1>1, FlushSteps
<1> HIDE DEF x
<1>3. 0 \in T
  BY <1>2
<1>4. ASSUME NEW m \in Nat, m \in T PROVE m + 1 \in T
  <2> SUFFICES ASSUME m + 1 <= Len(rows) PROVE Good(m + 1)
    OBVIOUS
  <2>1. Good(m) /\ m + 1 \in 1..Len(rows) /\ m + 1 - 1 = m
    BY <1>1, <1>4
  <2>2. CASE m + 1 \in Leads(rows)
    <3>1. PICK s : s = RowsOfGroup(rows, GroupOf(rows[m + 1]))
      OBVIOUS
    <3>2. s \in Seq(Row) /\ s # <<>> /\ RowsIn(s) \subseteq RowsIn(rows)
      BY <2>2, <3>1, LedGroup
    <3>3. x(m + 1) = WriteBatch(x(m), s)
      BY <1>2, <2>1, <2>2, <3>1 DEF WriteGroup
    <3> QED
      BY <2>1, <3>2, <3>3, WriteHolds
  <2>3. CASE m + 1 \notin Leads(rows)
    BY <1>2, <2>1, <2>3
  <2> QED
    BY <2>2, <2>3
<1>5. Nat \subseteq T
  BY <1>3, <1>4, AllNaturals
<1>6. Good(n)
  BY <1>1, <1>5
<1> QED
  BY <1>6 DEF x

(* So does a flush that fails.                                             *)
LEMMA FailHolds ==
  ASSUME NEW d, DiskTyped(d), NEW rows \in Seq(Row), NEW e \in FailedFlushes(d, rows)
  PROVE  DiskTyped(e) /\ HeldBy(e) \subseteq HeldBy(d) \cup RowsIn(rows)
<1>1. PICK n \in Leads(rows) : e \in FailOn(d, rows, n)
  BY DEF FailedFlushes
<1>2. PICK f \in Feed, h \in 1..MaxHour : f = rows[n].feed /\ h = rows[n].hour
  BY LedGroup, RowTyped
<1>3. PICK b : b = FlushTo(d, rows, n - 1)
  OBVIOUS
<1>4. PICK c : c = Finalize(b, {f})
  OBVIOUS
<1>5. PICK o : o = Open(c, f, h)
  OBVIOUS
<1>6. e \in {b, c, o, [o EXCEPT !.writer[f].open = FALSE]}
  BY <1>1, <1>2, <1>3, <1>4, <1>5 DEF FailOn
<1>7. DiskTyped(b) /\ HeldBy(b) \subseteq HeldBy(d) \cup RowsIn(rows)
  <2>1. n - 1 \in 0..Len(rows)
    BY LedGroup
  <2> QED
    BY <1>3, <2>1, FlushHolds
<1>8. DiskTyped(c) /\ HeldBy(c) \subseteq HeldBy(b)
  BY <1>4, <1>7, FinalizeIs, FinalizeHolds
<1>9. DiskTyped(o) /\ HeldBy(o) \subseteq HeldBy(c)
  BY <1>5, <1>8, OpenIs, OpenHolds
<1>10. /\ DiskTyped([o EXCEPT !.writer[f].open = FALSE])
       /\ HeldBy([o EXCEPT !.writer[f].open = FALSE]) = HeldBy(o)
  BY <1>9, ShutIs
<1> QED
  BY <1>6, <1>7, <1>8, <1>9, <1>10

(* An open file takes a name no file has.                                  *)
LEMMA PartIsNew ==
  ASSUME NEW d, DiskOK(d), NEW f \in Feed, d.writer[f].open
  PROVE  /\ Part(d, f) \notin DOMAIN d.files
         /\ Part(d, f)[1] = f /\ Part(d, f)[2] = d.writer[f].hour
         /\ Part(d, f)[3] = d.writer[f].next - 1
<1>1. /\ Part(d, f)[1] = f /\ Part(d, f)[2] = d.writer[f].hour
      /\ Part(d, f)[3] = d.writer[f].next - 1
  BY DEF Part
<1>2. WriterOK(d, f) /\ d.writer[f].next \in Nat
  BY WriterTyped DEF DiskOK
<1> QED
  BY <1>1, <1>2 DEF WriterOK

(* Giving open files their names writes over none, and moves no row.       *)
LEMMA FinalizeKeeps ==
  ASSUME NEW d, DiskOK(d), NEW S, S \subseteq Feed
  PROVE  LET e == Finalize(d, S)
         IN  /\ DiskOK(e) /\ Keeps(d, e) /\ HeldBy(e) = HeldBy(d)
             /\ \A f \in Feed : \A h : Reaches(d, f, h) => Reaches(e, f, h)
<1> DEFINE P == PartsOf(d, S)
<1>1. PICK e : e = Finalize(d, S)
  OBVIOUS
<1>2. /\ DiskTyped(e) /\ DiskTyped(d)
      /\ \A f \in S : /\ ~ e.writer[f].open
                      /\ e.writer[f].hour = d.writer[f].hour
                      /\ e.writer[f].next = d.writer[f].next
                      /\ e.writer[f].rows = IF d.writer[f].open THEN <<>> ELSE d.writer[f].rows
      /\ \A f \in Feed \ S : e.writer[f] = d.writer[f]
      /\ DOMAIN e.files = DOMAIN d.files \cup P
      /\ \A k \in P : e.files[k] = d.writer[k[1]].rows
      /\ \A k \in DOMAIN d.files \ P : e.files[k] = d.files[k]
  BY <1>1, FinalizeIs DEF DiskOK
<1>3. /\ \A k \in P : /\ k \notin DOMAIN d.files /\ k[1] \in S /\ d.writer[k[1]].open
                      /\ k[2] = d.writer[k[1]].hour /\ k[3] = d.writer[k[1]].next - 1
      /\ \A f \in S : d.writer[f].open => \E k \in P : k[1] = f
  BY PartIsNew DEF PartsOf, OpenIn
<1> HIDE DEF P
<1>4. Keeps(d, e)
  BY <1>2, <1>3 DEF Keeps
<1>5. \A f \in Feed : e.writer[f].hour = d.writer[f].hour
  BY <1>2
<1>6. ASSUME NEW f \in Feed, NEW h, Reaches(d, f, h) PROVE Reaches(e, f, h)
  BY <1>2, <1>3, <1>5, <1>6 DEF Reaches
<1>7. RowsIn(<<>>) = {}
  BY DEF RowsIn
<1>8. HeldBy(e) = HeldBy(d)
  <2>1. ASSUME NEW r \in HeldBy(e) PROVE r \in HeldBy(d)
    <3>1. ASSUME NEW f \in Feed, r \in RowsIn(e.writer[f].rows) PROVE r \in HeldBy(d)
      BY <1>2, <1>7, <3>1, HeldIs
    <3>2. ASSUME NEW k \in DOMAIN e.files, r \in RowsIn(e.files[k]) PROVE r \in HeldBy(d)
      BY <1>2, <1>3, <3>2, HeldIs
    <3> QED
      BY <2>1, <3>1, <3>2, HeldIs
  <2>2. ASSUME NEW r \in HeldBy(d) PROVE r \in HeldBy(e)
    <3>1. ASSUME NEW f \in Feed, r \in RowsIn(d.writer[f].rows) PROVE r \in HeldBy(e)
      <4>1. CASE f \in S /\ d.writer[f].open
        BY <1>2, <1>3, <3>1, <4>1, HeldIs
      <4>2. CASE ~ (f \in S /\ d.writer[f].open)
        BY <1>2, <3>1, <4>2, HeldIs
      <4> QED
        BY <4>1, <4>2
    <3>2. ASSUME NEW k \in DOMAIN d.files, r \in RowsIn(d.files[k]) PROVE r \in HeldBy(e)
      BY <1>4, <3>2, HeldIs DEF Keeps
    <3> QED
      BY <2>2, <3>1, <3>2, HeldIs
  <2> QED
    BY <2>1, <2>2
<1>9. ASSUME NEW f \in Feed PROVE WriterOK(e, f)
  <2>1. WriterOK(d, f)
    BY DEF DiskOK
  <2>2. CASE f \in S
    <3>1. e.writer[f].rows = <<>>
      BY <1>2, <2>1, <2>2 DEF WriterOK
    <3>2. ASSUME NEW k \in DOMAIN e.files, k[1] = f, k[2] = e.writer[f].hour
          PROVE  k[3] < e.writer[f].next
      <4>1. d.writer[f].next \in Nat /\ e.writer[f].next = d.writer[f].next
            /\ e.writer[f].hour = d.writer[f].hour
        BY <1>2, <2>2, WriterTyped
      <4>2. CASE k \in P
        BY <1>3, <3>2, <4>1, <4>2
      <4>3. CASE k \in DOMAIN d.files
        <5>1. k[3] \in Nat
          BY <1>2, <4>3, FilesTyped
        <5> QED
          BY <2>1, <3>2, <4>1, <4>3, <5>1 DEF WriterOK
      <4> QED
        BY <1>2, <3>2, <4>2, <4>3
    <3> QED
      BY <1>2, <1>7, <2>2, <3>1, <3>2 DEF WriterOK
  <2>3. CASE f \notin S
    <3>1. \A k \in P : k[1] # f
      BY <1>3, <2>3
    <3> QED
      BY <1>2, <2>1, <2>3, <3>1 DEF WriterOK
  <2> QED
    BY <2>2, <2>3
<1>10. ASSUME NEW k \in DOMAIN e.files PROVE FileOK(e, k)
  <2>1. CASE k \in P
    <3>1. WriterOK(d, k[1]) /\ k[1] \in Feed
      BY <1>3, <2>1 DEF DiskOK
    <3> QED
      BY <1>2, <1>3, <2>1, <3>1 DEF WriterOK, FileOK
  <2>2. CASE k \in DOMAIN d.files
    BY <1>4, <2>2 DEF DiskOK, FileOK, Keeps
  <2> QED
    BY <1>2, <2>1, <2>2
<1> QED
  BY <1>1, <1>2, <1>4, <1>6, <1>8, <1>9, <1>10 DEF DiskOK

(* What a disk that has changed for one feed alone keeps of the others.    *)
LEMMA OthersStay ==
  ASSUME NEW d, NEW e, e.files = d.files, NEW f \in Feed,
         \A g \in Feed \ {f} : e.writer[g] = d.writer[g]
  PROVE  /\ Keeps(d, e)
         /\ \A g \in Feed \ {f} : WriterOK(d, g) => WriterOK(e, g)
         /\ \A g \in Feed \ {f} : \A h : Reaches(d, g, h) => Reaches(e, g, h)
         /\ \A k \in DOMAIN d.files : FileOK(d, k) => FileOK(e, k)
BY DEF Keeps, WriterOK, Reaches, FileOK

(* A closed writer opens a file in an hour it reaches.                     *)
LEMMA OpenKeeps ==
  ASSUME NEW d, DiskOK(d), NEW f \in Feed, ~ d.writer[f].open,
         NEW h \in 1..MaxHour, Reaches(d, f, h)
  PROVE  LET e == Open(d, f, h)
         IN  /\ DiskOK(e) /\ e.files = d.files /\ HeldBy(e) = HeldBy(d)
             /\ e.writer[f].open /\ e.writer[f].hour = h /\ e.writer[f].rows = <<>>
             /\ \A g \in Feed \ {f} : e.writer[g] = d.writer[g]
             /\ \A x \in Nat : h <= x => Reaches(e, f, x)
<1>1. PICK e : e = Open(d, f, h)
  OBVIOUS
<1>2. /\ DiskTyped(e) /\ DiskTyped(d) /\ e.files = d.files
      /\ \A g \in Feed \ {f} : e.writer[g] = d.writer[g]
      /\ e.writer[f].open /\ e.writer[f].hour = h /\ e.writer[f].rows = <<>>
      /\ e.writer[f].next = IF h = d.writer[f].hour THEN d.writer[f].next + 1 ELSE 1
  BY <1>1, OpenIs DEF DiskOK
<1>3. /\ WriterOK(d, f) /\ d.writer[f].rows = <<>> /\ RowsIn(<<>>) = {}
      /\ d.writer[f].hour \in Nat /\ d.writer[f].next \in Nat /\ h \in Nat
  BY <1>2, WriterTyped, Bounds DEF DiskOK, WriterOK, RowsIn
<1>4. HeldBy(e) = HeldBy(d)
  <2>1. \A r : \A g \in Feed : r \in RowsIn(e.writer[g].rows) <=> r \in RowsIn(d.writer[g].rows)
    BY <1>2, <1>3
  <2>2. \A r : r \in HeldBy(e) <=> r \in HeldBy(d)
    BY <1>2, <2>1, HeldIs
  <2> QED
    BY <2>2
<1>5. WriterOK(e, f)
  <2>1. ASSUME NEW k \in DOMAIN e.files, k[1] = f, k[2] = h
        PROVE  k[3] < e.writer[f].next - 1
    <3>1. k[3] \in Nat /\ k \in DOMAIN d.files
      BY <1>2, FilesTyped
    <3>2. CASE h = d.writer[f].hour
      BY <1>2, <1>3, <2>1, <3>1, <3>2 DEF WriterOK
    <3>3. CASE h # d.writer[f].hour
      BY <1>3, <2>1, <3>1, <3>3 DEF Reaches
    <3> QED
      BY <3>2, <3>3
  <2> QED
    BY <1>2, <1>3, <2>1 DEF WriterOK
<1>6. ASSUME NEW x \in Nat, h <= x PROVE Reaches(e, f, x)
  <2>1. ASSUME NEW k \in DOMAIN e.files, k[1] = f PROVE k[2] = h \/ k[2] < x
    <3>1. k[2] \in Nat /\ k \in DOMAIN d.files
      BY <1>2, FilesTyped
    <3> QED
      BY <1>3, <1>6, <2>1, <3>1 DEF Reaches
  <2> QED
    BY <1>2, <1>6, <2>1 DEF Reaches
<1>7. DiskOK(e)
  BY <1>2, <1>5, OthersStay DEF DiskOK
<1> QED
  BY <1>1, <1>2, <1>4, <1>6, <1>7

(* The group is written in the hour the writer is at or goes on to.        *)
LEMMA WriteKeeps ==
  ASSUME NEW d, DiskOK(d), NEW new \in Seq(Row), new # <<>>, NEW f \in Feed,
         NEW h \in 1..MaxHour, \A r \in RowsIn(new) : GroupOf(r) = <<f, h>>,
         Reaches(d, f, h)
  PROVE  LET e == WriteBatch(d, new)
         IN  /\ DiskOK(e) /\ Keeps(d, e) /\ HeldBy(e) = HeldBy(d) \cup RowsIn(new)
             /\ \A g \in Feed \ {f} : \A x : Reaches(d, g, x) => Reaches(e, g, x)
             /\ \A x \in Nat : h <= x => Reaches(e, f, x)
<1>1. new[1].feed = f /\ new[1].hour = h
  <2>1. new[1] \in RowsIn(new)
    BY DEF RowsIn
  <2> QED
    BY <2>1 DEF GroupOf
<1>2. PICK ready : ready = IF NeedsRotation(d.writer[f], h) THEN Open(Finalize(d, {f}), f, h) ELSE d
  OBVIOUS
<1>3. PICK e : e = Extended(ready, f, new)
  OBVIOUS
<1>4. WriteBatch(d, new) = e
  BY <1>1, <1>2, <1>3 DEF WriteBatch, Extended
<1>5. /\ DiskOK(ready) /\ Keeps(d, ready) /\ HeldBy(ready) = HeldBy(d)
      /\ ready.writer[f].open /\ ready.writer[f].hour = h
      /\ \A g \in Feed \ {f} : \A x : Reaches(d, g, x) => Reaches(ready, g, x)
      /\ \A x \in Nat : h <= x => Reaches(ready, f, x)
  <2>1. CASE NeedsRotation(d.writer[f], h)
    <3>1. PICK c : c = Finalize(d, {f})
      OBVIOUS
    <3>2. /\ DiskOK(c) /\ Keeps(d, c) /\ HeldBy(c) = HeldBy(d) /\ ~ c.writer[f].open
          /\ \A g \in Feed : \A x : Reaches(d, g, x) => Reaches(c, g, x)
      <4>1. DiskTyped(d) /\ f \in {f} /\ {f} \subseteq Feed
        BY DEF DiskOK
      <4> QED
        BY <3>1, <4>1, FinalizeKeeps, FinalizeIs
    <3>3. ready = Open(c, f, h)
      BY <1>2, <2>1, <3>1
    <3>4. /\ DiskOK(ready) /\ ready.files = c.files /\ HeldBy(ready) = HeldBy(c)
          /\ ready.writer[f].open /\ ready.writer[f].hour = h
          /\ \A g \in Feed \ {f} : ready.writer[g] = c.writer[g]
          /\ \A x \in Nat : h <= x => Reaches(ready, f, x)
      BY <3>2, <3>3, OpenKeeps
    <3> QED
      BY <3>2, <3>4, OthersStay DEF Keeps
  <2>2. CASE ~ NeedsRotation(d.writer[f], h)
    <3>1. ready = d /\ d.writer[f].open /\ d.writer[f].hour = h
      BY <1>2, <2>2 DEF NeedsRotation
    <3>2. ASSUME NEW x \in Nat, h <= x PROVE Reaches(d, f, x)
      <4>1. \A k \in DOMAIN d.files : k[2] \in Nat
        BY FilesTyped DEF DiskOK
      <4> QED
        BY <3>1, <3>2, <4>1, Bounds DEF Reaches
    <3> QED
      BY <3>1, <3>2 DEF Keeps
  <2> QED
    BY <2>1, <2>2
<1>a. DiskTyped(ready)
  BY <1>5 DEF DiskOK
<1>6. /\ DiskTyped(e) /\ e.files = ready.files
      /\ \A g \in Feed \ {f} : e.writer[g] = ready.writer[g]
      /\ e.writer[f].open = ready.writer[f].open /\ e.writer[f].hour = ready.writer[f].hour
      /\ e.writer[f].next = ready.writer[f].next
      /\ e.writer[f].rows = ready.writer[f].rows \o new
  BY ONLY <1>3, <1>a, AppendedTo, f \in Feed, new \in Seq(Row)
<1>7. RowsIn(e.writer[f].rows) = RowsIn(ready.writer[f].rows) \cup RowsIn(new)
  <2>1. ready.writer[f].rows \in Seq(Row)
    BY <1>5, WriterTyped DEF DiskOK
  <2> QED
    BY <1>6, <2>1, JoinedRows
<1>8. HeldBy(e) = HeldBy(d) \cup RowsIn(new)
  BY <1>3, <1>5, <1>a, AppendedHolds
<1>9. WriterOK(e, f)
  <2>1. WriterOK(ready, f) /\ e.writer[f].open
    BY <1>5, <1>6 DEF DiskOK
  <2>2. \A r \in RowsIn(e.writer[f].rows) : GroupOf(r) = <<f, e.writer[f].hour>>
    BY <1>5, <1>6, <1>7, <2>1 DEF WriterOK
  <2> QED
    BY ONLY <1>6, <2>1, <2>2 DEF WriterOK
<1>10. DiskOK(e)
  BY <1>5, <1>6, <1>9, OthersStay DEF DiskOK
<1>11. \A x : Reaches(ready, f, x) => Reaches(e, f, x)
  BY <1>6 DEF Reaches
<1>12. Keeps(d, e)
  BY <1>5, <1>6 DEF Keeps
<1>13. \A g \in Feed \ {f} : \A x : Reaches(d, g, x) => Reaches(e, g, x)
  <2>1. \A g \in Feed \ {f} : \A x : Reaches(ready, g, x) => Reaches(e, g, x)
    BY ONLY <1>6, f \in Feed, OthersStay
  <2> QED
    BY ONLY <1>5, <2>1
<1>14. \A x \in Nat : h <= x => Reaches(e, f, x)
  BY ONLY <1>5, <1>11
<1> QED
  BY ONLY <1>4, <1>8, <1>10, <1>12, <1>13, <1>14

-----------------------------------------------------------------------------
(* Flushes                                                                 *)

Hours(rows) == \A i, j \in DOMAIN rows : i < j => rows[i].hour <= rows[j].hour

Fits(d, rows) ==
  /\ Hours(rows)
  /\ \A r \in RowsIn(rows) : Reaches(d, r.feed, r.hour)

Written(rows, n) == {r \in RowsIn(rows) : \E i \in 1..n : GroupOf(rows[i]) = GroupOf(r)}

(* The rows written grow by one group at each lead and end up all of them. *)
LEMMA RowsWritten ==
  ASSUME NEW rows \in Seq(Row)
  PROVE  /\ Written(rows, 0) = {} /\ Written(rows, Len(rows)) = RowsIn(rows)
         /\ \A n \in 1..Len(rows) :
              /\ n \notin Leads(rows) => Written(rows, n) = Written(rows, n - 1)
              /\ n \in Leads(rows) =>
                   Written(rows, n) =
                     Written(rows, n - 1) \cup RowsIn(RowsOfGroup(rows, GroupOf(rows[n])))
<1>1. Written(rows, 0) = {}
  BY DEF Written
<1>2. Written(rows, Len(rows)) = RowsIn(rows)
  BY DEF Written, RowsIn
<1>3. ASSUME NEW n \in 1..Len(rows)
      PROVE  /\ n \notin Leads(rows) => Written(rows, n) = Written(rows, n - 1)
             /\ n \in Leads(rows) =>
                  Written(rows, n) =
                    Written(rows, n - 1) \cup RowsIn(RowsOfGroup(rows, GroupOf(rows[n])))
  <2>1. \A i : i \in 1..n <=> i \in 1..n - 1 \/ i = n
    OBVIOUS
  <2>2. \A r : r \in Written(rows, n) <=>
              \/ r \in Written(rows, n - 1)
              \/ r \in RowsIn(rows) /\ GroupOf(rows[n]) = GroupOf(r)
    BY <2>1 DEF Written
  <2>3. ASSUME n \notin Leads(rows) PROVE Written(rows, n) = Written(rows, n - 1)
    <3>1. PICK m \in 1..n - 1 : GroupOf(rows[m]) = GroupOf(rows[n])
      BY <2>3 DEF Leads
    <3>2. \A r : r \in Written(rows, n) <=> r \in Written(rows, n - 1)
      BY <2>2, <3>1 DEF Written
    <3> QED
      BY <3>2
  <2>4. ASSUME n \in Leads(rows)
        PROVE  Written(rows, n) =
                 Written(rows, n - 1) \cup RowsIn(RowsOfGroup(rows, GroupOf(rows[n])))
    <3>1. RowsIn(RowsOfGroup(rows, GroupOf(rows[n]))) =
            {r \in RowsIn(rows) : GroupOf(r) = GroupOf(rows[n])}
      BY <2>4, LedGroup
    <3> QED
      BY <2>2, <3>1
  <2> QED
    BY <2>3, <2>4
<1> QED
  BY <1>1, <1>2, <1>3

(* A flush writes over nothing, adds the rows it has come to, and leaves   *)
(* every feed able to go on to the hours that come after its rows.         *)
LEMMA FlushKeeps ==
  ASSUME NEW d, DiskOK(d), NEW rows \in Seq(Row), Fits(d, rows), NEW n \in 0..Len(rows)
  PROVE  LET e == FlushTo(d, rows, n)
         IN  /\ DiskOK(e) /\ Keeps(d, e) /\ HeldBy(e) = HeldBy(d) \cup Written(rows, n)
             /\ \A f \in Feed, x \in Nat :
                  Reaches(d, f, x) /\ (\A i \in 1..n : rows[i].feed = f => rows[i].hour <= x)
                    => Reaches(e, f, x)
<1> DEFINE x(m) == FlushTo(d, rows, m)
           Way(m) == \A f \in Feed, h \in Nat :
                       Reaches(d, f, h) /\ (\A i \in 1..m : rows[i].feed = f => rows[i].hour <= h)
                         => Reaches(x(m), f, h)
           Good(m) == /\ DiskOK(x(m)) /\ Keeps(d, x(m))
                      /\ HeldBy(x(m)) = HeldBy(d) \cup Written(rows, m)
                      /\ Way(m)
           T == {m \in Nat : m <= Len(rows) => Good(m)}
<1>1. Len(rows) \in Nat /\ DOMAIN rows = 1..Len(rows)
  OBVIOUS
<1>2. /\ x(0) = d
      /\ \A m \in 1..Len(rows) :
           x(m) = IF m \in Leads(rows) THEN WriteGroup(x(m - 1), rows, GroupOf(rows[m]))
                  ELSE x(m - 1)
  BY <1>1, FlushSteps
<1> HIDE DEF x
<1>3. 0 \in T
  <2>1. Keeps(d, d)
    BY DEF Keeps
  <2> QED
    BY <1>2, <2>1, RowsWritten
<1>4. ASSUME NEW m \in Nat, m \in T PROVE m + 1 \in T
  <2> SUFFICES ASSUME m + 1 <= Len(rows) PROVE Good(m + 1)
    OBVIOUS
  <2>1. Good(m) /\ m + 1 \in 1..Len(rows) /\ m + 1 - 1 = m
    BY <1>1, <1>4
  <2>2. \A i : i \in 1..m => i \in 1..m + 1
    OBVIOUS
  <2>3. CASE m + 1 \in Leads(rows)
    <3>1. PICK s : s = RowsOfGroup(rows, GroupOf(rows[m + 1]))
      OBVIOUS
    <3>2. PICK f \in Feed, h \in 1..MaxHour : f = rows[m + 1].feed /\ h = rows[m + 1].hour
      BY <2>3, LedGroup, RowTyped
    <3>3. s \in Seq(Row) /\ s # <<>> /\ \A r \in RowsIn(s) : GroupOf(r) = <<f, h>>
      BY <2>3, <3>1, <3>2, LedGroup DEF GroupOf
    <3>4. x(m + 1) = WriteBatch(x(m), s)
      BY <1>2, <2>1, <2>3, <3>1 DEF WriteGroup
    <3>5. h \in Nat
      BY Bounds
    <3>6. Reaches(x(m), f, h)
      <4>1. Reaches(d, f, h)
        BY <2>3, <3>2, LedGroup DEF Fits
      <4>2. \A i \in 1..m : rows[i].hour <= h
        <5>1. ASSUME NEW i \in 1..m PROVE i \in DOMAIN rows /\ m + 1 \in DOMAIN rows /\ i < m + 1
          BY <1>1, <2>1
        <5> QED
          BY <3>2, <5>1 DEF Fits, Hours
      <4> QED
        BY <2>1, <3>5, <4>1, <4>2
    <3>7. /\ DiskOK(x(m + 1)) /\ Keeps(x(m), x(m + 1))
          /\ HeldBy(x(m + 1)) = HeldBy(x(m)) \cup RowsIn(s)
          /\ \A g \in Feed \ {f} : \A y : Reaches(x(m), g, y) => Reaches(x(m + 1), g, y)
          /\ \A y \in Nat : h <= y => Reaches(x(m + 1), f, y)
      BY <2>1, <3>3, <3>4, <3>6, WriteKeeps
    <3>8. Keeps(d, x(m + 1))
      BY <2>1, <3>7 DEF Keeps
    <3>9. HeldBy(x(m + 1)) = HeldBy(d) \cup Written(rows, m + 1)
      <4>1. Written(rows, m + 1) = Written(rows, m) \cup RowsIn(s)
        BY <2>1, <2>3, <3>1, RowsWritten
      <4> QED
        BY <2>1, <3>7, <4>1
    <3>10. Way(m + 1)
      <4> SUFFICES ASSUME NEW g \in Feed, NEW y \in Nat, Reaches(d, g, y),
                          \A i \in 1..m + 1 : rows[i].feed = g => rows[i].hour <= y
                   PROVE  Reaches(x(m + 1), g, y)
        OBVIOUS
      <4>1. CASE g = f
        <5>1. h <= y
          BY <3>2, <4>1
        <5> QED
          BY <3>7, <4>1, <5>1
      <4>2. CASE g # f
        BY <2>1, <2>2, <3>7, <4>2
      <4> QED
        BY <4>1, <4>2
    <3> QED
      BY <3>7, <3>8, <3>9, <3>10
  <2>4. CASE m + 1 \notin Leads(rows)
    <3>1. x(m + 1) = x(m) /\ Written(rows, m + 1) = Written(rows, m)
      BY <1>2, <2>1, <2>4, RowsWritten
    <3>2. Way(m + 1)
      BY <2>1, <2>2, <3>1
    <3> QED
      BY <2>1, <3>1, <3>2
  <2> QED
    BY <2>3, <2>4
<1>5. Nat \subseteq T
  BY <1>3, <1>4, AllNaturals
<1>6. Good(n)
  BY <1>1, <1>5
<1> QED
  BY <1>6 DEF x

(* A file is opened, or fails to be.                                       *)
LEMMA ShutKeeps ==
  ASSUME NEW d, DiskOK(d), NEW f \in Feed, d.writer[f].open, d.writer[f].rows = <<>>
  PROVE  LET e == [d EXCEPT !.writer[f].open = FALSE]
         IN  /\ DiskOK(e) /\ Keeps(d, e) /\ HeldBy(e) = HeldBy(d)
             /\ \A g \in Feed : \A x : Reaches(d, g, x) => Reaches(e, g, x)
<1>1. PICK e : e = [d EXCEPT !.writer[f].open = FALSE]
  OBVIOUS
<1>2. /\ DiskTyped(e) /\ e.files = d.files /\ HeldBy(e) = HeldBy(d)
      /\ \A g \in Feed \ {f} : e.writer[g] = d.writer[g]
      /\ ~ e.writer[f].open /\ e.writer[f].hour = d.writer[f].hour
      /\ e.writer[f].next = d.writer[f].next /\ e.writer[f].rows = <<>>
  BY <1>1, ShutIs DEF DiskOK
<1>3. WriterOK(e, f)
  <2>1. ASSUME NEW k \in DOMAIN e.files, k[1] = f, k[2] = e.writer[f].hour
        PROVE  k[3] < e.writer[f].next
    <3>1. k[3] \in Nat /\ d.writer[f].next \in Nat
      BY <1>2, FilesTyped, WriterTyped DEF DiskOK
    <3>2. k[3] < d.writer[f].next - 1
      BY <1>2, <2>1 DEF DiskOK, WriterOK
    <3> QED
      BY <1>2, <3>1, <3>2
  <2>2. RowsIn(<<>>) = {}
    BY DEF RowsIn
  <2> QED
    BY <1>2, <2>1, <2>2 DEF WriterOK
<1>4. DiskOK(e)
  BY <1>2, <1>3, OthersStay DEF DiskOK
<1>5. \A x : Reaches(d, f, x) => Reaches(e, f, x)
  BY <1>2 DEF Reaches
<1>6. Keeps(d, e) /\ \A g \in Feed \ {f} : \A x : Reaches(d, g, x) => Reaches(e, g, x)
  BY ONLY <1>2, f \in Feed, OthersStay
<1> QED
  BY <1>1, <1>2, <1>4, <1>5, <1>6

(* Final files that are kept by each of two steps are kept by both.        *)
LEMMA KeepsOn ==
  ASSUME NEW d, NEW b, NEW c, Keeps(d, b), Keeps(b, c)
  PROVE  Keeps(d, c)
BY DEF Keeps

(* So does a flush that fails, with a part of the batch.                   *)
LEMMA FailKeeps ==
  ASSUME NEW d, DiskOK(d), NEW rows \in Seq(Row), Fits(d, rows),
         NEW e \in FailedFlushes(d, rows)
  PROVE  /\ DiskOK(e) /\ Keeps(d, e)
         /\ \E n \in 0..Len(rows) : HeldBy(e) = HeldBy(d) \cup Written(rows, n)
         /\ \A f \in Feed, x \in Nat :
              Reaches(d, f, x) /\ (\A r \in RowsIn(rows) : r.feed = f => r.hour <= x)
                => Reaches(e, f, x)
<1>1. PICK n \in Leads(rows) : e \in FailOn(d, rows, n)
  BY DEF FailedFlushes
<1>2. PICK f \in Feed, h \in 1..MaxHour : f = rows[n].feed /\ h = rows[n].hour
  BY LedGroup, RowTyped
<1>3. PICK b : b = FlushTo(d, rows, n - 1)
  OBVIOUS
<1>4. PICK c : c = Finalize(b, {f})
  OBVIOUS
<1>5. PICK o : o = Open(c, f, h)
  OBVIOUS
<1>6. e \in {b, c, o, [o EXCEPT !.writer[f].open = FALSE]}
  BY <1>1, <1>2, <1>3, <1>4, <1>5 DEF FailOn
<1>7. /\ n \in 1..Len(rows) /\ n - 1 \in 0..Len(rows) /\ DOMAIN rows = 1..Len(rows)
      /\ Len(rows) \in Nat /\ h \in Nat /\ rows[n] \in RowsIn(rows)
  BY LedGroup, Bounds
<1>8. /\ DiskOK(b) /\ Keeps(d, b) /\ HeldBy(b) = HeldBy(d) \cup Written(rows, n - 1)
      /\ \A g \in Feed, x \in Nat :
           Reaches(d, g, x) /\ (\A i \in 1..n - 1 : rows[i].feed = g => rows[i].hour <= x)
             => Reaches(b, g, x)
  BY <1>3, <1>7, FlushKeeps
<1>9. ASSUME NEW g \in Feed, NEW x \in Nat, Reaches(d, g, x),
             \A r \in RowsIn(rows) : r.feed = g => r.hour <= x
      PROVE  Reaches(b, g, x)
  <2>1. \A i \in 1..n - 1 : rows[i] \in RowsIn(rows)
    BY <1>7 DEF RowsIn
  <2> QED
    BY <1>8, <1>9, <2>1
<1>10. Reaches(b, f, h)
  <2>1. Reaches(d, f, h)
    BY <1>2, <1>7 DEF Fits
  <2>2. \A i \in 1..n - 1 : rows[i].hour <= h
    <3>1. \A i \in 1..n - 1 : i \in DOMAIN rows /\ n \in DOMAIN rows /\ i < n
      BY <1>7
    <3> QED
      BY <1>2, <3>1 DEF Fits, Hours
  <2> QED
    BY <1>7, <1>8, <2>1, <2>2
<1>11. /\ DiskOK(c) /\ Keeps(b, c) /\ HeldBy(c) = HeldBy(b) /\ ~ c.writer[f].open
       /\ \A g \in Feed : \A x : Reaches(b, g, x) => Reaches(c, g, x)
  <2>1. DiskTyped(b) /\ f \in {f} /\ {f} \subseteq Feed
    BY <1>8 DEF DiskOK
  <2> QED
    BY <1>4, <1>8, <2>1, FinalizeKeeps, FinalizeIs
<1>12. /\ DiskOK(o) /\ Keeps(c, o) /\ HeldBy(o) = HeldBy(c)
       /\ o.writer[f].open /\ o.writer[f].rows = <<>>
       /\ \A g \in Feed \ {f} : \A x : Reaches(c, g, x) => Reaches(o, g, x)
       /\ \A x \in Nat : h <= x => Reaches(o, f, x)
  <2>1. Reaches(c, f, h)
    BY <1>10, <1>11
  <2>2. /\ DiskOK(o) /\ o.files = c.files /\ HeldBy(o) = HeldBy(c)
        /\ o.writer[f].open /\ o.writer[f].hour = h /\ o.writer[f].rows = <<>>
        /\ \A g \in Feed \ {f} : o.writer[g] = c.writer[g]
        /\ \A x \in Nat : h <= x => Reaches(o, f, x)
    BY <1>5, <1>11, <2>1, OpenKeeps
  <2> QED
    BY <2>2, OthersStay
<1>13. PICK z : z = [o EXCEPT !.writer[f].open = FALSE]
  OBVIOUS
<1>14. /\ DiskOK(z) /\ Keeps(o, z) /\ HeldBy(z) = HeldBy(o)
       /\ \A g \in Feed : \A x : Reaches(o, g, x) => Reaches(z, g, x)
  BY <1>12, <1>13, ShutKeeps
<1>15. ASSUME NEW g \in Feed, NEW x \in Nat, Reaches(b, g, x), g = f => h <= x
       PROVE  Reaches(c, g, x) /\ Reaches(o, g, x) /\ Reaches(z, g, x)
  BY <1>11, <1>12, <1>14, <1>15
<1>16. ASSUME NEW g \in Feed, NEW x \in Nat, Reaches(d, g, x),
              \A r \in RowsIn(rows) : r.feed = g => r.hour <= x
       PROVE  Reaches(e, g, x)
  <2>1. g = f => h <= x
    BY <1>2, <1>7, <1>16
  <2>2. Reaches(b, g, x)
    BY <1>9, <1>16
  <2> QED
    BY <1>6, <1>13, <1>15, <2>1, <2>2
<1>17. Keeps(d, e)
  <2>1. Keeps(d, c)
    BY ONLY <1>8, <1>11, KeepsOn
  <2>2. Keeps(d, o)
    BY ONLY <1>12, <2>1, KeepsOn
  <2>3. Keeps(d, z)
    BY ONLY <1>14, <2>2, KeepsOn
  <2> QED
    BY ONLY <1>6, <1>8, <1>13, <2>1, <2>2, <2>3
<1>18. DiskOK(e) /\ HeldBy(e) = HeldBy(d) \cup Written(rows, n - 1)
  BY ONLY <1>6, <1>8, <1>11, <1>12, <1>13, <1>14
<1> QED
  BY <1>7, <1>16, <1>17, <1>18

-----------------------------------------------------------------------------
(* First come, first saved                                                 *)

(* Of every feed, X has the oldest rows of Y.                              *)
Oldest(X, Y) == \A r \in X, s \in Y \ X : r.feed = s.feed => r.id < s.id

(* It goes on being so as the groups of a batch are added.                 *)
LEMMA HeldFirst ==
  ASSUME NEW X, NEW Y, Oldest(X, Y), NEW rows \in Seq(Row), Hours(rows), Ascending(rows),
         \A r \in RowsIn(rows), s \in Y \ (X \cup RowsIn(rows)) : r.feed = s.feed => r.id < s.id,
         NEW n \in 0..Len(rows)
  PROVE  Oldest(X \cup Written(rows, n), Y)
<1> SUFFICES ASSUME NEW r \in X \cup Written(rows, n),
                    NEW s \in Y \ (X \cup Written(rows, n)), r.feed = s.feed
             PROVE  r.id < s.id
  BY DEF Oldest
<1>1. CASE r \in X
  BY <1>1 DEF Oldest
<1>2. CASE r \in Written(rows, n) /\ s \notin RowsIn(rows)
  BY <1>2 DEF Written
<1>3. CASE r \in Written(rows, n) /\ s \in RowsIn(rows)
  <2>1. DOMAIN rows = 1..Len(rows) /\ Len(rows) \in Nat
        /\ \A i \in 1..Len(rows) : rows[i].hour \in Nat
    BY RowTyped
  <2>2. PICK i \in 1..Len(rows), j \in 1..Len(rows) : r = rows[i] /\ s = rows[j]
    BY <1>3, <2>1 DEF RowsIn, Written
  <2>3. PICK m \in 1..n : GroupOf(rows[m]) = GroupOf(r)
    BY <1>3 DEF Written
  <2>4. m \in 1..Len(rows) /\ \A k \in 1..n : GroupOf(rows[k]) # GroupOf(s)
    BY <1>3, <2>1 DEF Written
  <2>5. m < j
    BY <2>2, <2>4
  <2>6. rows[m].hour = rows[i].hour /\ rows[m].feed = rows[i].feed
    BY <2>2, <2>3 DEF GroupOf
  <2>7. rows[m].hour # rows[j].hour
    BY <2>2, <2>3, <2>4, <2>6 DEF GroupOf
  <2>8. rows[m].hour <= rows[j].hour
    BY <2>1, <2>4, <2>5 DEF Hours
  <2>9. rows[i].hour < rows[j].hour
    BY <2>1, <2>4, <2>6, <2>7, <2>8
  <2>10. i < j
    <3>1. CASE j < i
      BY <2>1, <2>9, <3>1 DEF Hours
    <3>2. CASE i = j
      BY <2>1, <2>9, <3>2
    <3> QED
      BY <3>1, <3>2
  <2> QED
    BY <2>1, <2>2, <2>10 DEF Ascending
<1> QED
  BY <1>1, <1>2, <1>3

(* The rows of the final files depend on the files alone.                  *)
LEMMA DoneIs ==
  ASSUME NEW d
  PROVE  /\ \A r : r \in RowsDone(d) <=> \E k \in DOMAIN d.files : r \in RowsIn(d.files[k])
         /\ RowsDone(d) \subseteq HeldBy(d)
         /\ \A e : e.files = d.files => RowsDone(e) = RowsDone(d)
BY DEF RowsDone, HeldBy

(* What finalizing saves of a feed is older than what it leaves.           *)
LEMMA FinalizeDone ==
  ASSUME NEW d, DiskOK(d), NEW S, S \subseteq Feed, NEW Y,
         Oldest(HeldBy(d), Y), Oldest(RowsDone(d), Y)
  PROVE  Oldest(RowsDone(Finalize(d, S)), Y)
<1>1. PICK e : e = Finalize(d, S)
  OBVIOUS
<1>2. /\ DOMAIN e.files = DOMAIN d.files \cup PartsOf(d, S)
      /\ \A k \in PartsOf(d, S) : e.files[k] = d.writer[k[1]].rows
  BY <1>1, FinalizeIs DEF DiskOK
<1>3. Keeps(d, e)
  BY <1>1, FinalizeKeeps
<1>4. \A k \in PartsOf(d, S) : k[1] \in Feed
  BY DEF PartsOf, OpenIn, Part
<1> SUFFICES ASSUME NEW r \in RowsDone(e), NEW s \in Y \ RowsDone(e), r.feed = s.feed
             PROVE  r.id < s.id
  BY <1>1 DEF Oldest
<1>5. s \notin RowsDone(d)
  BY <1>3, DoneIs DEF Keeps
<1>6. CASE r \in RowsDone(d)
  BY <1>5, <1>6 DEF Oldest
<1>7. CASE r \notin RowsDone(d)
  <2>1. PICK k \in DOMAIN e.files : r \in RowsIn(e.files[k])
    BY DoneIs
  <2>2. k \in PartsOf(d, S)
    BY <1>2, <1>3, <1>7, <2>1, DoneIs DEF Keeps
  <2>3. PICK f \in Feed : f = k[1]
    BY <1>4, <2>2
  <2>4. e.files[k] = d.writer[f].rows
    BY <1>2, <2>2, <2>3
  <2>5. r \in HeldBy(d) /\ r.feed = f
    <3>1. r \in RowsIn(d.writer[f].rows)
      BY <2>1, <2>4
    <3>2. GroupOf(r) = <<f, d.writer[f].hour>>
      BY <3>1 DEF DiskOK, WriterOK
    <3> QED
      BY <3>1, <3>2, HeldIs DEF GroupOf
  <2>6. s \notin HeldBy(d)
    <3> SUFFICES ASSUME s \in HeldBy(d) PROVE FALSE
      OBVIOUS
    <3>1. PICK g \in Feed : s \in RowsIn(d.writer[g].rows)
      BY <1>5, HeldIs, DoneIs
    <3>2. GroupOf(s) = <<g, d.writer[g].hour>>
      BY <3>1 DEF DiskOK, WriterOK
    <3>3. g = f
      BY <2>5, <3>2 DEF GroupOf
    <3> QED
      BY <2>1, <2>4, <3>1, <3>3, DoneIs
  <2> QED
    BY <2>5, <2>6 DEF Oldest
<1> QED
  BY <1>6, <1>7

(* So it is with writing one group of a batch.                             *)
LEMMA WriteDone ==
  ASSUME NEW d, DiskOK(d), NEW new \in Seq(Row), new # <<>>, NEW Y,
         Oldest(HeldBy(d), Y), Oldest(RowsDone(d), Y)
  PROVE  Oldest(RowsDone(WriteBatch(d, new)), Y)
<1>1. PICK f \in Feed, h \in 1..MaxHour : f = new[1].feed /\ h = new[1].hour
  <2>1. new[1] \in Row
    OBVIOUS
  <2> QED
    BY <2>1, RowTyped
<1>2. PICK c : c = Finalize(d, {f})
  OBVIOUS
<1>3. PICK o : o = Open(c, f, h)
  OBVIOUS
<1>4. DiskTyped(d) /\ DiskTyped(c) /\ DiskTyped(o) /\ o.files = c.files
  <2>1. DiskTyped(d) /\ DiskTyped(c)
    BY <1>2, FinalizeIs DEF DiskOK
  <2> QED
    BY <1>3, <2>1, OpenIs
<1>5. Oldest(RowsDone(c), Y)
  BY <1>2, FinalizeDone
<1>6. PICK ready : ready = IF NeedsRotation(d.writer[f], h) THEN o ELSE d
  OBVIOUS
<1>7. DiskTyped(ready) /\ (ready.files = d.files \/ ready.files = c.files)
  BY <1>4, <1>6
<1>8. PICK e : e = Extended(ready, f, new)
  OBVIOUS
<1>9. WriteBatch(d, new) = e
  BY <1>1, <1>2, <1>3, <1>6, <1>8 DEF WriteBatch, Extended
<1>10. e.files = ready.files
  BY <1>7, <1>8, AppendedTo
<1>11. RowsDone(e) = RowsDone(d) \/ RowsDone(e) = RowsDone(c)
  BY <1>7, <1>10, DoneIs
<1> QED
  BY <1>5, <1>9, <1>11

(* So it is with the groups of a flush, one after the other.               *)
LEMMA FlushDone ==
  ASSUME NEW d, DiskOK(d), NEW rows \in Seq(Row), Fits(d, rows), Ascending(rows),
         NEW Y, Oldest(HeldBy(d), Y), Oldest(RowsDone(d), Y),
         \A r \in RowsIn(rows), s \in Y \ (HeldBy(d) \cup RowsIn(rows)) :
           r.feed = s.feed => r.id < s.id,
         NEW n \in 0..Len(rows)
  PROVE  LET e == FlushTo(d, rows, n)
         IN  Oldest(HeldBy(e), Y) /\ Oldest(RowsDone(e), Y)
<1> DEFINE x(m) == FlushTo(d, rows, m)
           Good(m) == Oldest(RowsDone(x(m)), Y)
           T == {m \in Nat : m <= Len(rows) => Good(m)}
<1>1. Len(rows) \in Nat
  OBVIOUS
<1>2. /\ x(0) = d
      /\ \A m \in 1..Len(rows) :
           x(m) = IF m \in Leads(rows) THEN WriteGroup(x(m - 1), rows, GroupOf(rows[m]))
                  ELSE x(m - 1)
  BY <1>1, FlushSteps
<1>3. \A m \in 0..Len(rows) : DiskOK(x(m)) /\ Oldest(HeldBy(x(m)), Y)
  <2> SUFFICES ASSUME NEW m \in 0..Len(rows)
               PROVE  DiskOK(x(m)) /\ Oldest(HeldBy(x(m)), Y)
    OBVIOUS
  <2>1. DiskOK(x(m)) /\ HeldBy(x(m)) = HeldBy(d) \cup Written(rows, m)
    BY FlushKeeps
  <2>2. Oldest(HeldBy(d) \cup Written(rows, m), Y)
    BY HeldFirst DEF Fits
  <2> QED
    BY <2>1, <2>2
<1> HIDE DEF x
<1>4. 0 \in T
  BY <1>2
<1>5. ASSUME NEW m \in Nat, m \in T PROVE m + 1 \in T
  <2> SUFFICES ASSUME m + 1 <= Len(rows) PROVE Good(m + 1)
    OBVIOUS
  <2>1. Good(m) /\ m + 1 \in 1..Len(rows) /\ m + 1 - 1 = m /\ m \in 0..Len(rows)
    BY <1>1, <1>5
  <2>2. CASE m + 1 \in Leads(rows)
    <3>1. PICK s : s = RowsOfGroup(rows, GroupOf(rows[m + 1]))
      OBVIOUS
    <3>2. s \in Seq(Row) /\ s # <<>>
      BY <2>2, <3>1, LedGroup
    <3>3. x(m + 1) = WriteBatch(x(m), s)
      BY <1>2, <2>1, <2>2, <3>1 DEF WriteGroup
    <3> QED
      BY <1>3, <2>1, <3>2, <3>3, WriteDone
  <2>3. CASE m + 1 \notin Leads(rows)
    BY <1>2, <2>1, <2>3
  <2> QED
    BY <2>2, <2>3
<1>6. Nat \subseteq T
  BY <1>4, <1>5, AllNaturals
<1>7. Good(n)
  BY <1>1, <1>6
<1> QED
  BY <1>3, <1>7 DEF x

(* And with a flush that fails, wherever it does.                          *)
LEMMA FailDone ==
  ASSUME NEW d, DiskOK(d), NEW rows \in Seq(Row), Fits(d, rows), Ascending(rows),
         NEW Y, Oldest(HeldBy(d), Y), Oldest(RowsDone(d), Y),
         \A r \in RowsIn(rows), s \in Y \ (HeldBy(d) \cup RowsIn(rows)) :
           r.feed = s.feed => r.id < s.id,
         NEW e \in FailedFlushes(d, rows)
  PROVE  Oldest(HeldBy(e), Y) /\ Oldest(RowsDone(e), Y)
<1>1. PICK n \in Leads(rows) : e \in FailOn(d, rows, n)
  BY DEF FailedFlushes
<1>2. PICK f \in Feed, h \in 1..MaxHour : f = rows[n].feed /\ h = rows[n].hour
  BY LedGroup, RowTyped
<1>3. PICK b : b = FlushTo(d, rows, n - 1)
  OBVIOUS
<1>4. PICK c : c = Finalize(b, {f})
  OBVIOUS
<1>5. PICK o : o = Open(c, f, h)
  OBVIOUS
<1>6. e \in {b, c, o, [o EXCEPT !.writer[f].open = FALSE]}
  BY <1>1, <1>2, <1>3, <1>4, <1>5 DEF FailOn
<1>7. n - 1 \in 0..Len(rows)
  BY LedGroup
<1>8. DiskOK(b) /\ Oldest(HeldBy(b), Y) /\ Oldest(RowsDone(b), Y)
  BY <1>3, <1>7, FlushKeeps, FlushDone
<1>9. Oldest(RowsDone(c), Y)
  BY <1>4, <1>8, FinalizeDone
<1>10. DiskTyped(c) /\ DiskTyped(o) /\ o.files = c.files
  <2>1. DiskTyped(c)
    BY <1>4, <1>8, FinalizeIs DEF DiskOK
  <2> QED
    BY <1>5, <2>1, OpenIs
<1>11. [o EXCEPT !.writer[f].open = FALSE].files = o.files
  BY <1>10, ShutIs
<1>12. e.files = b.files \/ e.files = c.files
  BY <1>6, <1>10, <1>11
<1>13. RowsDone(e) = RowsDone(b) \/ RowsDone(e) = RowsDone(c)
  BY <1>12, DoneIs
<1>14. Oldest(HeldBy(e), Y)
  <2>1. PICK m \in 0..Len(rows) : HeldBy(e) = HeldBy(d) \cup Written(rows, m)
    BY FailKeeps
  <2>2. Oldest(HeldBy(d) \cup Written(rows, m), Y)
    BY HeldFirst DEF Fits
  <2> QED
    BY <2>1, <2>2
<1> QED
  BY <1>8, <1>9, <1>13, <1>14

-----------------------------------------------------------------------------
(* Files in order                                                          *)

(* What is before what is older: every row of X than every one of Y.       *)
Before(X, Y) == \A r \in X, s \in Y : r.id < s.id

(* Files and open files go up, a writer's rows come after those of its     *)
(* feed's files, and of one hour the files come in the order of their      *)
(* numbers.                                                                *)
InOrder(d) ==
  /\ \A f \in Feed : Ascending(d.writer[f].rows)
  /\ \A k \in DOMAIN d.files : Ascending(d.files[k])
  /\ \A k \in DOMAIN d.files : Before(RowsIn(d.files[k]), RowsIn(d.writer[k[1]].rows))
  /\ \A k, l \in DOMAIN d.files :
       k[1] = l[1] /\ k[2] = l[2] /\ k[3] < l[3] => Before(RowsIn(d.files[k]), RowsIn(d.files[l]))

(* Nothing is in order.                                                    *)
LEMMA Nothing ==
  /\ RowsIn(<<>>) = {} /\ Ascending(<<>>)
  /\ \A X : Before(X, {}) /\ Before({}, X)
BY DEF RowsIn, Ascending, Before

(* A row more, and a row less.                                             *)
LEMMA AppendRows ==
  ASSUME NEW s \in Seq(Row), NEW x \in Row
  PROVE  LET t == Append(s, x)
         IN  /\ t \in Seq(Row) /\ Len(t) = Len(s) + 1 /\ RowsIn(t) = RowsIn(s) \cup {x}
             /\ Ascending(s) /\ Before(RowsIn(s), {x}) => Ascending(t)
<1>1. PICK t : t = Append(s, x)
  OBVIOUS
<1>2. /\ t \in Seq(Row) /\ Len(s) \in Nat /\ Len(t) = Len(s) + 1
      /\ DOMAIN s = 1..Len(s) /\ DOMAIN t = 1..Len(s) + 1
      /\ \A i \in 1..Len(s) : t[i] = s[i]
      /\ t[Len(s) + 1] = x
  BY <1>1, Appended
<1>3. \A r : r \in RowsIn(t) <=> r \in RowsIn(s) \/ r = x
  BY <1>2 DEF RowsIn
<1>4. ASSUME Ascending(s), Before(RowsIn(s), {x}) PROVE Ascending(t)
  <2> SUFFICES ASSUME NEW i \in 1..Len(s) + 1, NEW j \in 1..Len(s) + 1, i < j
               PROVE  t[i].id < t[j].id
    BY <1>2 DEF Ascending
  <2>1. CASE j = Len(s) + 1
    <3>1. i \in DOMAIN s /\ s[i] \in RowsIn(s)
      BY <1>2, <2>1 DEF RowsIn
    <3> QED
      BY <1>2, <1>4, <2>1, <3>1 DEF Before
  <2>2. CASE j # Len(s) + 1
    <3>1. i \in 1..Len(s) /\ j \in 1..Len(s)
      BY <1>2, <2>2
    <3> QED
      BY <1>2, <1>4, <3>1 DEF Ascending
  <2> QED
    BY <2>1, <2>2
<1> QED
  BY <1>1, <1>2, <1>3, <1>4

(* The queue without its oldest row.                                       *)
LEMMA TailRows ==
  ASSUME NEW s \in Seq(Row), s # <<>>
  PROVE  LET t == Tail(s)
         IN  /\ t \in Seq(Row) /\ Len(t) = Len(s) - 1 /\ Len(t) <= Len(s) /\ s[1] \in Row
             /\ RowsIn(s) = RowsIn(t) \cup {s[1]}
             /\ Ascending(s) => Ascending(t) /\ Before({s[1]}, RowsIn(t))
<1>1. PICK t, x : t = Tail(s) /\ x = s[1]
  OBVIOUS
<1>2. /\ t \in Seq(Row) /\ x \in Row /\ Len(s) \in Nat \ {0} /\ Len(t) = Len(s) - 1
      /\ DOMAIN s = 1..Len(s) /\ DOMAIN t = 1..Len(s) - 1
      /\ \A i \in 1..Len(s) - 1 : t[i] = s[i + 1]
  BY <1>1, WithoutFirst
<1>3. \A i \in 1..Len(s) - 1 : i + 1 \in 1..Len(s)
  BY <1>2
<1>4. ASSUME NEW r \in RowsIn(s) PROVE r \in RowsIn(t) \/ r = x
  <2>1. PICK i \in 1..Len(s) : r = s[i]
    BY <1>2, <1>4 DEF RowsIn
  <2>2. CASE i # 1
    <3>1. i - 1 \in 1..Len(s) - 1 /\ i - 1 + 1 = i
      BY <1>2, <2>2
    <3>2. t[i - 1] = s[i]
      BY <1>2, <3>1
    <3> QED
      BY <1>2, <2>1, <3>1, <3>2 DEF RowsIn
  <2> QED
    BY <1>1, <2>1, <2>2
<1>5. ASSUME NEW r, r \in RowsIn(t) \/ r = x PROVE r \in RowsIn(s)
  <2>1. 1 \in DOMAIN s
    BY <1>2
  <2> QED
    BY <1>1, <1>2, <1>3, <1>5, <2>1 DEF RowsIn
<1>6. ASSUME Ascending(s) PROVE Ascending(t) /\ Before({x}, RowsIn(t))
  <2>1. ASSUME NEW i \in 1..Len(s) - 1, NEW j \in 1..Len(s) - 1, i < j
        PROVE  t[i].id < t[j].id
    <3>1. i + 1 \in DOMAIN s /\ j + 1 \in DOMAIN s /\ i + 1 < j + 1
      BY <1>2, <2>1
    <3>2. s[i + 1].id < s[j + 1].id
      BY <1>6, <3>1 DEF Ascending
    <3> QED
      BY <1>2, <3>2
  <2>2. ASSUME NEW i \in 1..Len(s) - 1 PROVE x.id < t[i].id
    <3>1. 1 \in DOMAIN s /\ i + 1 \in DOMAIN s /\ 1 < i + 1
      BY <1>2
    <3>2. s[1].id < s[i + 1].id
      BY <1>6, <3>1 DEF Ascending
    <3> QED
      BY <1>1, <1>2, <3>2
  <2> QED
    BY <1>2, <2>1, <2>2 DEF Ascending, Before, RowsIn
<1>7. Len(t) <= Len(s)
  BY <1>2
<1> QED
  BY <1>1, <1>2, <1>4, <1>5, <1>6, <1>7

(* Finalizing keeps a disk in order: the new file is the last of its hour. *)
LEMMA FinalizeOrder ==
  ASSUME NEW d, DiskOK(d), InOrder(d), NEW S, S \subseteq Feed
  PROVE  InOrder(Finalize(d, S))
<1> DEFINE P == PartsOf(d, S)
<1>1. PICK e : e = Finalize(d, S)
  OBVIOUS
<1>2. /\ DiskTyped(d)
      /\ \A f \in S : e.writer[f].rows = IF d.writer[f].open THEN <<>> ELSE d.writer[f].rows
      /\ \A f \in Feed \ S : e.writer[f] = d.writer[f]
      /\ DOMAIN e.files = DOMAIN d.files \cup P
      /\ \A k \in P : e.files[k] = d.writer[k[1]].rows
      /\ \A k \in DOMAIN d.files \ P : e.files[k] = d.files[k]
  BY <1>1, FinalizeIs DEF DiskOK
<1>3. \A k \in P : /\ k \notin DOMAIN d.files /\ k[1] \in S /\ d.writer[k[1]].open
                   /\ k[2] = d.writer[k[1]].hour /\ k[3] = d.writer[k[1]].next - 1
                   /\ k = Part(d, k[1])
  BY PartIsNew DEF PartsOf, OpenIn
<1> HIDE DEF P
<1>4. \A k \in DOMAIN d.files : k \in DOMAIN e.files /\ e.files[k] = d.files[k]
  BY <1>2, <1>3
<1>5. \A f \in Feed : e.writer[f].rows = d.writer[f].rows \/ e.writer[f].rows = <<>>
  BY <1>2
<1>6. \A f \in Feed : Ascending(e.writer[f].rows)
  BY <1>5, Nothing DEF InOrder
<1>7. ASSUME NEW k \in DOMAIN e.files PROVE Ascending(e.files[k])
  BY <1>2, <1>3, <1>4 DEF InOrder
<1>8. ASSUME NEW k \in DOMAIN e.files
      PROVE  Before(RowsIn(e.files[k]), RowsIn(e.writer[k[1]].rows))
  <2>1. CASE k \in P
    <3>1. k[1] \in S /\ d.writer[k[1]].open
      BY ONLY <1>3, <2>1
    <3>2. e.writer[k[1]].rows = <<>>
      BY ONLY <1>2, <3>1
    <3> QED
      BY ONLY <3>2, Nothing
  <2>2. CASE k \in DOMAIN d.files
    <3>1. k[1] \in Feed
      BY <1>2, <2>2, FilesTyped
    <3>2. Before(RowsIn(d.files[k]), RowsIn(d.writer[k[1]].rows))
      BY <2>2 DEF InOrder
    <3> QED
      BY <1>4, <1>5, <2>2, <3>1, <3>2, Nothing
  <2> QED
    BY <1>2, <2>1, <2>2
<1>9. ASSUME NEW k \in DOMAIN e.files, NEW l \in DOMAIN e.files,
             k[1] = l[1], k[2] = l[2], k[3] < l[3]
      PROVE  Before(RowsIn(e.files[k]), RowsIn(e.files[l]))
  <2>1. CASE k \in DOMAIN d.files /\ l \in DOMAIN d.files
    BY <1>4, <1>9, <2>1 DEF InOrder
  <2>2. CASE k \in DOMAIN d.files /\ l \in P
    <3>1. Before(RowsIn(d.files[k]), RowsIn(d.writer[k[1]].rows))
      BY <2>2 DEF InOrder
    <3> QED
      BY <1>2, <1>4, <1>9, <2>2, <3>1
  <2>3. CASE k \in P /\ l \in DOMAIN d.files
    <3>1. l[1] \in Feed /\ l[3] \in Nat /\ d.writer[l[1]].next \in Nat
      BY <1>2, <2>3, FilesTyped, WriterTyped
    <3>2. l[3] < d.writer[l[1]].next - 1
      BY <1>3, <1>9, <2>3, <3>1 DEF DiskOK, WriterOK
    <3>3. k[3] = d.writer[l[1]].next - 1
      BY <1>3, <1>9, <2>3
    <3> QED
      BY <1>9, <3>1, <3>2, <3>3
  <2>4. CASE k \in P /\ l \in P
    <3>1. k = l
      BY <1>3, <1>9, <2>4
    <3>2. k[3] \in Int
      <4>1. k[1] \in Feed
        BY <1>3, <2>4
      <4>2. d.writer[k[1]].next \in Nat
        BY <1>2, <4>1, WriterTyped
      <4> QED
        BY <1>3, <2>4, <4>2
    <3> QED
      BY <1>9, <3>1, <3>2
  <2> QED
    BY <1>2, <2>1, <2>2, <2>3, <2>4
<1> QED
  BY <1>1, <1>6, <1>7, <1>8, <1>9 DEF InOrder

(* So does opening a file, which is empty.                                 *)
LEMMA OpenOrder ==
  ASSUME NEW d, DiskTyped(d), InOrder(d), NEW f \in Feed, NEW h \in 1..MaxHour
  PROVE  InOrder(Open(d, f, h))
<1>1. PICK e : e = Open(d, f, h)
  OBVIOUS
<1>2. /\ e.files = d.files /\ e.writer[f].rows = <<>>
      /\ \A g \in Feed \ {f} : e.writer[g] = d.writer[g]
  BY <1>1, OpenIs
<1>3. \A g \in Feed : Ascending(e.writer[g].rows)
  BY <1>2, Nothing DEF InOrder
<1>4. ASSUME NEW k \in DOMAIN e.files
      PROVE  Before(RowsIn(e.files[k]), RowsIn(e.writer[k[1]].rows))
  <2>1. k[1] \in Feed
    BY <1>2, FilesTyped
  <2> QED
    BY <1>2, <2>1, Nothing DEF InOrder
<1>5. /\ \A k \in DOMAIN e.files : Ascending(e.files[k])
      /\ \A k, l \in DOMAIN e.files :
           k[1] = l[1] /\ k[2] = l[2] /\ k[3] < l[3] =>
             Before(RowsIn(e.files[k]), RowsIn(e.files[l]))
  BY <1>2 DEF InOrder
<1> QED
  BY <1>1, <1>3, <1>4, <1>5 DEF InOrder

(* One ascending batch after another is one.                               *)
LEMMA JoinedAscend ==
  ASSUME NEW s \in Seq(Row), NEW t \in Seq(Row), Ascending(s), Ascending(t),
         Before(RowsIn(s), RowsIn(t))
  PROVE  Ascending(s \o t)
<1>1. PICK u : u = s \o t
  OBVIOUS
<1>2. /\ DOMAIN u = 1..Len(s) + Len(t)
      /\ DOMAIN s = 1..Len(s) /\ DOMAIN t = 1..Len(t) /\ Len(s) \in Nat /\ Len(t) \in Nat
      /\ \A i \in 1..Len(s) : u[i] = s[i]
      /\ \A i \in 1..Len(t) : u[Len(s) + i] = t[i]
  BY <1>1, Joined
<1> SUFFICES ASSUME NEW i \in 1..Len(s) + Len(t), NEW j \in 1..Len(s) + Len(t), i < j
             PROVE  u[i].id < u[j].id
  BY <1>1, <1>2 DEF Ascending
<1>3. \A n \in 1..Len(s) + Len(t) : n \notin 1..Len(s) =>
        n - Len(s) \in 1..Len(t) /\ n = Len(s) + (n - Len(s))
  BY <1>2
<1>4. CASE i \in 1..Len(s) /\ j \in 1..Len(s)
  BY <1>2, <1>4 DEF Ascending
<1>5. CASE i \in 1..Len(s) /\ j \notin 1..Len(s)
  <2>1. j - Len(s) \in 1..Len(t) /\ u[j] = t[j - Len(s)]
    BY <1>2, <1>3, <1>5
  <2>2. u[i] \in RowsIn(s) /\ u[j] \in RowsIn(t)
    BY <1>2, <1>5, <2>1 DEF RowsIn
  <2> QED
    BY <2>2 DEF Before
<1>6. CASE i \notin 1..Len(s) /\ j \notin 1..Len(s)
  <2>1. PICK a \in 1..Len(t), b \in 1..Len(t) : i = Len(s) + a /\ j = Len(s) + b
    BY <1>3, <1>6
  <2>2. a < b /\ u[i] = t[a] /\ u[j] = t[b]
    BY <1>2, <2>1
  <2> QED
    BY <1>2, <2>2 DEF Ascending
<1>7. CASE i \notin 1..Len(s) /\ j \in 1..Len(s)
  BY <1>2, <1>7
<1> QED
  BY <1>4, <1>5, <1>6, <1>7

(* So does adding rows younger than those there are of the feed.           *)
LEMMA AppendOrder ==
  ASSUME NEW d, DiskTyped(d), InOrder(d), NEW f \in Feed, NEW new \in Seq(Row), Ascending(new),
         \A r \in RowsIn(d.writer[f].rows), s \in RowsIn(new) : r.id < s.id,
         \A k \in DOMAIN d.files : k[1] = f => Before(RowsIn(d.files[k]), RowsIn(new))
  PROVE  InOrder(Extended(d, f, new))
<1>1. PICK e : e = Extended(d, f, new)
  OBVIOUS
<1>2. /\ e.files = d.files
      /\ \A g \in Feed \ {f} : e.writer[g] = d.writer[g]
      /\ e.writer[f].rows = d.writer[f].rows \o new
  BY <1>1, AppendedTo
<1>3. d.writer[f].rows \in Seq(Row)
  BY WriterTyped
<1>4. Ascending(e.writer[f].rows)
  BY <1>2, <1>3, JoinedAscend DEF InOrder, Before
<1>5. \A g \in Feed : Ascending(e.writer[g].rows)
  BY <1>2, <1>4 DEF InOrder
<1>6. RowsIn(e.writer[f].rows) = RowsIn(d.writer[f].rows) \cup RowsIn(new)
  BY <1>2, <1>3, JoinedRows
<1>7. ASSUME NEW k \in DOMAIN e.files
      PROVE  Before(RowsIn(e.files[k]), RowsIn(e.writer[k[1]].rows))
  <2>1. k[1] \in Feed /\ k \in DOMAIN d.files
    BY <1>2, FilesTyped
  <2>2. Before(RowsIn(d.files[k]), RowsIn(d.writer[k[1]].rows))
    BY <2>1 DEF InOrder
  <2>3. CASE k[1] = f
    BY <1>2, <1>6, <2>1, <2>2, <2>3 DEF Before
  <2>4. CASE k[1] # f
    BY <1>2, <2>1, <2>2, <2>4
  <2> QED
    BY <2>3, <2>4
<1>8. /\ \A k \in DOMAIN e.files : Ascending(e.files[k])
      /\ \A k, l \in DOMAIN e.files :
           k[1] = l[1] /\ k[2] = l[2] /\ k[3] < l[3] =>
             Before(RowsIn(e.files[k]), RowsIn(e.files[l]))
  BY <1>2 DEF InOrder
<1> QED
  BY <1>1, <1>5, <1>7, <1>8 DEF InOrder

(* So does writing a group, with or without a rotation.                    *)
LEMMA WriteOrder ==
  ASSUME NEW d, DiskOK(d), InOrder(d), NEW new \in Seq(Row), new # <<>>, Ascending(new),
         NEW f \in Feed, NEW h \in 1..MaxHour, \A r \in RowsIn(new) : GroupOf(r) = <<f, h>>,
         Reaches(d, f, h),
         \A r \in HeldBy(d), s \in RowsIn(new) : r.feed = s.feed => r.id < s.id
  PROVE  InOrder(WriteBatch(d, new))
<1>1. new[1].feed = f /\ new[1].hour = h
  <2>1. new[1] \in RowsIn(new)
    BY DEF RowsIn
  <2> QED
    BY <2>1 DEF GroupOf
<1>2. PICK c : c = Finalize(d, {f})
  OBVIOUS
<1>3. PICK o : o = Open(c, f, h)
  OBVIOUS
<1>4. PICK ready : ready = IF NeedsRotation(d.writer[f], h) THEN o ELSE d
  OBVIOUS
<1>5. WriteBatch(d, new) = Extended(ready, f, new)
  BY <1>1, <1>2, <1>3, <1>4 DEF WriteBatch, Extended
<1>6. DiskOK(c) /\ HeldBy(c) = HeldBy(d) /\ Reaches(c, f, h) /\ ~ c.writer[f].open /\ InOrder(c)
  <2>1. DiskTyped(d) /\ f \in {f} /\ {f} \subseteq Feed
    BY DEF DiskOK
  <2> QED
    BY <1>2, <2>1, FinalizeKeeps, FinalizeIs, FinalizeOrder
<1>7. DiskOK(o) /\ HeldBy(o) = HeldBy(d) /\ InOrder(o)
  <2>1. DiskTyped(c)
    BY <1>6 DEF DiskOK
  <2> QED
    BY <1>3, <1>6, <2>1, OpenKeeps, OpenOrder
<1>8. DiskOK(ready) /\ HeldBy(ready) = HeldBy(d) /\ InOrder(ready)
  BY <1>4, <1>7
<1>9. \A s \in RowsIn(new) : s.feed = f
  BY DEF GroupOf
<1>10. \A r \in RowsIn(ready.writer[f].rows), s \in RowsIn(new) : r.id < s.id
  <2> SUFFICES ASSUME NEW r \in RowsIn(ready.writer[f].rows), NEW s \in RowsIn(new)
               PROVE  r.id < s.id
    OBVIOUS
  <2>1. GroupOf(r) = <<f, ready.writer[f].hour>>
    BY <1>8 DEF DiskOK, WriterOK
  <2>2. r \in HeldBy(d)
    BY <1>8, HeldIs
  <2> QED
    BY <1>9, <2>1, <2>2 DEF GroupOf
<1>11. ASSUME NEW k \in DOMAIN ready.files, k[1] = f
       PROVE  Before(RowsIn(ready.files[k]), RowsIn(new))
  <2> SUFFICES ASSUME NEW r \in RowsIn(ready.files[k]), NEW s \in RowsIn(new)
               PROVE  r.id < s.id
    BY DEF Before
  <2>1. GroupOf(r) = <<f, k[2]>>
    BY <1>8, <1>11 DEF DiskOK, FileOK
  <2>2. r \in HeldBy(d)
    BY <1>8, HeldIs
  <2> QED
    BY <1>9, <2>1, <2>2 DEF GroupOf
<1>12. DiskTyped(ready)
  BY <1>8 DEF DiskOK
<1> QED
  BY <1>5, <1>8, <1>10, <1>11, <1>12, AppendOrder

(* The groups of a batch whose rows are new.                               *)
LEMMA FlushOrder ==
  ASSUME NEW d, DiskOK(d), InOrder(d), NEW rows \in Seq(Row), Fits(d, rows), Ascending(rows),
         Oldest(HeldBy(d), HeldBy(d) \cup RowsIn(rows)), RowsIn(rows) \cap HeldBy(d) = {},
         NEW n \in 0..Len(rows)
  PROVE  InOrder(FlushTo(d, rows, n))
<1> DEFINE x(m) == FlushTo(d, rows, m)
           Good(m) == InOrder(x(m))
           T == {m \in Nat : m <= Len(rows) => Good(m)}
<1>1. Len(rows) \in Nat /\ DOMAIN rows = 1..Len(rows)
  OBVIOUS
<1>2. /\ x(0) = d
      /\ \A m \in 1..Len(rows) :
           x(m) = IF m \in Leads(rows) THEN WriteGroup(x(m - 1), rows, GroupOf(rows[m]))
                  ELSE x(m - 1)
  BY <1>1, FlushSteps
<1>3. \A m \in 0..Len(rows) :
         /\ DiskOK(x(m)) /\ HeldBy(x(m)) = HeldBy(d) \cup Written(rows, m)
         /\ \A f \in Feed, y \in Nat :
              Reaches(d, f, y) /\ (\A i \in 1..m : rows[i].feed = f => rows[i].hour <= y)
                => Reaches(x(m), f, y)
  BY FlushKeeps
<1> HIDE DEF x
<1>4. 0 \in T
  BY <1>2
<1>5. ASSUME NEW m \in Nat, m \in T PROVE m + 1 \in T
  <2> SUFFICES ASSUME m + 1 <= Len(rows) PROVE Good(m + 1)
    OBVIOUS
  <2>1. Good(m) /\ m + 1 \in 1..Len(rows) /\ m + 1 - 1 = m /\ m \in 0..Len(rows)
    BY <1>1, <1>5
  <2>2. CASE m + 1 \in Leads(rows)
    <3>1. PICK s : s = RowsOfGroup(rows, GroupOf(rows[m + 1]))
      OBVIOUS
    <3>2. PICK f \in Feed, h \in 1..MaxHour : f = rows[m + 1].feed /\ h = rows[m + 1].hour
      BY <2>2, LedGroup, RowTyped
    <3>3. /\ s \in Seq(Row) /\ s # <<>> /\ Ascending(s) /\ RowsIn(s) \subseteq RowsIn(rows)
          /\ \A r \in RowsIn(s) : GroupOf(r) = <<f, h>>
      BY <2>2, <3>1, <3>2, LedGroup DEF GroupOf
    <3>4. x(m + 1) = WriteBatch(x(m), s)
      BY <1>2, <2>1, <2>2, <3>1 DEF WriteGroup
    <3>5. Reaches(x(m), f, h)
      <4>1. Reaches(d, f, h)
        BY <2>2, <3>2, LedGroup DEF Fits
      <4>2. \A i \in 1..m : rows[i].hour <= h
        <5>1. ASSUME NEW i \in 1..m PROVE i \in DOMAIN rows /\ m + 1 \in DOMAIN rows /\ i < m + 1
          BY <1>1, <2>1
        <5> QED
          BY <3>2, <5>1 DEF Fits, Hours
      <4>3. h \in Nat
        BY Bounds
      <4> QED
        BY <1>3, <2>1, <4>1, <4>2, <4>3
    <3>6. Oldest(HeldBy(x(m)), HeldBy(d) \cup RowsIn(rows))
      <4>1. Oldest(HeldBy(d) \cup Written(rows, m), HeldBy(d) \cup RowsIn(rows))
        BY <2>1, HeldFirst DEF Fits
      <4> QED
        BY <1>3, <2>1, <4>1
    <3>7. ASSUME NEW r \in RowsIn(s) PROVE r \notin HeldBy(x(m))
      <4>1. r \notin HeldBy(d)
        BY <3>3
      <4>2. \A i \in 1..m : GroupOf(rows[i]) # GroupOf(rows[m + 1])
        BY <2>1, <2>2 DEF Leads
      <4>3. r \notin Written(rows, m)
        BY <3>2, <3>3, <4>2 DEF Written, GroupOf
      <4> QED
        BY <1>3, <2>1, <4>1, <4>3
    <3>8. \A r \in HeldBy(x(m)), t \in RowsIn(s) : r.feed = t.feed => r.id < t.id
      BY <3>3, <3>6, <3>7 DEF Oldest
    <3> QED
      BY <1>3, <2>1, <3>3, <3>4, <3>5, <3>8, WriteOrder
  <2>3. CASE m + 1 \notin Leads(rows)
    BY <1>2, <2>1, <2>3
  <2> QED
    BY <2>2, <2>3
<1>6. Nat \subseteq T
  BY <1>4, <1>5, AllNaturals
<1>7. Good(n)
  BY <1>1, <1>6
<1> QED
  BY <1>7 DEF x

-----------------------------------------------------------------------------
(* Steps                                                                   *)

Lined == RowsIn(queue) \cup RowsIn(buffer)
All   == Lined \cup HeldBy(Disk)

ClockIInv ==
  /\ hour \in 1..MaxHour /\ put \in 0..MaxRow
  /\ sinceFlush \in 0..FlushInterval /\ sinceProgress \in 0..StallTimeout
  /\ pc \in {"top", "waiting", "taking"} /\ waitFor \in 1..FlushInterval
  /\ sink \in SinkStates /\ ioFailed \in BOOLEAN

(* The consumer flushes a batch before it is too long.                     *)
RoomIInv ==
  /\ Len(buffer) <= BatchSize
  /\ sink = "running" => Len(buffer) < BatchSize

DataIInv ==
  /\ queue \in Seq(Row) /\ Len(queue) <= QueueMax
  /\ buffer \in Seq(Row)
  /\ DiskTyped(Disk)
  /\ \A r \in All : r.id <= put
  /\ (dropped \cup lost) \subseteq 1..put
  /\ sink = "dead" => queue = <<>> /\ buffer = <<>> /\ writer = [f \in Feed |-> NewWriter]

TypeIInv == ClockIInv /\ RoomIInv /\ DataIInv

(* Only the ages of the writers change.                                    *)
Aged(d, e) ==
  /\ DiskTyped(e) /\ e.files = d.files
  /\ \A f \in Feed :
       /\ e.writer[f].open = d.writer[f].open /\ e.writer[f].hour = d.writer[f].hour
       /\ e.writer[f].next = d.writer[f].next /\ e.writer[f].rows = d.writer[f].rows

(* The consumer may take a row, and then keeps its batch, flushes it or    *)
(* fails to.                                                               *)
Took(rows, left) ==
  \/ rows = buffer /\ left = queue
  \/ queue # <<>> /\ rows = Append(buffer, queue[1]) /\ left = Tail(queue)

Kept(rows) == buffer' = rows /\ Aged(Disk, Disk') /\ ioFailed' = ioFailed

Flushed(rows) ==
  /\ buffer' = <<>> /\ (ioFailed => ioFailed')
  /\ \/ Disk' = Flush(Disk, rows)
     \/ \E S \in SUBSET Feed : Disk' = Finalize(Flush(Disk, rows), S)

Failed(rows) ==
  /\ buffer' = rows /\ ioFailed' = TRUE
  /\ MayFail(rows) /\ Disk' \in FailedFlushes(Disk, rows)

Moves ==
  /\ sink # "dead" /\ sink' # "dead"
  /\ hour' = hour /\ put' = put /\ dropped' = dropped /\ lost' = lost
  /\ \E rows, left \in Seq(Row) :
       Took(rows, left) /\ queue' = left /\ (Kept(rows) \/ Flushed(rows) \/ Failed(rows))

(* A typed disk is determined by its writers and its files.                *)
LEMMA SetDiskIs ==
  ASSUME NEW e, DiskTyped(e), SetDisk(e)
  PROVE  Disk' = e
<1>1. e = [writer |-> e.writer, files |-> e.files]
  BY DEF DiskTyped
<1> QED
  BY <1>1 DEF SetDisk, Disk

(* A flush of typed rows on a typed disk; one of no rows does nothing.     *)
LEMMA FlushTyped ==
  ASSUME NEW d, DiskTyped(d), NEW rows \in Seq(Row)
  PROVE  /\ DiskTyped(Flush(d, rows))
         /\ HeldBy(Flush(d, rows)) \subseteq HeldBy(d) \cup RowsIn(rows)
         /\ rows = <<>> => Flush(d, rows) = d
<1>1. Len(rows) \in 0..Len(rows) /\ Len(rows) \in Nat /\ Len(<<>>) = 0
  OBVIOUS
<1> QED
  BY <1>1, FlushHolds, FlushSteps DEF Flush

(* Taking a row from the queue to the batch keeps rows and order.          *)
LEMMA TookIs ==
  ASSUME queue \in Seq(Row), buffer \in Seq(Row), NEW rows, NEW left, Took(rows, left)
  PROVE  /\ rows \in Seq(Row) /\ left \in Seq(Row) /\ Len(left) <= Len(queue)
         /\ RowsIn(rows) \cup RowsIn(left) = Lined
         /\ RowsIn(left) \subseteq RowsIn(queue)
         /\ Ascending(queue) /\ Ascending(buffer) /\ Before(RowsIn(buffer), RowsIn(queue)) =>
              Ascending(left) /\ Ascending(rows) /\ Before(RowsIn(rows), RowsIn(left))
<1>1. CASE rows = buffer /\ left = queue
  BY <1>1 DEF Lined
<1>2. CASE queue # <<>> /\ rows = Append(buffer, queue[1]) /\ left = Tail(queue)
  <2>1. PICK x \in Row : x = queue[1]
    BY <1>2
  <2>2. /\ left \in Seq(Row) /\ Len(left) <= Len(queue)
        /\ RowsIn(queue) = RowsIn(left) \cup {x}
        /\ Ascending(queue) => Ascending(left) /\ Before({x}, RowsIn(left))
    BY <1>2, <2>1, TailRows
  <2>3. /\ rows \in Seq(Row) /\ RowsIn(rows) = RowsIn(buffer) \cup {x}
        /\ Ascending(buffer) /\ Before(RowsIn(buffer), {x}) => Ascending(rows)
    BY <1>2, <2>1, AppendRows
  <2>4. RowsIn(rows) \cup RowsIn(left) = Lined /\ RowsIn(left) \subseteq RowsIn(queue)
    BY <2>2, <2>3 DEF Lined
  <2>5. ASSUME Ascending(queue), Ascending(buffer), Before(RowsIn(buffer), RowsIn(queue))
        PROVE  Ascending(left) /\ Ascending(rows) /\ Before(RowsIn(rows), RowsIn(left))
    <3>1. Before(RowsIn(buffer), {x})
      BY <2>2, <2>5 DEF Before
    <3>2. Before(RowsIn(rows), RowsIn(left))
      BY <2>2, <2>3, <2>5 DEF Before
    <3> QED
      BY <2>2, <2>3, <2>5, <3>1, <3>2
  <2> QED
    BY <2>2, <2>3, <2>4, <2>5
<1> QED
  BY <1>1, <1>2 DEF Took

(* Every step of the consumer's, of run()'s and of the clocks' is a move.  *)
LEMMA KindsOfStep ==
  ASSUME ClockIInv, DataIInv, SinkNext
  PROVE  Moves \/ NewHour \/ (\E f \in Feed : Put(f)) \/ Die \/ Restart
<1>1. queue \in Seq(Row) /\ buffer \in Seq(Row) /\ DiskTyped(Disk)
  BY DEF DataIInv
<1>2. UNCHANGED diskVars => Aged(Disk, Disk')
  BY <1>1 DEF diskVars, Disk, Aged
<1>3. /\ Took(buffer, queue)
      /\ queue # <<>> => Took(Append(buffer, queue[1]), Tail(queue))
  BY DEF Took
<1>4. \A rows, left : Took(rows, left) => rows \in Seq(Row) /\ left \in Seq(Row)
  BY <1>1, TookIs
<1>5. ASSUME NEW rows \in Seq(Row), SetDisk(Flush(Disk, rows)) PROVE Disk' = Flush(Disk, rows)
  BY <1>1, <1>5, FlushTyped, SetDiskIs
<1>6. ASSUME NEW rows \in Seq(Row), NEW S, S \subseteq Feed, SetDisk(Finalize(Flush(Disk, rows), S))
      PROVE  Disk' = Finalize(Flush(Disk, rows), S)
  <2>1. DiskTyped(Flush(Disk, rows))
    BY <1>1, FlushTyped
  <2>2. DiskTyped(Finalize(Flush(Disk, rows), S))
    BY <1>6, <2>1, FinalizeIs
  <2> QED
    BY <1>6, <2>2, SetDiskIs
<1>7. ASSUME NEW rows \in Seq(Row), NEW e \in FailedFlushes(Disk, rows), SetDisk(e)
      PROVE  Disk' \in FailedFlushes(Disk, rows)
  BY <1>1, <1>7, FailHolds, SetDiskIs
<1>8. CASE Tick
  <2>1. Aged(Disk, Disk')
    <3>1. PICK e : e = Disk'
      OBVIOUS
    <3>2. /\ e = [writer |-> e.writer, files |-> e.files] /\ e.files = files
          /\ e.writer = [f \in Feed |-> IF writer[f].open
                           THEN [writer[f] EXCEPT !.age = Least(@ + 1, CheckpointInterval)]
                           ELSE writer[f]]
      BY <1>8, <3>1 DEF Tick, Disk
    <3>3. /\ writer \in [Feed -> Writer] /\ files \in Files
          /\ \A f \in Feed : Numbered(writer[f])
      BY <1>1 DEF DiskTyped, Disk
    <3>4. ASSUME NEW f \in Feed
          PROVE  /\ e.writer[f] \in Writer /\ Numbered(e.writer[f])
                 /\ e.writer[f].open = writer[f].open /\ e.writer[f].hour = writer[f].hour
                 /\ e.writer[f].next = writer[f].next /\ e.writer[f].rows = writer[f].rows
      <4>1. PICK w \in Writer : w = writer[f]
        BY <3>3
      <4>2. CASE w.open
        <5>1. PICK a : a = Least(w.age + 1, CheckpointInterval)
          OBVIOUS
        <5>2. a \in 0..CheckpointInterval
          <6>1. w.age \in 0..CheckpointInterval
            BY DEF Writer
          <6> QED
            BY <5>1, <6>1, Bounds DEF Least
        <5>3. PICK v : v = [w EXCEPT !.age = a]
          OBVIOUS
        <5>4. e.writer[f] = v
          BY <3>2, <4>1, <4>2, <5>1, <5>3
        <5>5. /\ v \in Writer /\ v.open = w.open /\ v.hour = w.hour /\ v.next = w.next
              /\ v.rows = w.rows
          BY <5>2, <5>3 DEF Writer
        <5>6. Numbered(v)
          BY <3>3, <4>1, <5>5 DEF Numbered
        <5> QED
          BY <4>1, <5>4, <5>5, <5>6
      <4>3. CASE ~ w.open
        <5>1. e.writer[f] = w
          BY <3>2, <4>1, <4>3
        <5> QED
          BY <3>3, <4>1, <5>1
      <4> QED
        BY <4>2, <4>3
    <3>5. e.writer \in [Feed -> Writer]
      BY <3>2, <3>4
    <3>6. DiskTyped(e)
      BY <3>2, <3>3, <3>4, <3>5 DEF DiskTyped
    <3> QED
      BY <3>1, <3>2, <3>4, <3>6 DEF Aged, Disk
  <2> QED
    BY <1>1, <1>3, <1>8, <2>1 DEF Tick, Moves, Kept, consumerVars
<1>9. CASE Wait
  <2>1. /\ sink = "running" /\ sink' = sink /\ hour' = hour /\ put' = put /\ queue' = queue
        /\ dropped' = dropped /\ lost' = lost /\ ioFailed' = ioFailed
    BY <1>9 DEF Wait, historyVars
  <2>2. Kept(buffer) \/ Flushed(buffer)
    <3>1. CASE NewInterval /\ buffer = <<>>
      <4>1. UNCHANGED diskVars /\ buffer' = buffer
        BY <3>1 DEF NewInterval, SetDisk, Disk, diskVars
      <4> QED
        BY <1>2, <2>1, <4>1 DEF Kept
    <3>2. CASE NewInterval /\ buffer # <<>>
      BY <1>1, <1>5, <2>1, <3>2 DEF NewInterval, Flushed
    <3>3. CASE UNCHANGED <<sinceFlush, buffer, diskVars>>
      BY <1>2, <2>1, <3>3 DEF Kept
    <3> QED
      BY <1>9, <3>1, <3>2, <3>3 DEF Wait
  <2> QED
    BY <1>1, <1>3, <2>1, <2>2 DEF Moves
<1>10. ASSUME NEW rows, NEW left, Took(rows, left), queue' = left, NEW age, AfterWait(rows, age),
              sink = "running", UNCHANGED <<hour, put, waitFor, sink, historyVars>>
       PROVE  Moves
  <2>1. rows \in Seq(Row) /\ left \in Seq(Row)
    BY <1>4, <1>10
  <2>2. Kept(rows) \/ Flushed(rows)
    <3>1. ioFailed' = ioFailed
      BY <1>10 DEF historyVars
    <3> QED
      BY <1>2, <1>5, <1>10, <2>1, <3>1 DEF AfterWait, Kept, Flushed
  <2> QED
    BY <1>10, <2>1, <2>2 DEF Moves, historyVars
<1>11. CASE GetRow
  BY <1>3, <1>10, <1>11 DEF GetRow
<1>12. CASE TimeOut
  BY <1>3, <1>10, <1>12 DEF TimeOut, Waiting
<1>13. CASE FlushFails
  <2>1. PICK rows, left : Took(rows, left) /\ queue' = left /\ buffer' = rows
    BY <1>3, <1>13 DEF FlushFails
  <2>2. rows \in Seq(Row) /\ left \in Seq(Row)
    BY <1>4, <2>1
  <2>3. PICK e \in FailedFlushes(Disk, rows) : SetDisk(e)
    BY <1>13, <2>1 DEF FlushFails
  <2>4. Failed(rows)
    BY <1>7, <1>13, <2>1, <2>2, <2>3 DEF FlushFails, Failed
  <2> QED
    BY <1>13, <2>1, <2>2, <2>4 DEF FlushFails, Moves
<1>14. CASE WatchdogFires
  BY <1>1, <1>2, <1>3, <1>14
     DEF WatchdogFires, Waiting, Moves, Kept, consumerVars, historyVars
<1>15. CASE CancelSink
  BY <1>1, <1>2, <1>3, <1>15
     DEF CancelSink, Waiting, Moves, Kept, consumerVars, historyVars
<1>16. CASE Finish
  <2>1. SetDisk(Finalize(Flush(Disk, buffer), Feed))
    <3>1. (IF buffer = <<>> THEN Disk ELSE Flush(Disk, buffer)) = Flush(Disk, buffer)
      BY <1>1, FlushTyped
    <3> QED
      BY <1>16, <3>1 DEF Finish
  <2>2. Flushed(buffer)
    BY <1>1, <1>6, <1>16, <2>1 DEF Finish, Flushed, historyVars
  <2> QED
    BY <1>1, <1>3, <1>16, <2>2 DEF Finish, Moves, historyVars
<1>17. CASE FinishFails
  <2>1. CASE \E e \in FailedFlushes(Disk, buffer) : SetDisk(e) /\ UNCHANGED buffer
    <3>1. Failed(buffer)
      BY <1>1, <1>7, <1>17, <2>1 DEF FinishFails, Failed
    <3> QED
      BY <1>1, <1>3, <1>17, <3>1 DEF FinishFails, Moves
  <2>2. CASE \E S \in SUBSET Feed \ {Feed} :
               SetDisk(Finalize(Flush(Disk, buffer), S)) /\ buffer' = <<>>
    <3>1. Flushed(buffer)
      <4>1. PICK S \in SUBSET Feed : SetDisk(Finalize(Flush(Disk, buffer), S)) /\ buffer' = <<>>
        BY <2>2
      <4> QED
        BY <1>1, <1>6, <1>17, <4>1 DEF FinishFails, Flushed
    <3> QED
      BY <1>1, <1>3, <1>17, <3>1 DEF FinishFails, Moves
  <2> QED
    BY <1>17, <2>1, <2>2 DEF FinishFails
<1> QED
  BY <1>8, <1>9, <1>11, <1>12, <1>13, <1>14, <1>15, <1>16, <1>17 DEF SinkNext

-----------------------------------------------------------------------------
(* Types                                                                   *)

(* Clocks, states and counters keep their ranges.                          *)
LEMMA ClockStep ==
  ASSUME ClockIInv, [SinkNext]_sinkVars
  PROVE  ClockIInv'
<1> USE Bounds DEF ClockIInv, SinkStates
<1>1. CASE Tick
  BY <1>1 DEF Tick, Least, consumerVars
<1>2. CASE NewHour
  BY <1>2 DEF NewHour, consumerVars, clockVars, historyVars
<1>3. ASSUME NEW f \in Feed, Put(f) PROVE ClockIInv'
  BY <1>3 DEF Put, consumerVars, clockVars
<1>4. CASE Wait
  BY <1>4 DEF Wait, NewInterval, historyVars
<1>5. CASE GetRow
  BY <1>5 DEF GetRow, AfterWait, historyVars
<1>6. CASE TimeOut
  BY <1>6 DEF TimeOut, AfterWait, historyVars
<1>7. CASE FlushFails
  BY <1>7 DEF FlushFails, clockVars
<1>8. CASE WatchdogFires
  BY <1>8 DEF WatchdogFires, consumerVars, clockVars, historyVars
<1>9. CASE CancelSink
  BY <1>9 DEF CancelSink, consumerVars, clockVars, historyVars
<1>10. CASE Finish
  BY <1>10 DEF Finish, clockVars, historyVars
<1>11. CASE FinishFails
  BY <1>11 DEF FinishFails, clockVars
<1>12. CASE Die
  BY <1>12 DEF Die, clockVars
<1>13. CASE Restart
  BY <1>13 DEF Restart, historyVars
<1>14. CASE UNCHANGED sinkVars
  BY <1>14 DEF sinkVars
<1> QED
  BY <1>1, <1>2, <1>3, <1>4, <1>5, <1>6, <1>7, <1>8, <1>9, <1>10, <1>11, <1>12, <1>13, <1>14
     DEF SinkNext

(* The buffer never outgrows a batch.                                      *)
LEMMA RoomStep ==
  ASSUME ClockIInv, RoomIInv, DataIInv, [SinkNext]_sinkVars
  PROVE  RoomIInv'
<1>1. BatchSize \in Nat \ {0} /\ Len(<<>>) = 0 /\ Len(buffer) \in Nat
  BY Bounds DEF DataIInv
<1>2. queue # <<>> => Len(Append(buffer, queue[1])) = Len(buffer) + 1
  BY DEF DataIInv
<1>3. UNCHANGED <<buffer, sink>> => RoomIInv'
  BY DEF RoomIInv
<1>4. ASSUME sink' # "running", buffer' = buffer \/ buffer' = <<>> PROVE RoomIInv'
  BY <1>1, <1>4 DEF RoomIInv
<1>5. ASSUME NEW rows, NEW age, AfterWait(rows, age), sink' = sink, Len(rows) \in Nat
      PROVE  RoomIInv'
  <2>1. CASE buffer' = <<>>
    BY <1>1, <2>1 DEF RoomIInv
  <2>2. CASE ~ Due(rows) /\ buffer' = rows
    BY <1>1, <1>5, <2>2 DEF RoomIInv, Due
  <2> QED
    BY <1>5, <2>1, <2>2 DEF AfterWait
<1>6. CASE Tick \/ NewHour \/ UNCHANGED sinkVars
  BY <1>3, <1>6 DEF Tick, NewHour, sinkVars, consumerVars
<1>7. ASSUME NEW f \in Feed, Put(f) PROVE RoomIInv'
  BY <1>3, <1>7 DEF Put, consumerVars
<1>8. CASE Wait
  BY <1>1, <1>3, <1>8 DEF Wait, NewInterval, RoomIInv
<1>9. CASE GetRow
  <2>1. AfterWait(Append(buffer, queue[1]), 0) /\ sink' = sink /\ queue # <<>>
    BY <1>9 DEF GetRow
  <2>2. Len(Append(buffer, queue[1])) \in Nat
    BY <1>1, <1>2, <2>1
  <2> QED
    BY <1>5, <2>1, <2>2
<1>10. CASE TimeOut
  <2>1. AfterWait(buffer, sinceProgress) /\ sink' = sink
    BY <1>10 DEF TimeOut
  <2> QED
    BY <1>1, <1>5, <2>1
<1>11. CASE FlushFails
  <2>1. /\ sink = "running" /\ sink' = "closing"
        /\ buffer' = buffer \/ (queue # <<>> /\ buffer' = Append(buffer, queue[1]))
    BY <1>11 DEF FlushFails
  <2> QED
    BY <1>1, <1>2, <2>1 DEF RoomIInv
<1>12. CASE WatchdogFires \/ CancelSink
  BY <1>4, <1>12 DEF WatchdogFires, CancelSink, consumerVars
<1>13. CASE Finish \/ FinishFails
  BY <1>4, <1>13 DEF Finish, FinishFails
<1>14. CASE Die
  BY <1>4, <1>14 DEF Die
<1>15. CASE Restart
  <2>1. buffer = <<>> /\ buffer' = buffer
    BY <1>15 DEF Restart, DataIInv
  <2> QED
    BY <1>1, <2>1 DEF RoomIInv
<1> QED
  BY <1>6, <1>7, <1>8, <1>9, <1>10, <1>11, <1>12, <1>13, <1>14, <1>15 DEF SinkNext

(* What a move does to the rows, whatever hour it is and whatever fails.   *)
LEMMA MoveHolds ==
  ASSUME DataIInv, Moves
  PROVE  /\ queue' \in Seq(Row) /\ Len(queue') <= QueueMax /\ buffer' \in Seq(Row)
         /\ DiskTyped(Disk') /\ All' \subseteq All
<1>1. queue \in Seq(Row) /\ buffer \in Seq(Row) /\ DiskTyped(Disk) /\ Len(queue) <= QueueMax
      /\ Len(queue) \in Nat
  BY DEF DataIInv
<1>2. PICK rows \in Seq(Row), left \in Seq(Row) :
        Took(rows, left) /\ queue' = left /\ (Kept(rows) \/ Flushed(rows) \/ Failed(rows))
  BY DEF Moves
<1>3. RowsIn(rows) \cup RowsIn(left) = Lined /\ Len(left) <= Len(queue) /\ Len(left) \in Nat
  BY <1>1, <1>2, TookIs
<1>4. /\ DiskTyped(Disk') /\ HeldBy(Disk') \subseteq HeldBy(Disk) \cup RowsIn(rows)
      /\ buffer' \in {rows, <<>>}
  <2>1. CASE Kept(rows)
    <3>1. DiskTyped(Disk') /\ buffer' = rows
      BY <2>1 DEF Kept, Aged
    <3>2. Disk'.files = Disk.files /\ \A f \in Feed : Disk'.writer[f].rows = Disk.writer[f].rows
      BY <2>1 DEF Kept, Aged
    <3>3. HeldBy(Disk') \subseteq HeldBy(Disk)
      <4>1. PICK d, e : d = Disk /\ e = Disk'
        OBVIOUS
      <4>2. \A r : r \in HeldBy(e) => r \in HeldBy(d)
        BY <3>2, <4>1, HeldIs
      <4> QED
        BY <4>1, <4>2
    <3> QED
      BY <3>1, <3>3
  <2>2. CASE Flushed(rows)
    <3>1. PICK d : d = Flush(Disk, rows)
      OBVIOUS
    <3>2. DiskTyped(d) /\ HeldBy(d) \subseteq HeldBy(Disk) \cup RowsIn(rows)
      BY <1>1, <3>1, FlushTyped
    <3>3. CASE Disk' = d
      BY <2>2, <3>2, <3>3 DEF Flushed
    <3>4. CASE \E S \in SUBSET Feed : Disk' = Finalize(d, S)
      <4>1. PICK S \in SUBSET Feed : Disk' = Finalize(d, S)
        BY <3>4
      <4>2. DiskTyped(Finalize(d, S)) /\ HeldBy(Finalize(d, S)) \subseteq HeldBy(d)
        BY <3>2, FinalizeIs, FinalizeHolds
      <4> QED
        BY <2>2, <3>2, <4>1, <4>2 DEF Flushed
    <3> QED
      BY <2>2, <3>1, <3>3, <3>4 DEF Flushed
  <2>3. CASE Failed(rows)
    <3>1. Disk' \in FailedFlushes(Disk, rows) /\ buffer' = rows
      BY <2>3 DEF Failed
    <3> QED
      BY <1>1, <3>1, FailHolds
  <2> QED
    BY <1>2, <2>1, <2>2, <2>3
<1>5. RowsIn(buffer') \subseteq RowsIn(rows)
  BY <1>4, Nothing
<1>6. All' = RowsIn(queue') \cup RowsIn(buffer') \cup HeldBy(Disk')
  BY DEF All, Lined
<1>7. All' \subseteq All
  <2>1. All = RowsIn(rows) \cup RowsIn(left) \cup HeldBy(Disk)
    BY <1>3 DEF All
  <2> QED
    BY <1>2, <1>4, <1>5, <1>6, <2>1
<1>8. buffer' \in Seq(Row)
  <2>1. <<>> \in Seq(Row)
    OBVIOUS
  <2> QED
    BY <1>4, <2>1
<1> QED
  BY Bounds, <1>1, <1>2, <1>3, <1>4, <1>7, <1>8

(* The new row joins the queue, and the oldest may have to go.             *)
LEMMA PutIs ==
  ASSUME ClockIInv, DataIInv, NEW f \in Feed, Put(f)
  PROVE  LET row == [id |-> put + 1, feed |-> f, hour |-> hour]
         IN  /\ row \in Row /\ sink # "dead" /\ sink' = sink /\ put' = put + 1 /\ hour' = hour
             /\ buffer' = buffer /\ Disk' = Disk /\ lost' = lost /\ ioFailed' = ioFailed
             /\ queue' \in Seq(Row) /\ Len(queue') <= QueueMax
             /\ \E out \in SUBSET Row :
                  /\ out = {} \/ \E x \in RowsIn(queue) : out = {x}
                  /\ dropped' = dropped \cup {r.id : r \in out}
                  /\ RowsIn(queue') = (RowsIn(queue) \ out) \cup {row}
                                       \/ ~ Ascending(queue)
                  /\ RowsIn(queue') \subseteq RowsIn(queue) \cup {row}
             /\ Ascending(queue) => Ascending(queue')
<1>1. PICK row : row = [id |-> put + 1, feed |-> f, hour |-> hour]
  OBVIOUS
<1>2. /\ OthersMayRun /\ put < MaxRow /\ put' = put + 1 /\ hour' = hour /\ sink' = sink
      /\ buffer' = buffer /\ Disk' = Disk /\ lost' = lost /\ ioFailed' = ioFailed
      /\ \/ /\ Len(queue) < QueueMax /\ queue' = Append(queue, row) /\ dropped' = dropped
         \/ /\ ~ Len(queue) < QueueMax /\ queue' = Append(Tail(queue), row)
            /\ dropped' = dropped \cup {queue[1].id}
  BY <1>1 DEF Put, consumerVars, diskVars, Disk
<1>3. row \in Row /\ sink # "dead"
  BY <1>1, <1>2, Bounds DEF ClockIInv, Row, OthersMayRun
<1>4. queue \in Seq(Row) /\ Len(queue) <= QueueMax /\ Len(queue) \in Nat
      /\ QueueMax \in Nat \ {0} /\ put \in Nat
  BY Bounds DEF DataIInv, ClockIInv
<1>5. \A r \in RowsIn(queue) : r.id < row.id
  <2>1. \A r \in RowsIn(queue) : r.id <= put /\ r.id \in Nat
    BY <1>4, RowTyped DEF DataIInv, All, Lined, RowsIn
  <2>2. row.id = put + 1
    BY <1>1
  <2> QED
    BY <1>4, <2>1, <2>2
<1>6. CASE /\ Len(queue) < QueueMax /\ queue' = Append(queue, row) /\ dropped' = dropped
  <2>1. PICK q : q = queue'
    OBVIOUS
  <2>2. /\ q \in Seq(Row) /\ Len(q) = Len(queue) + 1 /\ RowsIn(q) = RowsIn(queue) \cup {row}
        /\ Ascending(queue) => Ascending(q)
    BY <1>3, <1>4, <1>5, <1>6, <2>1, AppendRows DEF Before
  <2>3. Len(q) <= QueueMax
    BY <1>4, <1>6, <2>2
  <2>4. /\ {} \in SUBSET Row /\ dropped' = dropped \cup {r.id : r \in {}}
        /\ RowsIn(q) = (RowsIn(queue) \ {}) \cup {row}
    BY <1>6, <2>2
  <2> QED
    BY <1>1, <1>2, <1>3, <2>1, <2>2, <2>3, <2>4
<1>7. CASE /\ ~ Len(queue) < QueueMax /\ queue' = Append(Tail(queue), row)
           /\ dropped' = dropped \cup {queue[1].id}
  <2>1. PICK q, t, x : q = queue' /\ t = Tail(queue) /\ x = queue[1]
    OBVIOUS
  <2>2. queue # <<>>
    BY <1>4, <1>7
  <2>3. /\ t \in Seq(Row) /\ x \in Row /\ Len(t) = Len(queue) - 1
        /\ RowsIn(queue) = RowsIn(t) \cup {x}
        /\ Ascending(queue) => Ascending(t) /\ Before({x}, RowsIn(t))
    BY <1>4, <2>1, <2>2, TailRows
  <2>4. Before(RowsIn(t), {row})
    BY <1>5, <2>3 DEF Before
  <2>5. /\ q \in Seq(Row) /\ Len(q) = Len(t) + 1 /\ RowsIn(q) = RowsIn(t) \cup {row}
        /\ Ascending(t) => Ascending(q)
    BY <1>3, <1>7, <2>1, <2>3, <2>4, AppendRows
  <2>6. Len(q) <= QueueMax
    BY <1>4, <2>3, <2>5
  <2>7. ASSUME Ascending(queue) PROVE x \notin RowsIn(t)
    <3>1. x.id \in Nat
      BY <2>3, RowTyped
    <3> QED
      BY <2>3, <2>7, <3>1 DEF Before
  <2>8. /\ {x} \in SUBSET Row /\ x \in RowsIn(queue) /\ dropped' = dropped \cup {r.id : r \in {x}}
        /\ RowsIn(q) = (RowsIn(queue) \ {x}) \cup {row} \/ ~ Ascending(queue)
        /\ RowsIn(q) \subseteq RowsIn(queue) \cup {row}
    BY <1>7, <2>1, <2>3, <2>5, <2>7
  <2> QED
    BY <1>1, <1>2, <1>3, <2>1, <2>3, <2>5, <2>6, <2>8
<1> QED
  BY <1>2, <1>6, <1>7

IdsOf(X) == {r.id : r \in X}

(* The numbers the properties speak of, as those of sets of rows.          *)
LEMMA IdsIn ==
  /\ \A s : Ids(s) = IdsOf(RowsIn(s))
  /\ InMemory = IdsOf(Lined) /\ OnTheWay = IdsOf(RowsOpen(Disk)) /\ OnDisk = IdsOf(RowsDone(Disk))
  /\ InMemory \cup OnTheWay \cup OnDisk = IdsOf(All)
<1>1. ASSUME NEW s PROVE Ids(s) = IdsOf(RowsIn(s))
  BY DEF Ids, IdsOf, RowsIn
<1>2. InMemory = IdsOf(Lined)
  BY <1>1 DEF InMemory, Lined, IdsOf
<1>3. OnTheWay = IdsOf(RowsOpen(Disk))
  <2>1. \A x : x \in OnTheWay <=> \E f \in Feed : x \in Ids(writer[f].rows)
    BY DEF OnTheWay
  <2>2. \A r : r \in RowsOpen(Disk) <=> \E f \in Feed : r \in RowsIn(writer[f].rows)
    BY DEF RowsOpen, Disk
  <2>3. \A x : x \in IdsOf(RowsOpen(Disk)) <=> \E r \in RowsOpen(Disk) : x = r.id
    BY DEF IdsOf
  <2>4. \A s, x : x \in Ids(s) <=> \E r \in RowsIn(s) : x = r.id
    BY <1>1 DEF IdsOf
  <2>5. \A x : x \in OnTheWay <=> x \in IdsOf(RowsOpen(Disk))
    BY ONLY <2>1, <2>2, <2>3, <2>4
  <2> QED
    BY <2>5
<1>4. OnDisk = IdsOf(RowsDone(Disk))
  <2>1. \A x : x \in OnDisk <=> \E k \in DOMAIN files : x \in Ids(files[k])
    BY DEF OnDisk
  <2>2. \A r : r \in RowsDone(Disk) <=> \E k \in DOMAIN files : r \in RowsIn(files[k])
    BY DEF RowsDone, Disk
  <2>3. \A x : x \in IdsOf(RowsDone(Disk)) <=> \E r \in RowsDone(Disk) : x = r.id
    BY DEF IdsOf
  <2>4. \A s, x : x \in Ids(s) <=> \E r \in RowsIn(s) : x = r.id
    BY <1>1 DEF IdsOf
  <2>5. \A x : x \in OnDisk <=> x \in IdsOf(RowsDone(Disk))
    BY ONLY <2>1, <2>2, <2>3, <2>4
  <2> QED
    BY <2>5
<1>5. InMemory \cup OnTheWay \cup OnDisk = IdsOf(All)
  <2>1. \A x : x \in IdsOf(All) <=>
             x \in IdsOf(Lined) \/ x \in IdsOf(RowsOpen(Disk)) \/ x \in IdsOf(RowsDone(Disk))
    BY DEF IdsOf, All, HeldBy
  <2> QED
    BY <1>2, <1>3, <1>4, <2>1
<1> QED
  BY <1>1, <1>2, <1>3, <1>4, <1>5

(* The rows there are have numbers that were put.                          *)
LEMMA AllTyped ==
  ASSUME ClockIInv, DataIInv
  PROVE  /\ \A r \in All : r \in Row /\ r.id \in 1..put /\ r.id \in Nat
         /\ IdsOf(All) \subseteq 1..put
<1>1. DiskTyped(Disk) /\ buffer \in Seq(Row) /\ queue \in Seq(Row)
  BY DEF DataIInv
<1>2. \A g \in Feed : Disk.writer[g].rows \in Seq(Row)
  BY <1>1, WriterTyped
<1>3. \A k \in DOMAIN Disk.files : Disk.files[k] \in Seq(Row)
  BY <1>1, FilesTyped
<1>4. \A s \in Seq(Row) : \A r \in RowsIn(s) : r \in Row
  BY DEF RowsIn
<1>5. \A r \in HeldBy(Disk) : r \in Row
  BY <1>2, <1>3, <1>4, HeldIs
<1>6. \A r \in All : r \in Row
  BY <1>1, <1>4, <1>5 DEF All, Lined
<1>7. \A r \in Row : r.id \in Nat /\ r.id >= 1
  BY RowTyped
<1>8. put \in Nat
  BY Bounds DEF ClockIInv
<1>9. \A r \in All : r.id \in 1..put
  BY <1>6, <1>7, <1>8 DEF DataIInv
<1> QED
  BY <1>6, <1>7, <1>9 DEF IdsOf

(* A process that has gone leaves its final files.                         *)
LEMMA DieIs ==
  ASSUME DataIInv, Die
  PROVE  /\ DiskTyped(Disk') /\ queue' = <<>> /\ buffer' = <<>> /\ files' = files
         /\ writer' = [f \in Feed |-> NewWriter] /\ sink' = "dead"
         /\ Lined' = {} /\ HeldBy(Disk') = RowsDone(Disk) /\ RowsDone(Disk') = RowsDone(Disk)
         /\ \A f \in Feed : Disk'.writer[f].rows = <<>>
         /\ hour' = hour /\ put' = put /\ dropped' = dropped /\ ioFailed' = ioFailed
         /\ lost' = lost \cup (IdsOf(All) \ IdsOf(RowsDone(Disk)))
<1>1. /\ queue' = <<>> /\ buffer' = <<>> /\ files' = files
      /\ writer' = [f \in Feed |-> NewWriter] /\ sink' = "dead"
      /\ hour' = hour /\ put' = put /\ dropped' = dropped /\ ioFailed' = ioFailed
  BY DEF Die
<1>2. PICK d : d = Disk'
  OBVIOUS
<1>3. /\ d = [writer |-> [f \in Feed |-> NewWriter], files |-> files]
      /\ \A f \in Feed : d.writer[f] = NewWriter /\ d.writer[f].rows = <<>>
      /\ d.files = Disk.files /\ d.files = files
  BY <1>1, <1>2 DEF Disk, NewWriter
<1>4. DiskTyped(d)
  <2>1. files \in Files
    BY DEF DataIInv, DiskTyped, Disk
  <2>2. <<>> \in Seq(Row) /\ 0 \in 0..CheckpointInterval /\ 0 \in 0..MaxHour
    BY Bounds
  <2>3. NewWriter \in Writer /\ Numbered(NewWriter)
    BY <2>2 DEF NewWriter, Writer, Numbered
  <2> QED
    BY <1>3, <2>1, <2>3 DEF DiskTyped
<1>5. RowsDone(d) = RowsDone(Disk)
  BY <1>3, DoneIs
<1>6. HeldBy(d) = RowsDone(Disk)
  <2>1. \A r : r \in HeldBy(d) <=> r \in RowsDone(d)
    BY <1>3, Nothing, HeldIs, DoneIs
  <2> QED
    BY <1>5, <2>1
<1>7. Lined' = {}
  BY <1>1, Nothing DEF Lined
<1>8. lost' = lost \cup (IdsOf(All) \ IdsOf(RowsDone(Disk)))
  <2>1. lost' = lost \cup ((InMemory \cup OnTheWay) \ OnDisk)
    BY DEF Die
  <2> QED
    BY <2>1, IdsIn
<1> QED
  BY <1>1, <1>2, <1>3, <1>4, <1>5, <1>6, <1>7, <1>8

(* Rows, writers and files keep their types.                               *)
LEMMA DataStep ==
  ASSUME ClockIInv, DataIInv, [SinkNext]_sinkVars
  PROVE  DataIInv'
<1>1. CASE Moves
  BY <1>1, MoveHolds DEF Moves, DataIInv
<1>2. ASSUME UNCHANGED <<put, queue, buffer, writer, files, dropped, lost>>,
             sink' = sink \/ sink' # "dead"
      PROVE  DataIInv'
  <2>1. All' = All /\ Disk' = Disk
    BY <1>2 DEF All, Lined, Disk
  <2> QED
    BY <1>2, <2>1 DEF DataIInv
<1>3. CASE NewHour \/ Restart \/ UNCHANGED sinkVars
  BY <1>2, <1>3
     DEF NewHour, Restart, consumerVars, clockVars, diskVars, historyVars, sinkVars
<1>4. ASSUME NEW f \in Feed, Put(f) PROVE DataIInv'
  <2>1. PICK row : row = [id |-> put + 1, feed |-> f, hour |-> hour]
    OBVIOUS
  <2>2. PICK out \in SUBSET Row :
          /\ out = {} \/ \E x \in RowsIn(queue) : out = {x}
          /\ dropped' = dropped \cup {r.id : r \in out}
          /\ RowsIn(queue') \subseteq RowsIn(queue) \cup {row}
    BY <1>4, <2>1, PutIs
  <2>3. /\ row \in Row /\ sink # "dead" /\ sink' = sink /\ put' = put + 1
        /\ buffer' = buffer /\ Disk' = Disk /\ lost' = lost
        /\ queue' \in Seq(Row) /\ Len(queue') <= QueueMax
    BY <1>4, <2>1, PutIs
  <2>4. put \in Nat /\ row.id = put + 1
    BY <2>1, Bounds DEF ClockIInv
  <2>5. All' \subseteq All \cup {row}
    BY <2>2, <2>3 DEF All, Lined
  <2>6. \A r \in All : r.id <= put
    BY DEF DataIInv
  <2>7. \A r \in RowsIn(queue) : r \in All /\ r.id \in 1..put
    BY AllTyped DEF All, Lined
  <2>8. DiskTyped(Disk) /\ buffer \in Seq(Row)
    BY DEF DataIInv
  <2>10. \A r \in All' : r.id <= put'
    <3>1. \A r \in All : r.id <= put + 1
      BY <2>4, AllTyped
    <3> QED
      BY <2>3, <2>4, <2>5, <3>1
  <2>11. (dropped' \cup lost') \subseteq 1..put'
    <3>1. \A r \in out : r.id \in 1..put + 1
      BY <2>2, <2>4, <2>7
    <3>2. dropped \cup lost \subseteq 1..put + 1
      BY <2>4 DEF DataIInv
    <3> QED
      BY <2>2, <2>3, <3>1, <3>2
  <2> QED
    BY <2>3, <2>8, <2>10, <2>11 DEF DataIInv
<1>5. CASE Die
  <2>1. /\ DiskTyped(Disk') /\ queue' = <<>> /\ buffer' = <<>>
        /\ writer' = [f \in Feed |-> NewWriter] /\ Lined' = {}
        /\ HeldBy(Disk') = RowsDone(Disk) /\ put' = put /\ dropped' = dropped
        /\ lost' = lost \cup (IdsOf(All) \ IdsOf(RowsDone(Disk)))
    BY <1>5, DieIs
  <2>2. All' = RowsDone(Disk)
    BY <2>1 DEF All
  <2>3. RowsDone(Disk) \subseteq All
    BY DoneIs DEF All
  <2>4. IdsOf(All) \subseteq 1..put /\ \A r \in All : r.id <= put
    BY AllTyped DEF DataIInv
  <2>6. Len(<<>>) <= QueueMax /\ <<>> \in Seq(Row)
    BY Bounds
  <2> QED
    BY <2>1, <2>2, <2>3, <2>4, <2>6 DEF DataIInv
<1> QED
  BY <1>1, <1>3, <1>4, <1>5, KindsOfStep

(* The first state is typed,                                               *)
LEMMA TypeInit ==
  ASSUME SinkInit
  PROVE  TypeIInv
<1>1. ClockIInv
  <2>1. /\ hour = 1 /\ put = 0 /\ sinceFlush = 0 /\ sinceProgress = 0 /\ pc = "top"
        /\ waitFor = FlushInterval /\ sink = "running" /\ ioFailed = FALSE
    BY DEF SinkInit
  <2>2. hour \in 1..MaxHour /\ put \in 0..MaxRow
    BY <2>1, Bounds
  <2>3. /\ sinceFlush \in 0..FlushInterval /\ sinceProgress \in 0..StallTimeout
        /\ waitFor \in 1..FlushInterval
    BY <2>1, Bounds
  <2>4. pc \in {"top", "waiting", "taking"} /\ sink \in SinkStates /\ ioFailed \in BOOLEAN
    BY <2>1 DEF SinkStates
  <2> QED
    BY <2>2, <2>3, <2>4 DEF ClockIInv
<1>2. PICK d : d = Disk
  OBVIOUS
<1>3. /\ d = [writer |-> [f \in Feed |-> NewWriter], files |-> <<>>] /\ DOMAIN d.files = {}
      /\ \A f \in Feed : d.writer[f] = NewWriter /\ d.writer[f].rows = <<>>
  BY <1>2 DEF SinkInit, Disk, NewWriter
<1>4. DiskTyped(d)
  <2>1. <<>> \in Files
    BY DEF Files
  <2>2. <<>> \in Seq(Row) /\ 0 \in 0..CheckpointInterval /\ 0 \in 0..MaxHour
    BY Bounds
  <2>3. NewWriter \in Writer /\ Numbered(NewWriter)
    BY <2>2 DEF NewWriter, Writer, Numbered
  <2> QED
    BY <1>3, <2>1, <2>3 DEF DiskTyped
<1>5. \A r : r \notin HeldBy(d)
  BY <1>3, Nothing, HeldIs
<1>6. \A r : r \notin All
  BY <1>2, <1>5, Nothing DEF All, Lined, SinkInit
<1>7. RoomIInv
  BY Bounds DEF SinkInit, RoomIInv
<1>8. DataIInv
  BY <1>2, <1>4, <1>6, Bounds DEF SinkInit, DataIInv
<1> QED
  BY <1>1, <1>7, <1>8 DEF TypeIInv

(* every step keeps it so,                                                 *)
LEMMA TypeStep ==
  ASSUME TypeIInv, [SinkNext]_sinkVars
  PROVE  TypeIInv'
BY ClockStep, RoomStep, DataStep DEF TypeIInv

(* and typed means SinkTypeOK.                                             *)
LEMMA TypeHolds ==
  ASSUME TypeIInv
  PROVE  SinkTypeOK
<1>1. DiskTyped(Disk) /\ Disk.writer = writer /\ Disk.files = files
  BY DEF TypeIInv, DataIInv, Disk
<1>2. ASSUME NEW f \in Feed
      PROVE  /\ writer[f].rows \in Seq(Row) /\ writer[f].age \in 0..CheckpointInterval
             /\ writer[f].open => writer[f].next > 0 /\ writer[f].hour \in 1..MaxHour
  <2>1. writer[f] \in Writer /\ Numbered(writer[f])
    BY <1>1 DEF DiskTyped
  <2>2. writer[f].rows \in Seq(Row) /\ writer[f].age \in 0..CheckpointInterval
        /\ writer[f].hour \in 0..MaxHour
    BY <2>1 DEF Writer
  <2> QED
    BY <2>1, <2>2, Bounds DEF Numbered
<1>3. \A k \in DOMAIN files : files[k] \in Seq(Row)
  BY <1>1, FilesTyped
<1> QED
  BY <1>2, <1>3 DEF TypeIInv, ClockIInv, RoomIInv, DataIInv, SinkTypeOK

(* The queue never holds more than its bound, nor the buffer more than a   *)
(* batch; an open file has an hour and a number; and no row is dropped or  *)
(* lost that was not put: whatever fails and whatever hour comes again.    *)
THEOREM SinkTypeCorrect == SinkSpec => []SinkTypeOK
<1>1. SinkInit => TypeIInv
  BY TypeInit
<1>2. TypeIInv /\ [SinkNext]_sinkVars => TypeIInv'
  BY TypeStep
<1>3. TypeIInv => SinkTypeOK
  BY TypeHolds
<1> QED
  BY <1>1, <1>2, <1>3, PTL DEF SinkSpec

-----------------------------------------------------------------------------
(* When no hour comes again and no flush across hours fails                *)

Undisturbed == HourReuse = {} /\ IOFails # "always"

(* A number is a row's own, the clock goes forward with the numbers, and   *)
(* the rows wait in their order.                                           *)
RowsIInv ==
  /\ \A r \in All : r.hour <= hour
  /\ \A r, s \in All : /\ r.id = s.id => r = s
                       /\ r.id < s.id => r.hour <= s.hour
  /\ Ascending(queue) /\ Ascending(buffer) /\ Before(RowsIn(buffer), RowsIn(queue))

(* No file is in the way of a row that waits, or of one to come.           *)
WayIInv ==
  /\ DiskOK(Disk)
  /\ \A r \in Lined : Reaches(Disk, r.feed, r.hour)
  /\ sink # "dead" => \A f \in Feed : Reaches(Disk, f, hour)

(* Of every feed, what is on its way to disk is older than what waits, and *)
(* what is on disk is older than the rest.  No row is in two places, if    *)
(* writing has not failed.                                                 *)
SavedIInv ==
  /\ Oldest(HeldBy(Disk), All) /\ Oldest(RowsDone(Disk), All)
  /\ RowsIn(queue) \cap HeldBy(Disk) = {}
  /\ 1..put = dropped \cup lost \cup IdsOf(All)
  /\ ~ ioFailed =>
       /\ InOrder(Disk)
       /\ RowsIn(buffer) \cap HeldBy(Disk) = {}
       /\ dropped \cap lost = {} /\ (dropped \cup lost) \cap IdsOf(All) = {}

(* A sink that has ended well has nothing left.                            *)
EndIInv ==
  sink = "ended" /\ ~ ioFailed => buffer = <<>> /\ \A f \in Feed : writer[f].rows = <<>>

SinkIInv == Undisturbed /\ TypeIInv /\ RowsIInv /\ WayIInv /\ SavedIInv /\ EndIInv

(* A tick of the clocks changes nothing of what the invariant says.        *)
LEMMA AgedKeeps ==
  ASSUME NEW d, DiskOK(d), NEW e, Aged(d, e)
  PROVE  /\ DiskOK(e) /\ Keeps(d, e) /\ HeldBy(e) = HeldBy(d) /\ RowsDone(e) = RowsDone(d)
         /\ \A f \in Feed : \A x : Reaches(d, f, x) => Reaches(e, f, x)
         /\ InOrder(d) => InOrder(e)
<1>1. /\ DiskTyped(e) /\ e.files = d.files
      /\ \A f \in Feed :
           /\ e.writer[f].open = d.writer[f].open /\ e.writer[f].hour = d.writer[f].hour
           /\ e.writer[f].next = d.writer[f].next /\ e.writer[f].rows = d.writer[f].rows
  BY DEF Aged
<1>2. \A f \in Feed : WriterOK(e, f)
  BY <1>1 DEF DiskOK, WriterOK
<1>3. DiskOK(e)
  BY <1>1, <1>2 DEF DiskOK, FileOK
<1>4. HeldBy(e) = HeldBy(d)
  <2>1. \A r : r \in HeldBy(e) <=> r \in HeldBy(d)
    BY <1>1, HeldIs
  <2> QED
    BY <2>1
<1>5. \A k \in DOMAIN e.files : k[1] \in Feed
  BY <1>1, FilesTyped
<1>6. InOrder(d) => InOrder(e)
  BY <1>1, <1>5 DEF InOrder
<1> QED
  BY <1>1, <1>3, <1>4, <1>6, DoneIs DEF Keeps, Reaches

(* What a flush of rows that fit does to a disk.                           *)
LEMMA FlushAll ==
  ASSUME NEW d, DiskOK(d), NEW rows \in Seq(Row), Fits(d, rows), Ascending(rows),
         NEW Y, Oldest(HeldBy(d), Y), Oldest(RowsDone(d), Y), HeldBy(d) \cup RowsIn(rows) \subseteq Y,
         \A r \in RowsIn(rows), s \in Y \ (HeldBy(d) \cup RowsIn(rows)) :
           r.feed = s.feed => r.id < s.id
  PROVE  LET e == Flush(d, rows)
         IN  /\ DiskOK(e) /\ Keeps(d, e) /\ HeldBy(e) = HeldBy(d) \cup RowsIn(rows)
             /\ \A f \in Feed, x \in Nat :
                  Reaches(d, f, x) /\ (\A r \in RowsIn(rows) : r.feed = f => r.hour <= x)
                    => Reaches(e, f, x)
             /\ Oldest(HeldBy(e), Y) /\ Oldest(RowsDone(e), Y)
             /\ InOrder(d) /\ RowsIn(rows) \cap HeldBy(d) = {} => InOrder(e)
<1>1. PICK e : e = FlushTo(d, rows, Len(rows))
  OBVIOUS
<1>2. Len(rows) \in 0..Len(rows) /\ DOMAIN rows = 1..Len(rows)
  OBVIOUS
<1>3. /\ DiskOK(e) /\ Keeps(d, e) /\ HeldBy(e) = HeldBy(d) \cup RowsIn(rows)
      /\ \A f \in Feed, x \in Nat :
           Reaches(d, f, x) /\ (\A i \in 1..Len(rows) : rows[i].feed = f => rows[i].hour <= x)
             => Reaches(e, f, x)
  BY <1>1, <1>2, FlushKeeps, RowsWritten
<1>4. \A i \in 1..Len(rows) : rows[i] \in RowsIn(rows)
  BY <1>2 DEF RowsIn
<1>5. Oldest(HeldBy(e), Y) /\ Oldest(RowsDone(e), Y)
  BY <1>1, <1>2, FlushDone
<1>6. ASSUME InOrder(d), RowsIn(rows) \cap HeldBy(d) = {} PROVE InOrder(e)
  <2>1. Oldest(HeldBy(d), HeldBy(d) \cup RowsIn(rows))
    BY DEF Oldest
  <2> QED
    BY <1>1, <1>2, <1>6, <2>1, FlushOrder
<1>7. Flush(d, rows) = e
  BY <1>1 DEF Flush
<1> QED
  BY <1>3, <1>4, <1>5, <1>6, <1>7

(* What a move does to the disk, whether it keeps the batch, flushes it or *)
(* fails to.                                                               *)
MovedTo(e, rows) ==
  /\ DiskOK(e) /\ Keeps(Disk, e)
  /\ HeldBy(Disk) \subseteq HeldBy(e) /\ HeldBy(e) \subseteq HeldBy(Disk) \cup RowsIn(rows)
  /\ buffer' = rows \/ (buffer' = <<>> /\ HeldBy(e) = HeldBy(Disk) \cup RowsIn(rows))
  /\ \A f \in Feed, x \in Nat :
       Reaches(Disk, f, x) /\ (\A r \in RowsIn(rows) : r.feed = f => r.hour <= x)
         => Reaches(e, f, x)
  /\ \A r \in RowsIn(buffer') : Reaches(e, r.feed, r.hour)
  /\ Oldest(HeldBy(e), All) /\ Oldest(RowsDone(e), All)
  /\ ioFailed => ioFailed'
  /\ ~ ioFailed' => InOrder(e) /\ RowsIn(buffer') \cap HeldBy(e) = {}

(* A batch the consumer has in hand can be written as it stands.           *)
LEMMA MoveFits ==
  ASSUME TypeIInv, RowsIInv, WayIInv, NEW rows, NEW left, Took(rows, left)
  PROVE  /\ rows \in Seq(Row) /\ left \in Seq(Row)
         /\ RowsIn(rows) \cup RowsIn(left) = Lined /\ Lined \subseteq All
         /\ RowsIn(left) \subseteq RowsIn(queue)
         /\ Ascending(rows) /\ Ascending(left) /\ Before(RowsIn(rows), RowsIn(left))
         /\ Fits(Disk, rows)
         /\ \A r \in RowsIn(rows), s \in RowsIn(left) : r.hour <= s.hour
<1>1. queue \in Seq(Row) /\ buffer \in Seq(Row)
  BY DEF TypeIInv, DataIInv
<1>2. /\ rows \in Seq(Row) /\ left \in Seq(Row)
      /\ RowsIn(rows) \cup RowsIn(left) = Lined
      /\ RowsIn(left) \subseteq RowsIn(queue)
      /\ Ascending(rows) /\ Ascending(left) /\ Before(RowsIn(rows), RowsIn(left))
  BY <1>1, TookIs DEF RowsIInv
<1>3. Lined \subseteq All
  BY DEF All
<1>a. \A r, s \in All : r.id < s.id => r.hour <= s.hour
  BY DEF RowsIInv
<1>4. Hours(rows)
  <2> SUFFICES ASSUME NEW i \in DOMAIN rows, NEW j \in DOMAIN rows, i < j
               PROVE  rows[i].hour <= rows[j].hour
    BY DEF Hours
  <2>1. rows[i].id < rows[j].id
    BY <1>2 DEF Ascending
  <2>2. rows[i] \in All /\ rows[j] \in All
    BY <1>2, <1>3 DEF RowsIn
  <2> QED
    BY <1>a, <2>1, <2>2
<1>5. Fits(Disk, rows)
  BY <1>2, <1>4 DEF Fits, WayIInv
<1>6. \A r \in RowsIn(rows), s \in RowsIn(left) : r.hour <= s.hour
  BY <1>2, <1>3, <1>a DEF Before
<1> QED
  BY <1>2, <1>3, <1>5, <1>6

(* Kept, flushed or failed on, the batch leaves the disk as MovedTo says.  *)
LEMMA MoveDisk ==
  ASSUME Undisturbed, TypeIInv, RowsIInv, WayIInv, SavedIInv, NEW rows, NEW left, Took(rows, left),
         Kept(rows) \/ Flushed(rows) \/ Failed(rows)
  PROVE  MovedTo(Disk', rows)
<1>1. /\ rows \in Seq(Row) /\ RowsIn(rows) \cup RowsIn(left) = Lined
      /\ Ascending(rows) /\ Before(RowsIn(rows), RowsIn(left)) /\ Fits(Disk, rows)
  BY MoveFits
<1>2. PICK d : d = Disk
  OBVIOUS
<1>3. /\ DiskOK(d) /\ Oldest(HeldBy(d), All) /\ Oldest(RowsDone(d), All)
      /\ HeldBy(d) \cup RowsIn(rows) \subseteq All /\ Fits(d, rows)
  BY <1>1, <1>2 DEF WayIInv, SavedIInv, All
<1>4. \A r \in RowsIn(rows), s \in All \ (HeldBy(d) \cup RowsIn(rows)) :
         r.feed = s.feed => r.id < s.id
  BY <1>1, <1>2 DEF All, Before
<1>5. \A r \in RowsIn(rows) : r.feed \in Feed /\ r.hour \in Nat /\ Reaches(d, r.feed, r.hour)
  <2>1. \A r \in RowsIn(rows) : r \in Row
    BY <1>1 DEF RowsIn
  <2> QED
    BY <1>3, <2>1, RowTyped DEF Fits
<1>6. ASSUME ~ ioFailed PROVE InOrder(d) /\ RowsIn(rows) \cap HeldBy(d) = {}
  BY <1>1, <1>2, <1>6 DEF SavedIInv, Lined
<1>8. CASE Kept(rows)
  <2>1. PICK e : e = Disk'
    OBVIOUS
  <2>2. Aged(d, e) /\ buffer' = rows /\ ioFailed' = ioFailed
    BY <1>2, <1>8, <2>1 DEF Kept
  <2>3. /\ DiskOK(e) /\ Keeps(d, e) /\ HeldBy(e) = HeldBy(d) /\ RowsDone(e) = RowsDone(d)
        /\ \A f \in Feed : \A x : Reaches(d, f, x) => Reaches(e, f, x)
        /\ InOrder(d) => InOrder(e)
    BY <1>3, <2>2, AgedKeeps
  <2>4. ~ ioFailed' => InOrder(e) /\ RowsIn(buffer') \cap HeldBy(e) = {}
    BY <1>6, <2>2, <2>3
  <2> QED
    BY <1>2, <1>3, <1>5, <2>1, <2>2, <2>3, <2>4 DEF MovedTo
<1>9. CASE Flushed(rows)
  <2>1. PICK c : c = Flush(d, rows)
    OBVIOUS
  <2>2. /\ DiskOK(c) /\ Keeps(d, c) /\ HeldBy(c) = HeldBy(d) \cup RowsIn(rows)
        /\ \A f \in Feed, x \in Nat :
             Reaches(d, f, x) /\ (\A r \in RowsIn(rows) : r.feed = f => r.hour <= x)
               => Reaches(c, f, x)
        /\ Oldest(HeldBy(c), All) /\ Oldest(RowsDone(c), All)
        /\ InOrder(d) /\ RowsIn(rows) \cap HeldBy(d) = {} => InOrder(c)
    BY <1>1, <1>3, <1>4, <2>1, FlushAll
  <2>3. buffer' = <<>> /\ (ioFailed => ioFailed')
    BY <1>9 DEF Flushed
  <2>4. ASSUME NEW e, DiskOK(e), Keeps(c, e), HeldBy(e) = HeldBy(c), e = Disk',
               \A f \in Feed : \A x : Reaches(c, f, x) => Reaches(e, f, x),
               Oldest(RowsDone(e), All), InOrder(c) => InOrder(e)
        PROVE  MovedTo(Disk', rows)
    <3>1. Keeps(d, e)
      BY <2>2, <2>4 DEF Keeps
    <3>2. ~ ioFailed' => InOrder(e) /\ RowsIn(buffer') \cap HeldBy(e) = {}
      BY <1>6, <2>2, <2>3, <2>4, Nothing
    <3>3. \A f \in Feed, x \in Nat :
             Reaches(d, f, x) /\ (\A r \in RowsIn(rows) : r.feed = f => r.hour <= x)
               => Reaches(e, f, x)
      BY <2>2, <2>4
    <3> QED
      BY <1>2, <2>2, <2>3, <2>4, <3>1, <3>2, <3>3, Nothing DEF MovedTo
  <2>5. CASE Disk' = c
    <3>1. Keeps(c, c)
      BY DEF Keeps
    <3> QED
      BY <2>2, <2>4, <2>5, <3>1
  <2>6. CASE \E S \in SUBSET Feed : Disk' = Finalize(c, S)
    <3>1. PICK S \in SUBSET Feed : Disk' = Finalize(c, S)
      BY <2>6
    <3>2. PICK e : e = Finalize(c, S)
      OBVIOUS
    <3>3. /\ DiskOK(e) /\ Keeps(c, e) /\ HeldBy(e) = HeldBy(c)
          /\ \A f \in Feed : \A x : Reaches(c, f, x) => Reaches(e, f, x)
          /\ Oldest(RowsDone(e), All) /\ (InOrder(c) => InOrder(e))
      BY <2>2, <3>2, FinalizeKeeps, FinalizeDone, FinalizeOrder
    <3> QED
      BY <2>4, <3>1, <3>2, <3>3
  <2> QED
    BY <1>2, <1>9, <2>1, <2>5, <2>6 DEF Flushed
<1>10. CASE Failed(rows)
  <2>1. PICK e : e = Disk'
    OBVIOUS
  <2>2. buffer' = rows /\ ioFailed' /\ MayFail(rows) /\ e \in FailedFlushes(d, rows)
    BY <1>2, <1>10, <2>1 DEF Failed
  <2>3. /\ DiskOK(e) /\ Keeps(d, e)
        /\ \E n \in 0..Len(rows) : HeldBy(e) = HeldBy(d) \cup Written(rows, n)
        /\ \A f \in Feed, x \in Nat :
             Reaches(d, f, x) /\ (\A r \in RowsIn(rows) : r.feed = f => r.hour <= x)
               => Reaches(e, f, x)
    BY <1>1, <1>3, <2>2, FailKeeps
  <2>4. HeldBy(d) \subseteq HeldBy(e) /\ HeldBy(e) \subseteq HeldBy(d) \cup RowsIn(rows)
    BY <2>3 DEF Written
  <2>5. Oldest(HeldBy(e), All) /\ Oldest(RowsDone(e), All)
    BY <1>1, <1>3, <1>4, <2>2, FailDone
  <2>6. \A r, s \in RowsIn(rows) : r.feed = s.feed => r.hour = s.hour
    BY <2>2 DEF MayFail, SpansHours, Undisturbed, RowsIn
  <2>7. \A r \in RowsIn(rows) : Reaches(e, r.feed, r.hour)
    <3> SUFFICES ASSUME NEW r \in RowsIn(rows) PROVE Reaches(e, r.feed, r.hour)
      OBVIOUS
    <3>1. \A s \in RowsIn(rows) : s.feed = r.feed => s.hour <= r.hour
      BY <1>5, <2>6
    <3> QED
      BY <1>5, <2>3, <3>1
  <2> QED
    BY <1>2, <2>1, <2>2, <2>3, <2>4, <2>5, <2>7 DEF MovedTo
<1> QED
  BY <1>8, <1>9, <1>10

MainIInv == RowsIInv /\ WayIInv /\ SavedIInv

(* The consumer's steps keep the invariant, and move rows without adding   *)
(* one.                                                                    *)
LEMMA MoveStep ==
  ASSUME Undisturbed, TypeIInv, MainIInv, Moves
  PROVE  MainIInv' /\ All' = All /\ Keeps(Disk, Disk')
<1> USE DEF MainIInv
<1>1. PICK rows, left : /\ Took(rows, left) /\ queue' = left
                        /\ Kept(rows) \/ Flushed(rows) \/ Failed(rows)
  BY DEF Moves
<1>2. PICK d, e : d = Disk /\ e = Disk'
  OBVIOUS
<1>3. MovedTo(e, rows)
  BY <1>1, <1>2, MoveDisk
<1>4. /\ rows \in Seq(Row) /\ left \in Seq(Row)
      /\ RowsIn(rows) \cup RowsIn(left) = Lined /\ Lined \subseteq All
      /\ RowsIn(left) \subseteq RowsIn(queue)
      /\ Ascending(rows) /\ Ascending(left) /\ Before(RowsIn(rows), RowsIn(left))
      /\ \A r \in RowsIn(rows), s \in RowsIn(left) : r.hour <= s.hour
  BY <1>1, MoveFits
<1>5. /\ sink # "dead" /\ sink' # "dead" /\ hour' = hour /\ put' = put
      /\ dropped' = dropped /\ lost' = lost
  BY DEF Moves
<1>6. /\ DiskOK(e) /\ Keeps(d, e)
      /\ HeldBy(d) \subseteq HeldBy(e) /\ HeldBy(e) \subseteq HeldBy(d) \cup RowsIn(rows)
      /\ buffer' = rows \/ (buffer' = <<>> /\ HeldBy(e) = HeldBy(d) \cup RowsIn(rows))
      /\ Oldest(HeldBy(e), All) /\ Oldest(RowsDone(e), All)
  BY <1>2, <1>3 DEF MovedTo
<1>7. /\ \A f \in Feed, x \in Nat :
           Reaches(d, f, x) /\ (\A r \in RowsIn(rows) : r.feed = f => r.hour <= x)
             => Reaches(e, f, x)
      /\ \A r \in RowsIn(buffer') : Reaches(e, r.feed, r.hour)
  BY <1>2, <1>3 DEF MovedTo
<1>8. /\ ioFailed => ioFailed'
      /\ ~ ioFailed' => InOrder(e) /\ RowsIn(buffer') \cap HeldBy(e) = {}
  BY <1>3 DEF MovedTo
<1>9. All' = All
  <2>1. All' = RowsIn(left) \cup RowsIn(buffer') \cup HeldBy(e)
    BY <1>1, <1>2 DEF All, Lined
  <2>2. All = RowsIn(left) \cup RowsIn(rows) \cup HeldBy(d)
    BY <1>2, <1>4 DEF All
  <2>3. CASE buffer' = rows
    BY <1>6, <2>1, <2>2, <2>3
  <2>4. CASE buffer' = <<>> /\ HeldBy(e) = HeldBy(d) \cup RowsIn(rows)
    BY <2>1, <2>2, <2>4, Nothing
  <2> QED
    BY <1>6, <2>3, <2>4
<1>10. RowsIInv'
  <2>1. /\ Ascending(queue') /\ Ascending(buffer') /\ Before(RowsIn(buffer'), RowsIn(queue'))
    BY <1>1, <1>4, <1>6, Nothing
  <2> QED
    BY <1>5, <1>9, <2>1 DEF RowsIInv
<1>11. \A r \in All : r.feed \in Feed /\ r.hour \in Nat /\ r.id \in Nat
  BY AllTyped, RowTyped DEF TypeIInv
<1>12. WayIInv'
  <2>1. ASSUME NEW r \in RowsIn(left) PROVE Reaches(e, r.feed, r.hour)
    <3>1. Reaches(d, r.feed, r.hour)
      BY <1>2, <1>4, <2>1 DEF WayIInv
    <3> QED
      BY <1>4, <1>7, <1>11, <2>1, <3>1
  <2>2. ASSUME NEW f \in Feed PROVE Reaches(e, f, hour)
    <3>1. Reaches(d, f, hour) /\ hour \in Nat
      BY <1>2, <1>5, Bounds DEF WayIInv, TypeIInv, ClockIInv
    <3>2. \A r \in RowsIn(rows) : r.hour <= hour
      BY <1>4 DEF RowsIInv
    <3> QED
      BY <1>7, <3>1, <3>2
  <2>3. Lined' = RowsIn(left) \cup RowsIn(buffer')
    BY <1>1 DEF Lined
  <2>4. \A r \in Lined' : Reaches(e, r.feed, r.hour)
    BY <1>7, <2>1, <2>3
  <2> QED
    BY <1>2, <1>5, <1>6, <2>2, <2>4 DEF WayIInv
<1>13. SavedIInv'
  <2>1. ASSUME NEW r \in RowsIn(left) PROVE r \notin HeldBy(e)
    <3>1. r \notin HeldBy(d)
      BY <1>2, <1>4, <2>1 DEF SavedIInv
    <3>2. r \notin RowsIn(rows)
      BY <1>4, <1>11, <2>1 DEF Before
    <3> QED
      BY <1>6, <3>1, <3>2
  <2>2. ~ ioFailed => dropped \cap lost = {} /\ (dropped \cup lost) \cap IdsOf(All) = {}
    BY DEF SavedIInv
  <2>3. 1..put = dropped \cup lost \cup IdsOf(All)
    BY DEF SavedIInv
  <2> QED
    BY <1>1, <1>2, <1>5, <1>6, <1>8, <1>9, <2>1, <2>2, <2>3 DEF SavedIInv
<1> QED
  BY <1>2, <1>6, <1>9, <1>10, <1>12, <1>13

(* A row put is the youngest; the one evicted for it is dropped.           *)
LEMMA PutStep ==
  ASSUME TypeIInv, MainIInv, NEW f \in Feed, Put(f)
  PROVE  MainIInv'
<1> USE DEF MainIInv
<1>1. PICK row : row = [id |-> put + 1, feed |-> f, hour |-> hour]
  OBVIOUS
<1>2. Ascending(queue) /\ Ascending(buffer) /\ Before(RowsIn(buffer), RowsIn(queue))
  BY DEF RowsIInv
<1>3. PICK out \in SUBSET Row :
        /\ out = {} \/ \E x \in RowsIn(queue) : out = {x}
        /\ dropped' = dropped \cup {r.id : r \in out}
        /\ RowsIn(queue') = (RowsIn(queue) \ out) \cup {row}
  BY <1>1, <1>2, PutIs DEF TypeIInv
<1>4. /\ row \in Row /\ sink # "dead" /\ sink' = sink /\ put' = put + 1 /\ hour' = hour
      /\ buffer' = buffer /\ Disk' = Disk /\ lost' = lost /\ ioFailed' = ioFailed
      /\ Ascending(queue')
  BY <1>1, <1>2, PutIs DEF TypeIInv
<1>5. row.id = put + 1 /\ row.feed = f /\ row.hour = hour
  BY <1>1
<1>6. /\ put \in Nat /\ hour \in Nat
      /\ \A r \in All : r.id \in 1..put /\ r.hour \in Nat /\ r.id \in Nat
  BY AllTyped, RowTyped, Bounds DEF TypeIInv, ClockIInv
<1>7. \A r \in All : r.id < row.id /\ r # row
  BY <1>5, <1>6
<1>8. out \subseteq RowsIn(queue) /\ out \subseteq All
  BY <1>3 DEF All, Lined
<1>9. \A x \in out : x \notin RowsIn(buffer) /\ x \notin HeldBy(Disk)
  <2>1. RowsIn(queue) \cap HeldBy(Disk) = {}
    BY DEF SavedIInv
  <2> QED
    BY <1>2, <1>6, <1>8, <2>1 DEF Before
<1>10. Lined' = (Lined \ out) \cup {row} /\ All' = (All \ out) \cup {row}
  <2>1. Lined' = RowsIn(queue') \cup RowsIn(buffer) /\ All' = Lined' \cup HeldBy(Disk)
    BY <1>4 DEF Lined, All
  <2>2. Lined' = (Lined \ out) \cup {row}
    BY <1>3, <1>9, <2>1 DEF Lined
  <2> QED
    BY <1>9, <2>1, <2>2 DEF All
<1>11. /\ \A r \in All : r.hour <= hour
       /\ \A r, s \in All : r.id = s.id => r = s
       /\ \A r, s \in All : r.id < s.id => r.hour <= s.hour
  BY DEF RowsIInv
<1>12. RowsIInv'
  <2>1. Before(RowsIn(buffer'), RowsIn(queue'))
    <3>1. \A r \in RowsIn(buffer) : r \in All
      BY DEF All, Lined
    <3> QED
      BY <1>2, <1>3, <1>4, <1>7, <3>1 DEF Before
  <2>2. \A r \in All' : r.hour <= hour
    BY <1>5, <1>6, <1>10, <1>11
  <2>3. ASSUME NEW r \in All', NEW s \in All' PROVE r.id = s.id => r = s
    <3>1. CASE r \in All /\ s \in All
      BY <1>11, <3>1
    <3>2. CASE r = row \/ s = row
      BY <1>5, <1>6, <1>7, <1>10, <3>2
    <3> QED
      BY <1>10, <3>1, <3>2
  <2>4. ASSUME NEW r \in All', NEW s \in All', r.id < s.id PROVE r.hour <= s.hour
    <3>1. CASE r \in All /\ s \in All
      BY <1>11, <2>4, <3>1
    <3>2. CASE s = row
      BY <1>5, <2>2, <3>2
    <3>3. CASE r = row /\ s \in All
      BY <1>5, <1>6, <1>7, <2>4, <3>3
    <3> QED
      BY <1>10, <3>1, <3>2, <3>3
  <2> QED
    BY <1>2, <1>4, <2>1, <2>2, <2>3, <2>4 DEF RowsIInv
<1>13. WayIInv'
  <2>1. \A r \in Lined : Reaches(Disk, r.feed, r.hour)
    BY DEF WayIInv
  <2>2. DiskOK(Disk) /\ \A g \in Feed : Reaches(Disk, g, hour)
    BY <1>4 DEF WayIInv
  <2>3. \A r \in Lined' : Reaches(Disk, r.feed, r.hour)
    BY <1>5, <1>10, <2>1, <2>2
  <2> QED
    BY <1>4, <2>2, <2>3 DEF WayIInv
<1>14. SavedIInv'
  <2>1. /\ Oldest(HeldBy(Disk), All) /\ Oldest(RowsDone(Disk), All)
        /\ RowsIn(queue) \cap HeldBy(Disk) = {}
        /\ 1..put = dropped \cup lost \cup IdsOf(All)
        /\ HeldBy(Disk) \subseteq All /\ RowsDone(Disk) \subseteq All
    BY DoneIs DEF SavedIInv, All
  <2>2. Oldest(HeldBy(Disk), All') /\ Oldest(RowsDone(Disk), All')
    BY <1>7, <1>10, <2>1 DEF Oldest
  <2>3. RowsIn(queue') \cap HeldBy(Disk) = {}
    BY <1>3, <1>7, <2>1
  <2>4. IdsOf(All') = (IdsOf(All) \ {r.id : r \in out}) \cup {put + 1}
    <3>1. ASSUME NEW r \in All, NEW x \in out, r.id = x.id PROVE r = x
      BY <1>8, <1>11, <3>1
    <3> QED
      BY <1>5, <1>8, <1>10, <3>1 DEF IdsOf
  <2>5. {r.id : r \in out} \subseteq IdsOf(All)
    BY <1>8 DEF IdsOf
  <2>6. 1..put + 1 = dropped' \cup lost' \cup IdsOf(All')
    <3>1. 1..put + 1 = 1..put \cup {put + 1}
      BY <1>6
    <3> QED
      BY <1>3, <1>4, <2>1, <2>4, <2>5, <3>1
  <2>7. ASSUME ~ ioFailed
        PROVE  /\ InOrder(Disk) /\ RowsIn(buffer) \cap HeldBy(Disk) = {}
               /\ dropped' \cap lost' = {} /\ (dropped' \cup lost') \cap IdsOf(All') = {}
    <3>1. /\ InOrder(Disk) /\ RowsIn(buffer) \cap HeldBy(Disk) = {}
          /\ dropped \cap lost = {} /\ (dropped \cup lost) \cap IdsOf(All) = {}
      BY <2>7 DEF SavedIInv
    <3>2. put + 1 \notin dropped \cup lost \cup IdsOf(All)
      BY <1>6, <2>1
    <3> QED
      BY <1>3, <1>4, <2>4, <2>5, <3>1, <3>2
  <2> QED
    BY <1>4, <2>2, <2>3, <2>6, <2>7 DEF SavedIInv
<1> QED
  BY <1>12, <1>13, <1>14

(* The clock only goes forward, past every file there is.                  *)
LEMMA HourStep ==
  ASSUME Undisturbed, TypeIInv, MainIInv, NewHour
  PROVE  MainIInv'
<1> USE DEF MainIInv
<1>1. /\ hour' > hour /\ hour' \in Nat /\ hour \in Nat
      /\ Disk' = Disk /\ Lined' = Lined /\ All' = All /\ sink' = sink
      /\ queue' = queue /\ buffer' = buffer /\ put' = put
      /\ dropped' = dropped /\ lost' = lost /\ ioFailed' = ioFailed
  <2>1. hour' > hour /\ hour' \in 1..MaxHour /\ hour \in 1..MaxHour
    BY DEF NewHour, Undisturbed, TypeIInv, ClockIInv
  <2>2. /\ queue' = queue /\ buffer' = buffer /\ put' = put /\ sink' = sink
        /\ writer' = writer /\ files' = files
        /\ dropped' = dropped /\ lost' = lost /\ ioFailed' = ioFailed
    BY DEF NewHour, consumerVars, diskVars, historyVars
  <2> QED
    BY <2>1, <2>2, Bounds DEF Disk, Lined, All
<1>2. \A r \in All : r.hour \in Nat
  BY AllTyped, RowTyped DEF TypeIInv
<1>3. RowsIInv'
  <2>1. \A r \in All : r.hour <= hour'
    BY <1>1, <1>2 DEF RowsIInv
  <2> QED
    BY <1>1, <2>1 DEF RowsIInv
<1>4. DiskTyped(Disk)
  BY DEF TypeIInv, DataIInv
<1>5. ASSUME NEW f \in Feed, sink # "dead" PROVE Reaches(Disk, f, hour')
  <2>1. Reaches(Disk, f, hour)
    BY <1>5 DEF WayIInv
  <2>2. Disk.writer[f].hour \in Nat /\ \A k \in DOMAIN Disk.files : k[2] \in Nat
    BY <1>4, WriterTyped, FilesTyped
  <2> QED
    BY <1>1, <2>1, <2>2 DEF Reaches
<1>6. WayIInv'
  BY <1>1, <1>5 DEF WayIInv
<1>7. SavedIInv'
  BY <1>1 DEF SavedIInv
<1> QED
  BY <1>3, <1>6, <1>7

(* A process that dies leaves final files, and the rest is lost.           *)
LEMMA DieStep ==
  ASSUME TypeIInv, MainIInv, Die
  PROVE  MainIInv' /\ Keeps(Disk, Disk')
<1> USE DEF MainIInv
<1>1. DataIInv /\ DiskTyped(Disk)
  BY DEF TypeIInv, DataIInv
<1>2. PICK d, e : d = Disk /\ e = Disk'
  OBVIOUS
<1>3. /\ DiskTyped(e) /\ queue' = <<>> /\ buffer' = <<>> /\ files' = files
      /\ writer' = [f \in Feed |-> NewWriter] /\ sink' = "dead"
      /\ Lined' = {} /\ HeldBy(e) = RowsDone(d) /\ RowsDone(e) = RowsDone(d)
      /\ hour' = hour /\ put' = put /\ dropped' = dropped /\ ioFailed' = ioFailed
      /\ lost' = lost \cup (IdsOf(All) \ IdsOf(RowsDone(d)))
  BY <1>1, <1>2, DieIs
<1>4. /\ e.files = d.files
      /\ \A f \in Feed : /\ ~ e.writer[f].open /\ e.writer[f].hour = 0
                        /\ e.writer[f].rows = <<>>
  BY <1>2, <1>3 DEF Disk, NewWriter
<1>5. All' = RowsDone(d) /\ RowsDone(d) \subseteq All
  BY <1>2, <1>3, DoneIs DEF All
<1>6. RowsIInv'
  BY <1>3, <1>5, Nothing DEF RowsIInv
<1>7. \A k \in DOMAIN e.files : k[2] # 0 /\ k[1] \in Feed
  <2>1. \A k \in DOMAIN e.files : k[2] \in 1..MaxHour /\ k[1] \in Feed
    BY <1>3, FilesTyped
  <2> QED
    BY <2>1
<1>8. DiskOK(e)
  <2>1. \A f \in Feed : WriterOK(e, f)
    BY <1>4, <1>7, Nothing DEF WriterOK
  <2>2. \A k \in DOMAIN e.files : FileOK(e, k)
    BY <1>2, <1>4 DEF WayIInv, DiskOK, FileOK
  <2> QED
    BY <1>3, <2>1, <2>2 DEF DiskOK
<1>9. WayIInv'
  BY <1>2, <1>3, <1>8 DEF WayIInv
<1>10. Oldest(RowsDone(d), RowsDone(d))
  BY DEF Oldest
<1>11. 1..put = dropped \cup lost' \cup IdsOf(RowsDone(d))
  <2>1. 1..put = dropped \cup lost \cup IdsOf(All)
    BY DEF SavedIInv
  <2>2. IdsOf(RowsDone(d)) \subseteq IdsOf(All)
    BY <1>5 DEF IdsOf
  <2> QED
    BY <1>3, <2>1, <2>2
<1>12. ASSUME ~ ioFailed
       PROVE  /\ InOrder(e) /\ dropped \cap lost' = {}
              /\ (dropped \cup lost') \cap IdsOf(RowsDone(d)) = {}
  <2>1. /\ InOrder(d) /\ dropped \cap lost = {} /\ (dropped \cup lost) \cap IdsOf(All) = {}
    BY <1>2, <1>12 DEF SavedIInv
  <2>2. IdsOf(RowsDone(d)) \subseteq IdsOf(All)
    BY <1>5 DEF IdsOf
  <2>3. InOrder(e)
    BY <1>4, <1>7, <2>1, Nothing DEF InOrder
  <2> QED
    BY <1>3, <2>1, <2>2, <2>3
<1>13. SavedIInv'
  BY <1>2, <1>3, <1>5, <1>10, <1>11, <1>12, Nothing DEF SavedIInv
<1>14. Keeps(d, e)
  BY <1>4 DEF Keeps
<1> QED
  BY <1>2, <1>6, <1>9, <1>13, <1>14

(* A new process starts in an hour that has no files yet.                  *)
LEMMA RestartStep ==
  ASSUME Undisturbed, TypeIInv, MainIInv, Restart
  PROVE  MainIInv'
<1> USE DEF MainIInv
<1>1. /\ Disk' = Disk /\ Lined' = Lined /\ All' = All /\ hour' = hour
      /\ queue' = queue /\ buffer' = buffer /\ put' = put
      /\ dropped' = dropped /\ lost' = lost /\ ioFailed' = ioFailed
  BY DEF Restart, diskVars, historyVars, Disk, Lined, All
<1>2. RowsIInv' /\ SavedIInv'
  BY <1>1 DEF RowsIInv, SavedIInv
<1>3. ASSUME NEW f \in Feed PROVE Reaches(Disk, f, hour)
  <2>1. sink = "dead" /\ \A k \in DOMAIN files : k[2] < hour
    BY DEF Restart, Undisturbed
  <2>2. writer[f].hour = 0
    BY <2>1 DEF TypeIInv, DataIInv, NewWriter
  <2>3. 0 <= hour
    BY Bounds DEF TypeIInv, ClockIInv
  <2> QED
    BY <2>1, <2>2, <2>3 DEF Reaches, Disk
<1>4. WayIInv'
  BY <1>1, <1>3 DEF WayIInv
<1> QED
  BY <1>2, <1>4

(* Only Finish ends the sink well, and it closes every writer.             *)
LEMMA EndStep ==
  ASSUME TypeIInv, MainIInv, EndIInv, [SinkNext]_sinkVars
  PROVE  EndIInv'
<1> USE DEF MainIInv
<1>1. CASE Tick
  BY <1>1 DEF Tick, EndIInv
<1>2. ASSUME UNCHANGED <<sink, buffer, writer, ioFailed>> PROVE EndIInv'
  BY <1>2 DEF EndIInv
<1>3. CASE NewHour \/ UNCHANGED sinkVars
  BY <1>2, <1>3 DEF NewHour, consumerVars, diskVars, historyVars, sinkVars
<1>4. ASSUME NEW f \in Feed, Put(f) PROVE EndIInv'
  BY <1>2, <1>4 DEF Put, consumerVars, diskVars
<1>5. CASE Wait \/ GetRow \/ TimeOut
  BY <1>5 DEF Wait, GetRow, TimeOut, Waiting, EndIInv
<1>6. CASE FlushFails \/ WatchdogFires \/ CancelSink \/ Die \/ Restart
  BY <1>6 DEF FlushFails, WatchdogFires, CancelSink, Die, Restart, EndIInv
<1>7. CASE Finish
  <2>1. PICK d : d = Flush(Disk, buffer)
    OBVIOUS
  <2>2. /\ buffer' = <<>>
        /\ writer' = Finalize(IF buffer = <<>> THEN Disk ELSE Flush(Disk, buffer), Feed).writer
    BY <1>7 DEF Finish, SetDisk
  <2>3. Took(buffer, queue)
    BY DEF Took
  <2>4. buffer \in Seq(Row) /\ Fits(Disk, buffer) /\ DiskOK(Disk)
    BY <2>3, MoveFits DEF WayIInv
  <2>5. Len(buffer) \in 0..Len(buffer)
    BY <2>4
  <2>6. DiskOK(d)
    BY <2>1, <2>4, <2>5, FlushKeeps DEF Flush
  <2>7. buffer = <<>> => d = Disk
    BY <2>1, <2>4, FlushTyped DEF DiskOK
  <2>8. writer' = Finalize(d, Feed).writer
    BY <2>1, <2>2, <2>7
  <2>9. ASSUME NEW f \in Feed PROVE writer'[f].rows = <<>>
    <3>1. Finalize(d, Feed).writer[f].rows =
            IF d.writer[f].open THEN <<>> ELSE d.writer[f].rows
      BY <2>6, FinalizeIs DEF DiskOK
    <3>2. d.writer[f].open \/ d.writer[f].rows = <<>>
      BY <2>6 DEF DiskOK, WriterOK
    <3> QED
      BY <2>8, <3>1, <3>2
  <2> QED
    BY <2>2, <2>9 DEF EndIInv
<1>8. CASE FinishFails
  BY <1>8 DEF FinishFails, EndIInv
<1> QED
  BY <1>1, <1>3, <1>4, <1>5, <1>6, <1>7, <1>8 DEF SinkNext

(* The invariant holds of an empty disk.                                   *)
LEMMA MainInit ==
  ASSUME SinkInit
  PROVE  MainIInv /\ EndIInv
<1>1. PICK d : d = Disk
  OBVIOUS
<1>2. /\ d = [writer |-> [f \in Feed |-> NewWriter], files |-> <<>>] /\ DOMAIN d.files = {}
      /\ \A f \in Feed : /\ ~ d.writer[f].open /\ d.writer[f].hour = 0
                        /\ d.writer[f].rows = <<>>
      /\ queue = <<>> /\ buffer = <<>> /\ put = 0 /\ hour = 1 /\ sink = "running"
      /\ dropped = {} /\ lost = {}
  BY <1>1 DEF SinkInit, Disk, NewWriter
<1>3. DiskTyped(d)
  BY <1>1, TypeInit DEF TypeIInv, DataIInv
<1>4. HeldBy(d) = {} /\ RowsDone(d) = {}
  BY <1>2, Nothing, HeldIs, DoneIs
<1>5. Lined = {} /\ All = {}
  BY <1>1, <1>2, <1>4, Nothing DEF Lined, All
<1>6. RowsIInv
  BY <1>2, <1>5, Nothing DEF RowsIInv
<1>7. DiskOK(d)
  BY <1>2, <1>3, Nothing DEF DiskOK, WriterOK
<1>8. \A f \in Feed : Reaches(d, f, 1)
  BY <1>2 DEF Reaches
<1>9. WayIInv
  BY <1>1, <1>2, <1>5, <1>7, <1>8 DEF WayIInv
<1>10. InOrder(d)
  BY <1>2, Nothing DEF InOrder
<1>11. SavedIInv
  <2>1. 1..0 = {} /\ IdsOf({}) = {}
    BY DEF IdsOf
  <2>2. \A Y : Oldest({}, Y)
    BY DEF Oldest
  <2> QED
    BY <1>1, <1>2, <1>4, <1>5, <1>10, <2>1, <2>2, Nothing DEF SavedIInv
<1>12. EndIInv
  BY <1>2 DEF EndIInv
<1> QED
  BY <1>6, <1>9, <1>11, <1>12 DEF MainIInv

(* Every step keeps the invariant, and what is finalized.                  *)
LEMMA SinkStep ==
  ASSUME SinkIInv, [SinkNext]_sinkVars
  PROVE  SinkIInv' /\ Keeps(Disk, Disk')
<1>1. Undisturbed /\ TypeIInv /\ MainIInv /\ EndIInv
  BY DEF SinkIInv, MainIInv
<1>2. Undisturbed' /\ TypeIInv' /\ EndIInv'
  BY <1>1, TypeStep, EndStep DEF Undisturbed
<1> SUFFICES MainIInv' /\ Keeps(Disk, Disk')
  BY <1>2 DEF SinkIInv, MainIInv
<1>3. ASSUME UNCHANGED <<writer, files>> PROVE Keeps(Disk, Disk')
  <2>1. Disk' = Disk
    BY <1>3 DEF Disk
  <2> QED
    BY <2>1 DEF Keeps
<1>4. CASE Moves
  BY <1>1, <1>4, MoveStep
<1>5. CASE NewHour
  BY <1>1, <1>3, <1>5, HourStep DEF NewHour, diskVars
<1>6. ASSUME NEW f \in Feed, Put(f) PROVE MainIInv' /\ Keeps(Disk, Disk')
  BY <1>1, <1>3, <1>6, PutStep DEF Put, diskVars
<1>7. CASE Die
  BY <1>1, <1>7, DieStep
<1>8. CASE Restart
  BY <1>1, <1>3, <1>8, RestartStep DEF Restart, diskVars
<1>9. CASE UNCHANGED sinkVars
  <2>1. /\ Disk' = Disk /\ Lined' = Lined /\ All' = All /\ hour' = hour /\ put' = put
        /\ queue' = queue /\ buffer' = buffer /\ sink' = sink
        /\ dropped' = dropped /\ lost' = lost /\ ioFailed' = ioFailed
    BY <1>9 DEF sinkVars, Disk, Lined, All
  <2>2. MainIInv'
    BY <1>1, <2>1 DEF MainIInv, RowsIInv, WayIInv, SavedIInv
  <2> QED
    BY <1>3, <1>9, <2>2 DEF sinkVars
<1>10. ClockIInv /\ DataIInv
  BY <1>1 DEF TypeIInv
<1> QED
  BY <1>4, <1>5, <1>6, <1>7, <1>8, <1>9, <1>10, KindsOfStep

(* Sets of rows with no row in common have no number in common.            *)
LEMMA IdsApart ==
  ASSUME RowsIInv, NEW X, X \subseteq All, NEW Y, Y \subseteq All, X \cap Y = {}
  PROVE  IdsOf(X) \cap IdsOf(Y) = {}
BY DEF RowsIInv, IdsOf

(* Unless writing has failed, no row is in two files, or in a file and in  *)
(* a writer.                                                               *)
LEMMA FilesApart ==
  ASSUME TypeIInv, WayIInv, InOrder(Disk)
  PROVE  /\ RowsOpen(Disk) \cap RowsDone(Disk) = {}
         /\ \A k, l \in DOMAIN files : k # l => RowsIn(files[k]) \cap RowsIn(files[l]) = {}
<1>1. PICK d : d = Disk
  OBVIOUS
<1>2. DiskOK(d) /\ InOrder(d) /\ d.files = files
  BY <1>1 DEF WayIInv, Disk
<1>3. ASSUME NEW k \in DOMAIN d.files, NEW r \in RowsIn(d.files[k])
      PROVE  r.feed = k[1] /\ r.hour = k[2] /\ r.id \in Nat
  <2>1. d.files[k] \in Seq(Row)
    BY <1>2, FilesTyped DEF DiskOK
  <2>2. r \in Row
    BY <2>1 DEF RowsIn
  <2>3. GroupOf(r) = <<k[1], k[2]>>
    BY <1>2 DEF DiskOK, FileOK
  <2> QED
    BY <2>2, <2>3, RowTyped DEF GroupOf
<1>4. ASSUME NEW f \in Feed, NEW r \in RowsIn(d.writer[f].rows) PROVE r.feed = f
  BY <1>2 DEF DiskOK, WriterOK, GroupOf
<1>5. ASSUME NEW f \in Feed, NEW k \in DOMAIN d.files, NEW r,
             r \in RowsIn(d.writer[f].rows), r \in RowsIn(d.files[k])
      PROVE  FALSE
  <2>1. f = k[1] /\ r.id \in Nat
    BY <1>3, <1>4, <1>5
  <2>2. r.id < r.id
    BY <1>2, <1>5, <2>1 DEF InOrder, Before
  <2> QED
    BY <2>1, <2>2
<1>6. RowsOpen(d) \cap RowsDone(d) = {}
  <2>1. \A r : r \in RowsOpen(d) <=> \E f \in Feed : r \in RowsIn(d.writer[f].rows)
    BY DEF RowsOpen
  <2> QED
    BY <1>5, <2>1, DoneIs
<1>7. ASSUME NEW k \in DOMAIN d.files, NEW l \in DOMAIN d.files, k # l,
             NEW r, r \in RowsIn(d.files[k]), r \in RowsIn(d.files[l])
      PROVE  FALSE
  <2>1. k[1] = l[1] /\ k[2] = l[2] /\ r.id \in Nat
    BY <1>3, <1>7
  <2>2. k = <<k[1], k[2], k[3]>> /\ l = <<l[1], l[2], l[3]>> /\ k[3] \in Nat /\ l[3] \in Nat
    BY <1>2, FilesTyped DEF DiskOK
  <2>3. k[3] < l[3] \/ l[3] < k[3]
    BY <1>7, <2>1, <2>2
  <2>4. r.id < r.id
    BY <1>2, <1>7, <2>1, <2>3 DEF InOrder, Before
  <2> QED
    BY <2>1, <2>4
<1> QED
  BY <1>1, <1>2, <1>6, <1>7

(* The invariant gives each of the properties.                             *)
LEMMA AccountedNow ==
  ASSUME SinkIInv
  PROVE  RowsAccounted
<1> USE DEF SinkIInv
<1>1. 1..put = dropped \cup lost \cup InMemory \cup OnTheWay \cup OnDisk
  <2>1. 1..put = dropped \cup lost \cup IdsOf(All)
    BY DEF SavedIInv
  <2> QED
    BY <2>1, IdsIn
<1>2. ASSUME ~ ioFailed
      PROVE  LET places == <<dropped, lost, Ids(queue), Ids(buffer), OnTheWay, OnDisk>>
             IN /\ \A i, j \in DOMAIN places : i # j => places[i] \cap places[j] = {}
                /\ \A k, l \in DOMAIN files : k # l => Ids(files[k]) \cap Ids(files[l]) = {}
  <2>1. /\ RowsIn(queue) \subseteq All /\ RowsIn(buffer) \subseteq All
        /\ RowsOpen(Disk) \subseteq All /\ RowsDone(Disk) \subseteq All
    BY DEF All, Lined, HeldBy
  <2>2. RowsOpen(Disk) \subseteq HeldBy(Disk) /\ RowsDone(Disk) \subseteq HeldBy(Disk)
    BY DEF HeldBy
  <2>3. /\ InOrder(Disk) /\ RowsIn(queue) \cap HeldBy(Disk) = {}
        /\ RowsIn(buffer) \cap HeldBy(Disk) = {}
        /\ dropped \cap lost = {} /\ (dropped \cup lost) \cap IdsOf(All) = {}
    BY <1>2 DEF SavedIInv
  <2>4. RowsIn(queue) \cap RowsIn(buffer) = {}
    <3>1. \A r \in All : r.id \in Nat
      BY AllTyped DEF TypeIInv
    <3> QED
      BY <2>1, <3>1 DEF RowsIInv, Before
  <2>5. /\ RowsOpen(Disk) \cap RowsDone(Disk) = {}
        /\ \A k, l \in DOMAIN files : k # l => RowsIn(files[k]) \cap RowsIn(files[l]) = {}
    BY <2>3, FilesApart
  <2>6. \A k \in DOMAIN files : RowsIn(files[k]) \subseteq All
    <3>1. \A k \in DOMAIN files : RowsIn(files[k]) \subseteq RowsDone(Disk)
      BY DEF RowsDone, Disk
    <3> QED
      BY <2>1, <3>1
  <2>7. \A k, l \in DOMAIN files : k # l => Ids(files[k]) \cap Ids(files[l]) = {}
    BY <2>5, <2>6, IdsApart, IdsIn
  <2>8. PICK q, b, o, f : /\ q = Ids(queue) /\ b = Ids(buffer) /\ o = OnTheWay /\ f = OnDisk
    OBVIOUS
  <2>9. /\ q = IdsOf(RowsIn(queue)) /\ b = IdsOf(RowsIn(buffer))
        /\ o = IdsOf(RowsOpen(Disk)) /\ f = IdsOf(RowsDone(Disk))
    BY <2>8, IdsIn
  <2>10. \A X : X \subseteq All => IdsOf(X) \subseteq IdsOf(All)
    BY DEF IdsOf
  <2>11. /\ dropped \cap q = {} /\ dropped \cap b = {} /\ dropped \cap o = {} /\ dropped \cap f = {}
         /\ lost \cap q = {} /\ lost \cap b = {} /\ lost \cap o = {} /\ lost \cap f = {}
    <3>1. q \cup b \cup o \cup f \subseteq IdsOf(All)
      BY <2>1, <2>9, <2>10
    <3> QED
      BY <2>3, <3>1
  <2>12. q \cap b = {}
    BY <2>1, <2>4, <2>9, IdsApart
  <2>13. q \cap o = {} /\ q \cap f = {}
    BY <2>1, <2>2, <2>3, <2>9, IdsApart
  <2>14. b \cap o = {} /\ b \cap f = {}
    BY <2>1, <2>2, <2>3, <2>9, IdsApart
  <2>15. o \cap f = {}
    BY <2>1, <2>5, <2>9, IdsApart
  <2>16. PICK p : p = <<dropped, lost, q, b, o, f>>
    OBVIOUS
  <2>17. \A i, j \in DOMAIN p : i # j => p[i] \cap p[j] = {}
    <3>1. /\ DOMAIN p = 1..6 /\ p[1] = dropped /\ p[2] = lost /\ p[3] = q /\ p[4] = b
          /\ p[5] = o /\ p[6] = f
      BY <2>16
    <3>2. \A i \in DOMAIN p : i = 1 \/ i = 2 \/ i = 3 \/ i = 4 \/ i = 5 \/ i = 6
      BY <3>1
    <3>3. \A X, Y : X \cap Y = Y \cap X
      OBVIOUS
    <3> QED
      BY <2>3, <2>11, <2>12, <2>13, <2>14, <2>15, <3>1, <3>2, <3>3
  <2> QED
    BY <2>7, <2>8, <2>16, <2>17
<1> QED
  BY <1>1, <1>2 DEF RowsAccounted

LEMMA InOrderNow ==
  ASSUME SinkIInv
  PROVE  FilesInOrder
<1>1. /\ Disk.files = files /\ DiskOK(Disk) /\ (~ ioFailed => InOrder(Disk))
  BY DEF SinkIInv, WayIInv, SavedIInv, Disk
<1> SUFFICES ASSUME NEW k \in DOMAIN files
             PROVE  /\ \A i \in DOMAIN files[k] : GroupOf(files[k][i]) = <<k[1], k[2]>>
                    /\ ~ ioFailed =>
                         /\ \A i, j \in DOMAIN files[k] : i < j => files[k][i].id < files[k][j].id
                         /\ \A l \in DOMAIN files :
                              k[1] = l[1] /\ k[2] = l[2] /\ k[3] < l[3] =>
                                \A a \in Ids(files[k]), b \in Ids(files[l]) : a < b
  BY DEF FilesInOrder
<1>2. \A i \in DOMAIN files[k] : GroupOf(files[k][i]) = <<k[1], k[2]>>
  BY <1>1 DEF DiskOK, FileOK, RowsIn
<1>3. ASSUME ~ ioFailed
      PROVE  \A i, j \in DOMAIN files[k] : i < j => files[k][i].id < files[k][j].id
  BY <1>1, <1>3 DEF InOrder, Ascending
<1>4. ASSUME ~ ioFailed, NEW l \in DOMAIN files, k[1] = l[1], k[2] = l[2], k[3] < l[3]
      PROVE  \A a \in Ids(files[k]), b \in Ids(files[l]) : a < b
  <2>1. Before(RowsIn(files[k]), RowsIn(files[l]))
    BY <1>1, <1>4 DEF InOrder
  <2> QED
    BY <2>1, IdsIn DEF IdsOf, Before
<1> QED
  BY <1>2, <1>3, <1>4

LEMMA WrittenNow ==
  ASSUME SinkIInv
  PROVE  EndedMeansWritten
<1> SUFFICES ASSUME sink = "ended", ~ ioFailed
             PROVE  1..put = dropped \cup lost \cup Ids(queue) \cup OnDisk
  BY DEF EndedMeansWritten
<1>1. buffer = <<>> /\ \A f \in Feed : writer[f].rows = <<>>
  BY DEF SinkIInv, EndIInv
<1>2. RowsIn(buffer) = {} /\ RowsOpen(Disk) = {}
  BY <1>1, Nothing DEF RowsOpen, Disk
<1>3. All = RowsIn(queue) \cup RowsDone(Disk)
  BY <1>2 DEF All, Lined, HeldBy
<1>4. IdsOf(All) = Ids(queue) \cup OnDisk
  <2>1. \A x : x \in IdsOf(All) <=> x \in IdsOf(RowsIn(queue)) \/ x \in IdsOf(RowsDone(Disk))
    BY <1>3 DEF IdsOf
  <2> QED
    BY <2>1, IdsIn
<1> QED
  BY <1>4 DEF SinkIInv, SavedIInv

LEMMA SurviveNow ==
  ASSUME SinkIInv, [SinkNext]_sinkVars
  PROVE  \A k \in DOMAIN files : k \in DOMAIN files' /\ Ids(files[k]) \subseteq Ids(files'[k])
<1>1. Disk.files = files /\ Disk'.files = files'
  BY DEF Disk
<1> QED
  BY <1>1, SinkStep DEF Keeps

(* Every row put is in one place, and in one only: between the queue, the  *)
(* batch, an open file and a finalized one none is skipped or repeated, as *)
(* long as no hour with files comes again and no flush across hours fails. *)
THEOREM EveryRowAccounted == Undisturbed /\ SinkSpec => []RowsAccounted
<1>1. SinkInit /\ Undisturbed => SinkIInv
  BY TypeInit, MainInit DEF SinkIInv, MainIInv
<1>2. SinkIInv /\ [SinkNext]_sinkVars => SinkIInv'
  BY SinkStep
<1>3. SinkIInv => RowsAccounted
  BY AccountedNow
<1> QED
  BY <1>1, <1>2, <1>3, PTL DEF SinkSpec

(* A file's rows are of its feed and hour and in their order, and so are   *)
(* the files of one hour.                                                  *)
THEOREM FilesStayInOrder == Undisturbed /\ SinkSpec => []FilesInOrder
<1>1. SinkInit /\ Undisturbed => SinkIInv
  BY TypeInit, MainInit DEF SinkIInv, MainIInv
<1>2. SinkIInv /\ [SinkNext]_sinkVars => SinkIInv'
  BY SinkStep
<1>3. SinkIInv => FilesInOrder
  BY InOrderNow
<1> QED
  BY <1>1, <1>2, <1>3, PTL DEF SinkSpec

(* A run that ends without an I/O error, however it was stopped, has       *)
(* finalized every row it took off the queue.                              *)
THEOREM ShutdownWritesAll == Undisturbed /\ SinkSpec => []EndedMeansWritten
<1>1. SinkInit /\ Undisturbed => SinkIInv
  BY TypeInit, MainInit DEF SinkIInv, MainIInv
<1>2. SinkIInv /\ [SinkNext]_sinkVars => SinkIInv'
  BY SinkStep
<1>3. SinkIInv => EndedMeansWritten
  BY WrittenNow
<1> QED
  BY <1>1, <1>2, <1>3, PTL DEF SinkSpec

(* No step, a crash or a restart among them, takes a row out of a          *)
(* finalized file.                                                         *)
THEOREM FilesSurvive == Undisturbed /\ SinkSpec => FinalizedRowsSurvive
<1>1. SinkInit /\ Undisturbed => SinkIInv
  BY TypeInit, MainInit DEF SinkIInv, MainIInv
<1>2. SinkIInv /\ [SinkNext]_sinkVars => SinkIInv'
  BY SinkStep
<1>3. SinkIInv /\ [SinkNext]_sinkVars =>
        [\A k \in DOMAIN files :
            k \in DOMAIN files' /\ Ids(files[k]) \subseteq Ids(files'[k])]_sinkVars
  BY SurviveNow
<1> QED
  BY <1>1, <1>2, <1>3, PTL DEF SinkSpec, FinalizedRowsSurvive

-----------------------------------------------------------------------------
(* Queue and sink are a RowLog                                             *)

Paired(X) == {<<r.id, r.feed>> : r \in X}

PairsDone(fs) == UNION {RowsOf(fs[k]) : k \in DOMAIN fs}
PairsLeft(q, b, w) == RowsOf(q) \cup RowsOf(b) \cup UNION {RowsOf(w[f].rows) : f \in Feed}

(* Rows as pairs, for any queue, buffer and disk.                          *)
LEMMA PairsOfDisk ==
  ASSUME NEW q, NEW b, NEW d
  PROVE  /\ PairsDone(d.files) = Paired(RowsDone(d))
         /\ PairsLeft(q, b, d.writer) \cup Paired(RowsDone(d))
              = Paired(RowsIn(q) \cup RowsIn(b) \cup HeldBy(d))
<1>1. ASSUME NEW s PROVE RowsOf(s) = Paired(RowsIn(s))
  BY DEF RowsOf, Paired, RowsIn
<1>2. \A s, p : p \in RowsOf(s) <=> \E r \in RowsIn(s) : p = <<r.id, r.feed>>
  BY <1>1 DEF Paired
<1>3. \A X, p : p \in Paired(X) <=> \E r \in X : p = <<r.id, r.feed>>
  BY DEF Paired
<1>4. PairsDone(d.files) = Paired(RowsDone(d))
  <2>1. \A p : p \in PairsDone(d.files) <=> \E k \in DOMAIN d.files : p \in RowsOf(d.files[k])
    BY DEF PairsDone
  <2>2. \A r : r \in RowsDone(d) <=> \E k \in DOMAIN d.files : r \in RowsIn(d.files[k])
    BY DoneIs
  <2>3. \A p : p \in PairsDone(d.files) <=> p \in Paired(RowsDone(d))
    BY ONLY <1>2, <1>3, <2>1, <2>2
  <2> QED
    BY <2>3
<1>5. \A p : p \in PairsLeft(q, b, d.writer) <=>
           \/ p \in RowsOf(q) \/ p \in RowsOf(b)
           \/ \E f \in Feed : p \in RowsOf(d.writer[f].rows)
  BY DEF PairsLeft
<1>6. \A r : r \in RowsOpen(d) <=> \E f \in Feed : r \in RowsIn(d.writer[f].rows)
  BY DEF RowsOpen
<1>7. \A r : r \in RowsIn(q) \cup RowsIn(b) \cup HeldBy(d) <=>
           r \in RowsIn(q) \/ r \in RowsIn(b) \/ r \in RowsOpen(d) \/ r \in RowsDone(d)
  BY DEF HeldBy
<1>8. \A p : p \in PairsLeft(q, b, d.writer) \cup Paired(RowsDone(d)) <=>
             p \in PairsLeft(q, b, d.writer) \/ p \in Paired(RowsDone(d))
  OBVIOUS
<1>9. \A p : p \in PairsLeft(q, b, d.writer) \cup Paired(RowsDone(d))
             <=> p \in Paired(RowsIn(q) \cup RowsIn(b) \cup HeldBy(d))
  BY ONLY <1>2, <1>3, <1>5, <1>6, <1>7, <1>8
<1> QED
  BY <1>4, <1>9

(* What is saved and what waits, now and after a step.                     *)
LEMMA LogIs ==
  /\ SavedRows = Paired(RowsDone(Disk))
  /\ WaitingRows = Paired(All) \ Paired(RowsDone(Disk))
  /\ SavedRows' = Paired(RowsDone(Disk'))
  /\ WaitingRows' = Paired(All') \ Paired(RowsDone(Disk'))
<1>1. Disk.files = files /\ Disk.writer = writer /\ Disk'.files = files' /\ Disk'.writer = writer'
  BY DEF Disk
<1>2. SavedRows = PairsDone(files) /\ SavedRows' = PairsDone(files')
  BY DEF SavedRows, PairsDone
<1>3. SavedRows = Paired(RowsDone(Disk)) /\ SavedRows' = Paired(RowsDone(Disk'))
  BY <1>1, <1>2, PairsOfDisk
<1>4. /\ WaitingRows = PairsLeft(queue, buffer, writer) \ SavedRows
      /\ WaitingRows' = PairsLeft(queue', buffer', writer') \ SavedRows'
  BY DEF WaitingRows, PairsLeft
<1>5. /\ PairsLeft(queue, buffer, writer) \cup Paired(RowsDone(Disk)) = Paired(All)
      /\ PairsLeft(queue', buffer', writer') \cup Paired(RowsDone(Disk')) = Paired(All')
  <2>1. All = RowsIn(queue) \cup RowsIn(buffer) \cup HeldBy(Disk)
    BY DEF All, Lined
  <2>2. All' = RowsIn(queue') \cup RowsIn(buffer') \cup HeldBy(Disk')
    BY DEF All, Lined
  <2> QED
    BY <1>1, <2>1, <2>2, PairsOfDisk
<1> QED
  BY <1>3, <1>4, <1>5

(* Empty is empty.                                                         *)
LEMMA LogInitHolds ==
  ASSUME SinkInit
  PROVE  Log!LogInit
<1>1. queue = <<>> /\ buffer = <<>> /\ DOMAIN files = {} /\ \A f \in Feed : writer[f].rows = <<>>
  BY DEF SinkInit, NewWriter
<1>2. RowsOf(<<>>) = {}
  BY DEF RowsOf
<1>3. SavedRows = {}
  BY <1>1 DEF SavedRows
<1>4. \A p : p \notin WaitingRows
  BY <1>1, <1>2 DEF WaitingRows
<1> QED
  BY <1>3, <1>4 DEF Log!LogInit

(* A move saves what it finalizes, or nothing.                             *)
LEMMA MoveSaves ==
  ASSUME SinkIInv, Moves
  PROVE  Log!LogNext
<1>1. All' = All /\ Keeps(Disk, Disk') /\ Oldest(RowsDone(Disk'), All)
  <2>1. MainIInv' /\ All' = All /\ Keeps(Disk, Disk')
    BY MoveStep DEF SinkIInv, MainIInv
  <2> QED
    BY <2>1 DEF MainIInv, SavedIInv
<1>2. PICK a, d, e : a = All /\ d = RowsDone(Disk) /\ e = RowsDone(Disk')
  OBVIOUS
<1>3. d \subseteq e /\ e \subseteq a
  <2>1. d \subseteq e
    BY <1>1, <1>2, DoneIs DEF Keeps
  <2>2. e \subseteq HeldBy(Disk')
    BY <1>2, DoneIs
  <2>3. HeldBy(Disk') \subseteq All'
    BY DEF All
  <2> QED
    BY <1>1, <1>2, <2>1, <2>2, <2>3
<1>4. /\ SavedRows = Paired(d) /\ WaitingRows = Paired(a) \ Paired(d)
      /\ SavedRows' = Paired(e) /\ WaitingRows' = Paired(a) \ Paired(e)
  <2>1. SavedRows = Paired(d) /\ WaitingRows = Paired(a) \ Paired(d)
    BY <1>2, LogIs
  <2>2. SavedRows' = Paired(RowsDone(Disk')) /\ WaitingRows' = Paired(All') \ Paired(RowsDone(Disk'))
    BY LogIs
  <2> QED
    BY <1>1, <1>2, <2>1, <2>2
<1>5. Paired(d) \subseteq Paired(e) /\ Paired(e) \subseteq Paired(a)
  BY <1>3 DEF Paired
<1>6. PICK rows : rows = Paired(e) \ Paired(d)
  OBVIOUS
<1>7. rows \in SUBSET WaitingRows /\ SavedRows' = SavedRows \cup rows /\ WaitingRows' = WaitingRows \ rows
  BY <1>4, <1>5, <1>6
<1>8. Log!OldestFirst(rows)
  <2> SUFFICES ASSUME NEW p \in rows, NEW w \in WaitingRows \ rows, p[2] = w[2]
               PROVE  p[1] < w[1]
    BY DEF Log!OldestFirst
  <2>1. PICK r \in e : p = <<r.id, r.feed>>
    BY <1>6 DEF Paired
  <2>2. PICK s \in a : w = <<s.id, s.feed>> /\ w \notin Paired(e)
    BY <1>4, <1>6 DEF Paired
  <2>3. s \notin e
    BY <2>2 DEF Paired
  <2>4. r.feed = s.feed
    BY <2>1, <2>2
  <2>5. r.id < s.id
    BY <1>1, <1>2, <2>2, <2>3, <2>4 DEF Oldest
  <2> QED
    BY <2>1, <2>2, <2>5
<1>9. Log!Save(rows)
  BY <1>7, <1>8 DEF Log!Save
<1> QED
  BY <1>7, <1>9 DEF Log!LogNext

(* A row put is one offered, the evicted one makes room.                   *)
LEMMA PutOffers ==
  ASSUME SinkIInv, NEW f \in Feed, Put(f)
  PROVE  Log!LogNext
<1>1. PICK row : row = [id |-> put + 1, feed |-> f, hour |-> hour]
  OBVIOUS
<1>2. /\ TypeIInv /\ RowsIInv /\ Ascending(queue) /\ Before(RowsIn(buffer), RowsIn(queue))
      /\ RowsIn(queue) \cap HeldBy(Disk) = {}
  BY DEF SinkIInv, RowsIInv, SavedIInv
<1>3. PICK out \in SUBSET Row :
        /\ out = {} \/ \E x \in RowsIn(queue) : out = {x}
        /\ RowsIn(queue') = (RowsIn(queue) \ out) \cup {row}
  BY <1>1, <1>2, PutIs DEF TypeIInv
<1>4. /\ row \in Row /\ buffer' = buffer /\ Disk' = Disk
  BY <1>1, <1>2, PutIs DEF TypeIInv
<1>5. /\ \A r \in All : r.id \in 1..put /\ r.id \in Nat
      /\ put \in Nat /\ put < MaxRow /\ MaxRow \in Nat
  BY <1>2, AllTyped, Bounds DEF TypeIInv, ClockIInv, Put
<1>6. PICK n : n = put + 1
  OBVIOUS
<1>7. n \in 1..MaxRow /\ row.id = n /\ row.feed = f
  BY <1>1, <1>5, <1>6
<1>8. \A r \in All : r.id < n
  BY <1>5, <1>6
<1>9. RowsIn(queue) \subseteq All /\ RowsIn(buffer) \subseteq All /\ RowsDone(Disk) \subseteq All
  BY DEF All, Lined, HeldBy
<1>10. All' = (All \ out) \cup {row}
  <2>1. \A x \in out : x \notin RowsIn(buffer) /\ x \notin HeldBy(Disk)
    BY <1>2, <1>3, <1>5, <1>9 DEF Before
  <2>2. All' = RowsIn(queue') \cup RowsIn(buffer) \cup HeldBy(Disk)
    BY <1>4 DEF All, Lined
  <2>3. All = RowsIn(queue) \cup RowsIn(buffer) \cup HeldBy(Disk)
    BY DEF All, Lined
  <2> QED
    BY <1>3, <2>1, <2>2, <2>3
<1>11. PICK a, d : a = All /\ d = RowsDone(Disk)
  OBVIOUS
<1>12. /\ SavedRows = Paired(d) /\ WaitingRows = Paired(a) \ Paired(d)
       /\ SavedRows' = Paired(d) /\ WaitingRows' = Paired((a \ out) \cup {row}) \ Paired(d)
  <2>1. SavedRows = Paired(d) /\ WaitingRows = Paired(a) \ Paired(d)
    BY <1>11, LogIs
  <2>2. SavedRows' = Paired(RowsDone(Disk')) /\ WaitingRows' = Paired(All') \ Paired(RowsDone(Disk'))
    BY LogIs
  <2> QED
    BY <1>4, <1>10, <1>11, <2>1, <2>2
<1>13. out \subseteq a /\ d \subseteq a /\ out \cap d = {}
  BY <1>2, <1>3, <1>9, <1>11 DEF HeldBy
<1>14. \A r, s \in a : <<r.id, r.feed>> = <<s.id, s.feed>> => r = s
  BY <1>2, <1>11 DEF RowsIInv
<1>15. Paired(out) \subseteq WaitingRows
  BY <1>12, <1>13, <1>14 DEF Paired
<1>16. WaitingRows' = (WaitingRows \ Paired(out)) \cup {<<n, f>>}
  <2>1. \A p : p \in Paired((a \ out) \cup {row}) <=>
                p = <<n, f>> \/ \E r \in a \ out : p = <<r.id, r.feed>>
    BY <1>7 DEF Paired
  <2>2. \A p : p \in Paired(a) \ Paired(out) <=> \E r \in a \ out : p = <<r.id, r.feed>>
    BY <1>13, <1>14 DEF Paired
  <2>3. <<n, f>> \notin Paired(d)
    <3>1. \A r \in d : r.id # n
      BY <1>8, <1>5, <1>11, <1>13
    <3> QED
      BY <3>1 DEF Paired
  <2> QED
    BY <1>12, <2>1, <2>2, <2>3
<1>17. Paired(out) \in {{}} \cup {{r} : r \in WaitingRows}
  <2>1. CASE out = {}
    BY <2>1 DEF Paired
  <2>2. CASE \E x \in RowsIn(queue) : out = {x}
    <3>1. PICK x : out = {x}
      BY <2>2
    <3>2. Paired(out) = {<<x.id, x.feed>>}
      BY <3>1 DEF Paired
    <3> QED
      BY <1>15, <3>2
  <2> QED
    BY <1>3, <2>1, <2>2
<1>18. \A r \in WaitingRows \cup SavedRows : r[1] < n
  <2>1. WaitingRows \cup SavedRows \subseteq Paired(a)
    BY <1>12, <1>13 DEF Paired
  <2>2. \A p \in Paired(a) : p[1] < n
    BY <1>8, <1>11 DEF Paired
  <2> QED
    BY <2>1, <2>2
<1>19. Log!Offer(n, f)
  BY <1>12, <1>16, <1>17, <1>18 DEF Log!Offer
<1> QED
  BY <1>7, <1>19 DEF Log!LogNext

(* A process that dies gives up what it has not finalized.                 *)
LEMMA DieGivesUp ==
  ASSUME SinkIInv, Die
  PROVE  Log!LogNext
<1>1. DataIInv
  BY DEF SinkIInv, TypeIInv
<1>2. /\ Lined' = {} /\ HeldBy(Disk') = RowsDone(Disk) /\ RowsDone(Disk') = RowsDone(Disk)
  BY <1>1, DieIs
<1>3. All' = RowsDone(Disk)
  BY <1>2 DEF All
<1>4. SavedRows = Paired(RowsDone(Disk))
  BY LogIs
<1>5. SavedRows' = Paired(RowsDone(Disk')) /\ WaitingRows' = Paired(All') \ Paired(RowsDone(Disk'))
  BY LogIs
<1>6. SavedRows' = SavedRows /\ WaitingRows' = {}
  BY <1>2, <1>3, <1>4, <1>5
<1>7. Log!GiveUp(WaitingRows)
  BY <1>6 DEF Log!GiveUp
<1>8. WaitingRows \in SUBSET WaitingRows
  OBVIOUS
<1> QED
  BY <1>7, <1>8 DEF Log!LogNext

(* Every step of the sink is one of the log, or changes nothing there.     *)
LEMMA LogStep ==
  ASSUME SinkIInv, [SinkNext]_sinkVars
  PROVE  [Log!LogNext]_(Log!logVars)
<1>1. ASSUME UNCHANGED <<queue, buffer, writer, files>> PROVE UNCHANGED Log!logVars
  <2>1. All' = All /\ Disk' = Disk
    BY <1>1 DEF All, Lined, Disk
  <2>2. SavedRows = Paired(RowsDone(Disk)) /\ WaitingRows = Paired(All) \ Paired(RowsDone(Disk))
    BY LogIs
  <2>3. SavedRows' = Paired(RowsDone(Disk')) /\ WaitingRows' = Paired(All') \ Paired(RowsDone(Disk'))
    BY LogIs
  <2> QED
    BY <2>1, <2>2, <2>3 DEF Log!logVars
<1>2. CASE NewHour \/ Restart \/ UNCHANGED sinkVars
  BY <1>1, <1>2 DEF NewHour, Restart, consumerVars, diskVars, sinkVars
<1>3. CASE Moves \/ (\E f \in Feed : Put(f)) \/ Die
  BY <1>3, MoveSaves, PutOffers, DieGivesUp
<1>4. ClockIInv /\ DataIInv
  BY DEF SinkIInv, TypeIInv
<1> QED
  BY <1>2, <1>3, <1>4, KindsOfStep

(* Seen from the feeds, queue, sink and process together are the log of    *)
(* RowLog: every step of theirs is one of its or changes nothing there.    *)
THEOREM SinkImplementsRowLog == Undisturbed /\ SinkSpec => ImplementsRowLog
<1>1. SinkInit /\ Undisturbed => SinkIInv
  BY TypeInit, MainInit DEF SinkIInv, MainIInv
<1>2. SinkIInv /\ [SinkNext]_sinkVars => SinkIInv'
  BY SinkStep
<1>3. SinkInit => Log!LogInit
  BY LogInitHolds
<1>4. SinkIInv /\ [SinkNext]_sinkVars => [Log!LogNext]_(Log!logVars)
  BY LogStep
<1> QED
  BY <1>1, <1>2, <1>3, <1>4, PTL DEF SinkSpec, ImplementsRowLog, Log!LogSpec
=============================================================================
