------------------------ MODULE MetadataFetch_proofs ------------------------
(* The metadata fetcher, for every list of ledgers, number of workers,      *)
(* retries and starts: its merged file is sorted, its finished shards stay  *)
(* as they are and what it misses is named.                                 *)
EXTENDS MetadataFetch, FiniteSetTheorems, SequenceTheorems, FunctionTheorems, WellFoundedInduction, TLAPS

-----------------------------------------------------------------------------
(* The invariant *)

\* Where a ledger is: to be submitted, in the pool, or neither.
QueueInv ==
  /\ Ascending(todo) /\ Ascending(unmerged)
  /\ ToSet(todo) \cap inflight = {}
  /\ \A l \in Ledgers : phase[l] # "idle" <=> l \in inflight
  /\ inflight = {} => todo = <<>>
  /\ pc # "fetching" => inflight = {}
  /\ pc = "done" => unmerged = <<>>

\* Lines of one ledger in the order of their indices.
LinesAscend(l, lines) ==
  /\ \A k \in DOMAIN lines : lines[k].ledger = l
  /\ \A i, j \in DOMAIN lines : i < j => lines[i].index < lines[j].index

\* What a shard holds, and that no thread is about to write over one that
\* holds something.
ShardInv ==
  \A l \in Ledgers :
    /\ Ascending(rows[l]) /\ LinesAscend(l, shard[l])
    /\ l \in ToSet(todo) \/ phase[l] \in {"calling", "storing"} => shard[l] = <<>>

\* The merged file so far: the shards of the ledgers that are through.
MergeInv ==
  /\ MergedSorted
  /\ pc = "merging" => \A k \in DOMAIN merged, u \in DOMAIN unmerged :
                         merged[k].ledger < unmerged[u]
  /\ pc \in {"merging", "done"} =>
       \A l \in Ledgers \ ToSet(unmerged) : LinesOf(l) = ToSet(shard[l])

\* A ledger that is neither waiting nor being worked on nor named as failed.
Settled(l) ==
  pc # "off" /\ l \notin failed /\ l \notin ToSet(todo) /\ phase[l] \in {"idle", "finished"}

\* Unless a process was killed such a ledger has its accepted rows in its
\* shard, and all that were required among them if every run had the list.
SettledInv ==
  /\ pc = "off" /\ "killed" \notin spoilt => \A l \in Ledgers : shard[l] = <<>>
  /\ spoilt = {} => pc = "off" \/ checking
  /\ "killed" \notin spoilt =>
       \A l \in Ledgers : Settled(l) => shard[l] = Lines(l, rows[l])
  /\ spoilt = {} =>
       \A l \in Ledgers : Settled(l) \/ phase[l] \in {"storing", "writing"} =>
         Required[l] \subseteq ToSet(rows[l])

FetchInv == TypeOK /\ QueueInv /\ ShardInv /\ MergeInv /\ SettledInv

-----------------------------------------------------------------------------
(* Numbers in order *)

\* A set of numbers that is not empty has a least element.
LEMMA LeastNumber ==
  ASSUME NEW S, S \subseteq Nat, S # {}
  PROVE  \E m \in S : \A n \in S : m <= n
<1>1. IsWellFoundedOn(OpToRel(<, Nat), Nat)
  BY NatLessThanWellFounded
<1>2. PICK m \in S : \A n \in S : ~(<<n, m>> \in OpToRel(<, Nat))
  BY <1>1, WFMin
<1>3. \A n \in S : ~(n < m)
  BY <1>2 DEF OpToRel
<1> QED BY <1>3

Enumerates(s, S) == s \in [1 .. Cardinality(S) -> S] /\ Ascending(s)

\* The least number in front of the others in order.
LEMMA FrontOfOrder ==
  ASSUME NEW S, S \subseteq Nat, IsFiniteSet(S), NEW m \in S, \A n \in S : m <= n,
         NEW t, Enumerates(t, S \ {m})
  PROVE  \E s : Enumerates(s, S)
<1> DEFINE c == Cardinality(S)
           s == [i \in 1 .. c |-> IF i = 1 THEN m ELSE t[i - 1]]
<1>1. c \in Nat /\ Cardinality(S \ {m}) = c - 1
  BY FS_CardinalityType, FS_RemoveElement
<1>2. t \in [1 .. c - 1 -> S \ {m}] /\ \A i, j \in 1 .. c - 1 : i < j => t[i] < t[j]
  BY <1>1 DEF Enumerates, Ascending
<1>3. \A i \in 1 .. c : i # 1 => i - 1 \in 1 .. c - 1 /\ t[i - 1] \in S \ {m}
  <2> TAKE i \in 1 .. c
  <2> HAVE i # 1
  <2>1. i - 1 \in 1 .. c - 1
    BY <1>1
  <2> QED BY <1>2, <2>1
<1>4. s \in [1 .. c -> S]
  BY <1>3
<1>5. ASSUME NEW i \in 1 .. c, NEW j \in 1 .. c, i < j PROVE s[i] < s[j]
  <2>1. j # 1 /\ t[j - 1] \in S \ {m} /\ j - 1 \in 1 .. c - 1
    BY <1>1, <1>3, <1>5
  <2>2. CASE i = 1
    <3>1. m <= t[j - 1] /\ m # t[j - 1] /\ m \in Nat /\ t[j - 1] \in Nat
      BY <2>1
    <3> QED BY <2>1, <2>2, <3>1
  <2>3. CASE i # 1
    <3>1. i - 1 \in 1 .. c - 1 /\ i - 1 < j - 1
      BY <1>1, <1>3, <1>5, <2>3
    <3> QED BY <1>2, <2>1, <2>3, <3>1
  <2> QED BY <2>2, <2>3
<1>6. DOMAIN s = 1 .. c
  OBVIOUS
<1> HIDE DEF s
<1> QED BY <1>4, <1>5, <1>6 DEF Enumerates, Ascending

\* Every finite set of numbers can be put in order.
LEMMA OrderExists ==
  ASSUME NEW S, S \subseteq Nat, IsFiniteSet(S)
  PROVE  \E s : Enumerates(s, S)
<1> DEFINE Bad == {n \in Nat : \E T \in SUBSET S : Cardinality(T) = n /\ ~ \E s : Enumerates(s, T)}
<1>1. \A T \in SUBSET S : IsFiniteSet(T) /\ Cardinality(T) \in Nat
  BY FS_Subset, FS_CardinalityType
<1>2. ASSUME Bad # {} PROVE FALSE
  <2>1. Bad \subseteq Nat
    OBVIOUS
  <2>2. PICK n \in Bad : \A k \in Bad : n <= k
    <3> HIDE DEF Bad
    <3> QED BY <1>2, <2>1, LeastNumber
  <2>3. PICK T \in SUBSET S : Cardinality(T) = n /\ ~ \E s : Enumerates(s, T)
    OBVIOUS
  <2>4. CASE T = {}
    <3>1. Enumerates(<<>>, T)
      BY <2>4, FS_EmptySet DEF Enumerates, Ascending
    <3> QED BY <2>3, <3>1
  <2>5. CASE T # {}
    <3>1. PICK m \in T : \A k \in T : m <= k
      BY <2>5, LeastNumber
    <3>2. T \ {m} \in SUBSET S /\ Cardinality(T \ {m}) = n - 1
      BY <1>1, <2>3, FS_RemoveElement
    <3>3. n - 1 \in Nat /\ ~(n <= n - 1)
      <4> HIDE DEF Bad
      <4> QED BY <1>1, <2>1, <2>2, <3>2
    <3>4. n - 1 \notin Bad
      <4> HIDE DEF Bad
      <4> QED BY <2>2, <3>3
    <3>5. PICK t : Enumerates(t, T \ {m})
      BY <3>2, <3>3, <3>4
    <3>6. T \subseteq Nat /\ IsFiniteSet(T)
      BY <1>1
    <3>7. \E s : Enumerates(s, T)
      <4> HIDE DEF Bad
      <4> QED BY <3>1, <3>5, <3>6, FrontOfOrder
    <3> QED BY <2>3, <3>7
  <2> QED BY <2>4, <2>5
<1> QED BY <1>1, <1>2

\* InOrder enumerates a finite set of numbers in ascending order.
LEMMA InOrderIs ==
  ASSUME NEW S, S \subseteq Nat, IsFiniteSet(S)
  PROVE  /\ InOrder(S) \in Seq(S) /\ Ascending(InOrder(S))
         /\ ToSet(InOrder(S)) = S
<1> DEFINE c == Cardinality(S)
<1>1. c \in Nat
  BY FS_CardinalityType
<1>2. \E s \in SetToSeqs(S) : Ascending(s)
  <2>1. PICK s : Enumerates(s, S)
    BY OrderExists
  <2>2. s \in [1 .. c -> S] /\ \A i, j \in 1 .. c : i < j => s[i] < s[j]
    BY <2>1 DEF Enumerates, Ascending
  <2>3. ASSUME NEW i \in 1 .. c, NEW j \in 1 .. c, i # j PROVE s[i] # s[j]
    <3>1. s[i] \in Nat /\ s[j] \in Nat
      BY <2>2
    <3>2. i < j \/ j < i
      BY <1>1, <2>3
    <3> QED BY <2>2, <3>1, <3>2
  <2> QED BY <2>1, <2>2, <2>3 DEF Enumerates, SetToSeqs
<1> DEFINE s == InOrder(S)
<1>3. s \in SetToSeqs(S) /\ Ascending(s)
  BY <1>2 DEF InOrder
<1> HIDE DEF s
<1>4. s \in [1 .. c -> S] /\ \A i, j \in 1 .. c : i # j => s[i] # s[j]
  BY <1>3 DEF SetToSeqs
<1>5. s \in Seq(S)
  BY <1>1, <1>4
<1>6. s \in Injection(1 .. c, S)
  BY <1>4 DEF Injection, IsInjective
<1>7. s \in Surjection(1 .. c, S)
  <2>1. Cardinality(1 .. c) = c
    BY <1>1, FS_Interval
  <2> QED BY <1>6, <2>1, FS_Injection
<1>8. ToSet(s) = S
  BY <1>4, <1>7 DEF ToSet, Surjection
<1> QED BY <1>3, <1>5, <1>8 DEF s

-----------------------------------------------------------------------------
(* Lines *)

\* A file whose write was cut holds a beginning of its lines.
LEMMA CutShape ==
  ASSUME NEW s \in Seq(Line), NEW t \in Cut(s)
  PROVE  /\ t \in Seq(Line) /\ Len(t) <= Len(s)
         /\ DOMAIN t \subseteq DOMAIN s
         /\ \A k \in DOMAIN t : t[k].ledger = s[k].ledger /\ t[k].index = s[k].index
<1> DEFINE P(u, n) == /\ u \in Seq(Line) /\ Len(u) = n
                      /\ \A k \in 1 .. n : u[k] = s[k]
<1>1. Len(s) \in Nat /\ DOMAIN s = 1 .. Len(s) /\ \A k \in 1 .. Len(s) : s[k] \in Line
  OBVIOUS
<1>2. \A n \in 0 .. Len(s) : P(SubSeq(s, 1, n), n)
  <2> TAKE n \in 0 .. Len(s)
  <2>1. \A i \in 1 .. n : s[i] \in Line
    BY <1>1
  <2>2. n - 1 + 1 = n /\ \A i \in 1 .. n : 1 + i - 1 = i
    BY <1>1
  <2>3. CASE n = 0
    <3>1. SubSeq(s, 1, n) = <<>>
      BY <2>3, SubSeqEmpty
    <3> QED BY <2>3, <3>1
  <2>4. CASE n # 0
    BY <1>1, <2>1, <2>2, <2>4, SubSeqProperties
  <2> QED BY <2>3, <2>4
<1>3. CASE t \in Prefixes(s)
  <2>1. PICK n \in 0 .. Len(s) : t = SubSeq(s, 1, n)
    BY <1>3 DEF Prefixes
  <2>2. P(t, n)
    BY <1>2, <2>1
  <2> HIDE DEF P
  <2> QED BY <1>1, <2>2 DEF P
<1>4. CASE \E k \in DOMAIN s : t = [SubSeq(s, 1, k) EXCEPT ![k].whole = FALSE]
  <2>1. PICK n \in DOMAIN s : t = [SubSeq(s, 1, n) EXCEPT ![n].whole = FALSE]
    BY <1>4
  <2> DEFINE u == SubSeq(s, 1, n)
  <2>2. n \in 0 .. Len(s) /\ n \in 1 .. Len(s)
    BY <1>1
  <2>3. P(u, n)
    BY <1>2, <2>2
  <2> HIDE DEF u, P
  <2>4. t = [u EXCEPT ![n].whole = FALSE]
    BY <2>1 DEF u
  <2>5. u \in Seq(Line) /\ Len(u) = n /\ DOMAIN u = 1 .. n /\ \A k \in 1 .. n : u[k] = s[k] /\ s[k] \in Line
    BY <1>1, <2>2, <2>3 DEF P
  <2>6. [u[n] EXCEPT !.whole = FALSE] \in Line
    <3>1. \A line \in Line : [line EXCEPT !.whole = FALSE] \in Line
      BY DEF Line
    <3>2. n \in 1 .. n
      BY <2>2
    <3>3. u[n] \in Line
      BY <2>5, <3>2
    <3> QED BY <3>1, <3>3
  <2>7. t = [u EXCEPT ![n] = [u[n] EXCEPT !.whole = FALSE]]
    BY <2>4
  <2>8. t \in Seq(Line) /\ Len(t) = n /\ DOMAIN t = 1 .. n
    BY <2>2, <2>5, <2>6, <2>7, ExceptSeq
  <2>9. \A k \in 1 .. n : t[k] = IF k = n THEN [u[n] EXCEPT !.whole = FALSE] ELSE u[k]
    BY <2>5, <2>7
  <2>10. \A k \in 1 .. n : t[k].ledger = s[k].ledger /\ t[k].index = s[k].index
    BY <2>2, <2>5, <2>9 DEF Line
  <2> QED BY <1>1, <2>2, <2>8, <2>10
<1> QED BY <1>3, <1>4 DEF Cut

\* Accepted rows make lines of their ledger, in order.
LEMMA LinesOrdered ==
  ASSUME NEW l \in Ledgers, NEW s \in Seq(Nat), Ascending(s)
  PROVE  Lines(l, s) \in Seq(Line) /\ LinesAscend(l, Lines(l, s))
<1>1. Len(s) \in Nat /\ DOMAIN s = 1 .. Len(s) /\ \A k \in 1 .. Len(s) : s[k] \in Nat
  OBVIOUS
<1>2. \A k \in 1 .. Len(s) : [ledger |-> l, index |-> s[k], whole |-> TRUE] \in Line
  BY <1>1 DEF Line
<1>3. Lines(l, s) = [k \in 1 .. Len(s) |-> [ledger |-> l, index |-> s[k], whole |-> TRUE]]
  BY <1>1 DEF Lines
<1>4. Lines(l, s) \in [1 .. Len(s) -> Line]
  BY <1>2, <1>3
<1>5. Lines(l, s) \in Seq(Line)
  BY <1>1, <1>4
<1>6. LinesAscend(l, Lines(l, s))
  BY <1>1, <1>3 DEF LinesAscend, Ascending
<1> QED BY <1>5, <1>6

LEMMA CutOrdered ==
  ASSUME NEW l, NEW s \in Seq(Line), LinesAscend(l, s), NEW t \in Cut(s)
  PROVE  t \in Seq(Line) /\ LinesAscend(l, t)
BY CutShape DEF LinesAscend

\* Whatever an answer holds and in whatever order: its rows are in order.
LEMMA AnswerOrdered ==
  ASSUME NEW l \in Ledgers, NEW answer \in Answers(l)
  PROVE  Normalised(answer) \in Seq(Nat) /\ Ascending(Normalised(answer))
<1>1. PICK S \in SUBSET TxOf[l] : answer \in SetToSeqs(S)
  BY DEF Answers
<1>2. TxOf[l] \subseteq Nat /\ IsFiniteSet(TxOf[l])
  BY FetchAssumption
<1>3. S \subseteq Nat /\ IsFiniteSet(S)
  BY <1>2, FS_Subset
<1>4. ToSet(answer) \subseteq S
  BY <1>1 DEF ToSet, SetToSeqs
<1>5. ToSet(answer) \subseteq Nat /\ IsFiniteSet(ToSet(answer))
  BY <1>3, <1>4, FS_Subset
<1>6. InOrder(ToSet(answer)) \in Seq(ToSet(answer)) /\ Ascending(InOrder(ToSet(answer)))
  BY <1>5, InOrderIs
<1> QED BY <1>5, <1>6, SeqMonotonic DEF Normalised

-----------------------------------------------------------------------------
(* The queue *)

\* fill(): what is submitted leaves the queue, there is room for it, and
\* something is submitted if nothing is in the pool.
LEMMA Submission ==
  ASSUME NEW busy \in SUBSET Ledgers, Cardinality(busy) <= Workers,
         NEW list \in Seq(Ledgers), Ascending(list), ToSet(list) \cap busy = {}
  PROVE  LET next == Submitted(busy, list)
             rest == Unsubmitted(busy, list)
         IN /\ next \subseteq ToSet(list) /\ Cardinality(busy \cup next) <= Workers
            /\ rest \in Seq(Ledgers) /\ Ascending(rest)
            /\ ToSet(rest) = ToSet(list) \ next
            /\ busy \cup next = {} => rest = <<>>
<1> DEFINE next == Submitted(busy, list)
           rest == Unsubmitted(busy, list)
           room == Room(busy)
           len == Len(list)
           n == IF len < room THEN len ELSE room
<1>1. /\ len \in Nat /\ DOMAIN list = 1 .. len /\ list \in [1 .. len -> Ledgers]
      /\ \A k \in 1 .. len : list[k] \in Nat
      /\ \A i, j \in 1 .. len : i < j => list[i] < list[j]
  BY FetchAssumption DEF Ascending
<1>2. IsFiniteSet(busy) /\ Cardinality(busy) \in Nat /\ room = Workers - Cardinality(busy) /\ room \in Nat
  <2>1. IsFiniteSet(busy) /\ Cardinality(busy) \in Nat
    BY FetchAssumption, FS_Subset, FS_CardinalityType
  <2>2. room = Workers - Cardinality(busy)
    BY DEF Room
  <2>3. Workers \in Nat
    BY FetchAssumption
  <2> HIDE DEF room
  <2> QED BY <2>1, <2>2, <2>3
<1>3. n \in 0 .. len /\ n <= room
  BY <1>1, <1>2
<1>4. next = {list[k] : k \in 1 .. n}
  <2>1. next = ToSet(SubSeq(list, 1, n))
    BY DEF Submitted
  <2> HIDE DEF n, next, len, room
  <2>2. CASE n = 0
    <3>1. SubSeq(list, 1, n) = <<>>
      BY <2>2, SubSeqEmpty
    <3> QED BY <2>1, <2>2, <3>1 DEF ToSet
  <2>3. CASE n # 0
    <3>1. n \in Int /\ 1 <= n /\ n - 1 + 1 = n /\ \A i \in 1 .. n : 1 + i - 1 = i /\ list[i] \in Ledgers
      BY <1>1, <1>3, <2>3
    <3>2. SubSeq(list, 1, n) \in Seq(Ledgers) /\ Len(SubSeq(list, 1, n)) = n
          /\ \A i \in 1 .. n : SubSeq(list, 1, n)[i] = list[i]
      BY <3>1, SubSeqProperties
    <3> QED BY <2>1, <3>2 DEF ToSet
  <2> QED BY <2>2, <2>3
<1>5. /\ rest \in Seq(Ledgers) /\ Len(rest) = IF room < len THEN len - room ELSE 0
      /\ \A i \in 1 .. len - room : rest[i] = list[room + i]
  <2> HIDE DEF room, len
  <2>1. rest = SubSeq(list, room + 1, len)
    BY DEF Unsubmitted, len, room
  <2> HIDE DEF rest
  <2>2. room + 1 \in Int /\ len \in Int /\ \A i \in room + 1 .. len : list[i] \in Ledgers
    BY <1>1, <1>2
  <2>3. \A i \in Int : (room + 1) + i - 1 = room + i
    BY <1>2
  <2>4. len - (room + 1) + 1 = len - room
    BY <1>1, <1>2
  <2>5. /\ rest \in Seq(Ledgers)
        /\ Len(rest) = IF room + 1 <= len THEN len - (room + 1) + 1 ELSE 0
        /\ \A i \in 1 .. len - (room + 1) + 1 : rest[i] = list[(room + 1) + i - 1]
    BY <2>1, <2>2, SubSeqProperties
  <2>6. room + 1 <= len <=> room < len
    BY <1>1, <1>2
  <2>7. \A i \in 1 .. len - room : rest[i] = list[room + i]
    <3> TAKE i \in 1 .. len - room
    <3>1. i \in 1 .. len - (room + 1) + 1 /\ i \in Int
      BY <2>4
    <3>2. rest[i] = list[(room + 1) + i - 1]
      BY <2>5, <3>1
    <3> QED BY <2>3, <3>1, <3>2
  <2> QED BY <2>4, <2>5, <2>6, <2>7
<1> HIDE DEF next, rest, room, len
<1>6. next \subseteq ToSet(list)
  BY <1>1, <1>3, <1>4 DEF ToSet
<1>7. DOMAIN rest = 1 .. Len(rest) /\ Len(rest) \in Nat
  BY <1>5
<1>8. \A i \in DOMAIN rest : room + i \in 1 .. len /\ rest[i] = list[room + i]
  BY <1>1, <1>2, <1>5, <1>7
<1>9. Ascending(rest)
  <2> SUFFICES ASSUME NEW i \in DOMAIN rest, NEW j \in DOMAIN rest, i < j
               PROVE  rest[i] < rest[j]
    BY DEF Ascending
  <2>1. room + i < room + j
    BY <1>2, <1>7
  <2> QED BY <1>1, <1>8, <2>1
<1>10. \A x \in ToSet(list) : x \in ToSet(rest) <=> x \notin next
  <2> TAKE x \in ToSet(list)
  <2>1. PICK k \in 1 .. len : x = list[k]
    BY <1>1 DEF ToSet
  <2>2. \A i \in 1 .. len : list[i] = x => i = k
    <3> TAKE i \in 1 .. len
    <3>1. i < k \/ i = k \/ k < i
      BY <1>1
    <3>2. list[i] \in Nat /\ list[k] \in Nat
      BY <1>1
    <3> QED BY <1>1, <2>1, <3>1, <3>2
  <2>3. x \in next <=> k <= room
    BY <1>1, <1>2, <1>3, <1>4, <2>1, <2>2
  <2>4. x \in ToSet(rest) <=> room < k
    <3>1. ASSUME x \in ToSet(rest) PROVE room < k
      <4>1. PICK i \in DOMAIN rest : x = rest[i]
        BY <3>1 DEF ToSet
      <4>2. room + i = k
        BY <1>8, <2>2, <4>1
      <4> QED BY <1>2, <1>7, <4>2
    <3>2. ASSUME room < k PROVE x \in ToSet(rest)
      <4>1. k - room \in DOMAIN rest /\ room + (k - room) = k
        BY <1>1, <1>2, <1>5, <1>7, <3>2
      <4> QED BY <1>8, <2>1, <4>1 DEF ToSet
    <3> QED BY <3>1, <3>2
  <2> QED BY <1>1, <1>2, <2>3, <2>4
<1>11. ToSet(rest) \subseteq ToSet(list)
  BY <1>1, <1>8 DEF ToSet
<1>12. ToSet(rest) = ToSet(list) \ next
  BY <1>10, <1>11
<1>13. Cardinality(busy \cup next) <= Workers
  <2> DEFINE f == [k \in 1 .. n |-> list[k]]
  <2> HIDE DEF n
  <2>1. f \in Surjection(1 .. n, next)
    BY <1>4 DEF Surjection
  <2>2. IsFiniteSet(1 .. n) /\ Cardinality(1 .. n) = n
    <3>1. n \in Int /\ 1 \in Int /\ ~(1 > n) => n - 1 + 1 = n
      BY <1>3
    <3>2. n \in Int /\ (1 > n => n = 0)
      BY <1>3, <1>1
    <3> QED BY <3>1, <3>2, FS_Interval
  <2>3. IsFiniteSet(next) /\ Cardinality(next) <= n
    BY <2>1, <2>2, FS_Surjection
  <2>4. Cardinality(next) \in Nat /\ Cardinality(busy \cap next) \in Nat
    BY <1>2, <2>3, FS_CardinalityType, FS_Intersection
  <2>5. Cardinality(busy \cup next) = Cardinality(busy) + Cardinality(next) - Cardinality(busy \cap next)
    BY <1>2, <2>3, FS_Union
  <2> QED BY <1>2, <1>3, <2>3, <2>4, <2>5, FetchAssumption
<1>14. ASSUME busy \cup next = {} PROVE rest = <<>>
  <2>1. busy = {} /\ Cardinality(busy) = 0 /\ room # 0
    BY <1>2, <1>14, FS_EmptySet, FetchAssumption
  <2>2. n = 0
    <3> HIDE DEF n
    <3> QED BY <1>1, <1>3, <1>4, <1>14
  <2>3. len = 0
    BY <1>2, <2>1, <2>2
  <2> QED BY <1>2, <1>5, <2>3
<1> QED BY <1>5, <1>6, <1>9, <1>12, <1>13, <1>14 DEF next, rest

-----------------------------------------------------------------------------
(* The threads *)

\* The thread that writes is the one that holds write_lock.
LEMMA WriterHolds ==
  ASSUME TypeOK, NEW l \in Ledgers, phase[l] = "writing"
  PROVE  lock = {l}
<1>1. l \in lock /\ lock \subseteq Ledgers /\ Cardinality(lock) <= 1
  BY DEF TypeOK
<1>2. IsFiniteSet(lock) /\ Cardinality(lock) \in Nat
  BY <1>1, FetchAssumption, FS_Subset, FS_CardinalityType
<1>3. Cardinality(lock) # 0
  BY <1>1, <1>2, FS_EmptySet
<1>4. Cardinality(lock) = 1
  BY <1>1, <1>2, <1>3
<1>5. \E x : lock = {x}
  BY <1>2, <1>4, FS_Singleton
<1> QED BY <1>1, <1>5

\* A step of a thread leaves the queue and the merged file alone.
LEMMA ThreadStep ==
  ASSUME FetchInv, NEW l \in Ledgers, phase[l] # "idle",
         NEW p \in Phases \ {"idle"}, phase' = phase \/ Becomes(l, p),
         UNCHANGED <<main, merged>>
  PROVE  pc = "fetching" /\ QueueInv' /\ MergeInv'
<1>1. TypeOK /\ QueueInv /\ MergeInv
  BY DEF FetchInv
<1>2. phase \in [Ledgers -> Phases]
  BY <1>1 DEF TypeOK
<1>3. pc = "fetching"
  BY <1>1 DEF QueueInv
<1>4. \A k \in Ledgers : phase'[k] = "idle" <=> phase[k] = "idle"
  BY <1>2 DEF Becomes
<1>5. QueueInv'
  BY <1>1, <1>4 DEF QueueInv, main
<1>6. MergeInv'
  BY <1>1, <1>3 DEF MergeInv, MergedSorted, main
<1> QED BY <1>3, <1>5, <1>6

LEMMA CallFailsInv ==
  ASSUME FetchInv, NEW l \in Ledgers, CallFails(l) PROVE FetchInv'
<1>1. TypeOK /\ QueueInv /\ ShardInv /\ SettledInv
  BY DEF FetchInv
<1>2. /\ phase[l] = "calling" /\ UNCHANGED <<shard, failed, merged, rows, lock, main>>
      /\ phase' = phase \/ Becomes(l, "reporting")
  BY DEF CallFails, files
<1>3. phase \in [Ledgers -> Phases] /\ "reporting" \in Phases
  BY <1>1 DEF TypeOK, Phases
<1>4. pc = "fetching" /\ QueueInv' /\ MergeInv'
  BY <1>2, <1>3, ThreadStep
<1>5. \A k \in Ledgers : phase'[k] = phase[k] \/ (k = l /\ phase'[k] = "reporting")
  BY <1>2, <1>3 DEF Becomes
<1>6. TypeOK'
  <2>1. attempt' \in [Ledgers -> 0 .. Retries]
    BY <1>1, FetchAssumption DEF CallFails, TypeOK
  <2>2. phase' \in [Ledgers -> Phases]
    BY <1>2, <1>3 DEF Becomes
  <2>3. \A k \in Ledgers : phase'[k] = "writing" <=> phase[k] = "writing"
    BY <1>2, <1>5
  <2>4. lock' = {k \in Ledgers : phase'[k] = "writing"}
    BY <1>1, <1>2, <2>3 DEF TypeOK
  <2> QED BY <1>1, <1>2, <2>1, <2>2, <2>4 DEF TypeOK, main
<1>7. ShardInv'
  BY <1>1, <1>2, <1>5 DEF ShardInv, main
<1>8. SettledInv'
  BY <1>1, <1>2, <1>5 DEF SettledInv, Settled, main
<1> QED BY <1>4, <1>6, <1>7, <1>8 DEF FetchInv

LEMMA CallReturnsInv ==
  ASSUME FetchInv, NEW l \in Ledgers, CallReturns(l) PROVE FetchInv'
<1>1. TypeOK /\ QueueInv /\ ShardInv /\ SettledInv
  BY DEF FetchInv
<1>2. /\ phase[l] = "calling"
      /\ UNCHANGED <<shard, failed, merged, attempt, lock, main>>
  BY DEF CallReturns, files
<1>3. PICK answer \in Answers(l) :
        IF MissingRequired(l, Normalised(answer)) = {}
          THEN Becomes(l, "storing") /\ rows' = [rows EXCEPT ![l] = Normalised(answer)]
          ELSE Becomes(l, "reporting") /\ UNCHANGED rows
  BY DEF CallReturns
<1> DEFINE taken == Normalised(answer)
<1>4. taken \in Seq(Nat) /\ Ascending(taken)
  BY AnswerOrdered
<1> HIDE DEF taken
<1>5. /\ phase \in [Ledgers -> Phases] /\ rows \in [Ledgers -> Seq(Nat)]
      /\ "storing" \in Phases /\ "reporting" \in Phases
  BY <1>1 DEF TypeOK, Phases
<1>6. pc = "fetching" /\ QueueInv' /\ MergeInv'
  BY <1>2, <1>3, <1>5, ThreadStep
<1>7. /\ \A k \in Ledgers \ {l} : phase'[k] = phase[k] /\ rows'[k] = rows[k]
      /\ \/ phase'[l] = "reporting" /\ rows'[l] = rows[l]
         \/ phase'[l] = "storing" /\ rows'[l] = taken /\ MissingRequired(l, taken) = {}
      /\ phase' \in [Ledgers -> Phases] /\ rows' \in [Ledgers -> Seq(Nat)]
  BY <1>3, <1>4, <1>5 DEF Becomes, taken
<1>8. TypeOK'
  <2>1. \A k \in Ledgers : phase'[k] = "writing" <=> phase[k] = "writing"
    BY <1>2, <1>7
  <2>2. lock' = {k \in Ledgers : phase'[k] = "writing"}
    BY <1>1, <1>2, <2>1 DEF TypeOK
  <2> QED BY <1>1, <1>2, <1>7, <2>2 DEF TypeOK, main
<1>9. ShardInv'
  BY <1>1, <1>2, <1>4, <1>7 DEF ShardInv, main
<1>10. SettledInv'
  <2>1. ASSUME spoilt = {}, phase'[l] = "storing" PROVE Required[l] \subseteq ToSet(rows'[l])
    BY <1>1, <1>6, <1>7, <2>1 DEF SettledInv, MissingRequired
  <2> QED BY <1>1, <1>2, <1>7, <2>1 DEF SettledInv, Settled, main
<1> QED BY <1>6, <1>8, <1>9, <1>10 DEF FetchInv

LEMMA OpenShardInv ==
  ASSUME FetchInv, NEW l \in Ledgers, OpenShard(l) PROVE FetchInv'
<1>1. TypeOK /\ QueueInv /\ ShardInv /\ SettledInv
  BY DEF FetchInv
<1>2. /\ phase[l] = "storing" /\ lock = {} /\ lock' = {l} /\ Becomes(l, "writing")
      /\ shard' = [shard EXCEPT ![l] = <<>>]
      /\ UNCHANGED <<failed, merged, attempt, rows, main>>
  BY DEF OpenShard
<1>3. phase \in [Ledgers -> Phases] /\ "writing" \in Phases /\ shard \in [Ledgers -> Seq(Line)]
  BY <1>1 DEF TypeOK, Phases
<1>4. pc = "fetching" /\ QueueInv' /\ MergeInv'
  BY <1>2, <1>3, ThreadStep
<1>5. /\ phase' \in [Ledgers -> Phases] /\ shard' = shard
      /\ \A k \in Ledgers : phase'[k] = IF k = l THEN "writing" ELSE phase[k]
  <2>1. shard[l] = <<>>
    BY <1>1, <1>2 DEF ShardInv
  <2> QED BY <1>2, <1>3, <2>1 DEF Becomes
<1>6. TypeOK'
  <2>1. \A k \in Ledgers : phase[k] # "writing"
    BY <1>1, <1>2 DEF TypeOK
  <2>2. lock' = {k \in Ledgers : phase'[k] = "writing"}
    BY <1>2, <1>5, <2>1
  <2>3. Cardinality(lock') <= 1
    BY <1>2, FS_Singleton
  <2> QED BY <1>1, <1>2, <1>5, <2>2, <2>3 DEF TypeOK, main
<1>7. ShardInv'
  BY <1>1, <1>2, <1>5 DEF ShardInv, main
<1>8. SettledInv'
  BY <1>1, <1>2, <1>5 DEF SettledInv, Settled, main
<1> QED BY <1>4, <1>6, <1>7, <1>8 DEF FetchInv

\* What holds of the lock when the writer has left the with block.
LEMMA LockFree ==
  ASSUME TypeOK, NEW l \in Ledgers, phase[l] = "writing",
         NEW p \in Phases \ {"writing"}, Becomes(l, p), lock' = {}
  PROVE  lock' = {k \in Ledgers : phase'[k] = "writing"} /\ Cardinality(lock') <= 1
<1>1. lock = {l} /\ lock = {k \in Ledgers : phase[k] = "writing"} /\ phase \in [Ledgers -> Phases]
  BY WriterHolds DEF TypeOK
<1>2. \A k \in Ledgers : phase'[k] # "writing"
  BY <1>1 DEF Becomes
<1> QED BY <1>2, FS_EmptySet

LEMMA CloseShardInv ==
  ASSUME FetchInv, NEW l \in Ledgers, CloseShard(l) PROVE FetchInv'
<1>1. TypeOK /\ QueueInv /\ ShardInv /\ SettledInv
  BY DEF FetchInv
<1>2. /\ phase[l] = "writing" /\ lock' = {} /\ Becomes(l, "finished")
      /\ shard' = [shard EXCEPT ![l] = Lines(l, rows[l])]
      /\ UNCHANGED <<failed, merged, attempt, rows, main>>
  BY DEF CloseShard
<1>3. /\ phase \in [Ledgers -> Phases] /\ "finished" \in Phases
      /\ shard \in [Ledgers -> Seq(Line)] /\ rows[l] \in Seq(Nat)
  BY <1>1 DEF TypeOK, Phases
<1>4. pc = "fetching" /\ QueueInv' /\ MergeInv'
  BY <1>2, <1>3, ThreadStep
<1>5. Lines(l, rows[l]) \in Seq(Line) /\ LinesAscend(l, Lines(l, rows[l]))
  BY <1>1, <1>3, LinesOrdered DEF ShardInv
<1>6. /\ phase' \in [Ledgers -> Phases] /\ shard' \in [Ledgers -> Seq(Line)]
      /\ \A k \in Ledgers \ {l} : phase'[k] = phase[k] /\ shard'[k] = shard[k]
      /\ phase'[l] = "finished" /\ shard'[l] = Lines(l, rows[l])
  BY <1>2, <1>3, <1>5 DEF Becomes
<1>7. TypeOK'
  <2>1. lock' = {k \in Ledgers : phase'[k] = "writing"} /\ Cardinality(lock') <= 1
    BY <1>1, <1>2, <1>3, LockFree
  <2> QED BY <1>1, <1>2, <1>6, <2>1 DEF TypeOK, main
<1>8. ShardInv'
  <2>1. l \notin ToSet(todo)
    BY <1>1, <1>2 DEF QueueInv
  <2> QED BY <1>1, <1>2, <1>5, <1>6, <2>1 DEF ShardInv, main
<1>9. SettledInv'
  BY <1>1, <1>2, <1>4, <1>6 DEF SettledInv, Settled, main
<1> QED BY <1>4, <1>7, <1>8, <1>9 DEF FetchInv

LEMMA ShardFailsInv ==
  ASSUME FetchInv, NEW l \in Ledgers, ShardFails(l) PROVE FetchInv'
<1>1. TypeOK /\ QueueInv /\ ShardInv /\ SettledInv
  BY DEF FetchInv
<1>2. /\ phase[l] = "writing" /\ lock' = {} /\ Becomes(l, "reporting")
      /\ UNCHANGED <<failed, merged, attempt, rows, main>>
  BY DEF ShardFails, AfterFailure
<1>3. PICK lines \in Cut(Lines(l, rows[l])) : shard' = [shard EXCEPT ![l] = lines]
  BY DEF ShardFails
<1>4. /\ phase \in [Ledgers -> Phases] /\ "reporting" \in Phases
      /\ shard \in [Ledgers -> Seq(Line)] /\ rows[l] \in Seq(Nat)
  BY <1>1 DEF TypeOK, Phases
<1>5. pc = "fetching" /\ QueueInv' /\ MergeInv'
  BY <1>2, <1>4, ThreadStep
<1>6. lines \in Seq(Line) /\ LinesAscend(l, lines)
  BY <1>1, <1>4, LinesOrdered, CutOrdered DEF ShardInv
<1>7. /\ phase' \in [Ledgers -> Phases] /\ shard' \in [Ledgers -> Seq(Line)]
      /\ \A k \in Ledgers \ {l} : phase'[k] = phase[k] /\ shard'[k] = shard[k]
      /\ phase'[l] = "reporting" /\ shard'[l] = lines
  BY <1>2, <1>3, <1>4, <1>6 DEF Becomes
<1>8. TypeOK'
  <2>1. lock' = {k \in Ledgers : phase'[k] = "writing"} /\ Cardinality(lock') <= 1
    BY <1>1, <1>2, <1>4, LockFree
  <2> QED BY <1>1, <1>2, <1>7, <2>1 DEF TypeOK, main
<1>9. ShardInv'
  <2>1. l \notin ToSet(todo)
    BY <1>1, <1>2 DEF QueueInv
  <2> QED BY <1>1, <1>2, <1>6, <1>7, <2>1 DEF ShardInv, main
<1>10. SettledInv'
  BY <1>1, <1>2, <1>5, <1>7 DEF SettledInv, Settled, main
<1> QED BY <1>5, <1>8, <1>9, <1>10 DEF FetchInv

LEMMA ReportInv ==
  ASSUME FetchInv, NEW l \in Ledgers, Report(l) PROVE FetchInv'
<1>1. TypeOK /\ QueueInv /\ ShardInv /\ SettledInv
  BY DEF FetchInv
<1>2. /\ phase[l] = "reporting" /\ failed' = failed \cup {l} /\ Becomes(l, "finished")
      /\ UNCHANGED <<shard, merged, attempt, rows, lock, main>>
  BY DEF Report, Named
<1>3. phase \in [Ledgers -> Phases] /\ "finished" \in Phases
  BY <1>1 DEF TypeOK, Phases
<1>4. pc = "fetching" /\ QueueInv' /\ MergeInv'
  BY <1>2, <1>3, ThreadStep
<1>5. /\ phase' \in [Ledgers -> Phases] /\ phase'[l] = "finished"
      /\ \A k \in Ledgers \ {l} : phase'[k] = phase[k]
  BY <1>2, <1>3 DEF Becomes
<1>6. TypeOK'
  <2>1. \A k \in Ledgers : phase'[k] = "writing" <=> phase[k] = "writing"
    BY <1>2, <1>5
  <2>2. lock' = {k \in Ledgers : phase'[k] = "writing"}
    BY <1>1, <1>2, <2>1 DEF TypeOK
  <2> QED BY <1>1, <1>2, <1>5, <2>2 DEF TypeOK, main
<1>7. ShardInv'
  BY <1>1, <1>2, <1>5 DEF ShardInv, main
<1>8. SettledInv'
  BY <1>1, <1>2, <1>5 DEF SettledInv, Settled, main
<1> QED BY <1>4, <1>6, <1>7, <1>8 DEF FetchInv

-----------------------------------------------------------------------------
(* The main thread *)

LEMMA NobodyWrites ==
  ASSUME TypeOK, QueueInv, inflight = {}
  PROVE  lock = {} /\ \A l \in Ledgers : phase[l] = "idle"
BY DEF TypeOK, QueueInv

LEMMA StartInv == ASSUME FetchInv, Start PROVE FetchInv'
<1> DEFINE pending == InOrder(Ledgers \ DoneLedgers)
           next == Submitted({}, pending)
           rest == Unsubmitted({}, pending)
<1>1. TypeOK /\ QueueInv /\ ShardInv /\ MergeInv /\ SettledInv
  BY DEF FetchInv
<1>2. /\ pc \in {"off", "done"} /\ runs < MaxRuns /\ runs' = runs + 1 /\ checking' \in Checked
      /\ todo' = rest /\ inflight' = next
      /\ phase' = [l \in Ledgers |-> IF l \in next THEN "calling" ELSE "idle"]
      /\ attempt' = [l \in Ledgers |-> 0] /\ pc' = "fetching" /\ unmerged' = <<>>
      /\ spoilt' = spoilt \cup (IF checking' THEN {} ELSE {"unchecked"})
      /\ UNCHANGED <<shard, failed, merged, rows, lock>>
  BY DEF Start, files
<1>3. /\ pending \in Seq(Ledgers) /\ Ascending(pending)
      /\ ToSet(pending) = {l \in Ledgers : shard[l] = <<>>}
  <2>1. Ledgers \ DoneLedgers \subseteq Nat /\ IsFiniteSet(Ledgers \ DoneLedgers)
    BY FetchAssumption, FS_Difference
  <2>2. Ledgers \ DoneLedgers = {l \in Ledgers : shard[l] = <<>>}
    BY DEF DoneLedgers
  <2> QED BY <2>1, <2>2, InOrderIs, SeqMonotonic
<1> HIDE DEF pending
<1>4. /\ next \subseteq ToSet(pending) /\ Cardinality(next) <= Workers
      /\ rest \in Seq(Ledgers) /\ Ascending(rest) /\ ToSet(rest) = ToSet(pending) \ next
      /\ next = {} => rest = <<>>
  <2>1. Cardinality({}) <= Workers
    BY FS_EmptySet, FetchAssumption
  <2>2. {} \cup next = next
    OBVIOUS
  <2> QED BY <1>3, <2>1, <2>2, Submission
<1> HIDE DEF next, rest
<1>5. inflight = {} /\ todo = <<>> /\ lock = {} /\ \A l \in Ledgers : phase[l] = "idle"
  BY <1>1, <1>2, NobodyWrites DEF QueueInv
<1>6. \A l \in Ledgers : phase'[l] = IF l \in next THEN "calling" ELSE "idle"
  BY <1>2
<1>7. TypeOK'
  <2>1. phase' \in [Ledgers -> Phases]
    BY <1>2 DEF Phases
  <2>2. attempt' \in [Ledgers -> 0 .. Retries]
    BY <1>2, FetchAssumption
  <2>3. runs' \in 0 .. MaxRuns /\ checking' \in BOOLEAN
    BY <1>1, <1>2, FetchAssumption DEF TypeOK
  <2>4. lock' = {l \in Ledgers : phase'[l] = "writing"}
    BY <1>2, <1>5, <1>6
  <2>5. unmerged' \in Seq(Ledgers) /\ next \subseteq Ledgers
    BY <1>2, <1>3, <1>4
  <2>6. spoilt' \subseteq {"killed", "unchecked"}
    BY <1>1, <1>2 DEF TypeOK
  <2> QED BY <1>1, <1>2, <1>4, <2>1, <2>2, <2>3, <2>4, <2>5, <2>6 DEF TypeOK
<1>8. QueueInv'
  <2>1. Ascending(<<>>)
    BY DEF Ascending
  <2>2. ToSet(rest) \cap next = {}
    BY <1>4
  <2>3. \A l \in Ledgers : phase'[l] # "idle" <=> l \in next
    BY <1>6
  <2> QED BY <1>2, <1>4, <2>1, <2>2, <2>3 DEF QueueInv
<1>9. ShardInv'
  BY <1>1, <1>2, <1>3, <1>4, <1>6 DEF ShardInv
<1>10. MergeInv'
  BY <1>1, <1>2 DEF MergeInv, MergedSorted
<1>11. SettledInv'
  <2>1. \A l \in Ledgers : phase'[l] \notin {"storing", "writing"}
    BY <1>6
  <2>2. ASSUME "killed" \notin spoilt, NEW l \in Ledgers, Settled(l)' PROVE Settled(l)
    <3>1. l \notin ToSet(pending)
      BY <1>2, <1>4, <1>6, <2>2 DEF Settled
    <3>2. pc = "done"
      BY <1>1, <1>2, <1>3, <2>2, <3>1 DEF SettledInv
    <3> QED BY <1>2, <1>5, <2>2, <3>2 DEF Settled, ToSet
  <2>3. spoilt' = {} => spoilt = {} /\ checking'
    BY <1>2
  <2>4. "killed" \notin spoilt' => "killed" \notin spoilt
    BY <1>2
  <2> QED BY <1>1, <1>2, <2>1, <2>2, <2>3, <2>4 DEF SettledInv
<1> QED BY <1>7, <1>8, <1>9, <1>10, <1>11 DEF FetchInv

LEMMA CollectInv == ASSUME FetchInv, Collect PROVE FetchInv'
<1> DEFINE ready == {l \in inflight : phase[l] = "finished"}
           busy == inflight \ ready
           next == Submitted(busy, todo)
           rest == Unsubmitted(busy, todo)
<1>1. TypeOK /\ QueueInv /\ ShardInv /\ MergeInv /\ SettledInv
  BY DEF FetchInv
<1>2. /\ pc = "fetching" /\ inflight' = busy \cup next /\ todo' = rest
      /\ phase' = [l \in Ledgers |->
                     CASE l \in next  -> "calling"
                       [] l \in ready -> "idle"
                       [] OTHER       -> phase[l]]
      /\ UNCHANGED <<shard, failed, merged, attempt, rows, lock, pc, checking, unmerged, runs, spoilt>>
  BY DEF Collect, files
<1>3. inflight \subseteq Ledgers /\ todo \in Seq(Ledgers) /\ phase \in [Ledgers -> Phases]
  BY <1>1 DEF TypeOK
<1>4. busy \in SUBSET Ledgers /\ Cardinality(busy) <= Workers
  <2>1. IsFiniteSet(inflight) /\ busy \in SUBSET inflight
    BY <1>3, FetchAssumption, FS_Subset
  <2>2. Cardinality(busy) <= Cardinality(inflight) /\ Cardinality(busy) \in Nat /\ Cardinality(inflight) \in Nat
    BY <2>1, FS_Subset, FS_CardinalityType
  <2>3. Cardinality(inflight) <= Workers /\ Workers \in Nat
    BY <1>1, FetchAssumption DEF TypeOK
  <2> HIDE DEF busy
  <2> QED BY <1>3, <2>1, <2>2, <2>3
<1>5. /\ next \subseteq ToSet(todo) /\ Cardinality(busy \cup next) <= Workers
      /\ rest \in Seq(Ledgers) /\ Ascending(rest) /\ ToSet(rest) = ToSet(todo) \ next
      /\ busy \cup next = {} => rest = <<>>
  <2>1. Ascending(todo) /\ ToSet(todo) \cap busy = {}
    BY <1>1 DEF QueueInv
  <2> HIDE DEF busy
  <2> QED BY <1>3, <1>4, <2>1, Submission
<1> HIDE DEF next, rest
<1>6. ToSet(todo) \cap inflight = {} /\ ToSet(todo) \subseteq Ledgers
  BY <1>1, <1>3 DEF QueueInv, ToSet
<1>7. \A l \in Ledgers :
        phase'[l] = IF l \in next THEN "calling" ELSE IF l \in ready THEN "idle" ELSE phase[l]
  <2> HIDE DEF ready, busy
  <2> TAKE l \in Ledgers
  <2>1. phase'[l] = CASE l \in next  -> "calling"
                      [] l \in ready -> "idle"
                      [] OTHER       -> phase[l]
    BY <1>2
  <2>2. next \cap ready = {}
    BY <1>5, <1>6 DEF ready
  <2> QED BY <2>1, <2>2
<1>8. TypeOK'
  <2>1. phase' \in [Ledgers -> Phases]
    BY <1>2, <1>3, <1>7 DEF Phases
  <2>2. \A l \in Ledgers : phase'[l] = "writing" <=> phase[l] = "writing"
    <3> TAKE l \in Ledgers
    <3>1. phase[l] = "writing" => l \notin next
      BY <1>1, <1>5, <1>6 DEF QueueInv
    <3> QED BY <1>7, <3>1
  <2>3. lock' = {l \in Ledgers : phase'[l] = "writing"}
    BY <1>1, <1>2, <2>2 DEF TypeOK
  <2>4. busy \cup next \subseteq Ledgers
    BY <1>4, <1>5, <1>6
  <2> QED BY <1>1, <1>2, <1>5, <2>1, <2>3, <2>4 DEF TypeOK
<1>9. QueueInv'
  <2>1. \A l \in Ledgers : phase'[l] # "idle" <=> l \in busy \cup next
    BY <1>1, <1>7 DEF QueueInv
  <2>2. ToSet(rest) \cap (busy \cup next) = {}
    BY <1>5, <1>6
  <2> QED BY <1>1, <1>2, <1>5, <2>1, <2>2 DEF QueueInv
<1>10. ShardInv'
  <2>1. \A l \in Ledgers : phase'[l] \in {"calling", "storing"} \/ l \in ToSet(rest) =>
           l \in ToSet(todo) \/ phase[l] \in {"calling", "storing"}
    BY <1>5, <1>7
  <2> QED BY <1>1, <1>2, <2>1 DEF ShardInv
<1>11. MergeInv'
  BY <1>1, <1>2 DEF MergeInv, MergedSorted
<1>12. SettledInv'
  <2>1. \A l \in Ledgers : phase'[l] \in {"storing", "writing"} => phase[l] = phase'[l]
    BY <1>7
  <2>2. ASSUME NEW l \in Ledgers, Settled(l)' PROVE Settled(l)
    <3>1. l \notin next /\ l \notin ToSet(rest)
      BY <1>2, <1>7, <2>2 DEF Settled
    <3>2. l \notin ToSet(todo)
      BY <1>5, <3>1
    <3>3. phase[l] \in {"idle", "finished"}
      BY <1>7, <2>2, <3>1 DEF Settled
    <3> QED BY <1>2, <2>2, <3>2, <3>3 DEF Settled
  <2> QED BY <1>1, <1>2, <2>1, <2>2 DEF SettledInv
<1> QED BY <1>8, <1>9, <1>10, <1>11, <1>12 DEF FetchInv

LEMMA OpenMergedInv == ASSUME FetchInv, OpenMerged PROVE FetchInv'
<1>1. TypeOK /\ QueueInv /\ ShardInv /\ MergeInv /\ SettledInv
  BY DEF FetchInv
<1>2. /\ pc = "fetching" /\ inflight = {} /\ pc' = "merging" /\ merged' = <<>>
      /\ unmerged' = InOrder(Ledgers)
      /\ UNCHANGED <<shard, failed, phase, attempt, rows, lock, checking, todo, inflight, runs, spoilt>>
  BY DEF OpenMerged, threads
<1>3. InOrder(Ledgers) \in Seq(Ledgers) /\ Ascending(InOrder(Ledgers)) /\ ToSet(InOrder(Ledgers)) = Ledgers
  BY FetchAssumption, InOrderIs
<1>4. TypeOK'
  BY <1>1, <1>2, <1>3 DEF TypeOK
<1>5. QueueInv'
  BY <1>1, <1>2, <1>3 DEF QueueInv
<1>6. ShardInv'
  BY <1>1, <1>2 DEF ShardInv
<1>7. MergeInv'
  BY <1>2, <1>3 DEF MergeInv, MergedSorted
<1>8. SettledInv'
  BY <1>1, <1>2 DEF SettledInv, Settled
<1> QED BY <1>4, <1>5, <1>6, <1>7, <1>8 DEF FetchInv

\* The lines of the next shard come behind those of all earlier ledgers.
LEMMA MergeShardInv == ASSUME FetchInv, MergeShard PROVE FetchInv'
<1> DEFINE h == Head(unmerged)
           added == shard[h]
<1>1. TypeOK /\ QueueInv /\ ShardInv /\ MergeInv /\ SettledInv
  BY DEF FetchInv
<1>2. /\ pc = "merging" /\ unmerged # <<>> /\ merged' = merged \o added /\ unmerged' = Tail(unmerged)
      /\ UNCHANGED <<shard, failed, phase, attempt, rows, lock, pc, checking, todo, inflight, runs, spoilt>>
  BY DEF MergeShard, threads
<1>3. /\ unmerged \in Seq(Ledgers) /\ merged \in Seq(Line) /\ shard \in [Ledgers -> Seq(Line)]
      /\ Ascending(unmerged)
  BY <1>1 DEF TypeOK, QueueInv
<1>4. /\ h \in Ledgers /\ Tail(unmerged) \in Seq(Ledgers)
      /\ Len(unmerged) \in Nat /\ DOMAIN unmerged = 1 .. Len(unmerged)
      /\ Len(Tail(unmerged)) = Len(unmerged) - 1 /\ 1 \in DOMAIN unmerged /\ h = unmerged[1]
      /\ DOMAIN Tail(unmerged) = 1 .. Len(unmerged) - 1
      /\ \A u \in 1 .. Len(unmerged) - 1 : Tail(unmerged)[u] = unmerged[u + 1]
  BY <1>2, <1>3
<1>5. /\ added \in Seq(Line) /\ LinesAscend(h, added)
  BY <1>1, <1>3, <1>4 DEF ShardInv
<1> HIDE DEF h, added
<1>6. /\ Len(merged) \in Nat /\ Len(added) \in Nat /\ merged \o added \in Seq(Line)
      /\ DOMAIN merged = 1 .. Len(merged) /\ DOMAIN added = 1 .. Len(added)
      /\ DOMAIN (merged \o added) = 1 .. Len(merged) + Len(added)
      /\ \A k \in 1 .. Len(merged) + Len(added) :
           (merged \o added)[k] = IF k <= Len(merged) THEN merged[k] ELSE added[k - Len(merged)]
  BY <1>3, <1>5, ConcatProperties
<1>7. \A u \in DOMAIN Tail(unmerged) : u + 1 \in DOMAIN unmerged /\ h < Tail(unmerged)[u]
  <2> TAKE u \in DOMAIN Tail(unmerged)
  <2>1. u \in 1 .. Len(unmerged) - 1 /\ u + 1 \in 1 .. Len(unmerged) /\ 1 < u + 1
    BY <1>4
  <2>2. unmerged[1] < unmerged[u + 1]
    BY <1>3, <1>4, <2>1 DEF Ascending
  <2> QED BY <1>4, <2>1, <2>2
<1>8. \A k \in DOMAIN merged : merged[k] \in Line /\ merged[k].ledger < h
  <2> TAKE k \in DOMAIN merged
  <2>1. merged[k] \in Line
    BY <1>3
  <2>2. merged[k].ledger < unmerged[1]
    BY <1>1, <1>2, <1>4 DEF MergeInv
  <2> QED BY <1>4, <2>1, <2>2
<1>9. \A k \in DOMAIN added : added[k] \in Line /\ added[k].ledger = h
  BY <1>5 DEF LinesAscend
<1>10. TypeOK'
  BY <1>1, <1>2, <1>4, <1>6 DEF TypeOK
<1>11. QueueInv'
  <2>1. Ascending(Tail(unmerged))
    <3> SUFFICES ASSUME NEW i \in DOMAIN Tail(unmerged), NEW j \in DOMAIN Tail(unmerged), i < j
                 PROVE  Tail(unmerged)[i] < Tail(unmerged)[j]
      BY DEF Ascending
    <3>1. i + 1 \in DOMAIN unmerged /\ j + 1 \in DOMAIN unmerged /\ i + 1 < j + 1
      BY <1>4
    <3> QED BY <1>3, <1>4, <3>1 DEF Ascending
  <2> QED BY <1>1, <1>2, <2>1 DEF QueueInv
<1>12. ShardInv'
  BY <1>1, <1>2 DEF ShardInv
<1>13. MergedSorted'
  <2> SUFFICES ASSUME NEW i \in DOMAIN (merged \o added), NEW j \in DOMAIN (merged \o added), i < j
               PROVE  Before((merged \o added)[i], (merged \o added)[j])
    BY <1>2 DEF MergedSorted
  <2>1. CASE j <= Len(merged)
    <3>1. i \in DOMAIN merged /\ j \in DOMAIN merged
      BY <1>6, <2>1
    <3> QED BY <1>1, <1>6, <2>1, <3>1 DEF MergeInv, MergedSorted
  <2>2. CASE Len(merged) < i
    <3>1. i - Len(merged) \in DOMAIN added /\ j - Len(merged) \in DOMAIN added
          /\ i - Len(merged) < j - Len(merged)
      BY <1>6, <2>2
    <3>2. (merged \o added)[i] = added[i - Len(merged)] /\ (merged \o added)[j] = added[j - Len(merged)]
      BY <1>6, <2>2
    <3> QED BY <1>5, <3>1, <3>2 DEF LinesAscend, Before
  <2>3. CASE i <= Len(merged) /\ Len(merged) < j
    <3>1. i \in DOMAIN merged /\ j - Len(merged) \in DOMAIN added
      BY <1>6, <2>3
    <3>2. (merged \o added)[i] = merged[i] /\ (merged \o added)[j] = added[j - Len(merged)]
      BY <1>6, <2>3
    <3> QED BY <1>8, <1>9, <3>1, <3>2 DEF Before
  <2> QED BY <1>6, <2>1, <2>2, <2>3
<1>14. \A k \in DOMAIN merged', u \in DOMAIN unmerged' : merged'[k].ledger < unmerged'[u]
  <2> TAKE k \in DOMAIN merged', u \in DOMAIN unmerged'
  <2>1. h < unmerged'[u] /\ h \in Nat /\ unmerged'[u] \in Nat
    <3>1. unmerged' = Tail(unmerged) /\ u \in DOMAIN Tail(unmerged)
      BY <1>2
    <3>2. Tail(unmerged)[u] \in Ledgers
      BY <1>4, <3>1
    <3> QED BY <1>4, <1>7, <3>1, <3>2, FetchAssumption
  <2>2. CASE k <= Len(merged)
    <3>1. k \in DOMAIN merged /\ merged'[k] = merged[k]
      BY <1>2, <1>6, <2>2
    <3>2. merged[k].ledger \in Nat
      BY <1>8, <3>1, FetchAssumption DEF Line
    <3> QED BY <1>8, <2>1, <3>1, <3>2
  <2>3. CASE Len(merged) < k
    <3>1. k - Len(merged) \in DOMAIN added /\ merged'[k] = added[k - Len(merged)]
      BY <1>2, <1>6, <2>3
    <3> QED BY <1>9, <2>1, <3>1
  <2> QED BY <1>2, <1>6, <2>2, <2>3
<1>15. ToSet(merged') = ToSet(merged) \cup ToSet(added)
  <2>1. \A k \in DOMAIN merged : k \in DOMAIN (merged \o added) /\ (merged \o added)[k] = merged[k]
    BY <1>6
  <2>2. \A k \in DOMAIN added : k + Len(merged) \in DOMAIN (merged \o added)
                                /\ (merged \o added)[k + Len(merged)] = added[k]
    BY <1>6
  <2>3. \A k \in DOMAIN (merged \o added) :
          \/ k \in DOMAIN merged /\ (merged \o added)[k] = merged[k]
          \/ k - Len(merged) \in DOMAIN added /\ (merged \o added)[k] = added[k - Len(merged)]
    BY <1>6
  <2> DEFINE longer == merged \o added
  <2> HIDE DEF longer
  <2>4. ToSet(merged) \cup ToSet(added) \subseteq ToSet(longer)
    BY <2>1, <2>2 DEF ToSet, longer
  <2>5. ToSet(longer) \subseteq ToSet(merged) \cup ToSet(added)
    BY <2>3 DEF ToSet, longer
  <2> QED BY <1>2, <2>4, <2>5 DEF longer
<1>16. ASSUME NEW l \in Ledgers \ ToSet(unmerged') PROVE LinesOf(l)' = ToSet(shard'[l])
  <2>1. CASE l = h
    <3>1. \A line \in ToSet(merged) : line.ledger # h
      BY <1>4, <1>8, FetchAssumption DEF ToSet, Line
    <3>2. \A line \in ToSet(added) : line.ledger = h
      BY <1>9 DEF ToSet
    <3> QED BY <1>2, <1>15, <2>1, <3>1, <3>2 DEF LinesOf, added
  <2>2. CASE l # h
    <3>1. l \notin ToSet(unmerged)
      <4> SUFFICES ASSUME NEW u \in DOMAIN unmerged, l = unmerged[u] PROVE FALSE
        BY DEF ToSet
      <4>1. u # 1 /\ u - 1 \in DOMAIN Tail(unmerged) /\ (u - 1) + 1 = u
        BY <1>4, <2>2
      <4>2. Tail(unmerged)[u - 1] = l
        BY <1>4, <4>1
      <4> QED BY <1>2, <4>1, <4>2 DEF ToSet
    <3>2. LinesOf(l) = ToSet(shard[l])
      BY <1>1, <1>2, <3>1 DEF MergeInv
    <3>3. \A line \in ToSet(added) : line.ledger # l
      BY <1>9, <2>2 DEF ToSet
    <3> QED BY <1>2, <1>15, <3>2, <3>3 DEF LinesOf
  <2> QED BY <2>1, <2>2
<1>17. MergeInv'
  BY <1>13, <1>14, <1>16 DEF MergeInv
<1>18. SettledInv'
  BY <1>1, <1>2 DEF SettledInv, Settled
<1> QED BY <1>10, <1>11, <1>12, <1>17, <1>18 DEF FetchInv

LEMMA CloseMergedInv == ASSUME FetchInv, CloseMerged PROVE FetchInv'
<1>1. /\ pc = "merging" /\ unmerged = <<>> /\ pc' = "done"
      /\ UNCHANGED <<shard, failed, merged, phase, attempt, rows, lock>>
      /\ UNCHANGED <<checking, todo, inflight, unmerged, runs, spoilt>>
  BY DEF CloseMerged, files, threads
<1>2. TypeOK' /\ QueueInv' /\ ShardInv'
  BY <1>1 DEF FetchInv, TypeOK, QueueInv, ShardInv
<1>3. MergeInv' /\ SettledInv'
  BY <1>1 DEF FetchInv, MergeInv, MergedSorted, LinesOf, SettledInv, Settled
<1> QED BY <1>2, <1>3 DEF FetchInv

LEMMA CrashInv == ASSUME FetchInv, Crash PROVE FetchInv'
<1>1. TypeOK /\ QueueInv /\ ShardInv /\ MergeInv /\ SettledInv
  BY DEF FetchInv
<1>2. /\ pc' = "off" /\ todo' = <<>> /\ inflight' = {} /\ unmerged' = <<>>
      /\ phase' = [l \in Ledgers |-> "idle"] /\ lock' = {}
      /\ spoilt' = spoilt \cup {"killed"}
      /\ UNCHANGED <<failed, attempt, rows, checking, runs>>
  BY DEF Crash
<1>3. /\ shard' \in [Ledgers -> Seq(Line)]
      /\ \A l \in Ledgers : LinesAscend(l, shard'[l])
  <2>1. CASE UNCHANGED shard
    BY <1>1, <2>1 DEF TypeOK, ShardInv
  <2>2. CASE \E l \in lock : \E lines \in Cut(Lines(l, rows[l])) : shard' = [shard EXCEPT ![l] = lines]
    <3>0. PICK l \in lock : \E lines \in Cut(Lines(l, rows[l])) : shard' = [shard EXCEPT ![l] = lines]
      BY <2>2
    <3>1. PICK lines \in Cut(Lines(l, rows[l])) : shard' = [shard EXCEPT ![l] = lines]
      BY <3>0
    <3>2. l \in Ledgers /\ rows[l] \in Seq(Nat) /\ shard \in [Ledgers -> Seq(Line)]
      BY <1>1, <3>0 DEF TypeOK
    <3>3. lines \in Seq(Line) /\ LinesAscend(l, lines)
      BY <1>1, <3>1, <3>2, LinesOrdered, CutOrdered DEF ShardInv
    <3> QED BY <1>1, <3>1, <3>2, <3>3 DEF ShardInv
  <2> QED BY <2>1, <2>2 DEF Crash
<1>4. merged' \in Seq(Line) /\ MergedSorted'
  <2>1. merged \in Seq(Line) /\ MergedSorted
    BY <1>1 DEF TypeOK, MergeInv
  <2>2. CASE merged' = merged
    BY <2>1, <2>2 DEF MergedSorted
  <2>3. CASE merged' \in Cut(merged)
    BY <2>1, <2>3, CutShape DEF MergedSorted, Before
  <2> QED BY <2>2, <2>3 DEF Crash
<1>5. TypeOK'
  <2>1. phase' \in [Ledgers -> Phases] /\ \A l \in Ledgers : phase'[l] # "writing"
    BY <1>2 DEF Phases
  <2>2. Cardinality({}) = 0 /\ 0 <= 1 /\ 0 <= Workers
    BY FS_EmptySet, FetchAssumption
  <2>3. lock' = {l \in Ledgers : phase'[l] = "writing"}
    BY <1>2, <2>1
  <2> QED BY <1>1, <1>2, <1>3, <1>4, <2>1, <2>2, <2>3 DEF TypeOK
<1>6. QueueInv'
  BY <1>2 DEF QueueInv, Ascending, ToSet
<1>7. ShardInv'
  BY <1>1, <1>2, <1>3 DEF ShardInv, ToSet
<1>8. MergeInv'
  BY <1>2, <1>4 DEF MergeInv
<1>9. SettledInv'
  BY <1>2 DEF SettledInv
<1> QED BY <1>5, <1>6, <1>7, <1>8, <1>9 DEF FetchInv

-----------------------------------------------------------------------------
(* The theorems *)

LEMMA FetchInit == Init => FetchInv
<1> SUFFICES ASSUME Init PROVE FetchInv
  OBVIOUS
<1>1. TypeOK
  <2>1. \A l \in Ledgers : phase[l] # "writing"
    BY DEF Init
  <2>2. Cardinality({}) = 0 /\ 0 <= 1 /\ 0 <= Workers /\ 0 \in 0 .. MaxRuns /\ 0 \in 0 .. Retries
    BY FS_EmptySet, FetchAssumption
  <2>3. checking \in BOOLEAN
    BY FetchAssumption DEF Init
  <2> QED BY <2>1, <2>2, <2>3 DEF Init, TypeOK, Phases
<1>2. QueueInv
  BY DEF Init, QueueInv, Ascending, ToSet
<1>3. ShardInv
  BY DEF Init, ShardInv, Ascending, LinesAscend
<1>4. MergeInv
  BY DEF Init, MergeInv, MergedSorted
<1>5. SettledInv
  BY DEF Init, SettledInv, Settled
<1> QED BY <1>1, <1>2, <1>3, <1>4, <1>5 DEF FetchInv

LEMMA FetchStutter == ASSUME FetchInv, UNCHANGED vars PROVE FetchInv'
<1>1. /\ UNCHANGED <<shard, failed, merged, phase, attempt, rows, lock>>
      /\ UNCHANGED <<pc, checking, todo, inflight, unmerged, runs, spoilt>>
  BY DEF vars, files, threads, main
<1>2. TypeOK' /\ QueueInv' /\ ShardInv'
  BY <1>1 DEF FetchInv, TypeOK, QueueInv, ShardInv
<1>3. MergeInv' /\ SettledInv'
  BY <1>1 DEF FetchInv, MergeInv, MergedSorted, LinesOf, SettledInv, Settled
<1> QED BY <1>2, <1>3 DEF FetchInv

LEMMA FetchStep == FetchInv /\ [Next]_vars => FetchInv'
<1> SUFFICES ASSUME FetchInv, [Next]_vars PROVE FetchInv'
  OBVIOUS
<1>1. CASE Start
  BY <1>1, StartInv
<1>2. CASE Main
  BY <1>2, CollectInv, OpenMergedInv, MergeShardInv, CloseMergedInv DEF Main
<1>3. CASE Crash
  BY <1>3, CrashInv
<1>4. ASSUME NEW l \in Ledgers, Fetch(l) PROVE FetchInv'
  <2>1. CASE CallFails(l) \/ CallReturns(l)
    BY <2>1, CallFailsInv, CallReturnsInv
  <2>2. CASE OpenShard(l) \/ CloseShard(l)
    BY <2>2, OpenShardInv, CloseShardInv
  <2>3. CASE ShardFails(l) \/ Report(l)
    BY <2>3, ShardFailsInv, ReportInv
  <2> QED BY <1>4, <2>1, <2>2, <2>3 DEF Fetch
<1>5. CASE UNCHANGED vars
  BY <1>5, FetchStutter
<1> QED BY <1>1, <1>2, <1>3, <1>4, <1>5 DEF Next

LEMMA FetchInvariant == Spec => []FetchInv
<1>1. Init => FetchInv
  BY FetchInit
<1>2. FetchInv /\ [Next]_vars => FetchInv'
  BY FetchStep
<1> QED BY <1>1, <1>2, PTL DEF Spec

\* The types of the files and of the process, at most as many ledgers in the
\* pool as it has workers, and write_lock held by the one thread that writes.
THEOREM FetchTypeCorrect == Spec => []TypeOK
<1>1. FetchInv => TypeOK
  BY DEF FetchInv
<1> QED BY <1>1, FetchInvariant, PTL

\* The merged file is in (ledger, index) order and has no line twice, whatever
\* order answers come in and wherever runs are stopped.
THEOREM MergedFileSorted == Spec => []MergedSorted
<1>1. FetchInv => MergedSorted
  BY DEF FetchInv, MergeInv
<1> QED BY <1>1, FetchInvariant, PTL

\* When a run ends, every ledger that no fail line names is settled.
LEMMA SettledWhenDone ==
  ASSUME FetchInv, pc = "done", NEW l \in Ledgers \ failed
  PROVE  Settled(l) /\ LinesOf(l) = ToSet(shard[l])
<1>1. inflight = {} /\ todo = <<>> /\ unmerged = <<>> /\ phase[l] = "idle"
  BY DEF FetchInv, QueueInv
<1>2. Settled(l)
  BY <1>1 DEF Settled, ToSet
<1>3. LinesOf(l) = ToSet(shard[l])
  BY <1>1 DEF FetchInv, MergeInv, ToSet
<1> QED BY <1>2, <1>3

\* Unless a process was killed, a ledger whose accepted rows are not what the
\* merged file has of it is named in the fail file when a run ends.
THEOREM NothingMissingInSilence == Spec => []MissingIsReported
<1>1. FetchInv => MissingIsReported
  <2> SUFFICES ASSUME FetchInv, pc = "done", "killed" \notin spoilt, NEW l \in Ledgers, l \notin failed
               PROVE  LinesOf(l) = ToSet(Lines(l, rows[l]))
    BY DEF MissingIsReported
  <2>1. Settled(l) /\ LinesOf(l) = ToSet(shard[l])
    BY SettledWhenDone
  <2>2. shard[l] = Lines(l, rows[l])
    BY <2>1 DEF FetchInv, SettledInv
  <2> QED BY <2>1, <2>2
<1> QED BY <1>1, FetchInvariant, PTL

\* When a run ends, no required transaction is missing of a ledger that is not
\* named as failed, if no run was killed and all had the list.
THEOREM RequiredAreMerged == Spec => []RequiredUnlessSpoilt
<1>1. FetchInv => RequiredUnlessSpoilt
  <2> SUFFICES ASSUME FetchInv, spoilt = {}, pc = "done", NEW l \in Ledgers \ failed, NEW i \in Required[l]
               PROVE  [ledger |-> l, index |-> i, whole |-> TRUE] \in ToSet(merged)
    BY DEF RequiredUnlessSpoilt, RequiredMerged
  <2>1. Settled(l) /\ LinesOf(l) = ToSet(shard[l])
    BY SettledWhenDone
  <2>2. shard[l] = Lines(l, rows[l]) /\ i \in ToSet(rows[l])
    BY <2>1 DEF FetchInv, SettledInv
  <2>3. [ledger |-> l, index |-> i, whole |-> TRUE] \in ToSet(Lines(l, rows[l]))
    BY <2>2 DEF ToSet, Lines
  <2> QED BY <2>1, <2>2, <2>3 DEF LinesOf
<1> QED BY <1>1, FetchInvariant, PTL

\* A shard that holds something is written by the thread that has it open and
\* by no other, in this run or a later one.
THEOREM FinishedShardsKept == Spec => ShardsKept
<1>1. FetchInv /\ [Next]_vars =>
        [\A l \in Ledgers : shard[l] # <<>> /\ l \notin lock => shard'[l] = shard[l]]_vars
  <2> SUFFICES ASSUME FetchInv, Next, NEW l \in Ledgers, shard[l] # <<>>, l \notin lock
               PROVE  shard'[l] = shard[l]
    OBVIOUS
  <2>1. TypeOK /\ ShardInv
    BY DEF FetchInv
  <2>2. shard \in [Ledgers -> Seq(Line)] /\ lock = {k \in Ledgers : phase[k] = "writing"}
    BY <2>1 DEF TypeOK
  <2>3. CASE Start \/ Main
    BY <2>3 DEF Start, Main, Collect, OpenMerged, MergeShard, CloseMerged, files
  <2>4. CASE Crash
    <3>1. shard' = shard \/ \E k \in lock : \E lines \in Cut(Lines(k, rows[k])) : shard' = [shard EXCEPT ![k] = lines]
      BY <2>4 DEF Crash
    <3> QED BY <2>2, <3>1
  <2>5. ASSUME NEW k \in Ledgers, Fetch(k) PROVE shard'[l] = shard[l]
    <3>1. CASE CallFails(k) \/ CallReturns(k) \/ Report(k)
      BY <3>1 DEF CallFails, CallReturns, Report, files
    <3>2. CASE OpenShard(k)
      <4>1. shard[k] = <<>> /\ k # l
        BY <2>1, <3>2 DEF OpenShard, ShardInv
      <4> QED BY <2>2, <3>2, <4>1 DEF OpenShard
    <3>3. CASE CloseShard(k)
      <4>1. k # l
        BY <2>2, <3>3 DEF CloseShard
      <4> QED BY <2>2, <3>3, <4>1 DEF CloseShard
    <3>4. CASE ShardFails(k)
      <4>1. k # l /\ \E lines : shard' = [shard EXCEPT ![k] = lines]
        BY <2>2, <3>4 DEF ShardFails
      <4> QED BY <2>2, <4>1
    <3> QED BY <2>5, <3>1, <3>2, <3>3, <3>4 DEF Fetch
  <2> QED BY <2>3, <2>4, <2>5 DEF Next
<1> QED BY <1>1, FetchInvariant, PTL DEF Spec, ShardsKept
=============================================================================
