------------------------------ MODULE Memory_proofs ------------------------------
(* What the runs of MemoryStore and EgoMemory check of a few records, tasks and *)
(* things, proved of any number of them.                                        *)
(* The store: a file is in order and numbered, a request is kept as a whole,    *)
(* and a query knows what was written.  A context rebuilt from the store has    *)
(* all that it should.  The ego memory: memory shows what is stored, nothing is *)
(* created twice, and a search finds each thing by the text a reader is shown.  *)
EXTENDS ContextRecovery, EgoMemory, FiniteSetTheorems, SequenceTheorems,
        WellFoundedInduction, TLAPS

--------------------------------------------------------------------------------
(* Sorting.                                                                    *)

\* A finite set has a sequence in any strict total order: each element stands
\* where the number of those before it says.
LEMMA SortedByRelation ==
  ASSUME NEW S, IsFiniteSet(S), NEW R,
         \A a \in S : <<a, a>> \notin R,
         \A a, b \in S : a = b \/ <<a, b>> \in R \/ <<b, a>> \in R,
         \A a, b, c \in S : <<a, b>> \in R /\ <<b, c>> \in R => <<a, c>> \in R
  PROVE  \E s \in [1..Cardinality(S) -> S] : \A i, j \in 1..Cardinality(S) :
            i < j => s[i] # s[j] /\ <<s[j], s[i]>> \notin R
<1> DEFINE N == Cardinality(S)
           Earlier(a) == {b \in S : <<b, a>> \in R}
           rank == [a \in S |-> Cardinality(Earlier(a)) + 1]
<1>1. N \in Nat
  BY FS_CardinalityType
<1>2. ASSUME NEW a \in S
      PROVE  /\ IsFiniteSet(Earlier(a)) /\ Cardinality(Earlier(a)) \in Nat
             /\ Cardinality(Earlier(a)) + 1 <= N
  <2>1. Earlier(a) \in SUBSET S /\ Earlier(a) # S
    OBVIOUS
  <2>2. IsFiniteSet(Earlier(a)) /\ Cardinality(Earlier(a)) <= N /\ Cardinality(Earlier(a)) # N
    BY <2>1, FS_Subset
  <2>3. Cardinality(Earlier(a)) \in Nat
    BY <2>2, FS_CardinalityType
  <2> HIDE DEF Earlier, N
  <2> QED BY <2>2, <2>3, <1>1
<1>3. ASSUME NEW a \in S, NEW b \in S, <<a, b>> \in R
      PROVE  Cardinality(Earlier(a)) < Cardinality(Earlier(b))
  <2>1. Earlier(a) \in SUBSET Earlier(b) /\ a \in Earlier(b) /\ a \notin Earlier(a)
    BY <1>3
  <2>2. IsFiniteSet(Earlier(b)) /\ Cardinality(Earlier(b)) \in Nat /\ Cardinality(Earlier(a)) \in Nat
    BY <1>2
  <2>3. Cardinality(Earlier(a)) <= Cardinality(Earlier(b)) /\ Cardinality(Earlier(b)) # Cardinality(Earlier(a))
    <3> HIDE DEF Earlier
    <3> QED BY <2>1, <2>2, FS_Subset
  <2> HIDE DEF Earlier
  <2> QED BY <2>2, <2>3
<1>4. rank \in [S -> 1..N] /\ \A a, b \in S : <<a, b>> \in R => rank[a] < rank[b]
  <2>1. ASSUME NEW a \in S PROVE rank[a] = Cardinality(Earlier(a)) + 1 /\ rank[a] \in 1..N
    <3>1. rank[a] = Cardinality(Earlier(a)) + 1
      OBVIOUS
    <3> HIDE DEF rank, Earlier, N
    <3> QED BY <1>1, <1>2, <3>1
  <2>2. rank \in [S -> 1..N]
    <3>1. rank = [a \in S |-> rank[a]]
      OBVIOUS
    <3> HIDE DEF rank, Earlier, N
    <3> QED BY <2>1, <3>1
  <2> HIDE DEF rank, Earlier, N
  <2> QED BY <1>2, <1>3, <2>1, <2>2
<1>5. rank \in Injection(S, 1..N)
  <2>1. ASSUME NEW a \in S, NEW b \in S, rank[a] = rank[b] PROVE a = b
    <3> HIDE DEF rank, N, Earlier
    <3>1. rank[a] \in Int /\ rank[b] \in Int
      BY <1>4, <1>1
    <3>2. a = b \/ <<a, b>> \in R \/ <<b, a>> \in R
      OBVIOUS
    <3>3. <<a, b>> \in R => rank[a] < rank[b]
      BY <1>4
    <3>4. <<b, a>> \in R => rank[b] < rank[a]
      BY <1>4
    <3> QED BY <2>1, <3>1, <3>2, <3>3, <3>4
  <2> HIDE DEF rank, N, Earlier
  <2> QED BY <1>4, <2>1 DEF Injection, IsInjective
<1>6. \A i \in 1..N : \E a \in S : rank[a] = i
  <2>1. IsFiniteSet(1..N) /\ Cardinality(1..N) = N
    <3> HIDE DEF N
    <3> QED BY <1>1, FS_Interval
  <2> HIDE DEF rank, Earlier
  <2>2. rank \in Surjection(S, 1..N)
    BY <1>5, <2>1, FS_Injection
  <2> QED BY <2>2 DEF Surjection
<1> DEFINE s == [i \in 1..N |-> CHOOSE a \in S : rank[a] = i]
<1> HIDE DEF rank, Earlier, N
<1>7. \A i \in 1..N : s[i] \in S /\ rank[s[i]] = i
  BY <1>6
<1>8. s \in [1..N -> S]
  BY <1>7
<1> HIDE DEF s
<1>9. \A i, j \in 1..N : i < j => s[i] # s[j] /\ <<s[j], s[i]>> \notin R
  BY <1>1, <1>4, <1>7
<1> QED BY <1>8, <1>9 DEF N

\* What a sorted set is: each element has its place, and none stands before one
\* it has to follow.
LEMMA SortedIsASequence ==
  ASSUME NEW S, IsFiniteSet(S), NEW s \in [1..Cardinality(S) -> S],
         \A i, j \in 1..Cardinality(S) : i < j => s[i] # s[j]
  PROVE  /\ s \in Seq(S) /\ Len(s) = Cardinality(S) /\ Len(s) \in Nat
         /\ \A a \in S : \E i \in 1..Len(s) : s[i] = a
<1>1. Cardinality(S) \in Nat
  BY FS_CardinalityType
<1>2. s \in Seq(S) /\ Len(s) = Cardinality(S)
  BY <1>1
<1>3. IsFiniteSet(1..Cardinality(S)) /\ Cardinality(1..Cardinality(S)) = Cardinality(S)
  BY <1>1, FS_Interval
<1>4. s \in Injection(1..Cardinality(S), S)
  <2>1. \A i, j \in 1..Cardinality(S) : s[i] = s[j] => i = j
    BY <1>1
  <2> QED BY <2>1 DEF Injection, IsInjective
<1>5. s \in Surjection(1..Cardinality(S), S)
  BY <1>3, <1>4, FS_Injection
<1> QED BY <1>1, <1>2, <1>5 DEF Surjection

\* Lines in the order of their times and numbers.
LEMMA SortedByTime ==
  ASSUME NEW S, IsFiniteSet(S), \A l \in S : l.record \in Records /\ l.sn \in Nat
  PROVE  /\ Sorted(S, Ordered) \in Seq(S) /\ Len(Sorted(S, Ordered)) = Cardinality(S)
         /\ Len(Sorted(S, Ordered)) \in Nat
         /\ \A l \in S : \E i \in 1..Len(Sorted(S, Ordered)) : Sorted(S, Ordered)[i] = l
         /\ \A i, j \in 1..Len(Sorted(S, Ordered)) : i < j =>
               /\ Sorted(S, Ordered)[i] # Sorted(S, Ordered)[j]
               /\ TimeOf[Sorted(S, Ordered)[i].record] <= TimeOf[Sorted(S, Ordered)[j].record]
<1> DEFINE N == Cardinality(S)
           T(l) == TimeOf[l.record]
<1>1. \A l \in S : T(l) \in Nat /\ l.sn \in Nat
  BY StoreAssumption
<1>2. N \in Nat /\ ExistsBijection(1..N, S)
  BY FS_CardinalityType
<1>3. PICK f \in [1..N -> S] : /\ \A i, j \in 1..N : f[i] = f[j] => i = j
                               /\ \A l \in S : \E i \in 1..N : f[i] = l
  <2> HIDE DEF N
  <2>1. PICK f : f \in Bijection(1..N, S)
    BY <1>2 DEF ExistsBijection
  <2>2. f \in [1..N -> S] /\ \A i, j \in 1..N : f[i] = f[j] => i = j
    BY <2>1 DEF Bijection, Injection, IsInjective
  <2>3. \A l \in S : \E i \in 1..N : f[i] = l
    BY <2>1 DEF Bijection, Surjection
  <2> QED BY <2>2, <2>3
<1> DEFINE place(l) == CHOOSE i \in 1..N : f[i] = l
<1>4. \A l \in S : place(l) \in 1..N /\ f[place(l)] = l
  BY <1>3
<1> DEFINE Precedes(l, m) ==
      \/ T(l) < T(m)
      \/ T(l) = T(m) /\ l.sn < m.sn
      \/ T(l) = T(m) /\ l.sn = m.sn /\ place(l) < place(m)
           Pairs == {p \in S \X S : Precedes(p[1], p[2])}
<1>5. \A l, m \in S : <<l, m>> \in Pairs <=> Precedes(l, m)
  <2> HIDE DEF Precedes
  <2> QED OBVIOUS
<1>6. \A l \in S : <<l, l>> \notin Pairs
  <2> HIDE DEF T, place, N, Pairs
  <2> QED BY <1>1, <1>4, <1>5, <1>2
<1>7. \A l, m \in S : l = m \/ <<l, m>> \in Pairs \/ <<m, l>> \in Pairs
  <2> SUFFICES ASSUME NEW l \in S, NEW m \in S, ~Precedes(l, m), ~Precedes(m, l)
               PROVE  l = m
    <3> HIDE DEF Precedes, Pairs
    <3> QED BY <1>5
  <2> HIDE DEF T, place, N, Pairs
  <2>1. T(l) = T(m) /\ l.sn = m.sn
    BY <1>1
  <2>2. place(l) = place(m)
    BY <1>2, <1>4, <2>1
  <2> QED BY <1>4, <2>2
<1>8. \A l, m, n \in S : <<l, m>> \in Pairs /\ <<m, n>> \in Pairs => <<l, n>> \in Pairs
  <2> SUFFICES ASSUME NEW l \in S, NEW m \in S, NEW n \in S, Precedes(l, m), Precedes(m, n)
               PROVE  Precedes(l, n)
    <3> HIDE DEF Precedes, Pairs
    <3> QED BY <1>5
  <2> HIDE DEF T, place, N, Pairs
  <2>1. place(l) \in Nat /\ place(m) \in Nat /\ place(n) \in Nat
    BY <1>2, <1>4
  <2> QED BY <1>1, <2>1
<1>9. \E s \in [1..N -> S] : \A i, j \in 1..N : i < j => s[i] # s[j] /\ ~Ordered(s[j], s[i])
  <2>1. PICK s \in [1..N -> S] : \A i, j \in 1..N : i < j => s[i] # s[j] /\ <<s[j], s[i]>> \notin Pairs
    <3> HIDE DEF Pairs
    <3> QED BY <1>6, <1>7, <1>8, SortedByRelation
  <2>2. \A l, m \in S : Ordered(l, m) => <<l, m>> \in Pairs
    <3> HIDE DEF Pairs
    <3> QED BY <1>5 DEF Ordered
  <2> HIDE DEF Pairs, N
  <2> QED BY <2>1, <2>2
<1> DEFINE s == Sorted(S, Ordered)
<1>10. s \in [1..N -> S] /\ \A i, j \in 1..N : i < j => s[i] # s[j] /\ ~Ordered(s[j], s[i])
  <2> HIDE DEF N
  <2>1. s = CHOOSE x \in [1..N -> S] : \A i, j \in 1..N : i < j => x[i] # x[j] /\ ~Ordered(x[j], x[i])
    BY DEF Sorted, N
  <2> HIDE DEF s
  <2> QED BY <1>9, <2>1
<1>11. /\ s \in Seq(S) /\ Len(s) = N /\ Len(s) \in Nat
       /\ \A l \in S : \E i \in 1..Len(s) : s[i] = l
  <2> HIDE DEF s
  <2>1. \A i, j \in 1..N : i < j => s[i] # s[j]
    BY <1>10
  <2> QED BY <1>10, <2>1, SortedIsASequence, ZenonT(60)
<1>12. ASSUME NEW i \in 1..Len(s), NEW j \in 1..Len(s), i < j
       PROVE  s[i] # s[j] /\ T(s[i]) <= T(s[j])
  <2> HIDE DEF s, N
  <2>1. s[i] \in S /\ s[j] \in S /\ s[i] # s[j] /\ ~Ordered(s[j], s[i])
    BY <1>10, <1>11, <1>12
  <2>2. T(s[i]) \in Nat /\ T(s[j]) \in Nat /\ ~(T(s[j]) < T(s[i]))
    BY <1>1, <2>1 DEF Ordered
  <2> HIDE DEF T
  <2> QED BY <2>1, <2>2
<1> HIDE DEF s, N
<1>13. /\ s \in Seq(S) /\ Len(s) = Cardinality(S) /\ Len(s) \in Nat
       /\ \A l \in S : \E i \in 1..Len(s) : s[i] = l
       /\ \A i, j \in 1..Len(s) : i < j => s[i] # s[j] /\ TimeOf[s[i].record] <= TimeOf[s[j].record]
  BY <1>11, <1>12 DEF N
<1> QED BY <1>13 DEF s

\* The records of a request for a file, in the order of the request.
LEMMA SharesAreWhole ==
  ASSUME NEW q \in Requests, NEW k \in Keys
  PROVE  /\ Share(q, k) \in Seq({r \in RecordsOf[q] : KeyOf[r] = k})
         /\ \A r \in RecordsOf[q] : KeyOf[r] = k =>
               \E i \in 1..Len(Share(q, k)) : Share(q, k)[i] = r
         /\ \A i, j \in 1..Len(Share(q, k)) : Share(q, k)[i] = Share(q, k)[j] => i = j
<1> DEFINE S == {r \in RecordsOf[q] : KeyOf[r] = k}
           N == Cardinality(S)
           Pairs == {p \in S \X S : Before(p[1], p[2])}
<1>1. IsFiniteSet(S)
  BY StoreAssumption, FS_Subset
<1>2. /\ \A a \in S : <<a, a>> \notin Pairs
      /\ \A a, b \in S : a = b \/ <<a, b>> \in Pairs \/ <<b, a>> \in Pairs
      /\ \A a, b, c \in S : <<a, b>> \in Pairs /\ <<b, c>> \in Pairs => <<a, c>> \in Pairs
      /\ \A a, b \in S : Before(a, b) => <<a, b>> \in Pairs
  BY StoreAssumption
<1> HIDE DEF Pairs
<1>3. PICK s \in [1..N -> S] : \A i, j \in 1..N : i < j => s[i] # s[j] /\ <<s[j], s[i]>> \notin Pairs
  <2> HIDE DEF S
  <2> QED BY <1>1, <1>2, SortedByRelation
<1>4. \A i, j \in 1..N : i < j => s[i] # s[j] /\ ~Before(s[j], s[i])
  <2> HIDE DEF S, N
  <2> QED BY <1>2, <1>3
<1> DEFINE t == Share(q, k)
<1>5. t \in [1..N -> S] /\ \A i, j \in 1..N : i < j => t[i] # t[j]
  <2>1. t = CHOOSE x \in [1..N -> S] : \A i, j \in 1..N : i < j => x[i] # x[j] /\ ~Before(x[j], x[i])
    BY DEF Share, Sorted
  <2> HIDE DEF t, S, N
  <2> QED BY <1>3, <1>4, <2>1
<1> HIDE DEF t, S
<1>6. t \in Seq(S) /\ Len(t) \in Nat /\ Len(t) = N /\ \A a \in S : \E i \in 1..Len(t) : t[i] = a
  BY <1>1, <1>5, SortedIsASequence
<1>7. \A i, j \in 1..Len(t) : t[i] = t[j] => i = j
  <2> HIDE DEF N
  <2> QED BY <1>5, <1>6
<1> QED BY <1>6, <1>7 DEF t, S

--------------------------------------------------------------------------------
(* The invariant of a file.                                                    *)

\* The records of a key that were accepted; only of these there are lines.
OfKey(k) ==
    {r \in Records : KeyOf[r] = k /\ \E q \in Requests : r \in RecordsOf[q] /\ step[q] = "accepted"}
LinesOf(k) == [record : OfKey(k) \cup {Torn}, sn : Nat]
Recs(s) == {s[i].record : i \in 1..Len(s)}
Writers(k) == [mode : {"rest", "append", "rewrite"}, lines : Seq(LinesOf(k)), done : Nat,
               old : Seq(LinesOf(k)), batch : SUBSET Records]

FileTypes(k) ==
    /\ file[k] \in Seq(LinesOf(k)) /\ queue[k] \in Seq(OfKey(k)) /\ writer[k] \in Writers(k)
    /\ state[k] \in [known : BOOLEAN, sn : Nat, time : Nat]
    /\ index[k] \in Seq([record : Records \cup {Torn}, sn : Nat])
    /\ stale[k] \in {"none", "tail", "all"}
    /\ IF writer[k].mode = "rest" THEN writer[k] = Resting
       ELSE writer[k].lines # <<>> /\ writer[k].done <= Len(writer[k].lines)
    /\ \A i \in 1..Len(writer[k].lines) :
          i > writer[k].done \/ writer[k].mode = "rewrite" => writer[k].lines[i].record \in Records

\* What was accepted is in one of its places.
Held(k) == \A r \in OfKey(k) :
    \/ k \in damaged \/ r \in lost
    \/ r \in Recs(file[k]) \/ r \in Recs(writer[k].lines)
    \/ \E i \in 1..Len(queue[k]) : queue[k][i] = r

\* A file as it should be, and the time of its last line.
Good(s) ==
    /\ \A i \in 1..Len(s) : s[i].sn = i /\ s[i].record \in Records
    /\ \A i, j \in 1..Len(s) : i < j =>
          TimeOf[s[i].record] <= TimeOf[s[j].record] /\ s[i].record # s[j].record
LastTime(s) == IF s = <<>> THEN 0 ELSE TimeOf[s[Len(s)].record]

\* Nothing is queued twice, and nothing that is or will be written.
Queued(k) ==
    /\ \A i, j \in 1..Len(queue[k]) : queue[k][i] = queue[k][j] => i = j
    /\ \A i \in 1..Len(queue[k]) : queue[k][i] \notin Recs(file[k]) \cup Recs(writer[k].lines)
AtRest(k) == writer[k].mode = "rest" =>
    /\ Good(file[k])
    /\ state[k].known => state[k].sn = Len(file[k]) /\ state[k].time = LastTime(file[k])
Appending(k) == writer[k].mode = "append" =>
    /\ Good(writer[k].old \o writer[k].lines)
    /\ file[k] = writer[k].old \o SubSeq(writer[k].lines, 1, writer[k].done)
    /\ state[k].known /\ state[k].sn = Len(file[k]) /\ state[k].time = LastTime(file[k])
Rewriting(k) == writer[k].mode = "rewrite" =>
    /\ Good(writer[k].lines) /\ Len(writer[k].old) <= Len(writer[k].lines)
    /\ Recs(writer[k].old) \subseteq Recs(writer[k].lines)
    /\ file[k] = SubSeq(writer[k].lines, 1, writer[k].done)
                 \o SubSeq(writer[k].old, writer[k].done + 1, Len(writer[k].old))
    /\ state[k].known /\ state[k].sn = writer[k].done

\* What the index has is the beginning of the file, unless it is marked.
Indexed(k) ==
    /\ writer[k].mode # "rewrite" /\ stale[k] # "all" =>
          /\ Len(index[k]) <= Len(file[k])
          /\ \A i \in 1..Len(index[k]) : index[k][i] = file[k][i]
    /\ writer[k].mode = "rest" /\ stale[k] = "none" => Len(index[k]) = Len(file[k])
    /\ writer[k].mode = "rest" /\ scanned /\ failures = 0 /\ file[k] # <<>> => k \in dated

Sound(k) == ~open[k] /\ Queued(k) /\ AtRest(k) /\ Appending(k) /\ Rewriting(k) /\ Indexed(k)
FileInv(k) == FileTypes(k) /\ Held(k) /\ (k \notin damaged => Sound(k))

Shapes ==
    /\ DOMAIN file = Keys /\ DOMAIN open = Keys /\ DOMAIN state = Keys /\ DOMAIN queue = Keys
    /\ DOMAIN writer = Keys /\ DOMAIN index = Keys /\ DOMAIN stale = Keys
    /\ step \in [Requests -> {"new", "accepted", "refused"}]
    /\ checked \in [Requests -> SUBSET Keys]
    /\ failures \in Nat
StoreInv == Shapes /\ \A k \in Keys : FileInv(k)

--------------------------------------------------------------------------------
(* Sequences of lines.                                                         *)

\* A part of a sequence.
LEMMA Parts ==
  ASSUME NEW S, NEW s \in Seq(S), NEW m \in Nat, m > 0, NEW n \in Int, n <= Len(s)
  PROVE  /\ SubSeq(s, m, n) \in Seq(S)
         /\ Len(SubSeq(s, m, n)) = IF m <= n THEN n - m + 1 ELSE 0
         /\ \A i \in 1..(n - m + 1) : SubSeq(s, m, n)[i] = s[m + i - 1]
<1>1. m \in Int /\ n \in Int /\ \A i \in m..n : s[i] \in S
  OBVIOUS
<1>2. SubSeq(s, m, n) \in Seq(S)
  BY <1>1, SubSeqProperties
<1>3. Len(SubSeq(s, m, n)) = IF m <= n THEN n - m + 1 ELSE 0
  BY <1>1, SubSeqProperties
<1>4. \A i \in 1..(n - m + 1) : SubSeq(s, m, n)[i] = s[m + i - 1]
  BY <1>1, SubSeqProperties
<1> QED BY <1>2, <1>3, <1>4

LEMMA LinesNumbered ==
  ASSUME NEW S, NEW s \in Seq(S), NEW n \in Nat, NEW T, \A l \in S : l.record \in T
  PROVE  /\ Numbered(s, n) \in Seq([record : T, sn : Nat]) /\ Len(Numbered(s, n)) = Len(s)
         /\ \A i \in 1..Len(s) : /\ Numbered(s, n)[i].record = s[i].record
                                 /\ Numbered(s, n)[i].sn = n + i
<1> DEFINE t == Numbered(s, n)
<1>1. DOMAIN s = 1..Len(s) /\ Len(s) \in Nat /\ \A i \in 1..Len(s) : s[i] \in S
  OBVIOUS
<1>2. t = [i \in 1..Len(s) |-> [record |-> s[i].record, sn |-> n + i]]
  BY <1>1 DEF Numbered, Line
<1>3. \A i \in 1..Len(s) : [record |-> s[i].record, sn |-> n + i] \in [record : T, sn : Nat]
  BY <1>1
<1>4. t \in [1..Len(s) -> [record : T, sn : Nat]]
  BY <1>2, <1>3
<1> HIDE DEF t
<1>5. t \in Seq([record : T, sn : Nat]) /\ Len(t) = Len(s)
  <2> DEFINE U == [record : T, sn : Nat]
  <2>1. t \in [1..Len(s) -> U]
    BY <1>4
  <2> HIDE DEF U
  <2>2. t \in Seq(U) /\ Len(t) = Len(s)
    BY <1>1, <2>1
  <2> QED BY <2>2 DEF U
<1>6. \A i \in 1..Len(s) : t[i].record = s[i].record /\ t[i].sn = n + i
  BY <1>2
<1>7. /\ t \in Seq([record : T, sn : Nat]) /\ Len(t) = Len(s)
      /\ \A i \in 1..Len(s) : t[i].record = s[i].record /\ t[i].sn = n + i
  BY <1>5, <1>6
<1> QED BY <1>7 DEF t

\* Later lines with other records, in order and numbered on, leave a file good.
LEMMA GoodWithMore ==
  ASSUME NEW S, NEW f \in Seq(S), NEW s \in Seq(S), Good(f),
         \A i \in 1..Len(s) :
            /\ s[i].record \in Records \ Recs(f) /\ s[i].sn = Len(f) + i
            /\ LastTime(f) <= TimeOf[s[i].record],
         \A i, j \in 1..Len(s) : i < j =>
            TimeOf[s[i].record] <= TimeOf[s[j].record] /\ s[i].record # s[j].record
  PROVE  Good(f \o s)
<1> DEFINE w == f \o s
<1>1. /\ w \in Seq(S) /\ Len(w) = Len(f) + Len(s) /\ Len(f) \in Nat /\ Len(s) \in Nat
      /\ \A i \in 1..Len(w) : w[i] = IF i <= Len(f) THEN f[i] ELSE s[i - Len(f)]
  BY ConcatProperties
<1> HIDE DEF w
<1>2. ASSUME NEW i \in 1..Len(w) PROVE w[i].sn = i /\ w[i].record \in Records
  <2>1. CASE i <= Len(f)
    BY <1>1, <2>1 DEF Good
  <2>2. CASE i > Len(f)
    <3>1. i - Len(f) \in 1..Len(s)
      BY <1>1, <2>2
    <3> QED BY <1>1, <2>2, <3>1
  <2> QED BY <1>1, <2>1, <2>2
<1>3. \A i \in 1..Len(f) : TimeOf[f[i].record] <= LastTime(f) /\ TimeOf[f[i].record] \in Nat
  <2> SUFFICES ASSUME NEW i \in 1..Len(f)
               PROVE  TimeOf[f[i].record] <= LastTime(f) /\ TimeOf[f[i].record] \in Nat
    OBVIOUS
  <2>1. f # <<>> /\ LastTime(f) = TimeOf[f[Len(f)].record] /\ Len(f) \in 1..Len(f)
    BY <1>1 DEF LastTime
  <2>2. TimeOf[f[i].record] \in Nat /\ TimeOf[f[Len(f)].record] \in Nat
    BY <2>1, StoreAssumption DEF Good
  <2>3. i < Len(f) => TimeOf[f[i].record] <= TimeOf[f[Len(f)].record]
    BY <2>1 DEF Good
  <2>4. i = Len(f) \/ i < Len(f)
    BY <1>1
  <2> QED BY <2>1, <2>2, <2>3, <2>4
<1>4. ASSUME NEW i \in 1..Len(w), NEW j \in 1..Len(w), i < j
      PROVE  TimeOf[w[i].record] <= TimeOf[w[j].record] /\ w[i].record # w[j].record
  <2>1. CASE j <= Len(f)
    BY <1>1, <1>4, <2>1 DEF Good
  <2>2. CASE i <= Len(f) /\ j > Len(f)
    <3>1. j - Len(f) \in 1..Len(s) /\ w[j] = s[j - Len(f)] /\ i \in 1..Len(f) /\ w[i] = f[i]
      BY <1>1, <2>2
    <3>2. w[i].record \in Recs(f)
      BY <3>1 DEF Recs
    <3>3. /\ w[j].record \in Records \ Recs(f) /\ TimeOf[w[i].record] \in Nat
          /\ TimeOf[w[i].record] <= LastTime(f) /\ LastTime(f) <= TimeOf[w[j].record]
      BY <1>3, <3>1
    <3>4. LastTime(f) \in Nat /\ TimeOf[w[j].record] \in Nat
      BY <1>1, <3>3, StoreAssumption DEF LastTime, Good
    <3> QED BY <3>2, <3>3, <3>4
  <2>3. CASE i > Len(f)
    <3>1. /\ i - Len(f) \in 1..Len(s) /\ j - Len(f) \in 1..Len(s) /\ i - Len(f) < j - Len(f)
          /\ w[i] = s[i - Len(f)] /\ w[j] = s[j - Len(f)]
      BY <1>1, <1>4, <2>3
    <3> QED BY <3>1
  <2> QED BY <1>1, <1>4, <2>1, <2>2, <2>3
<1> QED BY <1>2, <1>4 DEF Good, w

LEMMA GoodEmpty == Good(<<>>) /\ LastTime(<<>>) = 0 /\ Recs(<<>>) = {}
BY DEF Good, LastTime, Recs

\* What the last line of a good file says.
LEMMA GoodLast ==
  ASSUME NEW S, NEW f \in Seq(S), Good(f)
  PROVE  /\ LastTime(f) \in Nat
         /\ f # <<>> => /\ f[Len(f)].sn = Len(f) /\ f[Len(f)].record \in Records \ {Torn}
                        /\ LastTime(f) = TimeOf[f[Len(f)].record]
<1>1. Len(f) \in Nat /\ (f # <<>> => Len(f) \in 1..Len(f))
  OBVIOUS
<1> QED BY <1>1, StoreAssumption DEF Good, LastTime

LEMMA UpTo == ASSUME NEW n \in Nat PROVE IsFiniteSet(1..n) /\ Cardinality(1..n) = n
BY FS_Interval

\* The lines of a good file are as many as it is long.
LEMMA GoodCount ==
  ASSUME NEW S, NEW f \in Seq(S), Good(f), NEW L, L = {f[i] : i \in 1..Len(f)}
  PROVE  IsFiniteSet(L) /\ Cardinality(L) = Len(f)
<1>1. Len(f) \in Nat /\ f \in [1..Len(f) -> L]
  OBVIOUS
<1>2. \A i, j \in 1..Len(f) : f[i] = f[j] => i = j
  BY DEF Good
<1>3. f \in Bijection(1..Len(f), L)
  BY <1>1, <1>2 DEF Bijection, Injection, Surjection, IsInjective
<1>4. IsFiniteSet(1..Len(f)) /\ Cardinality(1..Len(f)) = Len(f)
  BY <1>1, UpTo
<1>5. f \in Surjection(1..Len(f), L) /\ f \in Injection(1..Len(f), L)
  BY <1>3 DEF Bijection
<1> QED BY <1>4, <1>5, FS_Surjection

--------------------------------------------------------------------------------
(* What an action leaves alone.                                                *)

\* Who is answered only decides which records a file may have.
LEMMA SameRecords ==
  ASSUME \A q \in Requests : step'[q] = "accepted" <=> step[q] = "accepted", NEW k \in Keys
  PROVE  OfKey(k)' = OfKey(k)
BY DEF OfKey

\* A file no action concerns stays as it is.
LEMMA FileStays ==
  ASSUME NEW k \in Keys, FileInv(k), OfKey(k)' = OfKey(k),
         file'[k] = file[k], open'[k] = open[k], state'[k] = state[k], queue'[k] = queue[k],
         writer'[k] = writer[k], index'[k] = index[k], stale'[k] = stale[k],
         lost \subseteq lost', damaged \subseteq damaged', dated \subseteq dated',
         scanned' = scanned, failures' = failures \/ failures' # 0
  PROVE  FileInv(k)'
<1>1. FileTypes(k)'
  <2>1. FileTypes(k)
    BY DEF FileInv
  <2>2. LinesOf(k)' = LinesOf(k) /\ Writers(k)' = Writers(k)
    BY DEF LinesOf, Writers
  <2> QED BY <2>1, <2>2 DEF FileTypes
<1>2. Held(k)'
  BY DEF FileInv, Held
<1>3. k \notin damaged' => Sound(k)'
  <2> HAVE k \notin damaged'
  <2>1. Sound(k)
    BY DEF FileInv
  <2>2. Queued(k)' /\ AtRest(k)' /\ Appending(k)' /\ Rewriting(k)'
    BY <2>1 DEF Sound, Queued, AtRest, Appending, Rewriting
  <2>3. Indexed(k)'
    BY <2>1 DEF Sound, Indexed
  <2> QED BY <2>1, <2>2, <2>3 DEF Sound
<1> QED BY <1>1, <1>2, <1>3 DEF FileInv

\* What is known of a file that is at rest.
LEMMA StateIsKnown ==
  ASSUME NEW k \in Keys, FileInv(k), writer[k].mode = "rest"
  PROVE  /\ StateOf(k) \in [known : BOOLEAN, sn : Nat, time : Nat] /\ StateOf(k).known
         /\ k \notin damaged => StateOf(k).sn = Len(file[k]) /\ StateOf(k).time = LastTime(file[k])
<1> DEFINE f == file[k]
<1>1. f \in Seq(LinesOf(k)) /\ state[k] \in [known : BOOLEAN, sn : Nat, time : Nat]
  BY DEF FileInv, FileTypes
<1>2. Len(f) \in Nat /\ (f # <<>> => Len(f) \in 1..Len(f) /\ f[Len(f)] \in LinesOf(k))
  BY <1>1
<1>3. f # <<>> /\ f[Len(f)].record # Torn =>
         f[Len(f)].sn \in Nat /\ TimeOf[f[Len(f)].record] \in Nat
  BY <1>2, StoreAssumption DEF LinesOf, OfKey
<1>4. /\ Loaded(k) \in [known : BOOLEAN, sn : Nat, time : Nat] /\ Loaded(k).known
      /\ f = <<>> \/ f[Len(f)].record = Torn => Loaded(k).sn = 0 /\ Loaded(k).time = 0
      /\ f # <<>> /\ f[Len(f)].record # Torn =>
            Loaded(k).sn = f[Len(f)].sn /\ Loaded(k).time = TimeOf[f[Len(f)].record]
  BY <1>3 DEF Loaded
<1>5. StateOf(k) \in [known : BOOLEAN, sn : Nat, time : Nat] /\ StateOf(k).known
  BY <1>1, <1>4 DEF StateOf
<1>6. ASSUME k \notin damaged
      PROVE  StateOf(k).sn = Len(f) /\ StateOf(k).time = LastTime(f)
  <2>1. Good(f) /\ (state[k].known => state[k].sn = Len(f) /\ state[k].time = LastTime(f))
    BY <1>6 DEF FileInv, Sound, AtRest
  <2>2. f = <<>> => Len(f) = 0 /\ LastTime(f) = 0
    BY GoodEmpty
  <2>3. f # <<>> => /\ f[Len(f)].sn = Len(f) /\ f[Len(f)].record # Torn
                    /\ LastTime(f) = TimeOf[f[Len(f)].record]
    BY <1>1, <2>1, GoodLast
  <2>4. Loaded(k).sn = Len(f) /\ Loaded(k).time = LastTime(f)
    BY <1>4, <2>2, <2>3
  <2> QED BY <2>1, <2>4 DEF StateOf
<1> QED BY <1>5, <1>6

--------------------------------------------------------------------------------
(* Requests.                                                                   *)

LEMMA CheckKeeps ==
  ASSUME NEW q \in Requests, NEW k \in Keys, StoreInv, Check(q, k)
  PROVE  StoreInv'
<1>1. /\ writer[k].mode = "rest" /\ step[q] = "new"
      /\ state' = [state EXCEPT ![k] = StateOf(k)]
      /\ \/ checked' = [checked EXCEPT ![q] = checked[q] \cup {k}] /\ step' = step
         \/ step' = [step EXCEPT ![q] = "refused"] /\ checked' = checked
      /\ file' = file /\ open' = open /\ damaged' = damaged /\ queue' = queue /\ writer' = writer
      /\ index' = index /\ stale' = stale /\ dated' = dated /\ scanned' = scanned
      /\ failures' = failures /\ lost' = lost
  BY DEF Check, files, indices, days
<1>2. Shapes'
  BY <1>1 DEF StoreInv, Shapes
<1>3. \A j \in Keys : OfKey(j)' = OfKey(j)
  <2>1. \A p \in Requests : step'[p] = "accepted" <=> step[p] = "accepted"
    BY <1>1 DEF StoreInv, Shapes
  <2> QED BY <2>1, SameRecords
<1>4. ASSUME NEW j \in Keys, j # k PROVE FileInv(j)'
  <2>1. state'[j] = state[j] /\ FileInv(j)
    BY <1>1, <1>4 DEF StoreInv, Shapes
  <2> QED BY <1>1, <1>3, <2>1, FileStays
<1>5. FileInv(k)'
  <2>1. FileInv(k) /\ state'[k] = StateOf(k) /\ writer[k].mode = "rest"
    BY <1>1 DEF StoreInv, Shapes
  <2>2. /\ StateOf(k) \in [known : BOOLEAN, sn : Nat, time : Nat]
        /\ k \notin damaged => StateOf(k).sn = Len(file[k]) /\ StateOf(k).time = LastTime(file[k])
    BY <2>1, StateIsKnown
  <2>3. FileTypes(k)'
    <3>1. FileTypes(k)
      BY <2>1 DEF FileInv
    <3>2. LinesOf(k)' = LinesOf(k) /\ Writers(k)' = Writers(k)
      BY <1>3 DEF LinesOf, Writers
    <3> QED BY <1>1, <1>3, <2>1, <2>2, <3>1, <3>2 DEF FileTypes
  <2>4. Held(k)'
    BY <1>1, <1>3, <2>1 DEF FileInv, Held
  <2>5. k \notin damaged => Sound(k)'
    <3> HAVE k \notin damaged
    <3>1. Sound(k)
      BY <2>1 DEF FileInv
    <3>2. Queued(k)' /\ AtRest(k)' /\ Appending(k)' /\ Rewriting(k)'
      BY <1>1, <2>1, <2>2, <3>1 DEF Sound, Queued, AtRest, Appending, Rewriting
    <3>3. Indexed(k)'
      BY <1>1, <3>1 DEF Sound, Indexed
    <3> QED BY <1>1, <3>1, <3>2, <3>3 DEF Sound
  <2> QED BY <1>1, <2>3, <2>4, <2>5 DEF FileInv
<1> QED BY <1>2, <1>4, <1>5 DEF StoreInv

LEMMA CheckFailsKeeps ==
  ASSUME NEW q \in Requests, NEW k \in Keys, StoreInv, CheckFails(q, k)
  PROVE  StoreInv'
<1>1. /\ step[q] = "new" /\ step' = [step EXCEPT ![q] = "refused"] /\ failures' = failures + 1
      /\ file' = file /\ open' = open /\ damaged' = damaged /\ queue' = queue /\ writer' = writer
      /\ index' = index /\ stale' = stale /\ dated' = dated /\ scanned' = scanned
      /\ state' = state /\ lost' = lost /\ checked' = checked
  BY DEF CheckFails, Fails, files, indices, days
<1>2. Shapes' /\ failures' # 0
  BY <1>1 DEF StoreInv, Shapes
<1>3. \A j \in Keys : OfKey(j)' = OfKey(j)
  <2>1. \A p \in Requests : step'[p] = "accepted" <=> step[p] = "accepted"
    BY <1>1 DEF StoreInv, Shapes
  <2> QED BY <2>1, SameRecords
<1>4. ASSUME NEW j \in Keys PROVE FileInv(j)'
  <2>1. FileInv(j)
    BY DEF StoreInv
  <2> QED BY <1>1, <1>2, <1>3, <2>1, FileStays
<1> QED BY <1>2, <1>4 DEF StoreInv

\* The records that are accepted are nowhere yet.
LEMMA AcceptKeeps ==
  ASSUME NEW q \in Requests, StoreInv, Accept(q)
  PROVE  StoreInv'
<1>1. /\ step[q] = "new" /\ step' = [step EXCEPT ![q] = "accepted"]
      /\ queue' = [k \in Keys |-> IF k \in KeysOf(q) THEN queue[k] \o Share(q, k) ELSE queue[k]]
      /\ file' = file /\ open' = open /\ damaged' = damaged /\ writer' = writer
      /\ index' = index /\ stale' = stale /\ dated' = dated /\ scanned' = scanned
      /\ state' = state /\ lost' = lost /\ checked' = checked /\ failures' = failures
  BY DEF Accept, files, indices, days
<1>2. Shapes'
  BY <1>1 DEF StoreInv, Shapes
<1>3. ASSUME NEW k \in Keys PROVE FileInv(k)'
  <2> DEFINE New == {r \in RecordsOf[q] : KeyOf[r] = k}
             t == Share(q, k)
  <2>1. FileInv(k) /\ RecordsOf[q] \subseteq Records
    BY StoreAssumption DEF StoreInv
  <2>2. OfKey(k)' = OfKey(k) \cup New /\ OfKey(k) \cap New = {}
    <3>1. \A p \in Requests : step'[p] = "accepted" <=> step[p] = "accepted" \/ p = q
      BY <1>1 DEF StoreInv, Shapes
    <3>2. OfKey(k)' = OfKey(k) \cup New
      BY <2>1, <3>1 DEF OfKey
    <3>3. OfKey(k) \cap New = {}
      <4> SUFFICES ASSUME NEW r \in New, r \in OfKey(k) PROVE FALSE
        OBVIOUS
      <4>1. PICK p \in Requests : r \in RecordsOf[p] /\ step[p] = "accepted"
        BY DEF OfKey
      <4> QED BY <1>1, <4>1, StoreAssumption
    <3> QED BY <3>2, <3>3
  <2>3. CASE k \notin KeysOf(q)
    <3>1. New = {}
      BY <2>3 DEF KeysOf
    <3>2. queue'[k] = queue[k]
      BY <1>1, <2>3
    <3> HIDE DEF New
    <3> QED BY <1>1, <2>1, <2>2, <3>1, <3>2, FileStays
  <2>4. CASE k \in KeysOf(q)
    <3>1. queue'[k] = queue[k] \o t
      BY <1>1, <2>4
    <3>2. /\ t \in Seq(New) /\ \A r \in New : \E i \in 1..Len(t) : t[i] = r
          /\ \A i, j \in 1..Len(t) : t[i] = t[j] => i = j
      BY SharesAreWhole
    <3> HIDE DEF New, t
    <3>3. FileTypes(k)
      BY <2>1 DEF FileInv
    <3>4. LinesOf(k) \subseteq LinesOf(k)' /\ OfKey(k)' \subseteq Records
      BY <2>2 DEF LinesOf, OfKey
    <3>5. /\ queue[k] \in Seq(OfKey(k)') /\ t \in Seq(OfKey(k)')
          /\ file[k] \in Seq(LinesOf(k)') /\ writer[k] \in Writers(k)'
      <4>1. queue[k] \in Seq(OfKey(k)) /\ file[k] \in Seq(LinesOf(k)) /\ writer[k] \in Writers(k)
        BY <3>3 DEF FileTypes
      <4>2. OfKey(k) \subseteq OfKey(k)' /\ New \subseteq OfKey(k)'
        BY <2>2
      <4>3. writer[k].old \in Seq(LinesOf(k)) /\ writer[k].lines \in Seq(LinesOf(k))
        BY <4>1 DEF Writers
      <4>4. writer[k].old \in Seq(LinesOf(k)') /\ writer[k].lines \in Seq(LinesOf(k)')
        BY <3>4, <4>3, SeqMonotonic
      <4>5. writer[k] \in Writers(k)'
        BY <4>1, <4>4 DEF Writers
      <4>6. queue[k] \in Seq(OfKey(k)') /\ t \in Seq(OfKey(k)') /\ file[k] \in Seq(LinesOf(k)')
        BY <3>2, <3>4, <4>1, <4>2, SeqMonotonic
      <4> QED BY <4>5, <4>6
    <3> DEFINE u == queue'[k]
    <3>6. /\ u \in Seq(OfKey(k)') /\ Len(u) = Len(queue[k]) + Len(t) /\ Len(t) \in Nat
          /\ Len(queue[k]) \in Nat
          /\ \A i \in 1..Len(queue[k]) + Len(t) : u[i] = IF i <= Len(queue[k]) THEN queue[k][i] ELSE t[i - Len(queue[k])]
      BY <3>1, <3>5, ConcatProperties
    <3> HIDE DEF u
    <3>7. FileTypes(k)'
      BY <1>1, <3>3, <3>5, <3>6 DEF FileTypes, u
    <3>8. /\ \A i \in 1..Len(queue[k]) : u[i] = queue[k][i] /\ i \in 1..Len(u)
          /\ \A i \in 1..Len(t) : u[Len(queue[k]) + i] = t[i] /\ Len(queue[k]) + i \in 1..Len(u)
          /\ \A i \in 1..Len(u) :
                \/ i \in 1..Len(queue[k]) /\ u[i] = queue[k][i] /\ u[i] \in OfKey(k)
                \/ i - Len(queue[k]) \in 1..Len(t) /\ u[i] = t[i - Len(queue[k])] /\ u[i] \in New
      <4>1. \A i \in 1..Len(queue[k]) : u[i] = queue[k][i] /\ i \in 1..Len(u) /\ queue[k][i] \in OfKey(k)
        BY <3>3, <3>6 DEF FileTypes
      <4>2. \A i \in 1..Len(t) : u[Len(queue[k]) + i] = t[i] /\ Len(queue[k]) + i \in 1..Len(u) /\ t[i] \in New
        <5> SUFFICES ASSUME NEW i \in 1..Len(t)
                     PROVE  /\ u[Len(queue[k]) + i] = t[i] /\ Len(queue[k]) + i \in 1..Len(u)
                            /\ t[i] \in New
          OBVIOUS
        <5>1. Len(queue[k]) + i \in 1..Len(u) /\ ~(Len(queue[k]) + i <= Len(queue[k]))
              /\ (Len(queue[k]) + i) - Len(queue[k]) = i
          BY <3>6
        <5>2. u[Len(queue[k]) + i] = t[(Len(queue[k]) + i) - Len(queue[k])]
          BY <3>6, <5>1
        <5> QED BY <3>2, <5>1, <5>2
      <4>3. \A i \in 1..Len(u) : i \in 1..Len(queue[k]) \/ i - Len(queue[k]) \in 1..Len(t)
        BY <3>6
      <4>4. \A i \in 1..Len(u) : i = Len(queue[k]) + (i - Len(queue[k]))
        BY <3>6
      <4>5. ASSUME NEW i \in 1..Len(u), i - Len(queue[k]) \in 1..Len(t)
            PROVE  u[i] = t[i - Len(queue[k])] /\ u[i] \in New
        <5> DEFINE h == i - Len(queue[k])
        <5>1. u[Len(queue[k]) + h] = t[h] /\ t[h] \in New
          <6> HIDE DEF h
          <6>1. h \in 1..Len(t)
            BY <4>5 DEF h
          <6> QED BY <4>2, <6>1
        <5>2. Len(queue[k]) + h = i
          BY <4>4
        <5> QED BY <5>1, <5>2
      <4> QED BY <4>1, <4>2, <4>3, <4>5
    <3>9. Held(k)'
      <4> SUFFICES ASSUME NEW r \in OfKey(k)'
                   PROVE  \/ k \in damaged' \/ r \in lost' \/ r \in Recs(file'[k]) \/ r \in Recs(writer'[k].lines)
                          \/ \E i \in 1..Len(u) : u[i] = r
        BY DEF Held, u
      <4>1. CASE r \in OfKey(k)
        <5>1. CASE \E i \in 1..Len(queue[k]) : queue[k][i] = r
          BY <3>8, <5>1
        <5> QED BY <1>1, <2>1, <4>1, <5>1 DEF FileInv, Held
      <4>2. CASE r \in New
        <5>1. PICK i \in 1..Len(t) : t[i] = r
          BY <3>2, <4>2
        <5>2. u[Len(queue[k]) + i] = r /\ Len(queue[k]) + i \in 1..Len(u)
          BY <3>8, <5>1
        <5> QED BY <5>2
      <4> QED BY <2>2, <4>1, <4>2
    <3>10. k \notin damaged => Sound(k)'
      <4> HAVE k \notin damaged
      <4>1. Sound(k)
        BY <2>1 DEF FileInv
      <4>2. AtRest(k)' /\ Appending(k)' /\ Rewriting(k)' /\ open'[k] = open[k]
        BY <1>1, <4>1 DEF Sound, AtRest, Appending, Rewriting
      <4>3. Indexed(k)'
        BY <1>1, <4>1 DEF Sound, Indexed
      <4>4. \A i, j \in 1..Len(u) : u[i] = u[j] => i = j
        <5> SUFFICES ASSUME NEW i \in 1..Len(u), NEW j \in 1..Len(u), u[i] = u[j] PROVE i = j
          OBVIOUS
        <5>1. CASE i \in 1..Len(queue[k]) /\ j \in 1..Len(queue[k])
          BY <3>8, <4>1, <5>1 DEF Sound, Queued
        <5>2. CASE i - Len(queue[k]) \in 1..Len(t) /\ j - Len(queue[k]) \in 1..Len(t) /\ u[i] \in New
          <6>1. u[i] = t[i - Len(queue[k])] /\ u[j] = t[j - Len(queue[k])]
            BY <2>2, <3>8, <5>2
          <6>2. i - Len(queue[k]) = j - Len(queue[k])
            BY <3>2, <5>2, <6>1
          <6> QED BY <3>6, <6>2
        <5> QED BY <2>2, <3>8, <5>1, <5>2
      <4>5. \A i \in 1..Len(u) : u[i] \notin Recs(file[k]) \cup Recs(writer[k].lines)
        <5>1. Recs(file[k]) \subseteq OfKey(k) \cup {Torn} /\ Recs(writer[k].lines) \subseteq OfKey(k) \cup {Torn}
          <6>1. file[k] \in Seq(LinesOf(k)) /\ writer[k].lines \in Seq(LinesOf(k))
            BY <3>3 DEF FileTypes, Writers
          <6>2. /\ \A i \in 1..Len(file[k]) : file[k][i] \in LinesOf(k)
                /\ \A i \in 1..Len(writer[k].lines) : writer[k].lines[i] \in LinesOf(k)
            BY <6>1
          <6>3. \A l \in LinesOf(k) : l.record \in OfKey(k) \cup {Torn}
            BY DEF LinesOf
          <6> HIDE DEF LinesOf
          <6> QED BY <6>2, <6>3 DEF Recs
        <5>2. Torn \notin New
          BY <2>2, <3>4, StoreAssumption
        <5> QED BY <2>2, <3>8, <4>1, <5>1, <5>2 DEF Sound, Queued
      <4>6. Queued(k)'
        BY <1>1, <4>4, <4>5 DEF Queued, u
      <4> QED BY <4>1, <4>2, <4>3, <4>6 DEF Sound
    <3> QED BY <1>1, <3>7, <3>9, <3>10 DEF FileInv
  <2> QED BY <2>3, <2>4
<1> QED BY <1>2, <1>3 DEF StoreInv

--------------------------------------------------------------------------------
(* The writer takes what is queued.                                            *)

ByTime(S) == Sorted(S, Ordered)

LEMMA RecsIn == \A s, r : r \in Recs(s) <=> \E i \in 1..Len(s) : s[i].record = r
BY DEF Recs

\* A set of lines, sorted and numbered on from n.
Arranged(w, S, n) ==
    /\ Len(w) = Cardinality(S) /\ Len(w) \in Nat
    /\ \A i \in 1..Len(w) : w[i].sn = n + i
    /\ \A l \in S : \E i \in 1..Len(w) : w[i].record = l.record
    /\ \A i \in 1..Len(w) : \E l \in S : w[i].record = l.record
    /\ \A i, j \in 1..Len(w) : i < j => TimeOf[w[i].record] <= TimeOf[w[j].record]
    /\ (\A l, m \in S : l.record = m.record => l = m) =>
          \A i, j \in 1..Len(w) : i < j => w[i].record # w[j].record

LEMMA LinesArranged ==
  ASSUME NEW A, A \subseteq Records, NEW S, IsFiniteSet(S),
         \A l \in S : l.record \in A /\ l.sn \in Nat, NEW n \in Nat
  PROVE  /\ Numbered(ByTime(S), n) \in Seq([record : A, sn : Nat])
         /\ Arranged(Numbered(ByTime(S), n), S, n)
<1> DEFINE s == ByTime(S)
           w == Numbered(s, n)
<1>1. \A l \in S : l.record \in Records /\ l.sn \in Nat
  OBVIOUS
<1>2. /\ s \in Seq(S) /\ Len(s) = Cardinality(S) /\ Len(s) \in Nat
      /\ \A l \in S : \E i \in 1..Len(s) : s[i] = l
      /\ \A i, j \in 1..Len(s) : i < j => s[i] # s[j] /\ TimeOf[s[i].record] <= TimeOf[s[j].record]
  BY <1>1, SortedByTime DEF ByTime
<1> HIDE DEF s
<1>3. /\ w \in Seq([record : A, sn : Nat]) /\ Len(w) = Len(s)
      /\ \A i \in 1..Len(s) : w[i].record = s[i].record /\ w[i].sn = n + i
  <2>1. s \in Seq(S) /\ \A l \in S : l.record \in A
    BY <1>2
  <2> QED BY <2>1, LinesNumbered
<1> HIDE DEF w
<1>4. \A i \in 1..Len(s) : s[i] \in S
  BY <1>2
<1>5. \A l \in S : \E i \in 1..Len(w) : w[i].record = l.record
  BY <1>2, <1>3
<1>6. \A i \in 1..Len(w) : \E l \in S : w[i].record = l.record
  BY <1>3, <1>4
<1>7. \A i, j \in 1..Len(w) : i < j => TimeOf[w[i].record] <= TimeOf[w[j].record]
  BY <1>2, <1>3
<1>8. (\A l, m \in S : l.record = m.record => l = m) =>
         \A i, j \in 1..Len(w) : i < j => w[i].record # w[j].record
  BY <1>2, <1>3, <1>4
<1>9. Arranged(w, S, n)
  BY <1>2, <1>3, <1>5, <1>6, <1>7, <1>8 DEF Arranged
<1> QED BY <1>3, <1>9 DEF w, s

\* The lines of a sequence are finitely many.
LEMMA FiniteLines ==
  ASSUME NEW S, NEW f \in Seq(S)
  PROVE  IsFiniteSet({f[i] : i \in 1..Len(f)})
<1> DEFINE L == {f[i] : i \in 1..Len(f)}
<1>1. Len(f) \in Nat /\ f \in [1..Len(f) -> L]
  OBVIOUS
<1>2. f \in Surjection(1..Len(f), L)
  BY <1>1 DEF Surjection
<1>3. IsFiniteSet(1..Len(f))
  BY <1>1, UpTo
<1> HIDE DEF L
<1>4. IsFiniteSet(L)
  BY <1>2, <1>3, FS_Surjection
<1> QED BY <1>4 DEF L

\* The lines of a batch: one for each of its records.
LinesFor(L, b, A) ==
    /\ IsFiniteSet(L)
    /\ \A l \in L : l.record \in A /\ l.sn \in Nat
    /\ \A l \in L : \E i \in 1..Len(b) : l.record = b[i]
    /\ \A i \in 1..Len(b) : \E l \in L : l.record = b[i]
    /\ (\A i, j \in 1..Len(b) : b[i] = b[j] => i = j) =>
          \A l, m \in L : l.record = m.record => l = m

LEMMA FreshLines ==
  ASSUME NEW A, NEW b \in Seq(A), NEW n \in Nat
  PROVE  LinesFor(Fresh(b, n), b, A)
<1> DEFINE f == [i \in 1..Len(b) |-> Line(b[i], n + i)]
           L == Fresh(b, n)
<1>1. Len(b) \in Nat /\ \A i \in 1..Len(b) : b[i] \in A /\ n + i \in Nat
  OBVIOUS
<1>2. L = {f[i] : i \in 1..Len(b)}
  BY DEF Fresh
<1>3. \A i \in 1..Len(b) : f[i].record = b[i] /\ f[i].sn = n + i
  BY DEF Line
<1> HIDE DEF L
<1>4. IsFiniteSet(L)
  <2>1. f \in [1..Len(b) -> L]
    BY <1>2
  <2> HIDE DEF f
  <2>2. f \in Surjection(1..Len(b), L)
    BY <1>2, <2>1 DEF Surjection
  <2>3. IsFiniteSet(1..Len(b))
    BY <1>1, UpTo
  <2> QED BY <2>2, <2>3, FS_Surjection
<1> HIDE DEF f
<1>5. \A l \in L : \E i \in 1..Len(b) : l = f[i]
  BY <1>2
<1>6. \A i \in 1..Len(b) : f[i] \in L
  BY <1>2
<1>7. \A l \in L : l.record \in A /\ l.sn \in Nat /\ \E i \in 1..Len(b) : l.record = b[i]
  BY <1>1, <1>3, <1>5
<1>8. \A i \in 1..Len(b) : \E l \in L : l.record = b[i]
  BY <1>3, <1>6
<1>9. ASSUME \A i, j \in 1..Len(b) : b[i] = b[j] => i = j, NEW l \in L, NEW m \in L, l.record = m.record
      PROVE  l = m
  <2>1. PICK i \in 1..Len(b) : l = f[i]
    BY <1>5
  <2>2. PICK j \in 1..Len(b) : m = f[j]
    BY <1>5
  <2>3. b[i] = b[j]
    BY <1>3, <1>9, <2>1, <2>2
  <2>4. i = j
    BY <1>9, <2>3
  <2> QED BY <2>1, <2>2, <2>4
<1>10. LinesFor(L, b, A)
  BY <1>4, <1>7, <1>8, <1>9 DEF LinesFor
<1> QED BY <1>10 DEF L

\* What is handed over and what stays in the queue.
HeadOf(b, s, n) == Len(b) = n /\ \A i \in 1..n : b[i] = s[i] /\ i \in 1..Len(s)
RestOf(u, s, n) ==
    /\ Len(u) = Len(s) - n /\ Len(u) \in Nat
    /\ \A i \in 1..Len(u) : u[i] = s[n + i] /\ n + i \in 1..Len(s)
    /\ \A i \in 1..Len(s) : i \in 1..n \/ (i - n \in 1..Len(u) /\ s[i] = u[i - n])

LEMMA QueueSplit ==
  ASSUME NEW S, NEW s \in Seq(S), NEW n \in 1..Len(s)
  PROVE  /\ SubSeq(s, 1, n) \in Seq(S) /\ HeadOf(SubSeq(s, 1, n), s, n)
         /\ SubSeq(s, n + 1, Len(s)) \in Seq(S) /\ RestOf(SubSeq(s, n + 1, Len(s)), s, n)
<1> DEFINE b == SubSeq(s, 1, n)
           u == SubSeq(s, n + 1, Len(s))
<1>1. Len(s) \in Nat /\ n \in Nat /\ n > 0 /\ n <= Len(s)
  OBVIOUS
<1>2. b \in Seq(S) /\ Len(b) = n /\ \A i \in 1..n : b[i] = s[i] /\ i \in 1..Len(s)
  <2>1. /\ b \in Seq(S) /\ Len(b) = IF 1 <= n THEN n - 1 + 1 ELSE 0
        /\ \A i \in 1..(n - 1 + 1) : b[i] = s[1 + i - 1]
    BY <1>1, Parts
  <2> HIDE DEF b
  <2> QED BY <1>1, <2>1
<1>3. /\ u \in Seq(S) /\ Len(u) = Len(s) - n /\ Len(u) \in Nat
      /\ \A i \in 1..Len(u) : u[i] = s[n + i] /\ n + i \in 1..Len(s)
  <2>1. n + 1 \in Nat /\ n + 1 > 0 /\ Len(s) \in Int /\ Len(s) <= Len(s)
    BY <1>1
  <2>2. /\ u \in Seq(S) /\ Len(u) = IF n + 1 <= Len(s) THEN Len(s) - (n + 1) + 1 ELSE 0
        /\ \A i \in 1..(Len(s) - (n + 1) + 1) : u[i] = s[(n + 1) + i - 1]
    BY <2>1, Parts
  <2> HIDE DEF u
  <2>3. Len(u) = Len(s) - n /\ Len(u) \in Nat
    BY <1>1, <2>2
  <2>4. \A i \in 1..Len(u) : i \in 1..(Len(s) - (n + 1) + 1) /\ (n + 1) + i - 1 = n + i
    BY <1>1, <2>3
  <2>5. \A i \in 1..Len(u) : u[i] = s[n + i] /\ n + i \in 1..Len(s)
    BY <1>1, <2>2, <2>3, <2>4
  <2> QED BY <2>2, <2>3, <2>5
<1> HIDE DEF b, u
<1>4. ASSUME NEW i \in 1..Len(s), i \notin 1..n
      PROVE  i - n \in 1..Len(u) /\ s[i] = u[i - n]
  <2>1. i - n \in 1..Len(u) /\ n + (i - n) = i
    BY <1>1, <1>3, <1>4
  <2> QED BY <1>3, <2>1
<1>5. HeadOf(b, s, n) /\ RestOf(u, s, n)
  BY <1>2, <1>3, <1>4 DEF HeadOf, RestOf
<1> QED BY <1>2, <1>3, <1>5 DEF b, u

\* The lines the writer is given: all there has to be, once, in order.
Written(w, k, b, late, m) ==
    /\ Len(w) \in Nat /\ Len(w) > 0
    /\ \A i \in 1..Len(w) : w[i].record \in OfKey(k) /\ w[i].sn = m + i
    /\ \A i \in 1..Len(b) : b[i] \in Recs(w)
    /\ late => Recs(file[k]) \subseteq Recs(w)
    /\ \A r \in Recs(w) : (\E i \in 1..Len(b) : b[i] = r) \/ (late /\ r \in Recs(file[k]))
    /\ \A i, j \in 1..Len(w) : i < j => TimeOf[w[i].record] <= TimeOf[w[j].record]
    /\ k \notin damaged => /\ late => Len(file[k]) <= Len(w)
                           /\ \A i, j \in 1..Len(w) : i < j => w[i].record # w[j].record

LEMMA TakeLines ==
  ASSUME NEW k \in Keys, FileInv(k), writer[k].mode = "rest", NEW n \in 1..Len(queue[k]),
         NEW b \in Seq(OfKey(k)), HeadOf(b, queue[k], n), NEW late \in BOOLEAN,
         late => \A i \in DOMAIN file[k] : file[k][i].record # Torn,
         NEW m \in Nat, NEW p \in Nat, NEW S, S = (IF late THEN Lines(k) ELSE {}) \cup Fresh(b, p)
  PROVE  /\ Numbered(ByTime(S), m) \in Seq([record : OfKey(k), sn : Nat])
         /\ Written(Numbered(ByTime(S), m), k, b, late, m)
<1> DEFINE L == {file[k][i] : i \in 1..Len(file[k])}
           F == Fresh(b, p)
           w == Numbered(ByTime(S), m)
<1>1. FileTypes(k) /\ file[k] \in Seq(LinesOf(k)) /\ OfKey(k) \subseteq Records /\ Torn \notin Records
  BY StoreAssumption DEF FileInv, FileTypes, OfKey
<1>2. Len(b) = n /\ n \in Nat /\ n > 0 /\ \A i \in 1..n : b[i] = queue[k][i] /\ i \in 1..Len(queue[k])
  BY DEF HeadOf
<1>3. LinesFor(F, b, OfKey(k))
  BY FreshLines
<1>4. IsFiniteSet(L) /\ L = Lines(k) /\ DOMAIN file[k] = 1..Len(file[k])
  BY <1>1, FiniteLines DEF Lines
<1> HIDE DEF F
<1>5. late => \A l \in L : l.record \in OfKey(k) /\ l.sn \in Nat
  <2> HAVE late
  <2>1. \A i \in 1..Len(file[k]) : file[k][i] \in LinesOf(k) /\ file[k][i].record # Torn
    BY <1>1, <1>4
  <2>2. \A i \in 1..Len(file[k]) : file[k][i].record \in OfKey(k) /\ file[k][i].sn \in Nat
    BY <2>1 DEF LinesOf
  <2> QED BY <2>2
<1>6. \A r : r \in Recs(file[k]) <=> \E l \in L : l.record = r
  BY DEF Recs
<1>7. S = (IF late THEN L ELSE {}) \cup F
  BY <1>4 DEF F
<1>8. IsFiniteSet(S) /\ \A l \in S : l.record \in OfKey(k) /\ l.sn \in Nat
  <2> HIDE DEF L
  <2>1. IsFiniteSet(F) /\ \A l \in F : l.record \in OfKey(k) /\ l.sn \in Nat
    BY <1>3 DEF LinesFor
  <2>2. IsFiniteSet(L \cup F)
    BY <1>4, <2>1, FS_Union
  <2> QED BY <1>5, <1>7, <2>1, <2>2
<1>9. ASSUME k \notin damaged
      PROVE  \A l, h \in S : l.record = h.record => l = h
  <2>1. Good(file[k]) /\ Queued(k)
    BY <1>9 DEF FileInv, Sound, AtRest
  <2>2. \A l, h \in F : l.record = h.record => l = h
    <3>1. \A i, j \in 1..Len(b) : b[i] = b[j] => i = j
      BY <1>2, <2>1 DEF Queued
    <3> QED BY <1>3, <3>1 DEF LinesFor
  <2>3. \A l, h \in L : l.record = h.record => l = h
    <3>1. \A i, j \in 1..Len(file[k]) : file[k][i].record = file[k][j].record => i = j
      BY <1>1, <2>1 DEF Good
    <3> QED BY <3>1 DEF L
  <2>4. ASSUME NEW l \in F PROVE l.record \notin Recs(file[k])
    <3>1. PICK i \in 1..n : l.record = b[i]
      BY <1>2, <1>3 DEF LinesFor
    <3>2. l.record = queue[k][i] /\ i \in 1..Len(queue[k])
      BY <1>2, <3>1
    <3> QED BY <2>1, <3>2 DEF Queued
  <2> HIDE DEF L
  <2> QED BY <1>6, <1>7, <2>2, <2>3, <2>4
<1> HIDE DEF L
<1>10. w \in Seq([record : OfKey(k), sn : Nat]) /\ Arranged(w, S, m)
  BY <1>1, <1>8, LinesArranged
<1> HIDE DEF w
<1>11. /\ Len(w) \in Nat /\ \A i \in 1..Len(w) : w[i].sn = m + i
       /\ \A i, j \in 1..Len(w) : i < j => TimeOf[w[i].record] <= TimeOf[w[j].record]
  BY <1>10 DEF Arranged
<1>12. \A l \in S : l.record \in Recs(w)
  <2>1. \A l \in S : \E i \in 1..Len(w) : w[i].record = l.record
    BY <1>10 DEF Arranged
  <2> QED BY <2>1, RecsIn
<1>13. \A i \in 1..Len(w) : \E l \in S : w[i].record = l.record
  BY <1>10 DEF Arranged
<1>14. \A i \in 1..Len(b) : b[i] \in Recs(w)
  <2>1. \A i \in 1..Len(b) : \E l \in F : l.record = b[i]
    BY <1>3 DEF LinesFor
  <2> QED BY <1>7, <1>12, <2>1
<1>15. Len(w) > 0
  <2>1. b[1] \in Recs(w)
    BY <1>2, <1>14
  <2>2. PICK i \in 1..Len(w) : w[i].record = b[1]
    BY <2>1, RecsIn
  <2> QED BY <1>11
<1>16. late => Recs(file[k]) \subseteq Recs(w)
  BY <1>6, <1>7, <1>12
<1>17. ASSUME NEW r \in Recs(w)
       PROVE  (\E i \in 1..Len(b) : b[i] = r) \/ (late /\ r \in Recs(file[k]))
  <2>1. PICK i \in 1..Len(w) : w[i].record = r
    BY RecsIn
  <2>2. PICK l \in S : l.record = r
    BY <1>13, <2>1
  <2>3. l \in F => \E j \in 1..Len(b) : l.record = b[j]
    BY <1>3 DEF LinesFor
  <2> QED BY <1>6, <1>7, <2>2, <2>3
<1>18. \A i \in 1..Len(w) : w[i].record \in OfKey(k)
  BY <1>8, <1>13
<1>19. ASSUME k \notin damaged
       PROVE  /\ late => Len(file[k]) <= Len(w)
              /\ \A i, j \in 1..Len(w) : i < j => w[i].record # w[j].record
  <2>1. \A i, j \in 1..Len(w) : i < j => w[i].record # w[j].record
    BY <1>9, <1>10, <1>19 DEF Arranged
  <2>2. late => Len(file[k]) <= Len(w)
    <3> HAVE late
    <3>1. Good(file[k])
      BY <1>19 DEF FileInv, Sound, AtRest
    <3>2. Cardinality(L) = Len(file[k])
      BY <1>1, <3>1, GoodCount DEF L
    <3>3. L \in SUBSET S
      BY <1>7
    <3>4. Cardinality(L) <= Cardinality(S)
      BY <1>8, <3>3, FS_Subset
    <3> QED BY <1>10, <3>2, <3>4 DEF Arranged
  <2> QED BY <2>1, <2>2
<1>20. Written(w, k, b, late, m)
  BY <1>11, <1>14, <1>15, <1>16, <1>17, <1>18, <1>19 DEF Written
<1> QED BY <1>10, <1>20 DEF w

LEMMA TakeKeeps ==
  ASSUME NEW k \in Keys, NEW n \in 1..Len(queue[k]), StoreInv, Take(k, n)
  PROVE  StoreInv'
<1> DEFINE b == SubSeq(queue[k], 1, n)
           u == SubSeq(queue[k], n + 1, Len(queue[k]))
           st == StateOf(k)
           late == Rewrites(k, b)
           S == (IF late THEN Lines(k) ELSE {}) \cup Fresh(b, st.sn)
           m == IF late THEN 0 ELSE st.sn
           w == Numbered(ByTime(S), m)
<1>1. /\ writer[k].mode = "rest"
      /\ late => \A i \in DOMAIN file[k] : file[k][i].record # Torn
      /\ queue' = [queue EXCEPT ![k] = u]
      /\ state' = [state EXCEPT ![k] = IF late THEN [st EXCEPT !.sn = 0] ELSE st]
      /\ writer' = [writer EXCEPT ![k] =
           [mode  |-> IF late THEN "rewrite" ELSE "append", lines |-> w,
            done  |-> 0, old |-> file[k], batch |-> {b[i] : i \in DOMAIN b}]]
      /\ file' = file /\ open' = open /\ damaged' = damaged /\ step' = step
      /\ index' = index /\ stale' = stale /\ dated' = dated /\ scanned' = scanned
      /\ lost' = lost /\ checked' = checked /\ failures' = failures
  BY DEF Take, ByTime, files, requests, indices, days
<1> HIDE DEF b, u, late, S, m, w, st
<1>2. Shapes'
  BY <1>1 DEF StoreInv, Shapes
<1>3. \A j \in Keys : OfKey(j)' = OfKey(j)
  BY <1>1 DEF OfKey
<1>4. ASSUME NEW j \in Keys, j # k PROVE FileInv(j)'
  <2>1. state'[j] = state[j] /\ queue'[j] = queue[j] /\ writer'[j] = writer[j] /\ FileInv(j)
    BY <1>1, <1>4 DEF StoreInv, Shapes
  <2> QED BY <1>1, <1>3, <2>1, FileStays
<1>5. FileInv(k)'
  <2> DEFINE v == writer'[k]
  <2>1. /\ FileInv(k) /\ FileTypes(k) /\ queue'[k] = u
        /\ state'[k] = IF late THEN [st EXCEPT !.sn = 0] ELSE st
        /\ v = [mode  |-> IF late THEN "rewrite" ELSE "append", lines |-> w,
                done  |-> 0, old |-> file[k], batch |-> {b[i] : i \in DOMAIN b}]
    BY <1>1 DEF StoreInv, Shapes, FileInv
  <2>2. /\ st \in [known : BOOLEAN, sn : Nat, time : Nat] /\ st.known
        /\ k \notin damaged => st.sn = Len(file[k]) /\ st.time = LastTime(file[k])
    BY <1>1, <2>1, StateIsKnown DEF st
  <2>3. b \in Seq(OfKey(k)) /\ HeadOf(b, queue[k], n) /\ u \in Seq(OfKey(k)) /\ RestOf(u, queue[k], n)
    BY <2>1, QueueSplit DEF FileTypes, b, u
  <2>4. Len(b) = n /\ n \in Nat /\ n > 0 /\ \A i \in 1..n : b[i] = queue[k][i] /\ i \in 1..Len(queue[k])
    BY <2>3 DEF HeadOf
  <2>5. /\ Len(u) = Len(queue[k]) - n /\ Len(u) \in Nat
        /\ \A i \in 1..Len(u) : u[i] = queue[k][n + i] /\ n + i \in 1..Len(queue[k])
    BY <2>3 DEF RestOf
  <2>6. late \in BOOLEAN /\ (late <=> \E i \in 1..n : st.time > TimeOf[b[i]])
    <3>1. DOMAIN b = 1..n
      BY <2>3, <2>4
    <3> QED BY <3>1 DEF late, Rewrites, Late, st
  <2>7. m \in Nat
    BY <2>2, <2>6 DEF m
  <2>8. w \in Seq([record : OfKey(k), sn : Nat]) /\ Written(w, k, b, late, m)
    <3>1. S = (IF late THEN Lines(k) ELSE {}) \cup Fresh(b, st.sn) /\ st.sn \in Nat
      BY <2>2 DEF S
    <3>2. w = Numbered(ByTime(S), m)
      BY DEF w
    <3> QED BY <1>1, <2>1, <2>3, <2>6, <2>7, <3>1, <3>2, TakeLines
  <2>9. /\ Len(w) \in Nat /\ Len(w) > 0
        /\ \A i \in 1..Len(w) : w[i].record \in OfKey(k) /\ w[i].sn = m + i
        /\ \A i \in 1..n : b[i] \in Recs(w)
    BY <2>8, <2>4 DEF Written
  <2>10. \A r \in Recs(w) : (\E i \in 1..n : b[i] = r) \/ (late /\ r \in Recs(file[k]))
    BY <2>8, <2>4 DEF Written
  <2>11. k \notin damaged => \A i, j \in 1..Len(w) : i < j =>
            TimeOf[w[i].record] <= TimeOf[w[j].record] /\ w[i].record # w[j].record
    BY <2>8 DEF Written
  <2>12. /\ v.mode = (IF late THEN "rewrite" ELSE "append") /\ v.lines = w /\ v.done = 0
         /\ v.old = file[k] /\ v.batch = {b[i] : i \in DOMAIN b}
    BY <2>1
  <2>13. /\ file[k] \in Seq(LinesOf(k)) /\ w \in Seq(LinesOf(k)) /\ OfKey(k) \subseteq Records
         /\ Len(file[k]) \in Nat
    <3>1. [record : OfKey(k), sn : Nat] \subseteq LinesOf(k)
      BY DEF LinesOf
    <3>2. w \in Seq(LinesOf(k))
      <4> DEFINE U == [record : OfKey(k), sn : Nat]
      <4>1. w \in Seq(U) /\ U \subseteq LinesOf(k)
        BY <2>8, <3>1
      <4> HIDE DEF U
      <4> QED BY <4>1, SeqMonotonic
    <3>3. file[k] \in Seq(LinesOf(k)) /\ Len(file[k]) \in Nat
      BY <2>1 DEF FileTypes
    <3> QED BY <3>2, <3>3 DEF OfKey
  <2>14. v \in Writers(k)
    <3>1. v.batch \subseteq Records
      <4>1. DOMAIN b = 1..n /\ \A i \in 1..n : b[i] \in OfKey(k)
        BY <2>3, <2>4
      <4> QED BY <2>12, <2>13, <4>1
    <3>2. {b[i] : i \in DOMAIN b} \in SUBSET Records
      BY <2>12, <3>1
    <3> QED BY <2>1, <2>6, <2>13, <3>2 DEF Writers
  <2> HIDE DEF v
  <2>15. FileTypes(k)'
    <3>1. LinesOf(k)' = LinesOf(k) /\ Writers(k)' = Writers(k)
      BY <1>3 DEF LinesOf, Writers
    <3>2. state'[k] \in [known : BOOLEAN, sn : Nat, time : Nat]
      BY <2>1, <2>2
    <3>3. v.mode # "rest" /\ v.lines # <<>> /\ v.done <= Len(v.lines)
      BY <2>12, <2>9
    <3>4. \A i \in 1..Len(v.lines) : v.lines[i].record \in Records
      BY <2>12, <2>13, <2>9
    <3> QED BY <1>1, <1>3, <2>1, <2>3, <2>14, <3>1, <3>2, <3>3, <3>4 DEF FileTypes, v
  <2>16. Held(k)'
    <3> SUFFICES ASSUME NEW r \in OfKey(k)
                 PROVE  \/ k \in damaged \/ r \in lost \/ r \in Recs(file[k]) \/ r \in Recs(w)
                        \/ \E i \in 1..Len(u) : u[i] = r
      BY <1>1, <1>3, <2>1, <2>12 DEF Held, v
    <3>1. writer[k].lines = <<>>
      BY <1>1, <2>1 DEF FileTypes, Resting
    <3>2. r \notin Recs(writer[k].lines)
      BY <3>1, GoodEmpty
    <3>3. ASSUME NEW i \in 1..Len(queue[k]), queue[k][i] = r
          PROVE  r \in Recs(w) \/ \E j \in 1..Len(u) : u[j] = r
      <4>1. i \in 1..n \/ (i - n \in 1..Len(u) /\ queue[k][i] = u[i - n])
        BY <2>3 DEF RestOf
      <4>2. i \in 1..n => r \in Recs(w)
        BY <2>4, <2>9, <3>3
      <4> QED BY <3>3, <4>1, <4>2
    <3> QED BY <2>1, <3>2, <3>3 DEF FileInv, Held
  <2>17. ASSUME k \notin damaged PROVE Sound(k)'
    <3>1. Sound(k) /\ Good(file[k]) /\ Queued(k)
      BY <1>1, <2>1, <2>17 DEF FileInv, Sound, AtRest
    <3>2. Queued(k)'
      <4>1. \A i, j \in 1..Len(u) : u[i] = u[j] => i = j
        <5> SUFFICES ASSUME NEW i \in 1..Len(u), NEW j \in 1..Len(u), u[i] = u[j] PROVE i = j
          OBVIOUS
        <5>1. /\ u[i] = queue[k][n + i] /\ n + i \in 1..Len(queue[k])
              /\ u[j] = queue[k][n + j] /\ n + j \in 1..Len(queue[k])
          BY <2>5
        <5>2. n + i = n + j
          BY <3>1, <5>1 DEF Queued
        <5> QED BY <2>4, <2>5, <5>2
      <4>2. \A i \in 1..Len(u) : u[i] \notin Recs(file[k]) /\ u[i] \notin Recs(w)
        <5> SUFFICES ASSUME NEW i \in 1..Len(u) PROVE u[i] \notin Recs(file[k]) /\ u[i] \notin Recs(w)
          OBVIOUS
        <5>1. u[i] = queue[k][n + i] /\ n + i \in 1..Len(queue[k]) /\ n + i \notin 1..n
          BY <2>4, <2>5
        <5>2. u[i] \notin Recs(file[k])
          BY <3>1, <5>1 DEF Queued
        <5>3. \A j \in 1..n : b[j] # u[i]
          BY <2>4, <3>1, <5>1 DEF Queued
        <5> QED BY <2>10, <5>2, <5>3
      <4> QED BY <1>1, <2>1, <2>12, <4>1, <4>2 DEF Queued, v
    <3>3. SubSeq(w, 1, 0) = <<>>
      BY SubSeqEmpty
    <3>4. Appending(k)'
      <4> SUFFICES ASSUME ~late
                   PROVE  /\ Good(file[k] \o w) /\ file[k] = file[k] \o SubSeq(w, 1, 0)
                          /\ st.known /\ st.sn = Len(file[k]) /\ st.time = LastTime(file[k])
        BY <1>1, <2>1, <2>12 DEF Appending, v
      <4>1. \A i \in 1..Len(w) : /\ w[i].record \in Records \ Recs(file[k]) /\ w[i].sn = Len(file[k]) + i
                                 /\ LastTime(file[k]) <= TimeOf[w[i].record]
        <5> SUFFICES ASSUME NEW i \in 1..Len(w)
                     PROVE  /\ w[i].record \in Records \ Recs(file[k]) /\ w[i].sn = Len(file[k]) + i
                            /\ LastTime(file[k]) <= TimeOf[w[i].record]
          OBVIOUS
        <5>1. w[i].record \in Recs(w) /\ w[i].record \in Records /\ w[i].sn = m + i
          BY <2>13, <2>9, RecsIn
        <5>2. PICK j \in 1..n : b[j] = w[i].record
          BY <2>10, <5>1
        <5>3. w[i].record \notin Recs(file[k])
          BY <2>4, <3>1, <5>2 DEF Queued
        <5>4. m = Len(file[k])
          BY <2>2, <2>17 DEF m
        <5>5. ~(LastTime(file[k]) > TimeOf[w[i].record])
          BY <2>2, <2>6, <2>17, <5>2
        <5>6. LastTime(file[k]) \in Nat /\ TimeOf[w[i].record] \in Nat
          BY <2>13, <3>1, <5>1, GoodLast, StoreAssumption
        <5> QED BY <5>1, <5>3, <5>4, <5>5, <5>6
      <4>2. \A i, j \in 1..Len(w) : i < j =>
               TimeOf[w[i].record] <= TimeOf[w[j].record] /\ w[i].record # w[j].record
        BY <2>17, <2>11
      <4>3. Good(file[k] \o w)
        BY <2>13, <3>1, <4>1, <4>2, GoodWithMore
      <4>4. file[k] = file[k] \o <<>>
        BY <2>13, ConcatEmptySeq
      <4> QED BY <2>2, <2>17, <3>3, <4>3, <4>4
    <3>5. Rewriting(k)'
      <4> SUFFICES ASSUME late
                   PROVE  /\ Good(w) /\ Len(file[k]) <= Len(w) /\ Recs(file[k]) \subseteq Recs(w)
                          /\ file[k] = SubSeq(w, 1, 0) \o SubSeq(file[k], 0 + 1, Len(file[k]))
                          /\ state'[k].known /\ state'[k].sn = 0
        BY <1>1, <2>1, <2>12 DEF Rewriting, v
      <4>1. Good(w)
        <5>1. m = 0
          BY DEF m
        <5>2. \A i \in 1..Len(w) : /\ w[i].record \in Records \ Recs(<<>>) /\ w[i].sn = Len(<<>>) + i
                                   /\ LastTime(<<>>) <= TimeOf[w[i].record]
          <6> SUFFICES ASSUME NEW i \in 1..Len(w)
                       PROVE  /\ w[i].record \in Records \ Recs(<<>>) /\ w[i].sn = Len(<<>>) + i
                              /\ LastTime(<<>>) <= TimeOf[w[i].record]
            OBVIOUS
          <6>1. w[i].record \in Records /\ w[i].sn = i /\ Len(<<>>) = 0
            BY <2>13, <2>9, <5>1
          <6>2. TimeOf[w[i].record] \in Nat
            BY <6>1, StoreAssumption
          <6> QED BY <6>1, <6>2, GoodEmpty
        <5>3. \A i, j \in 1..Len(w) : i < j =>
                 TimeOf[w[i].record] <= TimeOf[w[j].record] /\ w[i].record # w[j].record
          BY <2>17, <2>11
        <5>4. <<>> \in Seq(LinesOf(k)) /\ Good(<<>>)
          BY GoodEmpty
        <5>5. Good(<<>> \o w)
          BY <2>13, <5>2, <5>3, <5>4, GoodWithMore
        <5>6. <<>> \o w = w
          BY <2>13, ConcatEmptySeq
        <5> QED BY <5>5, <5>6
      <4>2. Len(file[k]) <= Len(w) /\ Recs(file[k]) \subseteq Recs(w)
        BY <2>8, <2>17 DEF Written
      <4>3. <<>> \o SubSeq(file[k], 0 + 1, Len(file[k])) = file[k]
        <5>1. SubSeq(file[k], 0 + 1, Len(file[k])) = file[k]
          BY <2>13, SubSeqFull
        <5> QED BY <2>13, <5>1, ConcatEmptySeq
      <4>4. state'[k].known /\ state'[k].sn = 0
        BY <2>1, <2>2
      <4> QED BY <3>3, <4>1, <4>2, <4>3, <4>4
    <3>6. Indexed(k)'
      <4>1. writer'[k].mode # "rest"
        BY <2>12 DEF v
      <4> QED BY <1>1, <3>1, <4>1 DEF Sound, Indexed
    <3>7. AtRest(k)'
      BY <2>12 DEF AtRest, v
    <3> QED BY <1>1, <3>1, <3>2, <3>4, <3>5, <3>6, <3>7 DEF Sound
  <2> QED BY <1>1, <2>15, <2>16, <2>17 DEF FileInv
<1> QED BY <1>2, <1>4, <1>5 DEF StoreInv

LEMMA TakeFailsKeeps ==
  ASSUME NEW k \in Keys, NEW n \in 1..Len(queue[k]), StoreInv, TakeFails(k, n)
  PROVE  StoreInv'
<1> DEFINE b == SubSeq(queue[k], 1, n)
           u == SubSeq(queue[k], n + 1, Len(queue[k]))
<1>1. /\ writer[k].mode = "rest" /\ queue' = [queue EXCEPT ![k] = u]
      /\ lost' = lost \cup {b[i] : i \in DOMAIN b}
      /\ failures' = failures + 1 \/ failures' = failures
      /\ state' = state /\ writer' = writer /\ file' = file /\ open' = open /\ damaged' = damaged
      /\ step' = step /\ checked' = checked
      /\ index' = index /\ stale' = stale /\ dated' = dated /\ scanned' = scanned
  BY DEF TakeFails, Fails, files, requests, indices, days
<1> HIDE DEF b, u
<1>2. Shapes' /\ (failures' = failures \/ failures' # 0)
  BY <1>1 DEF StoreInv, Shapes
<1>3. \A j \in Keys : OfKey(j)' = OfKey(j)
  BY <1>1 DEF OfKey
<1>4. ASSUME NEW j \in Keys, j # k PROVE FileInv(j)'
  <2>1. queue'[j] = queue[j] /\ FileInv(j)
    BY <1>1, <1>4 DEF StoreInv, Shapes
  <2> QED BY <1>1, <1>2, <1>3, <2>1, FileStays
<1>5. FileInv(k)'
  <2>1. FileInv(k) /\ FileTypes(k) /\ queue'[k] = u
    BY <1>1 DEF StoreInv, Shapes, FileInv
  <2>2. b \in Seq(OfKey(k)) /\ HeadOf(b, queue[k], n) /\ u \in Seq(OfKey(k)) /\ RestOf(u, queue[k], n)
    BY <2>1, QueueSplit DEF FileTypes, b, u
  <2>3. /\ DOMAIN b = 1..n /\ n \in Nat /\ n > 0
        /\ \A i \in 1..n : b[i] = queue[k][i] /\ i \in 1..Len(queue[k])
    BY <2>2 DEF HeadOf
  <2>4. /\ Len(u) = Len(queue[k]) - n /\ Len(u) \in Nat
        /\ \A i \in 1..Len(u) : u[i] = queue[k][n + i] /\ n + i \in 1..Len(queue[k])
    BY <2>2 DEF RestOf
  <2>5. FileTypes(k)'
    <3>1. LinesOf(k)' = LinesOf(k) /\ Writers(k)' = Writers(k)
      BY <1>3 DEF LinesOf, Writers
    <3> QED BY <1>1, <1>3, <2>1, <2>2, <3>1 DEF FileTypes
  <2>6. Held(k)'
    <3> SUFFICES ASSUME NEW r \in OfKey(k)
                 PROVE  \/ k \in damaged \/ r \in lost' \/ r \in Recs(file[k]) \/ r \in Recs(writer[k].lines)
                        \/ \E i \in 1..Len(u) : u[i] = r
      BY <1>1, <1>3, <2>1 DEF Held
    <3>1. ASSUME NEW i \in 1..Len(queue[k]), queue[k][i] = r
          PROVE  r \in lost' \/ \E j \in 1..Len(u) : u[j] = r
      <4>1. i \in 1..n \/ (i - n \in 1..Len(u) /\ queue[k][i] = u[i - n])
        BY <2>2 DEF RestOf
      <4>2. i \in 1..n => r \in lost'
        BY <1>1, <2>3, <3>1
      <4> QED BY <3>1, <4>1, <4>2
    <3> QED BY <1>1, <2>1, <3>1 DEF FileInv, Held
  <2>7. ASSUME k \notin damaged PROVE Sound(k)'
    <3>1. Sound(k) /\ Queued(k)
      BY <2>1, <2>7 DEF FileInv, Sound
    <3>2. Queued(k)'
      <4>1. \A i, j \in 1..Len(u) : u[i] = u[j] => i = j
        <5> SUFFICES ASSUME NEW i \in 1..Len(u), NEW j \in 1..Len(u), u[i] = u[j] PROVE i = j
          OBVIOUS
        <5>1. /\ u[i] = queue[k][n + i] /\ n + i \in 1..Len(queue[k])
              /\ u[j] = queue[k][n + j] /\ n + j \in 1..Len(queue[k])
          BY <2>4
        <5>2. n + i = n + j
          BY <3>1, <5>1 DEF Queued
        <5> QED BY <2>3, <2>4, <5>2
      <4>2. \A i \in 1..Len(u) : u[i] \notin Recs(file[k]) \cup Recs(writer[k].lines)
        BY <2>4, <3>1 DEF Queued
      <4> QED BY <1>1, <2>1, <4>1, <4>2 DEF Queued
    <3>3. AtRest(k)' /\ Appending(k)' /\ Rewriting(k)' /\ ~open'[k]
      BY <1>1, <3>1 DEF Sound, AtRest, Appending, Rewriting
    <3>4. Indexed(k)'
      BY <1>1, <1>2, <3>1 DEF Sound, Indexed
    <3> QED BY <3>2, <3>3, <3>4 DEF Sound
  <2> QED BY <1>1, <2>5, <2>6, <2>7 DEF FileInv
<1> QED BY <1>2, <1>4, <1>5 DEF StoreInv

--------------------------------------------------------------------------------
(* The writer writes.                                                          *)

LEMMA RecsJoin ==
  ASSUME NEW S, NEW s \in Seq(S), NEW t \in Seq(S)
  PROVE  Recs(s \o t) = Recs(s) \cup Recs(t)
<1> DEFINE w == s \o t
<1>1. /\ Len(w) = Len(s) + Len(t) /\ Len(s) \in Nat /\ Len(t) \in Nat
      /\ \A i \in 1..Len(s) + Len(t) : w[i] = IF i <= Len(s) THEN s[i] ELSE t[i - Len(s)]
  BY ConcatProperties
<1> HIDE DEF w
<1>2. \A i \in 1..Len(s) : w[i] = s[i] /\ i \in 1..Len(w)
  BY <1>1
<1>3. ASSUME NEW i \in 1..Len(t) PROVE w[Len(s) + i] = t[i] /\ Len(s) + i \in 1..Len(w)
  <2>1. Len(s) + i \in 1..Len(s) + Len(t) /\ ~(Len(s) + i <= Len(s)) /\ (Len(s) + i) - Len(s) = i
    BY <1>1
  <2>2. w[Len(s) + i] = t[(Len(s) + i) - Len(s)]
    BY <1>1, <2>1
  <2> QED BY <1>1, <2>1, <2>2
<1>4. \A i \in 1..Len(w) :
        (i \in 1..Len(s) /\ w[i] = s[i]) \/ (i - Len(s) \in 1..Len(t) /\ w[i] = t[i - Len(s)])
  BY <1>1
<1>5. Recs(w) \subseteq Recs(s) \cup Recs(t)
  BY <1>4 DEF Recs
<1>6. Recs(s) \subseteq Recs(w)
  BY <1>2 DEF Recs
<1>7. Recs(t) \subseteq Recs(w)
  <2> SUFFICES ASSUME NEW r \in Recs(t) PROVE r \in Recs(w)
    OBVIOUS
  <2>1. PICK i \in 1..Len(t) : t[i].record = r
    BY RecsIn
  <2>2. w[Len(s) + i].record = r /\ Len(s) + i \in 1..Len(w)
    BY <1>3, <2>1
  <2> QED BY <2>2, RecsIn
<1> QED BY <1>5, <1>6, <1>7 DEF w

LEMMA RecsPart ==
  ASSUME NEW S, NEW s \in Seq(S), NEW m \in Nat, m > 0, NEW n \in Int, n <= Len(s)
  PROVE  Recs(SubSeq(s, m, n)) \subseteq Recs(s)
<1> DEFINE t == SubSeq(s, m, n)
<1>1. /\ Len(t) = IF m <= n THEN n - m + 1 ELSE 0
      /\ \A i \in 1..(n - m + 1) : t[i] = s[m + i - 1]
  BY Parts
<1> HIDE DEF t
<1>2. \A i \in 1..Len(t) : t[i] = s[m + i - 1] /\ m + i - 1 \in 1..Len(s)
  BY <1>1
<1>3. ASSUME NEW r \in Recs(t) PROVE r \in Recs(s)
  <2>1. PICK i \in 1..Len(t) : t[i].record = r
    BY RecsIn
  <2>2. s[m + i - 1].record = r /\ m + i - 1 \in 1..Len(s)
    BY <1>2, <2>1
  <2> QED BY <2>2, RecsIn
<1> QED BY <1>3 DEF t

\* What After yields is a sequence of lines of the file.
AfterIs(w, d, e) ==
    /\ w.mode = "append" => /\ After(w, d, e) = w.old \o (SubSeq(w.lines, 1, d) \o e)
                            /\ Len(After(w, d, e)) = Len(w.old) + d + Len(e)
    /\ w.mode # "append" => After(w, d, e) =
          (SubSeq(w.lines, 1, d) \o e) \o SubSeq(w.old, d + Len(e) + 1, Len(w.old))

LEMMA AfterLines ==
  ASSUME NEW T, NEW w, w.old \in Seq(T), w.lines \in Seq(T), NEW d \in 0..Len(w.lines), NEW e \in Seq(T)
  PROVE  After(w, d, e) \in Seq(T) /\ AfterIs(w, d, e)
<1> DEFINE old == w.old
           lines == w.lines
           t == SubSeq(lines, 1, d)
           x == t \o e
<1> HIDE DEF old, lines
<1>1. old \in Seq(T) /\ lines \in Seq(T) /\ d \in 0..Len(lines)
  BY DEF old, lines
<1>2. Len(old) \in Nat /\ Len(lines) \in Nat /\ Len(e) \in Nat /\ d \in Nat
  BY <1>1
<1>3. t \in Seq(T) /\ Len(t) = d
  <2>1. t \in Seq(T) /\ Len(t) = IF 1 <= d THEN d - 1 + 1 ELSE 0
    BY <1>1, <1>2, Parts
  <2> HIDE DEF t
  <2> QED BY <1>2, <2>1
<1> HIDE DEF t
<1>4. x \in Seq(T) /\ Len(x) = d + Len(e)
  BY <1>3, ConcatProperties
<1>5. CASE w.mode = "append"
  <2>1. After(w, d, e) = old \o x
    BY <1>5 DEF After, t, old, lines
  <2> HIDE DEF x
  <2>2. After(w, d, e) \in Seq(T) /\ Len(After(w, d, e)) = Len(old) + Len(x)
    BY <1>1, <1>4, <2>1, ConcatProperties
  <2>3. Len(After(w, d, e)) = Len(old) + d + Len(e)
    BY <1>2, <1>4, <2>2
  <2>4. After(w, d, e) = old \o (SubSeq(lines, 1, d) \o e)
    BY <2>1 DEF x, t
  <2> QED BY <1>5, <2>2, <2>3, <2>4 DEF old, lines, AfterIs
<1>6. CASE w.mode # "append"
  <2>1. After(w, d, e) = x \o SubSeq(old, Len(x) + 1, Len(old))
    BY <1>6 DEF After, t, old, lines
  <2> HIDE DEF x
  <2>2. SubSeq(old, Len(x) + 1, Len(old)) \in Seq(T)
    BY <1>1, <1>2, <1>4, Parts
  <2>3. After(w, d, e) \in Seq(T)
    BY <1>4, <2>1, <2>2, ConcatProperties
  <2>4. After(w, d, e) = x \o SubSeq(old, d + Len(e) + 1, Len(old))
    BY <1>4, <2>1
  <2> QED BY <1>6, <2>3, <2>4 DEF x, t, old, lines, AfterIs
<1> QED BY <1>5, <1>6

LEMMA JoinedLines ==
  ASSUME NEW k \in Keys, NEW T, Line(Torn, 0) \in T, NEW s \in Seq(T),
         writer[k].old \in Seq(T), writer[k].mode = "append" => Len(writer[k].old) <= Len(s)
  PROVE  Joined(k, s) \in Seq(T) /\ (~open[k] => Joined(k, s) = s)
<1>1. CASE Joins(k)
  <2> DEFINE n == Len(writer[k].old)
  <2>1. n \in Nat /\ n <= Len(s) /\ Len(s) \in Nat /\ open[k]
    BY <1>1 DEF Joins
  <2>2. SubSeq(s, 1, n - 1) \in Seq(T) /\ SubSeq(s, n + 2, Len(s)) \in Seq(T)
    <3> HIDE DEF n
    <3> QED BY <2>1, Parts
  <2>3. <<Line(Torn, 0)>> \in Seq(T)
    OBVIOUS
  <2>4. Joined(k, s) = SubSeq(s, 1, n - 1) \o <<Line(Torn, 0)>> \o SubSeq(s, n + 2, Len(s))
    BY <1>1 DEF Joined
  <2> HIDE DEF n
  <2>5. SubSeq(s, 1, n - 1) \o <<Line(Torn, 0)>> \in Seq(T)
    BY <2>2, <2>3, ConcatProperties
  <2>6. Joined(k, s) \in Seq(T)
    BY <2>2, <2>4, <2>5, ConcatProperties
  <2> QED BY <2>1, <2>6
<1>2. CASE ~Joins(k)
  BY <1>2 DEF Joined
<1> QED BY <1>1, <1>2

LEMMA WriteLineKeeps ==
  ASSUME NEW k \in Keys, StoreInv, WriteLine(k)
  PROVE  StoreInv'
<1> DEFINE w == writer[k]
           old == w.old
           lines == w.lines
           d == w.done
           f == After(w, d + 1, <<>>)
           v == [w EXCEPT !.done = d + 1,
                   !.old = IF Joins(k) THEN SubSeq(old, 1, Len(old) - 1) ELSE old,
                   !.lines = IF Joins(k) THEN [lines EXCEPT ![1] = Line(Torn, 0)] ELSE lines]
           x == [state[k] EXCEPT !.sn = state[k].sn + 1,
                   !.time = IF w.mode = "append" THEN TimeOf[lines[d + 1].record] ELSE state[k].time]
<1>1. /\ w.mode # "rest" /\ d < Len(lines)
      /\ file' = [file EXCEPT ![k] = Joined(k, f)]
      /\ writer' = [writer EXCEPT ![k] = v]
      /\ open' = [open EXCEPT ![k] = w.mode = "rewrite" /\ d + 1 < Len(old) /\ open[k]]
      /\ state' = [state EXCEPT ![k] = x]
      /\ queue' = queue /\ damaged' = damaged /\ step' = step
      /\ index' = index /\ stale' = stale /\ dated' = dated /\ scanned' = scanned
      /\ lost' = lost /\ checked' = checked /\ failures' = failures
  BY DEF WriteLine, requests, indices, days
<1> HIDE DEF w, old, lines, d, f, v, x
<1>2. Shapes'
  BY <1>1 DEF StoreInv, Shapes
<1>3. \A j \in Keys : OfKey(j)' = OfKey(j)
  BY <1>1 DEF OfKey
<1>4. ASSUME NEW j \in Keys, j # k PROVE FileInv(j)'
  <2>1. /\ file'[j] = file[j] /\ open'[j] = open[j] /\ state'[j] = state[j] /\ writer'[j] = writer[j]
        /\ FileInv(j)
    BY <1>1, <1>4 DEF StoreInv, Shapes
  <2> QED BY <1>1, <1>3, <2>1, FileStays
<1>5. FileInv(k)'
  <2>1. /\ FileInv(k) /\ FileTypes(k) /\ file'[k] = Joined(k, f) /\ writer'[k] = v /\ state'[k] = x
        /\ (~open[k] => ~open'[k])
    BY <1>1 DEF StoreInv, Shapes, FileInv
  <2>2. /\ w \in Writers(k) /\ w.mode \in {"append", "rewrite"}
        /\ old \in Seq(LinesOf(k)) /\ lines \in Seq(LinesOf(k)) /\ d \in Nat /\ Len(lines) \in Nat
        /\ Len(old) \in Nat /\ d + 1 \in 1..Len(lines) /\ w.old = old /\ w.lines = lines /\ w.done = d
        /\ \A i \in 1..Len(lines) : i > d \/ w.mode = "rewrite" => lines[i].record \in Records
        /\ state[k] \in [known : BOOLEAN, sn : Nat, time : Nat]
        /\ w.batch \subseteq Records
    <3>1. /\ w \in Writers(k) /\ state[k] \in [known : BOOLEAN, sn : Nat, time : Nat]
          /\ \A i \in 1..Len(lines) : i > d \/ w.mode = "rewrite" => lines[i].record \in Records
      BY <2>1 DEF FileTypes, w, lines, d
    <3>2. /\ w.mode \in {"rest", "append", "rewrite"} /\ w.lines \in Seq(LinesOf(k)) /\ w.done \in Nat
          /\ w.old \in Seq(LinesOf(k)) /\ w.batch \subseteq Records
      BY <3>1 DEF Writers
    <3>3. lines \in Seq(LinesOf(k)) /\ old \in Seq(LinesOf(k)) /\ d \in Nat
          /\ w.old = old /\ w.lines = lines /\ w.done = d
      BY <3>2 DEF lines, old, d
    <3>4. Len(lines) \in Nat /\ Len(old) \in Nat
      BY <3>3
    <3> QED BY <1>1, <3>1, <3>2, <3>3, <3>4
  <2>3. Line(Torn, 0) \in LinesOf(k)
    BY DEF Line, LinesOf
  <2>4. /\ f \in Seq(LinesOf(k))
        /\ w.mode = "append" => f = old \o SubSeq(lines, 1, d + 1) /\ Len(old) <= Len(f)
        /\ w.mode = "rewrite" => f = SubSeq(lines, 1, d + 1) \o SubSeq(old, (d + 1) + 1, Len(old))
    <3>1. <<>> \in Seq(LinesOf(k)) /\ Len(<<>>) = 0 /\ d + 1 \in 0..Len(lines)
      BY <2>2
    <3>2. /\ f \in Seq(LinesOf(k))
          /\ w.mode = "append" => /\ f = old \o (SubSeq(lines, 1, d + 1) \o <<>>)
                                  /\ Len(f) = Len(old) + (d + 1) + Len(<<>>)
          /\ w.mode # "append" =>
               f = (SubSeq(lines, 1, d + 1) \o <<>>) \o SubSeq(old, (d + 1) + Len(<<>>) + 1, Len(old))
      <4>1. w.old \in Seq(LinesOf(k)) /\ w.lines \in Seq(LinesOf(k)) /\ d + 1 \in 0..Len(w.lines)
        BY <2>2, <3>1
      <4>2. After(w, d + 1, <<>>) \in Seq(LinesOf(k)) /\ AfterIs(w, d + 1, <<>>)
        BY <3>1, <4>1, AfterLines
      <4> QED BY <2>2, <4>2 DEF f, AfterIs
    <3>3. SubSeq(lines, 1, d + 1) \o <<>> = SubSeq(lines, 1, d + 1)
      <4>1. SubSeq(lines, 1, d + 1) \in Seq(LinesOf(k))
        BY <2>2, Parts
      <4> QED BY <4>1, ConcatEmptySeq
    <3>4. (d + 1) + Len(<<>>) + 1 = (d + 1) + 1 /\ (w.mode = "append" => Len(old) <= Len(f))
      BY <2>2, <3>1, <3>2
    <3> QED BY <3>2, <3>3, <3>4
  <2>5. Joined(k, f) \in Seq(LinesOf(k)) /\ (~open[k] => Joined(k, f) = f)
    BY <2>2, <2>3, <2>4, JoinedLines DEF w, old
  <2>6. FileTypes(k)'
    <3> DEFINE o == IF Joins(k) THEN SubSeq(old, 1, Len(old) - 1) ELSE old
               l == IF Joins(k) THEN [lines EXCEPT ![1] = Line(Torn, 0)] ELSE lines
    <3>1. LinesOf(k)' = LinesOf(k) /\ Writers(k)' = Writers(k)
      BY <1>3 DEF LinesOf, Writers
    <3>2. o \in Seq(LinesOf(k))
      <4>1. SubSeq(old, 1, Len(old) - 1) \in Seq(LinesOf(k))
        BY <2>2, Parts
      <4> QED BY <2>2, <4>1
    <3>3. /\ l \in Seq(LinesOf(k)) /\ Len(l) = Len(lines)
          /\ \A i \in 1..Len(lines) : i > d + 1 \/ w.mode = "rewrite" => l[i].record \in Records
      <4>1. CASE Joins(k)
        <5>1. 1 \in 1..Len(lines) /\ d = 0 /\ w.mode = "append"
          BY <2>2, <4>1 DEF Joins, w
        <5>2. /\ [lines EXCEPT ![1] = Line(Torn, 0)] \in Seq(LinesOf(k))
              /\ Len([lines EXCEPT ![1] = Line(Torn, 0)]) = Len(lines)
              /\ \A i \in 1..Len(lines) : i # 1 => [lines EXCEPT ![1] = Line(Torn, 0)][i] = lines[i]
          BY <2>2, <2>3, <5>1, ExceptSeq
        <5>3. l = [lines EXCEPT ![1] = Line(Torn, 0)]
          BY <4>1
        <5> HIDE DEF l
        <5>4. \A i \in 1..Len(lines) : i > d + 1 => l[i] = lines[i] /\ lines[i].record \in Records
          BY <2>2, <5>1, <5>2, <5>3
        <5> QED BY <5>1, <5>2, <5>3, <5>4
      <4>2. CASE ~Joins(k)
        BY <2>2, <4>2
      <4> QED BY <4>1, <4>2
    <3> HIDE DEF o, l
    <3>4. v = [w EXCEPT !.done = d + 1, !.old = o, !.lines = l]
      BY DEF v, o, l
    <3>5. /\ v \in Writers(k) /\ v.done = d + 1 /\ v.lines = l /\ v.mode = w.mode
      <4>1. w \in [mode : {"rest", "append", "rewrite"}, lines : Seq(LinesOf(k)), done : Nat,
                   old : Seq(LinesOf(k)), batch : SUBSET Records]
        BY <2>2 DEF Writers
      <4>2. v = [mode |-> w.mode, lines |-> l, done |-> d + 1, old |-> o, batch |-> w.batch]
        BY <3>4, <4>1
      <4>3. d + 1 \in Nat /\ w.mode \in {"rest", "append", "rewrite"} /\ w.batch \in SUBSET Records
        BY <2>2
      <4>4. v \in Writers(k)
        BY <3>2, <3>3, <4>2, <4>3 DEF Writers
      <4> QED BY <4>2, <4>4
    <3>6. v.mode # "rest" /\ v.lines # <<>> /\ v.done <= Len(v.lines)
      BY <2>2, <3>3, <3>5
    <3>7. \A i \in 1..Len(v.lines) : i > v.done \/ v.mode = "rewrite" => v.lines[i].record \in Records
      BY <3>3, <3>5
    <3>8. x \in [known : BOOLEAN, sn : Nat, time : Nat]
      <4>1. TimeOf[lines[d + 1].record] \in Nat
        BY <2>2, StoreAssumption
      <4>2. state[k].sn + 1 \in Nat /\ state[k].time \in Nat
        BY <2>2
      <4>3. (IF w.mode = "append" THEN TimeOf[lines[d + 1].record] ELSE state[k].time) \in Nat
        BY <4>1, <4>2
      <4> QED BY <2>2, <4>2, <4>3 DEF x
    <3> QED BY <1>1, <1>3, <2>1, <2>5, <3>1, <3>5, <3>6, <3>7, <3>8 DEF FileTypes
  <2>7. ASSUME k \notin damaged PROVE Sound(k)' /\ Recs(file[k]) \subseteq Recs(file'[k]) \cup Recs(lines)
                                      /\ v.lines = lines
    <3>1. Sound(k) /\ Queued(k) /\ ~open[k] /\ ~open'[k] /\ ~Joins(k)
      BY <2>1, <2>7 DEF FileInv, Sound, Joins
    <3>2. v = [w EXCEPT !.done = d + 1, !.old = old, !.lines = lines] /\ file'[k] = f
      BY <2>1, <2>5, <3>1 DEF v
    <3>3. v.mode = w.mode /\ v.done = d + 1 /\ v.old = old /\ v.lines = lines
      BY <2>2, <3>2 DEF Writers
    <3>4. /\ SubSeq(lines, 1, d + 1) \in Seq(LinesOf(k)) /\ Recs(SubSeq(lines, 1, d + 1)) \subseteq Recs(lines)
          /\ SubSeq(lines, 1, d) \in Seq(LinesOf(k)) /\ Recs(SubSeq(lines, 1, d)) \subseteq Recs(lines)
          /\ SubSeq(old, (d + 1) + 1, Len(old)) \in Seq(LinesOf(k))
          /\ Recs(SubSeq(old, (d + 1) + 1, Len(old))) \subseteq Recs(old)
          /\ SubSeq(old, d + 1, Len(old)) \in Seq(LinesOf(k))
          /\ Recs(SubSeq(old, d + 1, Len(old))) \subseteq Recs(old)
      <4>1. d + 1 \in Nat /\ d + 1 > 0 /\ (d + 1) + 1 \in Nat /\ (d + 1) + 1 > 0 /\ d + 1 <= Len(lines) /\ d <= Len(lines)
        BY <2>2
      <4> QED BY <2>2, <4>1, Parts, RecsPart
    <3>5. CASE w.mode = "append"
      <4>1. /\ Good(old \o lines) /\ file[k] = old \o SubSeq(lines, 1, d)
            /\ state[k].known /\ state[k].sn = Len(file[k])
        BY <3>1, <3>5 DEF Sound, Appending, w, old, lines, d
      <4>2. f = old \o SubSeq(lines, 1, d + 1)
        BY <2>4, <3>5
      <4>3. Recs(f) = Recs(old) \cup Recs(SubSeq(lines, 1, d + 1)) /\ Recs(file[k]) = Recs(old) \cup Recs(SubSeq(lines, 1, d))
        <5>1. Recs(f) = Recs(old) \cup Recs(SubSeq(lines, 1, d + 1))
          <6>1. old \in Seq(LinesOf(k)) /\ SubSeq(lines, 1, d + 1) \in Seq(LinesOf(k))
            BY <2>2, <3>4
          <6> QED BY <4>2, <6>1, RecsJoin
        <5>2. Recs(file[k]) = Recs(old) \cup Recs(SubSeq(lines, 1, d))
          <6>1. old \in Seq(LinesOf(k)) /\ SubSeq(lines, 1, d) \in Seq(LinesOf(k))
            BY <2>2, <3>4
          <6>2. file[k] = old \o SubSeq(lines, 1, d)
            BY <4>1
          <6> QED BY <6>1, <6>2, RecsJoin
        <5> QED BY <5>1, <5>2
      <4>4. /\ Len(f) = Len(file[k]) + 1 /\ f # <<>> /\ f[Len(f)] = lines[d + 1] /\ Len(file[k]) \in Nat
            /\ \A i \in 1..Len(file[k]) : f[i] = file[k][i]
        <5> DEFINE s == SubSeq(lines, 1, d)
                   t == SubSeq(lines, 1, d + 1)
        <5>1. Len(s) = d /\ \A i \in 1..d : s[i] = lines[i]
          <6>1. /\ Len(s) = IF 1 <= d THEN d - 1 + 1 ELSE 0
                /\ \A i \in 1..(d - 1 + 1) : s[i] = lines[1 + i - 1]
            BY <2>2, Parts
          <6> HIDE DEF s
          <6> QED BY <2>2, <6>1
        <5>2. Len(t) = d + 1 /\ \A i \in 1..(d + 1) : t[i] = lines[i]
          <6>1. /\ Len(t) = IF 1 <= d + 1 THEN (d + 1) - 1 + 1 ELSE 0
                /\ \A i \in 1..((d + 1) - 1 + 1) : t[i] = lines[1 + i - 1]
            BY <2>2, Parts
          <6> HIDE DEF t
          <6> QED BY <2>2, <6>1
        <5>3. s \in Seq(LinesOf(k)) /\ t \in Seq(LinesOf(k))
          BY <3>4
        <5> HIDE DEF s, t
        <5>4. /\ Len(f) = Len(old) + (d + 1)
              /\ \A i \in 1..Len(old) + (d + 1) : f[i] = IF i <= Len(old) THEN old[i] ELSE t[i - Len(old)]
          <6>1. f = old \o t
            BY <4>2 DEF t
          <6> QED BY <2>2, <5>2, <5>3, <6>1, ConcatProperties
        <5>5. /\ Len(file[k]) = Len(old) + d
              /\ \A i \in 1..Len(old) + d : file[k][i] = IF i <= Len(old) THEN old[i] ELSE s[i - Len(old)]
          <6>1. file[k] = old \o s
            BY <4>1 DEF s
          <6> QED BY <2>2, <5>1, <5>3, <6>1, ConcatProperties
        <5>6. Len(f) = Len(file[k]) + 1 /\ Len(file[k]) \in Nat
          BY <2>2, <5>4, <5>5
        <5>7. f[Len(f)] = lines[d + 1]
          <6>1. Len(f) \in 1..Len(old) + (d + 1) /\ ~(Len(f) <= Len(old)) /\ Len(f) - Len(old) = d + 1
            BY <2>2, <5>4
          <6>2. f[Len(f)] = t[Len(f) - Len(old)]
            BY <5>4, <6>1
          <6> QED BY <2>2, <5>2, <6>1, <6>2
        <5>8. ASSUME NEW i \in 1..Len(file[k]) PROVE f[i] = file[k][i]
          <6>1. i \in 1..Len(old) + d /\ i \in 1..Len(old) + (d + 1)
            BY <2>2, <5>5
          <6>2. CASE i <= Len(old)
            BY <5>4, <5>5, <6>1, <6>2
          <6>3. CASE ~(i <= Len(old))
            <7>1. i - Len(old) \in 1..d /\ i - Len(old) \in 1..(d + 1)
              BY <2>2, <6>1, <6>3
            <7>2. s[i - Len(old)] = lines[i - Len(old)] /\ t[i - Len(old)] = lines[i - Len(old)]
              BY <5>1, <5>2, <7>1
            <7> QED BY <5>4, <5>5, <6>1, <6>3, <7>2
          <6> QED BY <6>2, <6>3
        <5>9. f # <<>>
          BY <5>6
        <5> QED BY <5>6, <5>7, <5>8, <5>9
      <4>5. Queued(k)'
        <5>1. Recs(f) \subseteq Recs(file[k]) \cup Recs(lines)
          BY <3>4, <4>3
        <5> QED BY <1>1, <2>1, <3>1, <3>2, <3>3, <5>1 DEF Queued, w, lines
      <4>6. Appending(k)'
        <5>1. x.known /\ x.sn = Len(f) /\ x.time = LastTime(f)
          <6>1. x.known = state[k].known /\ x.sn = state[k].sn + 1 /\ x.time = TimeOf[lines[d + 1].record]
            BY <2>2, <3>5 DEF x
          <6> QED BY <4>1, <4>4, <6>1 DEF LastTime
        <5> QED BY <2>1, <3>2, <3>3, <4>1, <4>2, <5>1 DEF Appending
      <4>7. AtRest(k)' /\ Rewriting(k)'
        BY <2>1, <3>3, <3>5 DEF AtRest, Rewriting
      <4>8. Indexed(k)'
        <5>1. stale[k] # "all" =>
                 Len(index[k]) <= Len(file[k]) /\ \A i \in 1..Len(index[k]) : index[k][i] = file[k][i]
          BY <3>1, <3>5 DEF Sound, Indexed, w
        <5>2. stale[k] # "all" =>
                 Len(index[k]) <= Len(f) /\ \A i \in 1..Len(index[k]) : index[k][i] = f[i]
          <6>1. Len(index[k]) \in Nat
            BY <2>1 DEF FileTypes
          <6> QED BY <4>4, <5>1, <6>1
        <5>3. writer'[k].mode # "rest"
          BY <2>1, <3>3, <3>5
        <5> QED BY <1>1, <3>2, <5>2, <5>3 DEF Indexed
      <4>9. Recs(file[k]) \subseteq Recs(file'[k]) \cup Recs(lines)
        BY <3>2, <3>4, <4>3
      <4> QED BY <3>1, <3>3, <4>5, <4>6, <4>7, <4>8, <4>9 DEF Sound
    <3>6. CASE w.mode = "rewrite"
      <4>1. /\ Good(lines) /\ Len(old) <= Len(lines) /\ Recs(old) \subseteq Recs(lines)
            /\ file[k] = SubSeq(lines, 1, d) \o SubSeq(old, d + 1, Len(old))
            /\ state[k].known /\ state[k].sn = d
        BY <3>1, <3>6 DEF Sound, Rewriting, w, old, lines, d
      <4>2. f = SubSeq(lines, 1, d + 1) \o SubSeq(old, (d + 1) + 1, Len(old))
        BY <2>4, <3>6
      <4>3. /\ Recs(f) = Recs(SubSeq(lines, 1, d + 1)) \cup Recs(SubSeq(old, (d + 1) + 1, Len(old)))
            /\ Recs(file[k]) = Recs(SubSeq(lines, 1, d)) \cup Recs(SubSeq(old, d + 1, Len(old)))
        <5>1. Recs(f) = Recs(SubSeq(lines, 1, d + 1)) \cup Recs(SubSeq(old, (d + 1) + 1, Len(old)))
          <6>1. /\ SubSeq(lines, 1, d + 1) \in Seq(LinesOf(k))
                /\ SubSeq(old, (d + 1) + 1, Len(old)) \in Seq(LinesOf(k))
            BY <3>4
          <6> QED BY <4>2, <6>1, RecsJoin
        <5>2. Recs(file[k]) = Recs(SubSeq(lines, 1, d)) \cup Recs(SubSeq(old, d + 1, Len(old)))
          <6>1. /\ SubSeq(lines, 1, d) \in Seq(LinesOf(k))
                /\ SubSeq(old, d + 1, Len(old)) \in Seq(LinesOf(k))
            BY <3>4
          <6>2. file[k] = SubSeq(lines, 1, d) \o SubSeq(old, d + 1, Len(old))
            BY <4>1
          <6> QED BY <6>1, <6>2, RecsJoin
        <5> QED BY <5>1, <5>2
      <4>4. Queued(k)'
        <5>1. Recs(f) \subseteq Recs(lines)
          BY <3>4, <4>1, <4>3
        <5> QED BY <1>1, <2>1, <3>1, <3>2, <3>3, <5>1 DEF Queued, w, lines
      <4>5. Rewriting(k)'
        <5>1. x.known /\ x.sn = d + 1
          BY <2>2, <4>1 DEF x
        <5> QED BY <2>1, <3>2, <3>3, <4>1, <4>2, <5>1 DEF Rewriting
      <4>6. AtRest(k)' /\ Appending(k)' /\ Indexed(k)'
        BY <2>1, <3>3, <3>6 DEF AtRest, Appending, Indexed
      <4>7. Recs(file[k]) \subseteq Recs(lines)
        BY <3>4, <4>1, <4>3
      <4> QED BY <3>1, <3>3, <4>4, <4>5, <4>6, <4>7 DEF Sound
    <3> QED BY <2>2, <3>5, <3>6
  <2>8. Held(k)'
    <3> SUFFICES ASSUME NEW r \in OfKey(k), k \notin damaged
                 PROVE  \/ r \in lost \/ r \in Recs(file'[k]) \/ r \in Recs(lines)
                        \/ \E i \in 1..Len(queue[k]) : queue[k][i] = r
      BY <1>1, <1>3, <2>1, <2>7 DEF Held
    <3>1. \/ r \in lost \/ r \in Recs(file[k]) \/ r \in Recs(lines)
          \/ \E i \in 1..Len(queue[k]) : queue[k][i] = r
      BY <2>1 DEF FileInv, Held, lines, w
    <3> QED BY <2>7, <3>1
  <2> QED BY <1>1, <2>6, <2>7, <2>8 DEF FileInv
<1> QED BY <1>2, <1>4, <1>5 DEF StoreInv

LEMMA EndWriteKeeps ==
  ASSUME NEW k \in Keys, StoreInv, EndWrite(k)
  PROVE  StoreInv'
<1> DEFINE w == writer[k]
           old == w.old
           lines == w.lines
           n == Len(lines)
           x == [state[k] EXCEPT !.time =
                   IF w.mode = "rewrite" THEN TimeOf[lines[w.done].record] ELSE state[k].time]
<1>1. /\ w.mode # "rest" /\ w.done = n
      /\ state' = [state EXCEPT ![k].time =
            IF w.mode = "rewrite" THEN TimeOf[lines[w.done].record] ELSE state[k].time]
      /\ stale' = [stale EXCEPT ![k] = Mark(k)] /\ dated' = dated \cup {k}
      /\ writer' = [writer EXCEPT ![k] = Resting]
      /\ file' = file /\ open' = open /\ queue' = queue /\ damaged' = damaged /\ step' = step
      /\ index' = index /\ scanned' = scanned
      /\ lost' = lost /\ checked' = checked /\ failures' = failures
  BY DEF EndWrite, Hook, files, requests
<1> HIDE DEF w, old, lines, n, x
<1>2. Shapes'
  BY <1>1 DEF StoreInv, Shapes
<1>3. \A j \in Keys : OfKey(j)' = OfKey(j)
  BY <1>1 DEF OfKey
<1>4. ASSUME NEW j \in Keys, j # k PROVE FileInv(j)'
  <2>1. state'[j] = state[j] /\ writer'[j] = writer[j] /\ stale'[j] = stale[j] /\ FileInv(j)
    BY <1>1, <1>4 DEF StoreInv, Shapes
  <2> QED BY <1>1, <1>3, <2>1, FileStays
<1>5. FileInv(k)'
  <2>1. /\ FileInv(k) /\ FileTypes(k) /\ state'[k] = x /\ writer'[k] = Resting
        /\ stale'[k] = Mark(k) /\ k \in dated'
    BY <1>1 DEF StoreInv, Shapes, FileInv, x
  <2>2. /\ w.mode \in {"append", "rewrite"} /\ n \in Nat /\ n \in 1..n
        /\ old \in Seq(LinesOf(k)) /\ lines \in Seq(LinesOf(k)) /\ Len(old) \in Nat /\ w.done = n
        /\ (w.mode = "rewrite" => lines[n].record \in Records)
        /\ state[k] \in [known : BOOLEAN, sn : Nat, time : Nat]
    <3>1. /\ w \in Writers(k) /\ state[k] \in [known : BOOLEAN, sn : Nat, time : Nat]
          /\ \A i \in 1..n : w.mode = "rewrite" => lines[i].record \in Records
          /\ lines # <<>>
      BY <1>1, <2>1 DEF FileTypes, w, lines, n
    <3>2. w.mode \in {"rest", "append", "rewrite"} /\ lines \in Seq(LinesOf(k)) /\ old \in Seq(LinesOf(k))
      BY <3>1 DEF Writers, lines, old
    <3>3. n \in Nat /\ n # 0 /\ Len(old) \in Nat
      BY <3>1, <3>2 DEF n
    <3> QED BY <1>1, <3>1, <3>2, <3>3
  <2>3. /\ x \in [known : BOOLEAN, sn : Nat, time : Nat] /\ x.known = state[k].known /\ x.sn = state[k].sn
        /\ x.time = IF w.mode = "rewrite" THEN TimeOf[lines[n].record] ELSE state[k].time
    <3>1. (IF w.mode = "rewrite" THEN TimeOf[lines[n].record] ELSE state[k].time) \in Nat
      BY <2>2, StoreAssumption
    <3> QED BY <2>2, <3>1 DEF x
  <2>4. Resting.mode = "rest" /\ Resting.lines = <<>> /\ Resting.done = 0 /\ Resting.old = <<>> /\ Resting.batch = {}
    BY DEF Resting
  <2>5. FileTypes(k)'
    <3>1. LinesOf(k)' = LinesOf(k) /\ Writers(k)' = Writers(k)
      BY <1>3 DEF LinesOf, Writers
    <3>2. Resting \in Writers(k)
      BY DEF Resting, Writers
    <3>3. Mark(k) \in {"none", "tail", "all"}
      BY DEF Mark
    <3>4. \A i \in 1..Len(Resting.lines) : i > Resting.done \/ Resting.mode = "rewrite" => Resting.lines[i].record \in Records
      BY <2>4
    <3> QED BY <1>1, <1>3, <2>1, <2>3, <2>4, <3>1, <3>2, <3>3, <3>4 DEF FileTypes
  <2>6. ASSUME k \notin damaged PROVE Good(file[k]) /\ Recs(lines) \subseteq Recs(file[k])
                                      /\ x.sn = Len(file[k]) /\ x.time = LastTime(file[k])
    <3>1. Sound(k)
      BY <2>1, <2>6 DEF FileInv
    <3>2. SubSeq(lines, 1, n) = lines
      BY <2>2, SubSeqFull DEF n
    <3>3. CASE w.mode = "append"
      <4>1. /\ Good(old \o lines) /\ file[k] = old \o SubSeq(lines, 1, n)
            /\ state[k].sn = Len(file[k]) /\ state[k].time = LastTime(file[k])
        BY <1>1, <3>1, <3>3 DEF Sound, Appending, w, old, lines
      <4>2. Recs(old \o lines) = Recs(old) \cup Recs(lines)
        BY <2>2, RecsJoin
      <4> QED BY <2>3, <3>2, <3>3, <4>1, <4>2
    <3>4. CASE w.mode = "rewrite"
      <4>1. /\ Good(lines) /\ Len(old) <= Len(lines) /\ state[k].sn = n
            /\ file[k] = SubSeq(lines, 1, n) \o SubSeq(old, n + 1, Len(old))
        BY <1>1, <3>1, <3>4 DEF Sound, Rewriting, w, old, lines
      <4>2. SubSeq(old, n + 1, Len(old)) = <<>>
        <5>1. n + 1 \in Int /\ Len(old) \in Int /\ Len(old) < n + 1
          BY <2>2, <4>1 DEF n
        <5> QED BY <5>1, SubSeqEmpty
      <4>3. file[k] = lines
        BY <2>2, <3>2, <4>1, <4>2, ConcatEmptySeq
      <4>4. LastTime(lines) = TimeOf[lines[n].record]
        BY <2>2 DEF LastTime, n
      <4> QED BY <2>3, <3>4, <4>1, <4>3, <4>4 DEF n
    <3> QED BY <2>2, <3>3, <3>4
  <2>7. Held(k)'
    <3> SUFFICES ASSUME NEW r \in OfKey(k), k \notin damaged
                 PROVE  \/ r \in lost \/ r \in Recs(file[k]) \/ \E i \in 1..Len(queue[k]) : queue[k][i] = r
      BY <1>1, <1>3, <2>1 DEF Held
    <3>1. \/ r \in lost \/ r \in Recs(file[k]) \/ r \in Recs(lines)
          \/ \E i \in 1..Len(queue[k]) : queue[k][i] = r
      BY <2>1 DEF FileInv, Held, lines, w
    <3> QED BY <2>6, <3>1
  <2>8. ASSUME k \notin damaged PROVE Sound(k)'
    <3>1. Sound(k) /\ Queued(k) /\ Indexed(k) /\ ~open[k]
      BY <2>1, <2>8 DEF FileInv, Sound
    <3>2. Queued(k)'
      <4>1. Recs(Resting.lines) = {}
        BY <2>4, GoodEmpty
      <4> QED BY <1>1, <2>1, <3>1, <4>1 DEF Queued
    <3>3. AtRest(k)' /\ Appending(k)' /\ Rewriting(k)'
      BY <1>1, <2>1, <2>4, <2>6, <2>8 DEF AtRest, Appending, Rewriting
    <3>4. Indexed(k)'
      <4>1. Mark(k) # "none" /\ (Mark(k) # "all" => w.mode # "rewrite" /\ stale[k] # "all")
        BY DEF Mark, w
      <4>2. Mark(k) # "all" =>
               Len(index[k]) <= Len(file[k]) /\ \A i \in 1..Len(index[k]) : index[k][i] = file[k][i]
        BY <3>1, <4>1 DEF Indexed, w
      <4> QED BY <1>1, <2>1, <4>1, <4>2 DEF Indexed
    <3> QED BY <1>1, <3>1, <3>2, <3>3, <3>4 DEF Sound
  <2> QED BY <1>1, <2>5, <2>7, <2>8 DEF FileInv
<1> QED BY <1>2, <1>4, <1>5 DEF StoreInv

\* Whatever a write that is cut off leaves is a file of lines.
LEMMA CutOffLines ==
  ASSUME NEW k \in Keys, StoreInv, writer[k].mode # "rest", CutOff(k)
  PROVE  /\ file'[k] \in Seq(LinesOf(k)) /\ DOMAIN file' = Keys /\ DOMAIN open' = Keys
         /\ \A j \in Keys \ {k} : file'[j] = file[j] /\ open'[j] = open[j]
<1> DEFINE w == writer[k]
           d == w.done
           f == After(w, d, <<Line(Torn, 0)>>)
           g == After(w, d + 1, <<>>)
<1>1. \/ file' = file /\ open' = open
      \/ /\ d < Len(w.lines) /\ file' = [file EXCEPT ![k] = Joined(k, f)]
         /\ open' = [open EXCEPT ![k] = Len(w.old) <= w.done \/ w.mode = "append" \/ open[k]]
      \/ /\ d < Len(w.lines) /\ file' = [file EXCEPT ![k] = g] /\ open' = [open EXCEPT ![k] = TRUE]
  BY DEF CutOff
<1> HIDE DEF f, g, d, w
<1>2. /\ FileTypes(k) /\ DOMAIN file = Keys /\ DOMAIN open = Keys
      /\ file[k] \in Seq(LinesOf(k)) /\ w \in Writers(k)
  BY DEF StoreInv, Shapes, FileInv, FileTypes, w
<1>3. w.old \in Seq(LinesOf(k)) /\ w.lines \in Seq(LinesOf(k)) /\ d \in Nat /\ Len(w.lines) \in Nat /\ Len(w.old) \in Nat
  <2>1. w.old \in Seq(LinesOf(k)) /\ w.lines \in Seq(LinesOf(k)) /\ d \in Nat
    BY <1>2 DEF Writers, d
  <2> QED BY <2>1
<1>4. Line(Torn, 0) \in LinesOf(k)
  BY DEF Line, LinesOf
<1>5. ASSUME d < Len(w.lines) PROVE Joined(k, f) \in Seq(LinesOf(k)) /\ g \in Seq(LinesOf(k))
  <2>1. /\ <<Line(Torn, 0)>> \in Seq(LinesOf(k)) /\ Len(<<Line(Torn, 0)>>) = 1
        /\ <<>> \in Seq(LinesOf(k)) /\ d \in 0..Len(w.lines) /\ d + 1 \in 0..Len(w.lines)
    BY <1>3, <1>4, <1>5
  <2>2. f \in Seq(LinesOf(k)) /\ AfterIs(w, d, <<Line(Torn, 0)>>)
    BY <1>3, <2>1, AfterLines DEF f
  <2>3. g \in Seq(LinesOf(k))
    BY <1>3, <2>1, AfterLines DEF g
  <2>4. w.mode = "append" => Len(w.old) <= Len(f)
    <3>1. w.mode = "append" => Len(f) = Len(w.old) + d + 1
      BY <2>1, <2>2 DEF AfterIs, f
    <3> QED BY <1>3, <3>1
  <2>5. Joined(k, f) \in Seq(LinesOf(k))
    BY <1>3, <1>4, <2>2, <2>4, JoinedLines DEF w
  <2> QED BY <2>3, <2>5
<1> QED BY <1>1, <1>2, <1>5

\* A file that is cut off, or that was before: nothing is said but what it has.
LEMMA DamagedFile ==
  ASSUME NEW k \in Keys, FileTypes(k), k \in damaged', OfKey(k)' = OfKey(k),
         file'[k] \in Seq(LinesOf(k)), writer'[k] = Resting, queue'[k] \in Seq(OfKey(k)),
         state'[k] \in [known : BOOLEAN, sn : Nat, time : Nat],
         index'[k] \in Seq([record : Records \cup {Torn}, sn : Nat]), stale'[k] \in {"none", "tail", "all"}
  PROVE  FileInv(k)'
<1>1. LinesOf(k)' = LinesOf(k) /\ Writers(k)' = Writers(k)
  BY DEF LinesOf, Writers
<1>2. Resting \in Writers(k) /\ Resting.mode = "rest" /\ Resting.lines = <<>>
  BY DEF Resting, Writers
<1>3. FileTypes(k)'
  BY <1>1, <1>2 DEF FileTypes
<1>4. Held(k)'
  BY DEF Held
<1> QED BY <1>3, <1>4 DEF FileInv

LEMMA WriteFailsKeeps ==
  ASSUME NEW k \in Keys, StoreInv, WriteFails(k)
  PROVE  StoreInv'
<1>1. /\ writer[k].mode # "rest" /\ CutOff(k) /\ failures' = failures + 1
      /\ damaged' = damaged \cup {k} /\ lost' = lost \cup writer[k].batch
      /\ writer' = [writer EXCEPT ![k] = Resting]
      /\ state' = state /\ queue' = queue /\ step' = step /\ checked' = checked
      /\ index' = index /\ stale' = stale /\ dated' = dated /\ scanned' = scanned
  BY DEF WriteFails, Fails, requests, indices, days
<1>2. /\ file'[k] \in Seq(LinesOf(k)) /\ DOMAIN file' = Keys /\ DOMAIN open' = Keys
      /\ \A j \in Keys \ {k} : file'[j] = file[j] /\ open'[j] = open[j]
  BY <1>1, CutOffLines
<1>3. Shapes' /\ failures' # 0
  BY <1>1, <1>2 DEF StoreInv, Shapes
<1>4. \A j \in Keys : OfKey(j)' = OfKey(j)
  BY <1>1 DEF OfKey
<1>5. ASSUME NEW j \in Keys, j # k PROVE FileInv(j)'
  <2>1. file'[j] = file[j] /\ open'[j] = open[j] /\ writer'[j] = writer[j] /\ FileInv(j)
    BY <1>1, <1>2, <1>5 DEF StoreInv, Shapes
  <2> QED BY <1>1, <1>3, <1>4, <2>1, FileStays
<1>6. FileInv(k)'
  <2>1. /\ FileTypes(k) /\ writer'[k] = Resting /\ queue[k] \in Seq(OfKey(k))
        /\ state[k] \in [known : BOOLEAN, sn : Nat, time : Nat]
        /\ index[k] \in Seq([record : Records \cup {Torn}, sn : Nat]) /\ stale[k] \in {"none", "tail", "all"}
    BY <1>1 DEF StoreInv, Shapes, FileInv, FileTypes
  <2> QED BY <1>1, <1>2, <1>4, <2>1, DamagedFile
<1> QED BY <1>3, <1>5, <1>6 DEF StoreInv

--------------------------------------------------------------------------------
(* Queries, the search for files, and crashes.                                 *)

\* An index that is the beginning of a file, and the rest of it read on.
LEMMA RestRead ==
  ASSUME NEW S, NEW f \in Seq(S), NEW g \in Seq(S), Len(g) <= Len(f),
         \A i \in 1..Len(g) : g[i] = f[i]
  PROVE  g \o SubSeq(f, Len(g) + 1, Len(f)) = f
<1> DEFINE m == SubSeq(f, Len(g) + 1, Len(f))
           w == g \o m
<1>1. Len(f) \in Nat /\ Len(g) \in Nat
  OBVIOUS
<1>2. /\ m \in Seq(S)
      /\ Len(m) = IF Len(g) + 1 <= Len(f) THEN Len(f) - (Len(g) + 1) + 1 ELSE 0
      /\ \A i \in 1..(Len(f) - (Len(g) + 1) + 1) : m[i] = f[(Len(g) + 1) + i - 1]
  <2>1. Len(g) + 1 \in Nat /\ Len(g) + 1 > 0 /\ Len(f) \in Int /\ Len(f) <= Len(f)
    BY <1>1
  <2> QED BY <2>1, Parts
<1> HIDE DEF m
<1>3. Len(m) = Len(f) - Len(g)
  BY <1>1, <1>2
<1>4. /\ w \in Seq(S) /\ Len(w) = Len(g) + Len(m)
      /\ \A i \in 1..Len(g) + Len(m) : w[i] = IF i <= Len(g) THEN g[i] ELSE m[i - Len(g)]
  BY <1>2, ConcatProperties
<1> HIDE DEF w
<1>5. ASSUME NEW i \in 1..Len(f) PROVE w[i] = f[i]
  <2>1. i \in 1..Len(g) + Len(m)
    BY <1>1, <1>3
  <2>2. w[i] = IF i <= Len(g) THEN g[i] ELSE m[i - Len(g)]
    BY <1>4, <2>1
  <2>3. CASE i <= Len(g)
    <3>1. i \in 1..Len(g) /\ w[i] = g[i]
      BY <1>1, <2>2, <2>3
    <3> QED BY <3>1
  <2>4. CASE ~(i <= Len(g))
    <3>1. i - Len(g) \in 1..(Len(f) - (Len(g) + 1) + 1) /\ (Len(g) + 1) + (i - Len(g)) - 1 = i
      BY <1>1, <2>4
    <3>2. m[i - Len(g)] = f[(Len(g) + 1) + (i - Len(g)) - 1]
      BY <1>2, <3>1
    <3> QED BY <2>2, <2>4, <3>1, <3>2
  <2> QED BY <2>3, <2>4
<1>6. Len(w) = Len(f)
  BY <1>1, <1>3, <1>4
<1>7. w = f
  BY <1>4, <1>5, <1>6, SeqEqual
<1> QED BY <1>7 DEF w, m

LEMMA QueryKeeps ==
  ASSUME NEW k \in Keys, StoreInv, Query(k)
  PROVE  StoreInv'
<1> DEFINE more == SubSeq(file[k], Len(index[k]) + 1, Len(file[k]))
           x == IF stale[k] = "all" THEN file[k] ELSE index[k] \o more
<1>1. /\ stale[k] # "none" /\ index' = [index EXCEPT ![k] = x] /\ stale' = [stale EXCEPT ![k] = "none"]
      /\ file' = file /\ open' = open /\ damaged' = damaged /\ state' = state /\ queue' = queue
      /\ writer' = writer /\ step' = step /\ checked' = checked /\ dated' = dated /\ scanned' = scanned
      /\ failures' = failures /\ lost' = lost
  BY DEF Query, files, requests, days
<1> HIDE DEF x, more
<1>2. Shapes'
  BY <1>1 DEF StoreInv, Shapes
<1>3. \A j \in Keys : OfKey(j)' = OfKey(j)
  BY <1>1 DEF OfKey
<1>4. ASSUME NEW j \in Keys, j # k PROVE FileInv(j)'
  <2>1. index'[j] = index[j] /\ stale'[j] = stale[j] /\ FileInv(j)
    BY <1>1, <1>4 DEF StoreInv, Shapes
  <2> QED BY <1>1, <1>3, <2>1, FileStays
<1>5. FileInv(k)'
  <2> DEFINE All == [record : Records \cup {Torn}, sn : Nat]
  <2>1. /\ FileInv(k) /\ FileTypes(k) /\ index'[k] = x /\ stale'[k] = "none"
        /\ index[k] \in Seq(All) /\ file[k] \in Seq(LinesOf(k)) /\ LinesOf(k) \subseteq All
    BY <1>1 DEF StoreInv, Shapes, FileInv, FileTypes, LinesOf, OfKey
  <2> HIDE DEF All
  <2>2. file[k] \in Seq(All) /\ Len(file[k]) \in Nat /\ Len(index[k]) \in Nat
    BY <2>1, SeqMonotonic
  <2>3. /\ more \in Seq(All)
        /\ Len(more) = IF Len(index[k]) + 1 <= Len(file[k]) THEN Len(file[k]) - (Len(index[k]) + 1) + 1 ELSE 0
        /\ \A i \in 1..(Len(file[k]) - (Len(index[k]) + 1) + 1) : more[i] = file[k][(Len(index[k]) + 1) + i - 1]
    <3>1. Len(index[k]) + 1 \in Nat /\ Len(index[k]) + 1 > 0 /\ Len(file[k]) \in Int /\ Len(file[k]) <= Len(file[k])
      BY <2>2
    <3> QED BY <2>2, <3>1, Parts DEF more
  <2>4. /\ index[k] \o more \in Seq(All) /\ Len(index[k] \o more) = Len(index[k]) + Len(more)
        /\ \A i \in 1..Len(index[k]) + Len(more) : (index[k] \o more)[i] =
              IF i <= Len(index[k]) THEN index[k][i] ELSE more[i - Len(index[k])]
    BY <2>1, <2>3, ConcatProperties
  <2>5. x \in Seq(All)
    BY <2>2, <2>4 DEF x
  <2>6. FileTypes(k)'
    <3>1. LinesOf(k)' = LinesOf(k) /\ Writers(k)' = Writers(k)
      BY <1>3 DEF LinesOf, Writers
    <3> QED BY <1>1, <1>3, <2>1, <2>5, <3>1 DEF FileTypes, All
  <2>7. Held(k)'
    BY <1>1, <1>3, <2>1 DEF FileInv, Held
  <2>8. ASSUME k \notin damaged PROVE Sound(k)'
    <3>1. Sound(k) /\ Indexed(k)
      BY <2>1, <2>8 DEF FileInv, Sound
    <3>2. Queued(k)' /\ AtRest(k)' /\ Appending(k)' /\ Rewriting(k)' /\ ~open'[k]
      BY <1>1, <3>1 DEF Sound, Queued, AtRest, Appending, Rewriting
    <3>3. writer[k].mode # "rewrite" => x = file[k]
      <4> HAVE writer[k].mode # "rewrite"
      <4>1. CASE stale[k] = "all"
        BY <4>1 DEF x
      <4>2. CASE stale[k] # "all"
        <5>1. Len(index[k]) <= Len(file[k]) /\ \A i \in 1..Len(index[k]) : index[k][i] = file[k][i]
          BY <3>1, <4>2 DEF Indexed
        <5>2. index[k] \o more = file[k]
          BY <2>1, <2>2, <5>1, RestRead DEF more
        <5> QED BY <4>2, <5>2 DEF x
      <4> QED BY <4>1, <4>2
    <3>4. Indexed(k)'
      <4>1. writer[k].mode # "rewrite" =>
               Len(x) <= Len(file[k]) /\ Len(x) = Len(file[k]) /\ \A i \in 1..Len(x) : x[i] = file[k][i]
        BY <2>2, <3>3
      <4> QED BY <1>1, <2>1, <3>1, <4>1 DEF Indexed
    <3> QED BY <3>2, <3>4 DEF Sound
  <2> QED BY <1>1, <2>6, <2>7, <2>8 DEF FileInv
<1> QED BY <1>2, <1>4, <1>5 DEF StoreInv

LEMMA ScanKeeps == ASSUME StoreInv, Scan PROVE StoreInv'
<1> DEFINE found == {k \in Keys : file[k] # <<>>}
<1>1. /\ scanned' = TRUE
      /\ \/ dated' = dated \cup found /\ failures' = failures
         \/ failures' = failures + 1 /\ \E S \in SUBSET found : dated' = dated \cup S
      /\ file' = file /\ open' = open /\ damaged' = damaged /\ state' = state /\ queue' = queue
      /\ writer' = writer /\ step' = step /\ checked' = checked /\ index' = index /\ stale' = stale
      /\ lost' = lost
  BY DEF Scan, Fails, files, requests, indices
<1>2. Shapes' /\ (failures' # 0 \/ dated' = dated \cup found)
  BY <1>1 DEF StoreInv, Shapes
<1>3. \A j \in Keys : OfKey(j)' = OfKey(j)
  BY <1>1 DEF OfKey
<1>4. ASSUME NEW k \in Keys PROVE FileInv(k)'
  <2>1. FileInv(k)
    BY DEF StoreInv
  <2>2. FileTypes(k)'
    <3>1. LinesOf(k)' = LinesOf(k) /\ Writers(k)' = Writers(k)
      BY <1>3 DEF LinesOf, Writers
    <3> QED BY <1>1, <1>3, <2>1, <3>1 DEF FileInv, FileTypes
  <2>3. Held(k)'
    BY <1>1, <1>3, <2>1 DEF FileInv, Held
  <2>4. ASSUME k \notin damaged PROVE Sound(k)'
    <3>1. Sound(k) /\ Indexed(k)
      BY <2>1, <2>4 DEF FileInv, Sound
    <3>2. Queued(k)' /\ AtRest(k)' /\ Appending(k)' /\ Rewriting(k)' /\ ~open'[k]
      BY <1>1, <3>1 DEF Sound, Queued, AtRest, Appending, Rewriting
    <3>3. Indexed(k)'
      BY <1>1, <1>2, <3>1 DEF Indexed
    <3> QED BY <3>2, <3>3 DEF Sound
  <2> QED BY <1>1, <2>2, <2>3, <2>4 DEF FileInv
<1> QED BY <1>2, <1>4 DEF StoreInv

LEMMA CrashKeeps == ASSUME StoreInv, Crash PROVE StoreInv'
<1> DEFINE writing == {k \in Keys : writer[k].mode # "rest"}
<1>1. /\ failures' = failures + 1 /\ damaged' = damaged \cup writing
      /\ (\E k \in writing : CutOff(k)) \/ (file' = file /\ open' = open)
      /\ lost' = lost \cup UNION {writer[k].batch \cup {queue[k][i] : i \in DOMAIN queue[k]} : k \in Keys}
      /\ state' = [k \in Keys |-> Unknown]
      /\ queue' = [k \in Keys |-> <<>>] /\ writer' = [k \in Keys |-> Resting]
      /\ step' = [q \in Requests |-> IF step[q] = "new" /\ checked[q] # {} THEN "refused" ELSE step[q]]
      /\ checked' = [q \in Requests |-> {}]
      /\ index' = [k \in Keys |-> <<>>] /\ stale' = [k \in Keys |-> "all"]
      /\ dated' = {} /\ scanned' = FALSE
  BY DEF Crash, Fails
<1>2. /\ DOMAIN file' = Keys /\ DOMAIN open' = Keys
      /\ \A j \in Keys : file'[j] \in Seq(LinesOf(j))
      /\ \A j \in Keys \ writing : file'[j] = file[j] /\ open'[j] = open[j]
  <2>1. /\ DOMAIN file = Keys /\ DOMAIN open = Keys /\ \A j \in Keys : file[j] \in Seq(LinesOf(j))
    BY DEF StoreInv, Shapes, FileInv, FileTypes
  <2>2. CASE file' = file /\ open' = open
    BY <2>1, <2>2
  <2>3. CASE \E k \in writing : CutOff(k)
    <3>1. PICK k \in writing : CutOff(k)
      BY <2>3
    <3>2. /\ file'[k] \in Seq(LinesOf(k)) /\ DOMAIN file' = Keys /\ DOMAIN open' = Keys
          /\ \A j \in Keys \ {k} : file'[j] = file[j] /\ open'[j] = open[j]
      BY <3>1, CutOffLines
    <3> QED BY <2>1, <3>1, <3>2
  <2> QED BY <1>1, <2>2, <2>3
<1>3. Shapes'
  BY <1>1, <1>2 DEF StoreInv, Shapes
<1>4. \A j \in Keys : OfKey(j)' = OfKey(j)
  <2>1. \A q \in Requests : step'[q] = "accepted" <=> step[q] = "accepted"
    BY <1>1 DEF StoreInv, Shapes
  <2> QED BY <2>1, SameRecords
<1>5. ASSUME NEW k \in Keys PROVE FileInv(k)'
  <2> DEFINE All == [record : Records \cup {Torn}, sn : Nat]
  <2>1. /\ FileInv(k) /\ FileTypes(k) /\ file'[k] \in Seq(LinesOf(k))
        /\ state'[k] = Unknown /\ queue'[k] = <<>> /\ writer'[k] = Resting
        /\ index'[k] = <<>> /\ stale'[k] = "all"
    BY <1>1, <1>2 DEF StoreInv, FileInv
  <2>2. <<>> \in Seq(OfKey(k)) /\ <<>> \in Seq(All) /\ Unknown \in [known : BOOLEAN, sn : Nat, time : Nat]
        /\ ~Unknown.known
    <3> HIDE DEF All
    <3> QED BY DEF Unknown
  <2>3. Resting.mode = "rest" /\ Resting.lines = <<>> /\ Resting \in Writers(k)
    BY DEF Resting, Writers
  <2>4. FileTypes(k)'
    <3>1. LinesOf(k)' = LinesOf(k) /\ Writers(k)' = Writers(k)
      BY <1>4 DEF LinesOf, Writers
    <3> QED BY <1>4, <2>1, <2>2, <2>3, <3>1 DEF FileTypes, All
  <2>5. ASSUME k \notin damaged' PROVE k \notin damaged /\ k \notin writing /\ file'[k] = file[k] /\ Sound(k)
    BY <1>1, <1>2, <2>1, <2>5 DEF FileInv
  <2>6. Held(k)'
    <3> SUFFICES ASSUME NEW r \in OfKey(k), k \notin damaged' PROVE r \in lost' \/ r \in Recs(file[k])
      BY <1>4, <2>5 DEF Held
    <3>1. \/ r \in lost \/ r \in Recs(file[k]) \/ r \in Recs(writer[k].lines)
          \/ \E i \in 1..Len(queue[k]) : queue[k][i] = r
      BY <2>1, <2>5 DEF FileInv, Held
    <3>2. r \notin Recs(writer[k].lines)
      BY <2>1, <2>3, <2>5, GoodEmpty DEF FileTypes
    <3>3. ASSUME NEW i \in 1..Len(queue[k]), queue[k][i] = r PROVE r \in lost'
      <4>1. DOMAIN queue[k] = 1..Len(queue[k])
        BY <2>1 DEF FileTypes
      <4> QED BY <1>1, <3>3, <4>1
    <3> QED BY <1>1, <3>1, <3>2, <3>3
  <2>7. ASSUME k \notin damaged' PROVE Sound(k)'
    <3>1. Good(file[k]) /\ ~open[k] /\ open'[k] = open[k]
      BY <1>2, <2>5, <2>7 DEF Sound, AtRest
    <3>2. Queued(k)'
      BY <2>1 DEF Queued
    <3>3. AtRest(k)' /\ Appending(k)' /\ Rewriting(k)' /\ Indexed(k)'
      BY <1>1, <2>1, <2>2, <2>3, <2>5, <2>7, <3>1 DEF AtRest, Appending, Rewriting, Indexed
    <3> QED BY <3>1, <3>2, <3>3 DEF Sound
  <2> QED BY <2>4, <2>6, <2>7 DEF FileInv
<1> QED BY <1>3, <1>5 DEF StoreInv

--------------------------------------------------------------------------------
(* The theorems.                                                               *)

LEMMA StoreStarts == Init => StoreInv
<1> SUFFICES ASSUME Init PROVE StoreInv
  OBVIOUS
<1> DEFINE All == [record : Records \cup {Torn}, sn : Nat]
<1>1. Shapes
  BY DEF Init, Shapes
<1>2. ASSUME NEW k \in Keys PROVE FileInv(k)
  <2>1. /\ file[k] = <<>> /\ ~open[k] /\ state[k] = Unknown /\ queue[k] = <<>> /\ writer[k] = Resting
        /\ index[k] = <<>> /\ stale[k] = "none" /\ ~scanned
    BY DEF Init
  <2>2. /\ <<>> \in Seq(OfKey(k)) /\ <<>> \in Seq(LinesOf(k)) /\ <<>> \in Seq(All) /\ Len(<<>>) = 0
        /\ Unknown \in [known : BOOLEAN, sn : Nat, time : Nat] /\ ~Unknown.known
    <3> HIDE DEF All
    <3> QED BY DEF Unknown
  <2>3. Resting.mode = "rest" /\ Resting.lines = <<>> /\ Resting \in Writers(k)
    BY DEF Resting, Writers
  <2>4. FileTypes(k)
    BY <2>1, <2>2, <2>3 DEF FileTypes, All
  <2>5. OfKey(k) = {}
    BY DEF OfKey, Init
  <2>6. Held(k)
    BY <2>5 DEF Held
  <2>7. Sound(k)
    <3>1. Queued(k)
      BY <2>1, <2>2 DEF Queued
    <3>2. AtRest(k) /\ Appending(k) /\ Rewriting(k) /\ Indexed(k)
      BY <2>1, <2>2, <2>3, GoodEmpty DEF AtRest, Appending, Rewriting, Indexed
    <3> QED BY <2>1, <3>1, <3>2 DEF Sound
  <2> QED BY <2>4, <2>6, <2>7 DEF FileInv
<1> QED BY <1>1, <1>2 DEF StoreInv

LEMMA StoreStays == ASSUME StoreInv, UNCHANGED vars PROVE StoreInv'
<1>1. /\ file' = file /\ open' = open /\ damaged' = damaged /\ state' = state /\ queue' = queue
      /\ writer' = writer /\ step' = step /\ checked' = checked /\ index' = index /\ stale' = stale
      /\ dated' = dated /\ scanned' = scanned /\ failures' = failures /\ lost' = lost
  BY DEF vars, files, requests, indices, days
<1>2. Shapes' /\ \A k \in Keys : OfKey(k)' = OfKey(k)
  BY <1>1 DEF StoreInv, Shapes, OfKey
<1>3. ASSUME NEW k \in Keys PROVE FileInv(k)'
  <2>1. FileInv(k)
    BY DEF StoreInv
  <2> QED BY <1>1, <1>2, <2>1, FileStays
<1> QED BY <1>2, <1>3 DEF StoreInv

\* The invariant of the files holds in every behaviour.
LEMMA StoreHolds == Spec => []StoreInv
<1>1. StoreInv /\ [Next]_vars => StoreInv'
  <2> SUFFICES ASSUME StoreInv, [Next]_vars PROVE StoreInv'
    OBVIOUS
  <2>1. ASSUME NEW q \in Requests, Accept(q) PROVE StoreInv'
    BY <2>1, AcceptKeeps
  <2>2. ASSUME NEW q \in Requests, NEW k \in Keys, Check(q, k) \/ CheckFails(q, k) PROVE StoreInv'
    BY <2>2, CheckKeeps, CheckFailsKeeps
  <2>3. ASSUME NEW k \in Keys, NEW n \in 1..Len(queue[k]), Take(k, n) \/ TakeFails(k, n) PROVE StoreInv'
    BY <2>3, TakeKeeps, TakeFailsKeeps
  <2>4. ASSUME NEW k \in Keys, WriteLine(k) \/ EndWrite(k) \/ WriteFails(k) \/ Query(k) PROVE StoreInv'
    BY <2>4, WriteLineKeeps, EndWriteKeeps, WriteFailsKeeps, QueryKeeps
  <2>5. CASE Scan
    BY <2>5, ScanKeeps
  <2>6. CASE Crash
    BY <2>6, CrashKeeps
  <2>7. CASE UNCHANGED vars
    BY <2>7, StoreStays
  <2> QED BY <2>1, <2>2, <2>3, <2>4, <2>5, <2>6, <2>7 DEF Next
<1> QED BY <1>1, StoreStarts, PTL DEF Spec

LEMMA NumbersAgree == ASSUME StoreInv PROVE NumberedInOrder
<1> SUFFICES ASSUME NEW k \in Keys \ damaged, writer[k].mode = "rest"
             PROVE  /\ \A i \in DOMAIN file[k] : file[k][i].sn = i
                    /\ \A i, j \in DOMAIN file[k] : i < j =>
                          /\ TimeOf[file[k][i].record] <= TimeOf[file[k][j].record]
                          /\ file[k][i].record # file[k][j].record
                    /\ state[k].known => state[k] = Loaded(k)
  BY DEF NumberedInOrder
<1>1. /\ Good(file[k]) /\ file[k] \in Seq(LinesOf(k))
      /\ state[k] \in [known : BOOLEAN, sn : Nat, time : Nat]
      /\ state[k].known => state[k].sn = Len(file[k]) /\ state[k].time = LastTime(file[k])
  BY DEF StoreInv, FileInv, FileTypes, Sound, AtRest
<1>2. DOMAIN file[k] = 1..Len(file[k])
  BY <1>1
<1>3. ASSUME state[k].known PROVE state[k] = Loaded(k)
  <2>1. state[k] = [known |-> TRUE, sn |-> Len(file[k]), time |-> LastTime(file[k])]
    BY <1>1, <1>3
  <2>2. file[k] # <<>> =>
           /\ file[k][Len(file[k])].sn = Len(file[k]) /\ file[k][Len(file[k])].record # Torn
           /\ LastTime(file[k]) = TimeOf[file[k][Len(file[k])].record]
    BY <1>1, GoodLast
  <2>3. CASE file[k] = <<>>
    <3>1. Len(file[k]) = 0 /\ LastTime(file[k]) = 0
      BY <2>3, GoodEmpty
    <3> QED BY <2>1, <2>3, <3>1 DEF Loaded
  <2>4. CASE file[k] # <<>>
    BY <2>1, <2>2, <2>4 DEF Loaded
  <2> QED BY <2>3, <2>4
<1> QED BY <1>1, <1>2, <1>3 DEF Good

LEMMA RequestsKept == ASSUME StoreInv PROVE AcceptedKept
<1> SUFFICES ASSUME NEW q \in Requests, NEW r \in RecordsOf[q], NEW k, k = KeyOf[r]
             PROVE  IF step[q] = "accepted"
                    THEN r \in InFile(k) \cup Waiting(k) \cup lost \/ k \in damaged
                    ELSE r \notin InFile(k) \cup Waiting(k)
  BY DEF AcceptedKept
<1>1. r \in Records /\ k \in Keys
  BY StoreAssumption
<1>2. FileInv(k) /\ FileTypes(k)
  BY <1>1 DEF StoreInv, FileInv
<1>3. /\ file[k] \in Seq(LinesOf(k)) /\ queue[k] \in Seq(OfKey(k))
      /\ writer[k].lines \in Seq(LinesOf(k))
  BY <1>2 DEF FileTypes, Writers
<1>4. InFile(k) = Recs(file[k])
  <2>1. DOMAIN file[k] = 1..Len(file[k])
    BY <1>3
  <2> QED BY <2>1 DEF InFile, Lines, Recs
<1>5. Waiting(k) = {queue[k][i] : i \in 1..Len(queue[k])} \cup Recs(writer[k].lines)
  <2>1. DOMAIN queue[k] = 1..Len(queue[k]) /\ DOMAIN writer[k].lines = 1..Len(writer[k].lines)
    BY <1>3
  <2> QED BY <2>1 DEF Waiting, Recs
<1>6. CASE step[q] = "accepted"
  <2>1. r \in OfKey(k)
    BY <1>1, <1>6 DEF OfKey
  <2> QED BY <1>2, <1>4, <1>5, <1>6, <2>1 DEF FileInv, Held
<1>7. CASE step[q] # "accepted"
  <2>1. r \notin OfKey(k) /\ r # Torn
    BY <1>1, <1>7, StoreAssumption DEF OfKey
  <2>2. \A l \in LinesOf(k) : l.record \in OfKey(k) \cup {Torn}
    BY DEF LinesOf
  <2>3. \A i \in 1..Len(file[k]) : file[k][i].record \in OfKey(k) \cup {Torn}
    BY <1>3, <2>2
  <2>4. \A i \in 1..Len(writer[k].lines) : writer[k].lines[i].record \in OfKey(k) \cup {Torn}
    BY <1>3, <2>2
  <2>5. \A i \in 1..Len(queue[k]) : queue[k][i] \in OfKey(k)
    BY <1>3
  <2> QED BY <1>4, <1>5, <1>7, <2>1, <2>3, <2>4, <2>5 DEF Recs
<1> QED BY <1>6, <1>7

LEMMA IndexAgrees == ASSUME StoreInv PROVE QueriesSeeWrites
<1> SUFFICES ASSUME NEW k \in Keys \ damaged, writer[k].mode = "rest"
             PROVE  /\ stale[k] = "none" => index[k] = file[k]
                    /\ scanned /\ failures = 0 /\ file[k] # <<>> => k \in dated
  BY DEF QueriesSeeWrites
<1> DEFINE All == [record : Records \cup {Torn}, sn : Nat]
<1>1. /\ Indexed(k) /\ index[k] \in Seq(All) /\ file[k] \in Seq(LinesOf(k)) /\ LinesOf(k) \subseteq All
  BY DEF StoreInv, FileInv, FileTypes, Sound, LinesOf, OfKey
<1> HIDE DEF All
<1>2. file[k] \in Seq(All)
  BY <1>1, SeqMonotonic
<1>3. ASSUME stale[k] = "none" PROVE index[k] = file[k]
  <2>1. Len(index[k]) = Len(file[k]) /\ \A i \in 1..Len(index[k]) : index[k][i] = file[k][i]
    BY <1>1, <1>3 DEF Indexed
  <2> QED BY <1>1, <1>2, <2>1, SeqEqual
<1> QED BY <1>1, <1>3 DEF Indexed

\* Whatever the records, requests, errors and crashes: between writes the lines of a
\* file no write was cut off in are in the order of time and numbered from 1, and the
\* records of a request are in the files together or not at all (append_record and
\* RecordWriterContext::write).
THEOREM RequestsAreKept == Spec => []FilesKept
<1>1. StoreInv => FilesKept
  BY NumbersAgree, RequestsKept DEF FilesKept
<1> QED BY <1>1, StoreHolds, PTL

\* Between writes the index of an unmarked file is the file, so that a query answers
\* with everything that was written (on_write_complete and the marks of index.rs).
THEOREM QueriesAreCurrent == Spec => []QueriesSeeWrites
<1>1. StoreInv => QueriesSeeWrites
  BY IndexAgrees
<1> QED BY <1>1, StoreHolds, PTL

--------------------------------------------------------------------------------
(* ContextRecovery: what the store's steps leave as it is.                     *)

Calm(k) == writer[k].mode # "rewrite" /\ k \notin damaged

\* A file grows at its end, and nothing of it is given to a writer again.
Grows(k) ==
    /\ Len(file[k]) <= Len(file'[k])
    /\ \A i \in 1..Len(file[k]) : file'[k][i] = file[k][i]
    /\ \A r \in Recs(file[k]) : r \notin Recs(writer[k].lines) => r \notin Recs(writer'[k].lines)

\* Unless the index is marked it has all that was in the file before the writer
\* began to append.
IndexReaches == \A k \in Keys :
    writer[k].mode = "append" /\ stale[k] = "none" /\ k \notin damaged =>
        Len(index[k]) >= Len(writer[k].old)

LEMMA RecordsApart ==
  ASSUME NEW T, NEW s \in Seq(T), NEW u \in Seq(T), Good(s \o u), NEW r, r \in Recs(s)
  PROVE  r \notin Recs(u)
<1>1. /\ Len(s \o u) = Len(s) + Len(u) /\ Len(s) \in Nat /\ Len(u) \in Nat
      /\ \A i \in 1..Len(s) + Len(u) : (s \o u)[i] = IF i <= Len(s) THEN s[i] ELSE u[i - Len(s)]
  BY ConcatProperties
<1>2. PICK i \in 1..Len(s) : s[i].record = r
  BY RecsIn
<1>3. ASSUME NEW j \in 1..Len(u), u[j].record = r PROVE FALSE
  <2>1. Len(s) + j \in 1..Len(s \o u) /\ i \in 1..Len(s \o u) /\ i < Len(s) + j
    BY <1>1
  <2>2. (s \o u)[i] = s[i] /\ (s \o u)[Len(s) + j] = u[j]
    BY <1>1, <2>1
  <2>3. (s \o u)[i].record # (s \o u)[Len(s) + j].record
    BY <2>1 DEF Good
  <2> QED BY <1>2, <1>3, <2>2, <2>3
<1> QED BY <1>3, RecsIn

LEMMA FileParts ==
  ASSUME StoreInv, NEW k \in Keys
  PROVE  /\ file[k] \in Seq(LinesOf(k)) /\ writer[k].old \in Seq(LinesOf(k))
         /\ writer[k].lines \in Seq(LinesOf(k)) /\ writer[k].done \in 0..Len(writer[k].lines)
         /\ Len(file[k]) \in Nat /\ Len(writer[k].old) \in Nat /\ Len(writer[k].lines) \in Nat
         /\ writer[k].mode \in {"rest", "append", "rewrite"}
         /\ writer[k].mode = "rest" => writer[k].lines = <<>> /\ writer[k].old = <<>>
         /\ stale[k] \in {"none", "tail", "all"}
         /\ index[k] \in Seq([record : Records \cup {Torn}, sn : Nat]) /\ Len(index[k]) \in Nat
<1>1. FileTypes(k)
  BY DEF StoreInv, FileInv
<1>2. writer[k] \in Writers(k) /\ (writer[k].mode = "rest" => writer[k] = Resting)
      /\ (writer[k].mode # "rest" => writer[k].done <= Len(writer[k].lines))
  BY <1>1 DEF FileTypes
<1>3. /\ writer[k].old \in Seq(LinesOf(k)) /\ writer[k].lines \in Seq(LinesOf(k))
      /\ writer[k].done \in Nat /\ writer[k].mode \in {"rest", "append", "rewrite"}
  BY <1>2 DEF Writers
<1>4. writer[k].mode = "rest" =>
         writer[k].lines = <<>> /\ writer[k].old = <<>> /\ writer[k].done = 0
  BY <1>2 DEF Resting
<1>5. writer[k].done \in 0..Len(writer[k].lines)
  BY <1>2, <1>3, <1>4
<1> QED BY <1>1, <1>3, <1>4, <1>5 DEF FileTypes

\* What a writer has appended so far.
LinesUpTo(f, old, lines, d) ==
    /\ Len(f) = Len(old) + d /\ Len(old) \in Nat /\ d \in Nat
    /\ \A i \in 1..Len(old) : f[i] = old[i]
    /\ \A i \in 1..d : f[Len(old) + i] = lines[i]

LEMMA AppendedLines ==
  ASSUME NEW T, NEW old \in Seq(T), NEW lines \in Seq(T), NEW d \in 0..Len(lines)
  PROVE  LinesUpTo(old \o SubSeq(lines, 1, d), old, lines, d)
<1> DEFINE part == SubSeq(lines, 1, d)
<1>1. d \in Nat /\ Len(old) \in Nat /\ Len(lines) \in Nat
  OBVIOUS
<1>2. /\ part \in Seq(T) /\ Len(part) = IF 1 <= d THEN d - 1 + 1 ELSE 0
      /\ \A i \in 1..(d - 1 + 1) : part[i] = lines[1 + i - 1]
  BY <1>1, Parts
<1>3. Len(part) = d /\ \A i \in 1..d : part[i] = lines[i]
  BY <1>1, <1>2
<1> HIDE DEF part
<1>4. /\ Len(old \o part) = Len(old) + Len(part)
      /\ \A i \in 1..Len(old) + Len(part) :
            (old \o part)[i] = IF i <= Len(old) THEN old[i] ELSE part[i - Len(old)]
  BY <1>2, ConcatProperties
<1>5. \A i \in 1..Len(old) : (old \o part)[i] = old[i]
  BY <1>1, <1>3, <1>4
<1>6. ASSUME NEW i \in 1..d PROVE (old \o part)[Len(old) + i] = lines[i]
  <2>1. Len(old) + i \in 1..Len(old) + Len(part) /\ ~(Len(old) + i <= Len(old))
        /\ (Len(old) + i) - Len(old) = i
    BY <1>1, <1>3
  <2> QED BY <1>3, <1>4, <2>1
<1> QED BY <1>1, <1>3, <1>4, <1>5, <1>6 DEF part, LinesUpTo

LEMMA Appended ==
  ASSUME StoreInv, NEW k \in Keys, k \notin damaged, writer[k].mode = "append"
  PROVE  /\ ~open[k] /\ Good(writer[k].old \o writer[k].lines)
         /\ LinesUpTo(file[k], writer[k].old, writer[k].lines, writer[k].done)
<1>1. Sound(k)
  BY DEF StoreInv, FileInv
<1>2. /\ ~open[k] /\ Good(writer[k].old \o writer[k].lines)
      /\ file[k] = writer[k].old \o SubSeq(writer[k].lines, 1, writer[k].done)
  BY <1>1 DEF Sound, Appending
<1>3. /\ writer[k].old \in Seq(LinesOf(k)) /\ writer[k].lines \in Seq(LinesOf(k))
      /\ writer[k].done \in 0..Len(writer[k].lines)
  BY FileParts
<1> QED BY <1>2, <1>3, AppendedLines

LEMMA ReadsKeep ==
  ASSUME StoreInv, NEW k \in Keys, Loads(k)
  PROVE  StoreInv'
<1>1. CASE stale[k] # "none"
  <2>1. stale[k] \in {"tail", "all"}
    BY <1>1, FileParts
  <2>2. Query(k)
    BY <1>1, <2>1 DEF Loads, Query
  <2> QED BY <2>2, QueryKeeps
<1>2. CASE stale[k] = "none"
  <2>1. /\ index' = [index EXCEPT ![k] = index[k]] /\ stale' = [stale EXCEPT ![k] = "none"]
        /\ file' = file /\ open' = open /\ damaged' = damaged /\ state' = state /\ queue' = queue
        /\ writer' = writer /\ step' = step /\ checked' = checked
        /\ dated' = dated /\ scanned' = scanned /\ failures' = failures /\ lost' = lost
    BY <1>2 DEF Loads, files, requests, days
  <2>2. Shapes'
    BY <2>1 DEF StoreInv, Shapes
  <2>3. ASSUME NEW j \in Keys PROVE FileInv(j)'
    <3>1. index'[j] = index[j] /\ stale'[j] = stale[j] /\ FileInv(j) /\ OfKey(j)' = OfKey(j)
      BY <1>2, <2>1 DEF StoreInv, Shapes, OfKey
    <3> QED BY <2>1, <3>1, FileStays
  <2> QED BY <2>2, <2>3 DEF StoreInv
<1> QED BY <1>1, <1>2

LEMMA StoreStepKeeps ==
  ASSUME StoreInv, StoreNext \/ Crash
  PROVE  StoreInv'
<1>1. ASSUME NEW q \in Requests, Accept(q) PROVE StoreInv'
  BY <1>1, AcceptKeeps
<1>2. ASSUME NEW q \in Requests, NEW k \in Keys, Check(q, k) \/ CheckFails(q, k) PROVE StoreInv'
  BY <1>2, CheckKeeps, CheckFailsKeeps
<1>3. ASSUME NEW k \in Keys, NEW n \in 1..Len(queue[k]), Take(k, n) \/ TakeFails(k, n)
      PROVE  StoreInv'
  BY <1>3, TakeKeeps, TakeFailsKeeps
<1>4. ASSUME NEW k \in Keys, WriteLine(k) \/ EndWrite(k) \/ WriteFails(k) \/ Query(k)
      PROVE  StoreInv'
  BY <1>4, WriteLineKeeps, EndWriteKeeps, WriteFailsKeeps, QueryKeeps
<1>5. CASE Scan
  BY <1>5, ScanKeeps
<1>6. CASE Crash
  BY <1>6, CrashKeeps
<1> QED BY <1>1, <1>2, <1>3, <1>4, <1>5, <1>6 DEF StoreNext

LEMMA TakeGrows ==
  ASSUME StoreInv, NEW k \in Keys, NEW n \in 1..Len(queue[k]), Take(k, n),
         \A j \in Keys : Calm(j)'
  PROVE  \A j \in Keys : Grows(j)
<1>1. StoreInv'
  BY TakeKeeps
<1>2. /\ file' = file /\ damaged' = damaged /\ writer'[k].old = file[k]
      /\ writer'[k].mode \in {"rewrite", "append"}
      /\ \A j \in Keys : j # k => writer'[j] = writer[j]
  BY DEF Take, files, StoreInv, Shapes
<1>3. writer'[k].mode = "append" /\ k \notin damaged'
  BY <1>2 DEF Calm
<1>4. /\ Good(writer'[k].old \o writer'[k].lines)
      /\ writer'[k].old \in Seq(LinesOf(k)') /\ writer'[k].lines \in Seq(LinesOf(k)')
  <2>1. Sound(k)' /\ FileTypes(k)'
    BY <1>1, <1>3 DEF StoreInv, FileInv
  <2> QED BY <1>3, <2>1 DEF Sound, Appending, FileTypes, Writers
<1>5. \A r \in Recs(file[k]) : r \notin Recs(writer'[k].lines)
  BY <1>2, <1>4, RecordsApart
<1>6. \A j \in Keys : Len(file[j]) \in Nat
  BY FileParts
<1> QED BY <1>2, <1>5, <1>6 DEF Grows

LEMMA WriteLineGrows ==
  ASSUME StoreInv, NEW k \in Keys, WriteLine(k), \A j \in Keys : Calm(j)
  PROVE  \A j \in Keys : Grows(j)
<1> DEFINE w == writer[k]
           v == writer'[k]
<1>1. StoreInv'
  BY WriteLineKeeps
<1>2. w.mode # "rewrite" /\ w.mode # "rest" /\ k \notin damaged /\ w.mode \in {"rest", "append", "rewrite"}
  BY FileParts DEF Calm, WriteLine
<1>3. w.mode = "append" /\ ~open[k]
  <2>1. w.mode = "append"
    BY <1>2
  <2> QED BY <1>2, <2>1, Appended
<1>4. ~Joins(k)
  BY <1>3 DEF Joins
<1>5. /\ v = [w EXCEPT !.done = w.done + 1, !.old = w.old, !.lines = w.lines]
      /\ damaged' = damaged
      /\ \A j \in Keys : j # k => writer'[j] = writer[j] /\ file'[j] = file[j]
  BY <1>4 DEF WriteLine, StoreInv, Shapes
<1>6. w \in Writers(k)
  BY DEF StoreInv, FileInv, FileTypes
<1>7. v.mode = "append" /\ v.old = w.old /\ v.lines = w.lines /\ v.done = w.done + 1
  BY <1>3, <1>5, <1>6 DEF Writers
<1>8. LinesUpTo(file[k], w.old, w.lines, w.done)
  BY <1>2, <1>3, Appended
<1>9. LinesUpTo(file'[k], w.old, w.lines, w.done + 1)
  <2>1. Sound(k)' /\ FileTypes(k)'
    BY <1>1, <1>2, <1>5 DEF StoreInv, FileInv
  <2>2. file'[k] = v.old \o SubSeq(v.lines, 1, v.done)
    BY <1>7, <2>1 DEF Sound, Appending
  <2>3. /\ v.old \in Seq(LinesOf(k)') /\ v.lines \in Seq(LinesOf(k)')
        /\ v.done \in Nat /\ v.done <= Len(v.lines)
    BY <1>7, <2>1 DEF FileTypes, Writers
  <2>4. v.done \in 0..Len(v.lines)
    BY <2>3
  <2>5. LinesUpTo(v.old \o SubSeq(v.lines, 1, v.done), v.old, v.lines, v.done)
    BY <2>3, <2>4, AppendedLines
  <2> QED BY <1>7, <2>2, <2>5
<1>10. Len(file[k]) <= Len(file'[k])
  BY <1>8, <1>9, SMTT(60) DEF LinesUpTo
<1>11. ASSUME NEW i \in 1..Len(file[k]) PROVE file'[k][i] = file[k][i]
  <2> DEFINE n == Len(w.old)
  <2>1. n \in Nat /\ w.done \in Nat /\ Len(file[k]) = n + w.done
    BY <1>8 DEF LinesUpTo
  <2>2. CASE i <= n
    <3>1. i \in 1..n
      BY <2>1, <2>2
    <3> QED BY <1>8, <1>9, <3>1 DEF LinesUpTo
  <2>3. CASE ~(i <= n)
    <3>1. i - n \in 1..w.done /\ i - n \in 1..(w.done + 1) /\ n + (i - n) = i
      BY <2>1, <2>3
    <3> QED BY <1>8, <1>9, <3>1, SMTT(60) DEF LinesUpTo
  <2> QED BY <2>2, <2>3
<1>12. \A j \in Keys : Len(file[j]) \in Nat
  BY FileParts
<1>13. Grows(k)
  <2>1. v.lines = w.lines
    BY <1>7
  <2> QED BY <1>10, <1>11, <2>1 DEF Grows
<1>14. ASSUME NEW j \in Keys, j # k PROVE Grows(j)
  <2>1. writer'[j] = writer[j] /\ file'[j] = file[j] /\ Len(file[j]) \in Nat
    BY <1>5, <1>12, <1>14
  <2> QED BY <2>1 DEF Grows
<1> QED BY <1>13, <1>14

\* While no file is written anew or cut off the files only grow.
LEMMA FilesGrow ==
  ASSUME StoreInv, StoreNext, \A k \in Keys : Calm(k) /\ Calm(k)'
  PROVE  \A k \in Keys : Grows(k)
<1>1. ASSUME file' = file, writer' = writer PROVE \A k \in Keys : Grows(k)
  <2>1. \A k \in Keys : Len(file[k]) \in Nat
    BY FileParts
  <2> QED BY <1>1, <2>1 DEF Grows
<1>2. ASSUME NEW q \in Requests, Accept(q) PROVE file' = file /\ writer' = writer
  BY <1>2 DEF Accept, files
<1>3. ASSUME NEW q \in Requests, NEW k \in Keys, Check(q, k) \/ CheckFails(q, k)
      PROVE  file' = file /\ writer' = writer
  BY <1>3 DEF Check, CheckFails, files
<1>4. ASSUME NEW k \in Keys, NEW n \in 1..Len(queue[k]), TakeFails(k, n)
      PROVE  file' = file /\ writer' = writer
  BY <1>4 DEF TakeFails, files
<1>5. ASSUME NEW k \in Keys, Query(k) PROVE file' = file /\ writer' = writer
  BY <1>5 DEF Query, files
<1>6. ASSUME Scan PROVE file' = file /\ writer' = writer
  BY <1>6 DEF Scan, files
<1>7. ASSUME NEW k \in Keys, WriteFails(k) PROVE FALSE
  <2>1. k \in damaged'
    BY <1>7 DEF WriteFails
  <2> QED BY <2>1 DEF Calm
<1>8. ASSUME NEW k \in Keys, EndWrite(k) PROVE \A j \in Keys : Grows(j)
  <2>1. /\ file' = file /\ writer'[k] = Resting
        /\ \A j \in Keys : j # k => writer'[j] = writer[j]
    BY <1>8 DEF EndWrite, files, StoreInv, Shapes
  <2>2. Recs(Resting.lines) = {}
    BY GoodEmpty DEF Resting
  <2>3. \A j \in Keys : Len(file[j]) \in Nat
    BY FileParts
  <2> QED BY <2>1, <2>2, <2>3 DEF Grows
<1>9. ASSUME NEW k \in Keys, NEW n \in 1..Len(queue[k]), Take(k, n)
      PROVE  \A j \in Keys : Grows(j)
  BY <1>9, TakeGrows
<1>10. ASSUME NEW k \in Keys, WriteLine(k) PROVE \A j \in Keys : Grows(j)
  BY <1>10, WriteLineGrows
<1> QED BY <1>1, <1>2, <1>3, <1>4, <1>5, <1>6, <1>7, <1>8, <1>9, <1>10 DEF StoreNext

\* Reading an index reads all of the file, or finds it unmarked.
LEMMA ReadOn ==
  ASSUME StoreInv, NEW k \in Keys, Loads(k) \/ Query(k), Calm(k)
  PROVE  /\ stale[k] # "none" => index'[k] = file[k]
         /\ stale[k] = "none" => index'[k] = index[k]
         /\ \A j \in Keys : j # k => index'[j] = index[j] /\ stale'[j] = stale[j]
<1> DEFINE All == [record : Records \cup {Torn}, sn : Nat]
           more == SubSeq(file[k], Len(index[k]) + 1, Len(file[k]))
<1>1. /\ stale[k] \in {"none", "tail", "all"} /\ index[k] \in Seq(All)
      /\ file[k] \in Seq(LinesOf(k)) /\ LinesOf(k) \subseteq All
  BY FileParts DEF LinesOf, OfKey
<1> HIDE DEF All, more
<1>2. index'[k] = CASE stale[k] = "all" -> file[k] [] stale[k] = "tail" -> index[k] \o more
                    [] OTHER -> index[k]
  BY <1>1 DEF Loads, Query, StoreInv, Shapes, more
<1>3. \A j \in Keys : j # k => index'[j] = index[j] /\ stale'[j] = stale[j]
  BY DEF Loads, Query, StoreInv, Shapes
<1>4. ASSUME stale[k] = "tail" PROVE index[k] \o more = file[k]
  <2>1. Sound(k)
    BY DEF StoreInv, FileInv, Calm
  <2>2. Len(index[k]) <= Len(file[k]) /\ \A i \in 1..Len(index[k]) : index[k][i] = file[k][i]
    BY <1>4, <2>1 DEF Sound, Indexed, Calm
  <2>3. file[k] \in Seq(All)
    BY <1>1, SeqMonotonic
  <2> QED BY <1>1, <2>2, <2>3, RestRead DEF more
<1> QED BY <1>1, <1>2, <1>3, <1>4
LEMMA IndexReachesKept ==
  ASSUME StoreInv, IndexReaches, StoreNext \/ Crash \/ UNCHANGED vars
         \/ (\E k \in Keys : Loads(k))
  PROVE  IndexReaches'
<1> DEFINE Reaches(k) == writer[k].mode = "append" /\ stale[k] = "none" /\ k \notin damaged =>
                            Len(index[k]) >= Len(writer[k].old)
<1>1. \A k \in Keys : Reaches(k)
  BY DEF IndexReaches
<1> SUFFICES ASSUME NEW j \in Keys PROVE Reaches(j)'
  BY DEF IndexReaches
<1>2. ASSUME writer'[j] = writer[j], index'[j] = index[j], stale'[j] = stale[j],
             damaged \subseteq damaged'
      PROVE  Reaches(j)'
  BY <1>1, <1>2
<1>3. ASSUME writer'[j] = Resting PROVE Reaches(j)'
  BY <1>3 DEF Resting
<1> HIDE DEF Reaches
<1>4. ASSUME NEW q \in Requests, Accept(q) PROVE Reaches(j)'
  BY <1>2, <1>4 DEF Accept, files, indices
<1>5. ASSUME NEW q \in Requests, NEW k \in Keys, Check(q, k) \/ CheckFails(q, k)
      PROVE  Reaches(j)'
  BY <1>2, <1>5 DEF Check, CheckFails, files, indices
<1>6. ASSUME NEW k \in Keys, NEW n \in 1..Len(queue[k]), TakeFails(k, n) PROVE Reaches(j)'
  BY <1>2, <1>6 DEF TakeFails, files, indices
<1>7. ASSUME Scan PROVE Reaches(j)'
  BY <1>2, <1>7 DEF Scan, files, indices
<1>8. ASSUME Crash PROVE Reaches(j)'
  BY <1>3, <1>8 DEF Crash
<1>9. ASSUME UNCHANGED vars PROVE Reaches(j)'
  BY <1>2, <1>9 DEF vars, files, indices
<1>10. ASSUME NEW k \in Keys, EndWrite(k) PROVE Reaches(j)'
  <2>1. CASE j = k
    BY <1>3, <1>10, <2>1 DEF EndWrite, StoreInv, Shapes
  <2>2. CASE j # k
    BY <1>2, <1>10, <2>2 DEF EndWrite, Hook, files, StoreInv, Shapes
  <2> QED BY <2>1, <2>2
<1>11. ASSUME NEW k \in Keys, WriteFails(k) PROVE Reaches(j)'
  <2>1. CASE j = k
    BY <1>3, <1>11, <2>1 DEF WriteFails, StoreInv, Shapes
  <2>2. CASE j # k
    BY <1>2, <1>11, <2>2 DEF WriteFails, indices, StoreInv, Shapes
  <2> QED BY <2>1, <2>2
<1>12. ASSUME NEW k \in Keys, NEW n \in 1..Len(queue[k]), Take(k, n) PROVE Reaches(j)'
  <2>1. CASE j = k
    <3>1. /\ writer[k].mode = "rest" /\ writer'[k].old = file[k]
          /\ index' = index /\ stale' = stale /\ damaged' = damaged
      BY <1>12 DEF Take, files, indices, StoreInv, Shapes
    <3>2. ASSUME k \notin damaged, stale[k] = "none" PROVE Len(index[k]) = Len(file[k])
      <4>1. Sound(k)
        BY <3>2 DEF StoreInv, FileInv
      <4> QED BY <3>1, <3>2, <4>1 DEF Sound, Indexed
    <3>3. Len(index[k]) \in Nat
      BY FileParts
    <3> QED BY <2>1, <3>1, <3>2, <3>3 DEF Reaches
  <2>2. CASE j # k
    BY <1>2, <1>12, <2>2 DEF Take, files, indices, StoreInv, Shapes
  <2> QED BY <2>1, <2>2
<1>13. ASSUME NEW k \in Keys, WriteLine(k) PROVE Reaches(j)'
  <2>1. CASE j = k
    <3>1. /\ index' = index /\ stale' = stale /\ damaged' = damaged
          /\ writer'[k] = [writer[k] EXCEPT !.done = writer[k].done + 1,
                 !.old = IF Joins(k) THEN SubSeq(writer[k].old, 1, Len(writer[k].old) - 1)
                         ELSE writer[k].old,
                 !.lines = IF Joins(k) THEN [writer[k].lines EXCEPT ![1] = Line(Torn, 0)]
                           ELSE writer[k].lines]
      BY <1>13 DEF WriteLine, indices, StoreInv, Shapes
    <3>2. writer[k] \in Writers(k)
      BY DEF StoreInv, FileInv, FileTypes
    <3>3. writer'[k].mode = writer[k].mode /\ (~Joins(k) => writer'[k].old = writer[k].old)
      BY <3>1, <3>2 DEF Writers
    <3>4. k \notin damaged => ~Joins(k)
      BY DEF StoreInv, FileInv, Sound, Joins
    <3> QED BY <1>1, <2>1, <3>1, <3>3, <3>4 DEF Reaches
  <2>2. CASE j # k
    BY <1>2, <1>13, <2>2 DEF WriteLine, indices, StoreInv, Shapes
  <2> QED BY <2>1, <2>2
<1>14. ASSUME NEW k \in Keys, Query(k) \/ Loads(k) PROVE Reaches(j)'
  <2>1. writer' = writer /\ damaged' = damaged
    BY <1>14 DEF Query, Loads, files
  <2>2. CASE j = k
    <3>1. ASSUME writer[k].mode = "append", k \notin damaged
          PROVE  stale'[k] = "none" => Len(index'[k]) >= Len(writer[k].old)
      <4>1. Calm(k)
        BY <3>1 DEF Calm
      <4>2. /\ stale[k] # "none" => index'[k] = file[k]
            /\ stale[k] = "none" => index'[k] = index[k]
        BY <1>14, <4>1, ReadOn
      <4>3. Len(file[k]) >= Len(writer[k].old)
        BY <3>1, Appended DEF LinesUpTo
      <4> QED BY <1>1, <3>1, <4>2, <4>3 DEF Reaches
    <3> QED BY <2>1, <2>2, <3>1 DEF Reaches
  <2>3. CASE j # k
    <3>1. index'[j] = index[j] /\ stale'[j] = stale[j]
      BY <1>14, <2>3 DEF Query, Loads, StoreInv, Shapes
    <3> QED BY <1>2, <2>1, <3>1
  <2> QED BY <2>2, <2>3
<1> QED BY <1>4, <1>5, <1>6, <1>7, <1>8, <1>9, <1>10, <1>11, <1>12, <1>13, <1>14 DEF StoreNext

--------------------------------------------------------------------------------
(* ContextRecovery: numbers, days and lines.                                   *)

LEMMA LeastOf ==
  ASSUME NEW S, S \subseteq Nat, S # {}
  PROVE  \E n \in S : \A m \in S : n <= m
<1>1. PICK n \in S : \A m \in S : <<m, n>> \notin OpToRel(<, Nat)
  BY NatLessThanWellFounded, WFMin
<1>2. \A m \in S : ~(m < n)
  BY <1>1 DEF OpToRel
<1> QED BY <1>2

LEMMA InductionOverSet ==
  ASSUME NEW T, 0 \in T, \A n \in Nat : n \in T => n + 1 \in T
  PROVE  \A n \in Nat : n \in T
<1> DEFINE M == {n \in Nat : n \notin T}
<1> SUFFICES ASSUME M # {} PROVE FALSE
  OBVIOUS
<1>1. PICK n \in M : \A m \in M : n <= m
  <2> HIDE DEF M
  <2>1. M \subseteq Nat
    BY DEF M
  <2> QED BY <2>1, LeastOf
<1>2. n # 0 /\ n \in Nat
  OBVIOUS
<1>3. n - 1 \in Nat /\ n - 1 \notin M
  BY <1>1, <1>2
<1> QED BY <1>2, <1>3

\* All of the days in some order.
DaysOf(s, S) ==
    s \in Seq(Keys) /\ Len(s) \in Nat /\ \A k \in S : \E i \in 1..Len(s) : s[i] = k

LEMMA DaysOrdered ==
  ASSUME NEW S, S \subseteq Keys
  PROVE  DaysOf(Sorted(S, Later), S) /\ DaysOf(Sorted(S, Sooner), S)
<1> DEFINE N == Cardinality(S)
           Down == {p \in S \X S : Day[p[1]] > Day[p[2]]}
           Up == {p \in S \X S : Day[p[1]] < Day[p[2]]}
<1>1. IsFiniteSet(S) /\ N \in Nat
  BY RecoveryAssumption, FS_Subset, FS_CardinalityType
<1>2. \A k \in S : Day[k] \in Nat
  BY RecoveryAssumption
<1>3. \A k, l \in S : k = l \/ Day[k] > Day[l] \/ Day[k] < Day[l]
  BY <1>2, RecoveryAssumption
<1>4. /\ \A k \in S : <<k, k>> \notin Down
      /\ \A k, l \in S : k = l \/ <<k, l>> \in Down \/ <<l, k>> \in Down
      /\ \A k, l, m \in S : <<k, l>> \in Down /\ <<l, m>> \in Down => <<k, m>> \in Down
      /\ \A k, l \in S : Day[k] > Day[l] => <<k, l>> \in Down
  BY <1>2, <1>3
<1>5. /\ \A k \in S : <<k, k>> \notin Up
      /\ \A k, l \in S : k = l \/ <<k, l>> \in Up \/ <<l, k>> \in Up
      /\ \A k, l, m \in S : <<k, l>> \in Up /\ <<l, m>> \in Up => <<k, m>> \in Up
      /\ \A k, l \in S : Day[k] < Day[l] => <<k, l>> \in Up
  BY <1>2, <1>3
<1> HIDE DEF Down, Up
<1>6. PICK d \in [1..N -> S] : \A i, j \in 1..N : i < j => d[i] # d[j] /\ <<d[j], d[i]>> \notin Down
  BY <1>1, <1>4, SortedByRelation
<1>7. PICK u \in [1..N -> S] : \A i, j \in 1..N : i < j => u[i] # u[j] /\ <<u[j], u[i]>> \notin Up
  BY <1>1, <1>5, SortedByRelation
<1> HIDE DEF N
<1>8. \A i, j \in 1..N : i < j => d[i] # d[j] /\ ~Later(d[j], d[i])
  BY <1>4, <1>6 DEF Later
<1>9. \A i, j \in 1..N : i < j => u[i] # u[j] /\ ~Sooner(u[j], u[i])
  BY <1>5, <1>7 DEF Sooner
<1>10. /\ Sorted(S, Later) \in [1..N -> S]
       /\ \A i, j \in 1..N : i < j => Sorted(S, Later)[i] # Sorted(S, Later)[j]
  BY <1>6, <1>8 DEF Sorted, N
<1>11. /\ Sorted(S, Sooner) \in [1..N -> S]
       /\ \A i, j \in 1..N : i < j => Sorted(S, Sooner)[i] # Sorted(S, Sooner)[j]
  BY <1>7, <1>9 DEF Sorted, N
<1>12. ASSUME NEW s \in [1..N -> S], \A i, j \in 1..N : i < j => s[i] # s[j]
       PROVE  DaysOf(s, S)
  <2>1. s \in Seq(S) /\ Len(s) \in Nat /\ \A k \in S : \E i \in 1..Len(s) : s[i] = k
    BY <1>1, <1>12, SortedIsASequence DEF N
  <2> QED BY <2>1, SeqMonotonic DEF DaysOf
<1> DEFINE back == Sorted(S, Later)
           on == Sorted(S, Sooner)
<1> HIDE DEF back, on
<1>13. back \in [1..N -> S] /\ \A i, j \in 1..N : i < j => back[i] # back[j]
  BY <1>10 DEF back
<1>14. on \in [1..N -> S] /\ \A i, j \in 1..N : i < j => on[i] # on[j]
  BY <1>11 DEF on
<1>15. DaysOf(back, S) /\ DaysOf(on, S)
  BY <1>12, <1>13, <1>14
<1> QED BY <1>15 DEF back, on

LEMMA DaysBackwards ==
  ASSUME NEW S, S \subseteq Keys
  PROVE  \A i, j \in 1..Len(Sorted(S, Later)) : i < j =>
            Day[Sorted(S, Later)[i]] > Day[Sorted(S, Later)[j]]
<1> DEFINE N == Cardinality(S)
           s == Sorted(S, Later)
           Down == {p \in S \X S : Day[p[1]] > Day[p[2]]}
<1>1. IsFiniteSet(S) /\ N \in Nat
  BY RecoveryAssumption, FS_Subset, FS_CardinalityType
<1>2. \A k \in S : Day[k] \in Nat
  BY RecoveryAssumption
<1>3. \A k, l \in S : k = l \/ Day[k] > Day[l] \/ Day[k] < Day[l]
  BY <1>2, RecoveryAssumption
<1>4. /\ \A k \in S : <<k, k>> \notin Down
      /\ \A k, l \in S : k = l \/ <<k, l>> \in Down \/ <<l, k>> \in Down
      /\ \A k, l, m \in S : <<k, l>> \in Down /\ <<l, m>> \in Down => <<k, m>> \in Down
      /\ \A k, l \in S : Day[k] > Day[l] => <<k, l>> \in Down
  BY <1>2, <1>3
<1> HIDE DEF Down
<1>5. PICK d \in [1..N -> S] : \A i, j \in 1..N : i < j => d[i] # d[j] /\ <<d[j], d[i]>> \notin Down
  BY <1>1, <1>4, SortedByRelation
<1> HIDE DEF N
<1>6. \A i, j \in 1..N : i < j => d[i] # d[j] /\ ~Later(d[j], d[i])
  BY <1>4, <1>5 DEF Later
<1>7. s \in [1..N -> S] /\ \A i, j \in 1..N : i < j => s[i] # s[j] /\ ~Later(s[j], s[i])
  BY <1>5, <1>6 DEF Sorted, N
<1> HIDE DEF s
<1>8. Len(s) = N
  BY <1>1, <1>7
<1>9. ASSUME NEW i \in 1..N, NEW j \in 1..N, i < j PROVE Day[s[i]] > Day[s[j]]
  <2>1. s[i] \in S /\ s[j] \in S /\ s[i] # s[j] /\ ~(Day[s[j]] > Day[s[i]])
    BY <1>7, <1>9 DEF Later
  <2> QED BY <1>2, <1>3, <2>1
<1> QED BY <1>8, <1>9 DEF s

\* A file of which no write was cut off, while it is not written anew.
LEMMA CalmFile ==
  ASSUME StoreInv, NEW k \in Keys, Calm(k)
  PROVE  /\ Good(file[k])
         /\ \A i \in 1..Len(file[k]) : file[k][i] \in [record : Records, sn : Nat]
                                       /\ KeyOf[file[k][i].record] = k
<1>1. Sound(k) /\ file[k] \in Seq(LinesOf(k)) /\ Len(file[k]) \in Nat
  BY FileParts DEF StoreInv, FileInv, Calm
<1>2. Good(file[k])
  <2>1. CASE writer[k].mode = "rest"
    BY <1>1, <2>1 DEF Sound, AtRest
  <2>2. CASE writer[k].mode # "rest"
    <3> DEFINE old == writer[k].old
               lines == writer[k].lines
               w == old \o lines
    <3>1. writer[k].mode = "append" /\ k \notin damaged
      BY <2>2, FileParts DEF Calm
    <3>2. Good(w) /\ LinesUpTo(file[k], old, lines, writer[k].done)
      BY <3>1, Appended
    <3>3. /\ old \in Seq(LinesOf(k)) /\ lines \in Seq(LinesOf(k))
          /\ writer[k].done \in 0..Len(lines) /\ Len(old) \in Nat /\ Len(lines) \in Nat
      BY FileParts
    <3> HIDE DEF old, lines
    <3>4. /\ Len(w) = Len(old) + Len(lines)
          /\ \A i \in 1..Len(old) + Len(lines) :
                w[i] = IF i <= Len(old) THEN old[i] ELSE lines[i - Len(old)]
      BY <3>3, ConcatProperties
    <3> HIDE DEF w
    <3>5. Len(file[k]) = Len(old) + writer[k].done
      BY <3>2 DEF LinesUpTo
    <3>6. ASSUME NEW i \in 1..Len(file[k]) PROVE i \in 1..Len(w) /\ file[k][i] = w[i]
      <4>1. i \in 1..Len(w) /\ w[i] = IF i <= Len(old) THEN old[i] ELSE lines[i - Len(old)]
        BY <3>3, <3>4, <3>5
      <4>2. CASE i <= Len(old)
        <5>1. i \in 1..Len(old)
          BY <3>3, <4>2
        <5> QED BY <3>2, <4>1, <4>2, <5>1 DEF LinesUpTo
      <4>3. CASE ~(i <= Len(old))
        <5>1. i - Len(old) \in 1..writer[k].done /\ Len(old) + (i - Len(old)) = i
          BY <3>3, <3>5, <4>3
        <5>2. file[k][Len(old) + (i - Len(old))] = lines[i - Len(old)]
          BY <3>2, <5>1 DEF LinesUpTo
        <5> QED BY <4>1, <4>3, <5>1, <5>2
      <4> QED BY <4>2, <4>3
    <3> QED BY <3>2, <3>6 DEF Good
  <2> QED BY <2>1, <2>2
<1>3. ASSUME NEW i \in 1..Len(file[k])
      PROVE  file[k][i] \in [record : Records, sn : Nat] /\ KeyOf[file[k][i].record] = k
  <2>1. file[k][i] \in LinesOf(k) /\ file[k][i].record \in Records
    BY <1>1, <1>2, <1>3 DEF Good
  <2> QED BY <2>1, StoreAssumption DEF LinesOf, OfKey
<1> QED BY <1>2, <1>3

--------------------------------------------------------------------------------
(* ContextRecovery: what a query adds to the records found.                    *)

ReadLines == [record : Records, sn : Nat]
FoundTypes(found) ==
    /\ found \subseteq ReadLines /\ IsFiniteSet(found)
    /\ \A l, m \in found : Same(l, m) => l = m

LEMMA LinesAt ==
  ASSUME NEW s, NEW J, IsFiniteSet(J)
  PROVE  /\ IsFiniteSet({s[i] : i \in J})
         /\ (\A i, j \in J : s[i] = s[j] => i = j) => Cardinality({s[i] : i \in J}) = Cardinality(J)
<1> DEFINE T == {s[i] : i \in J}
           f == [i \in J |-> s[i]]
<1>1. f \in Surjection(J, T)
  BY DEF Surjection
<1>2. IsFiniteSet(T) /\ (Cardinality(T) = Cardinality(J) <=> f \in Injection(J, T))
  <2> HIDE DEF f, T
  <2> QED BY <1>1, FS_Surjection
<1>3. (\A i, j \in J : s[i] = s[j] => i = j) => f \in Injection(J, T)
  BY DEF Injection, IsInjective
<1> QED BY <1>2, <1>3

\* Of the lines that are the same one is kept, and it is the first to come.
LEMMA TakenIs ==
  ASSUME NEW found, FoundTypes(found), NEW s \in Seq([record : Records \cup {Torn}, sn : Nat]),
         NEW I, I \subseteq Parsed(s)
  PROVE  /\ FoundTypes(Taken(found, s, I)) /\ found \subseteq Taken(found, s, I)
         /\ \A l \in Taken(found, s, I) : l \in found \/ \E i \in I : l = s[i]
         /\ \A i \in I : \E l \in Taken(found, s, I) : Same(l, s[i])
<1> DEFINE New(j) == (\A l \in found : ~Same(l, s[j])) /\ (\A h \in I : h < j => ~Same(s[h], s[j]))
           J == {j \in I : New(j)}
           T == Taken(found, s, I)
<1>1. DOMAIN s = 1..Len(s) /\ Len(s) \in Nat
  OBVIOUS
<1>2. I \subseteq 1..Len(s) /\ \A i \in I : s[i] \in ReadLines
  <2>1. ASSUME NEW i \in I PROVE i \in 1..Len(s) /\ s[i].record # Torn
    BY <1>1 DEF Parsed
  <2>2. \A i \in 1..Len(s) : s[i] \in [record : Records \cup {Torn}, sn : Nat]
    BY ElementOfSeq
  <2>3. \A i \in I : s[i] \in ReadLines
    BY <2>1, <2>2 DEF ReadLines
  <2> QED BY <2>1, <2>3
<1>3. T = found \cup {s[i] : i \in J}
  BY DEF Taken
<1>4. found \subseteq ReadLines /\ IsFiniteSet(found) /\ \A l, m \in found : Same(l, m) => l = m
  BY DEF FoundTypes
<1> HIDE DEF T
<1>5. T \subseteq ReadLines
  BY <1>2, <1>3, <1>4
<1>6. IsFiniteSet(T)
  <2>1. IsFiniteSet(1..Len(s))
    BY <1>1, FS_Interval
  <2>2. IsFiniteSet(J)
    <3>1. J \subseteq 1..Len(s)
      BY <1>2
    <3> HIDE DEF J
    <3> QED BY <2>1, <3>1, FS_Subset
  <2>3. IsFiniteSet({s[i] : i \in J})
    <3> HIDE DEF J
    <3> QED BY <2>2, LinesAt
  <2> HIDE DEF J
  <2> QED BY <1>3, <1>4, <2>3, FS_Union
<1>7. ASSUME NEW i \in I, NEW j \in I, NEW l \in ReadLines, Same(l, s[i]), Same(s[j], s[i])
      PROVE  Same(l, s[j])
  BY <1>7 DEF Same
<1>8. \A l, m \in ReadLines : Same(l, m) => Same(m, l)
  BY DEF Same
<1>9. ASSUME NEW l \in T, NEW m \in T, Same(l, m) PROVE l = m
  <2>1. CASE l \in found /\ m \in found
    BY <1>4, <1>9, <2>1
  <2>2. CASE l \in found /\ m \notin found
    BY <1>3, <1>9, <2>2
  <2>3. CASE l \notin found /\ m \in found
    <3>1. Same(m, l)
      BY <1>5, <1>8, <1>9
    <3> QED BY <1>3, <2>3, <3>1
  <2>4. CASE l \notin found /\ m \notin found
    <3>1. PICK i \in J, j \in J : l = s[i] /\ m = s[j]
      BY <1>3, <2>4
    <3>2. i \in I /\ j \in I /\ New(i) /\ New(j) /\ i \in Nat /\ j \in Nat
      BY <1>2, <3>1
    <3>3. Same(s[i], s[j]) /\ Same(s[j], s[i])
      BY <1>5, <1>8, <1>9, <3>1
    <3>4. ~(i < j) /\ ~(j < i)
      BY <3>2, <3>3
    <3> QED BY <3>1, <3>2, <3>4
  <2> QED BY <2>1, <2>2, <2>3, <2>4
<1>10. ASSUME NEW i \in I PROVE \E l \in T : Same(l, s[i])
  <2>1. CASE \E l \in found : Same(l, s[i])
    BY <1>3, <2>1
  <2>2. CASE \A l \in found : ~Same(l, s[i])
    <3> DEFINE C == {j \in I : Same(s[j], s[i])}
    <3>1. i \in C
      BY DEF Same
    <3>0. C \subseteq Nat
      <4>1. I \subseteq Nat
        BY <1>1, <1>2
      <4> QED BY <4>1
    <3>2. PICK n \in C : \A m \in C : n <= m
      <4> HIDE DEF C
      <4> QED BY <3>0, <3>1, LeastOf
    <3>3. n \in I /\ Same(s[n], s[i]) /\ n \in Nat
      BY <1>2, <3>2
    <3>4. ASSUME NEW l \in found, Same(l, s[n]) PROVE FALSE
      <4>1. Same(l, s[i])
        BY <3>3, <3>4 DEF Same
      <4> QED BY <2>2, <4>1
    <3>5. ASSUME NEW h \in I, h < n, Same(s[h], s[n]) PROVE FALSE
      <4>1. Same(s[h], s[i])
        BY <3>3, <3>5 DEF Same
      <4>2. h \in C /\ h \in Nat
        BY <1>2, <4>1
      <4> HIDE DEF C
      <4> QED BY <3>2, <3>3, <3>5, <4>2
    <3>6. n \in J
      BY <3>3, <3>4, <3>5
    <3> HIDE DEF J, C
    <3> QED BY <1>3, <3>3, <3>6
  <2> QED BY <2>1, <2>2
<1>11. \A l \in T : l \in found \/ \E i \in I : l = s[i]
  BY <1>3
<1>12. found \subseteq T
  BY <1>3
<1>13. FoundTypes(T)
  BY <1>5, <1>6, <1>9 DEF FoundTypes
<1> HIDE DEF J
<1> QED BY <1>10, <1>11, <1>12, <1>13 DEF T

\* The last n places of so many.
LEMMA LastPlaces ==
  ASSUME NEW L \in Nat, NEW n \in Nat
  PROVE  /\ \A i \in 1..L : i \in LastOf(1..L, n) <=> L - i + 1 <= n
         /\ LastOf(1..L, n) \subseteq 1..L
         /\ Cardinality(LastOf(1..L, n)) = IF n <= L THEN n ELSE L
<1>1. ASSUME NEW i \in 1..L PROVE Cardinality({j \in 1..L : j >= i}) = L - i + 1
  <2>1. {j \in 1..L : j >= i} = i..L
    OBVIOUS
  <2>2. i \in Int /\ L \in Int /\ ~(i > L)
    OBVIOUS
  <2>3. Cardinality(i..L) = IF i > L THEN 0 ELSE L - i + 1
    BY <2>2, FS_Interval
  <2>4. Cardinality(i..L) = L - i + 1
    BY <2>2, <2>3
  <2> QED BY <2>1, <2>4
<1>2. \A i \in 1..L : i \in LastOf(1..L, n) <=> L - i + 1 <= n
  BY <1>1 DEF LastOf
<1>3. LastOf(1..L, n) \subseteq 1..L
  BY DEF LastOf
<1>4. CASE n <= L
  <2>1. LastOf(1..L, n) = (L - n + 1)..L
    <3>1. \A i \in 1..L : i \in LastOf(1..L, n) <=> i \in (L - n + 1)..L
      BY <1>2, <1>4
    <3>2. (L - n + 1)..L \subseteq 1..L
      BY <1>4
    <3> DEFINE T == LastOf(1..L, n)
               U == (L - n + 1)..L
    <3>3. T \subseteq 1..L /\ U \subseteq 1..L /\ \A i \in 1..L : i \in T <=> i \in U
      BY <1>3, <3>1, <3>2
    <3> HIDE DEF T, U
    <3>4. T = U
      BY <3>3
    <3> QED BY <3>4 DEF T, U
  <2>2. Cardinality((L - n + 1)..L) = IF (L - n + 1) > L THEN 0 ELSE L - (L - n + 1) + 1
    BY FS_Interval
  <2> QED BY <1>2, <1>3, <1>4, <2>1, <2>2
<1>5. CASE ~(n <= L)
  <2>0. \A i \in 1..L : i \in LastOf(1..L, n)
    BY <1>2, <1>5
  <2>1. LastOf(1..L, n) = 1..L
    <3> DEFINE T == LastOf(1..L, n)
    <3> HIDE DEF T
    <3>1. T \subseteq 1..L /\ \A i \in 1..L : i \in T
      BY <1>3, <2>0 DEF T
    <3> QED BY <3>1 DEF T
  <2>2. Cardinality(1..L) = L
    BY FS_Interval
  <2> QED BY <1>2, <1>3, <1>5, <2>1, <2>2
<1> QED BY <1>4, <1>5

\* A beginning of a file, with what is in it before a writer appends.
StartOf(s, f) == Len(s) \in Nat /\ Len(s) <= Len(f) /\ \A i \in 1..Len(s) : s[i] = f[i]

LEMMA StartIsGood ==
  ASSUME NEW s, NEW f, Good(f), Len(f) \in Nat, StartOf(s, f)
  PROVE  Good(s)
<1>1. \A i \in 1..Len(s) : i \in 1..Len(f) /\ s[i] = f[i]
  BY DEF StartOf
<1> QED BY <1>1 DEF Good

\* A query of a day answers from its file, and with all that was readable.
LEMMA QueryReads ==
  ASSUME StoreInv, IndexReaches, NEW k \in Keys, Loads(k), Calm(k)
  PROVE  /\ index'[k] \in Seq([record : Records \cup {Torn}, sn : Nat])
         /\ StartOf(index'[k], file[k])
         /\ \A r \in Recs(file[k]) : r \notin Recs(writer[k].lines) => r \in Recs(index'[k])
<1>1. /\ file[k] \in Seq(LinesOf(k)) /\ index[k] \in Seq([record : Records \cup {Torn}, sn : Nat])
      /\ Len(file[k]) \in Nat /\ Len(index[k]) \in Nat
      /\ LinesOf(k) \subseteq [record : Records \cup {Torn}, sn : Nat]
  BY FileParts DEF LinesOf, OfKey
<1>2. CASE stale[k] # "none"
  <2>1. index'[k] = file[k]
    BY <1>2, ReadOn
  <2>2. file[k] \in Seq([record : Records \cup {Torn}, sn : Nat])
    BY <1>1, SeqMonotonic
  <2> QED BY <1>1, <2>1, <2>2 DEF StartOf
<1>3. CASE stale[k] = "none"
  <2>1. index'[k] = index[k]
    BY <1>3, ReadOn
  <2>2. Sound(k) /\ k \notin damaged /\ writer[k].mode # "rewrite"
    BY DEF StoreInv, FileInv, Calm
  <2>3. StartOf(index[k], file[k])
    BY <1>1, <1>3, <2>2 DEF Sound, Indexed, StartOf
  <2>4. ASSUME NEW r \in Recs(file[k]), r \notin Recs(writer[k].lines) PROVE r \in Recs(index[k])
    <3>1. PICK i \in 1..Len(file[k]) : file[k][i].record = r
      BY RecsIn
    <3>2. i <= Len(index[k])
      <4>1. CASE writer[k].mode = "rest"
        BY <1>1, <1>3, <2>2, <4>1 DEF Sound, Indexed
      <4>2. CASE writer[k].mode = "append"
        <5>1. LinesUpTo(file[k], writer[k].old, writer[k].lines, writer[k].done)
          BY <2>2, <4>2, Appended
        <5>2. writer[k].done \in 0..Len(writer[k].lines) /\ Len(writer[k].lines) \in Nat
              /\ Len(writer[k].old) \in Nat
          BY FileParts
        <5>3. Len(index[k]) >= Len(writer[k].old)
          BY <1>3, <2>2, <4>2 DEF IndexReaches
        <5>4. ASSUME i > Len(writer[k].old) PROVE FALSE
          <6> DEFINE j == i - Len(writer[k].old)
          <6>0. Len(file[k]) = Len(writer[k].old) + writer[k].done
            BY <5>1 DEF LinesUpTo
          <6>1. j \in 1..writer[k].done /\ Len(writer[k].old) + j = i /\ j \in 1..Len(writer[k].lines)
            <7> DEFINE a == Len(writer[k].old)
                       d == writer[k].done
                       m == Len(writer[k].lines)
            <7>1. a \in Nat /\ m \in Nat /\ d \in 0..m /\ i \in 1..(a + d) /\ i > a
              BY <3>1, <5>2, <5>4, <6>0
            <7> HIDE DEF a, d, m
            <7>2. i - a \in 1..d /\ a + (i - a) = i /\ i - a \in 1..m
              BY <7>1
            <7> QED BY <7>2 DEF a, d, m
          <6>2. file[k][Len(writer[k].old) + j] = writer[k].lines[j]
            BY <5>1, <6>1 DEF LinesUpTo
          <6>3. writer[k].lines[j].record = r
            BY <3>1, <6>1, <6>2
          <6> HIDE DEF j
          <6> QED BY <2>4, <6>1, <6>3, RecsIn
        <5> QED BY <1>1, <5>2, <5>3, <5>4
      <4> QED BY <2>2, <4>1, <4>2, FileParts
    <3>3. i \in 1..Len(index[k]) /\ index[k][i] = file[k][i]
      BY <1>1, <2>3, <3>2 DEF StartOf
    <3> QED BY <3>1, <3>3, RecsIn
  <2> QED BY <1>1, <2>1, <2>3, <2>4
<1> QED BY <1>2, <1>3

--------------------------------------------------------------------------------
(* ContextRecovery: the invariant of a context that is being rebuilt.          *)

HeldOf(found) == {l.record : l \in found}
Due(r, list) == \E i \in 1..Len(list) : list[i] = KeyOf[r]
Readers == [at : {"idle", "recent", "window", "done"}, count : Nat, start : Nat,
            days : Seq(Keys), found : SUBSET ReadLines, oldest : Nat]

ReaderTypes ==
    /\ reader \in Readers /\ FoundTypes(reader.found) /\ dated \subseteq Keys
    /\ reader.at = "idle" => reader = Nothing
    /\ reader.at # "idle" => reader.count > 0 /\ reader.start \in DOMAIN DayOf
    /\ reader.at # "idle" /\ shifted = {} => \A k \in Keys : Calm(k)

\* What was found is in the files, and what was kept is there to be found.
InFiles(found, f) == \A l \in found :
    l.sn \in 1..Len(f[KeyOf[l.record]]) /\ l = f[KeyOf[l.record]][l.sn]
Findable(r, f, w) == r \in Records /\ r \in Recs(f[KeyOf[r]]) /\ r \notin Recs(w[KeyOf[r]].lines)

\* The days come backwards, and nothing that is still to be found is later than
\* what was.
Backwards(rd, kp) ==
    /\ \A i, j \in 1..Len(rd.days) : i < j => Day[rd.days[i]] > Day[rd.days[j]]
    /\ \A l \in rd.found, i \in 1..Len(rd.days) : Day[rd.days[i]] < Day[KeyOf[l.record]]
    /\ \A r \in kp : \/ r \in HeldOf(rd.found)
                     \/ /\ Due(r, rd.days) \/ Cardinality(rd.found) >= rd.count
                        /\ \A l \in rd.found : TimeOf[r] <= TimeOf[l.record]
\* There is enough, and what lacks is from before the window or its day is due.
Onwards(rd, kp) ==
    /\ Cardinality(rd.found) >= rd.count
    /\ \A l \in rd.found : rd.start <= TimeOf[l.record]
    /\ \A r \in kp : \/ r \in HeldOf(rd.found) \/ TimeOf[r] < rd.start
                     \/ Due(r, rd.days) /\ TimeOf[r] <= rd.oldest

Recalling ==
    /\ InFiles(reader.found, file) /\ \A r \in kept : Findable(r, file, writer)
    /\ reader.at = "recent" => Backwards(reader, kept)
    /\ reader.at = "window" => Onwards(reader, kept)
RecoveryInv ==
    /\ StoreInv /\ IndexReaches /\ ReaderTypes /\ RecallWhole
    /\ reader.at # "idle" /\ shifted = {} => Recalling

\* What a query takes over from a file: all of the lines asked for.
Queried(s, k, found, f, w) ==
    /\ Len(s) \in Nat /\ Parsed(s) = 1..Len(s) /\ Good(s)
    /\ \A i \in 1..Len(s) : s[i] \in ReadLines /\ KeyOf[s[i].record] = k
    /\ \A r \in Recs(f[k]) : r \notin Recs(w[k].lines) => r \in Recs(s)
    /\ \A I : I \subseteq 1..Len(s) =>
          /\ FoundTypes(Taken(found, s, I)) /\ InFiles(Taken(found, s, I), f)
          /\ Taken(found, s, I) = found \cup {s[i] : i \in I}
LEMMA QueryTakes ==
  ASSUME StoreInv, IndexReaches, NEW k \in Keys, Loads(k), Calm(k),
         NEW found, FoundTypes(found), InFiles(found, file)
  PROVE  Queried(index'[k], k, found, file, writer)
<1> DEFINE s == index'[k]
<1>1. /\ s \in Seq([record : Records \cup {Torn}, sn : Nat]) /\ StartOf(s, file[k])
      /\ \A r \in Recs(file[k]) : r \notin Recs(writer[k].lines) => r \in Recs(s)
  BY QueryReads
<1> HIDE DEF s
<1>2. Len(s) \in Nat /\ DOMAIN s = 1..Len(s) /\ Len(file[k]) \in Nat
  BY <1>1, FileParts
<1>3. \A i \in 1..Len(s) : i \in 1..Len(file[k]) /\ s[i] = file[k][i]
  BY <1>1, <1>2 DEF StartOf
<1>4. Good(file[k]) /\ \A i \in 1..Len(file[k]) : file[k][i] \in ReadLines /\ KeyOf[file[k][i].record] = k
  BY CalmFile DEF ReadLines
<1>5. Good(s)
  BY <1>1, <1>2, <1>4, StartIsGood
<1>6. \A i \in 1..Len(s) : s[i] \in ReadLines /\ KeyOf[s[i].record] = k
  BY <1>3, <1>4
<1>7. Parsed(s) = 1..Len(s)
  <2>1. \A i \in 1..Len(s) : s[i].record # Torn
    BY <1>6, StoreAssumption DEF ReadLines
  <2> QED BY <1>2, <2>1 DEF Parsed
<1>8. \A i \in 1..Len(s) : s[i].sn = i
  BY <1>5 DEF Good
<1>9. ASSUME NEW l \in found, NEW i \in 1..Len(s), Same(l, s[i]) PROVE l = s[i]
  <2>1. l \in ReadLines /\ l.record \in Records
    BY DEF FoundTypes, ReadLines
  <2>2. TimeOf[l.record] = TimeOf[s[i].record] /\ l.sn = s[i].sn
    BY <1>9 DEF Same
  <2>3. Day[KeyOf[l.record]] = Day[k] /\ KeyOf[l.record] \in Keys
    BY <1>6, <2>1, <2>2, RecoveryAssumption, StoreAssumption DEF ReadLines
  <2>4. KeyOf[l.record] = k
    BY <2>3, RecoveryAssumption
  <2>5. l = file[k][l.sn] /\ l.sn = i
    BY <1>8, <2>2, <2>4 DEF InFiles
  <2> QED BY <1>3, <2>5
<1>10. ASSUME NEW I, I \subseteq 1..Len(s)
       PROVE  /\ FoundTypes(Taken(found, s, I)) /\ InFiles(Taken(found, s, I), file)
              /\ Taken(found, s, I) = found \cup {s[i] : i \in I}
  <2> DEFINE T == Taken(found, s, I)
  <2>1. /\ FoundTypes(T) /\ found \subseteq T
        /\ \A l \in T : l \in found \/ \E i \in I : l = s[i]
        /\ \A i \in I : \E l \in T : Same(l, s[i])
    BY <1>1, <1>7, <1>10, TakenIs
  <2> HIDE DEF T
  <2>2. ASSUME NEW i \in I PROVE s[i] \in T
    <3>1. PICK l \in T : Same(l, s[i])
      BY <2>1
    <3>2. CASE l \in found
      BY <1>9, <1>10, <3>1, <3>2
    <3>3. CASE l \notin found
      <4>1. PICK j \in I : l = s[j]
        BY <2>1, <3>3
      <4>2. s[j].sn = s[i].sn /\ s[j].sn = j /\ s[i].sn = i
        BY <1>8, <1>10, <3>1, <4>1 DEF Same
      <4> QED BY <3>1, <4>1, <4>2
    <3> QED BY <3>2, <3>3
  <2>3. T = found \cup {s[i] : i \in I}
    BY <2>1, <2>2
  <2>4. InFiles(T, file)
    <3> SUFFICES ASSUME NEW l \in T
                 PROVE  l.sn \in 1..Len(file[KeyOf[l.record]]) /\ l = file[KeyOf[l.record]][l.sn]
      BY DEF InFiles
    <3>1. CASE l \in found
      BY <3>1 DEF InFiles
    <3>2. CASE l \notin found
      <4>1. PICK i \in 1..Len(s) : l = s[i]
        BY <1>10, <2>1, <3>2
      <4> QED BY <1>3, <1>6, <1>8, <4>1
    <3> QED BY <3>1, <3>2
  <2> QED BY <2>1, <2>3, <2>4 DEF T
<1> QED BY <1>1, <1>2, <1>5, <1>6, <1>7, <1>10 DEF s, Queried

\* No record is found twice.
LEMMA HeldOnce ==
  ASSUME StoreInv, NEW found, FoundTypes(found), InFiles(found, file), \A k \in Keys : Calm(k)
  PROVE  Cardinality(HeldOf(found)) = Cardinality(found)
<1> DEFINE f == [l \in found |-> l.record]
           H == HeldOf(found)
<1>1. f \in Surjection(found, H)
  BY DEF Surjection, HeldOf
<1>2. ASSUME NEW l \in found, NEW m \in found, l.record = m.record PROVE l = m
  <2> DEFINE k == KeyOf[l.record]
  <2>1. l.record \in Records /\ k \in Keys
    BY StoreAssumption DEF FoundTypes, ReadLines
  <2>2. /\ l.sn \in 1..Len(file[k]) /\ l = file[k][l.sn]
        /\ m.sn \in 1..Len(file[k]) /\ m = file[k][m.sn]
    BY <1>2 DEF InFiles
  <2>3. Good(file[k]) /\ Len(file[k]) \in Nat
    BY <2>1, CalmFile, FileParts
  <2> HIDE DEF k
  <2>4. ~(l.sn < m.sn) /\ ~(m.sn < l.sn)
    BY <1>2, <2>2, <2>3 DEF Good
  <2>5. l.sn = m.sn
    BY <2>2, <2>3, <2>4
  <2> QED BY <2>2, <2>5
<1>3. f \in Injection(found, H)
  BY <1>1, <1>2 DEF Injection, IsInjective, Surjection
<1> HIDE DEF f, H
<1>4. Cardinality(H) = Cardinality(found)
  <2>1. IsFiniteSet(found)
    BY DEF FoundTypes
  <2>2. IsFiniteSet(H) /\ (Cardinality(H) = Cardinality(found) <=> f \in Injection(found, H))
    BY <1>1, <2>1, FS_Surjection
  <2> QED BY <1>3, <2>2
<1> QED BY <1>4 DEF H

LEMMA StoreStepRecalls ==
  ASSUME RecoveryInv, StoreNext, reader.at # "done",
         shifted' = IF reader = Nothing THEN {} ELSE shifted \cup Shifted,
         UNCHANGED <<reader, kept>>
  PROVE  RecoveryInv'
<1>1. StoreInv' /\ IndexReaches'
  BY StoreStepKeeps, IndexReachesKept DEF RecoveryInv
<1>2. dated' \subseteq Keys
  <2>1. dated \subseteq Keys
    BY DEF RecoveryInv, ReaderTypes
  <2>2. ASSUME NEW k \in Keys, EndWrite(k) PROVE dated' \subseteq Keys
    BY <2>1, <2>2 DEF EndWrite, Hook
  <2>3. ASSUME Scan PROVE dated' \subseteq Keys
    BY <2>1, <2>3 DEF Scan
  <2>4. ASSUME dated' = dated PROVE dated' \subseteq Keys
    BY <2>1, <2>4
  <2>5. ASSUME NEW q \in Requests, Accept(q) PROVE dated' = dated
    BY <2>5 DEF Accept, days
  <2>6. ASSUME NEW q \in Requests, NEW k \in Keys, Check(q, k) \/ CheckFails(q, k)
        PROVE  dated' = dated
    BY <2>6 DEF Check, CheckFails, days
  <2>7. ASSUME NEW k \in Keys, NEW n \in 1..Len(queue[k]), Take(k, n) \/ TakeFails(k, n)
        PROVE  dated' = dated
    BY <2>7 DEF Take, TakeFails, days
  <2>8. ASSUME NEW k \in Keys, WriteLine(k) \/ WriteFails(k) \/ Query(k) PROVE dated' = dated
    BY <2>8 DEF WriteLine, WriteFails, Query, days
  <2> QED BY <2>2, <2>3, <2>4, <2>5, <2>6, <2>7, <2>8 DEF StoreNext
<1>3. reader' = reader /\ kept' = kept
  OBVIOUS
<1>4. ASSUME reader.at # "idle", shifted' = {}
      PROVE  shifted = {} /\ (\A k \in Keys : Calm(k) /\ Calm(k)')
  <2>1. reader # Nothing
    BY <1>4 DEF Nothing
  <2>2. shifted = {} /\ Shifted = {}
    BY <1>4, <2>1
  <2>3. \A k \in Keys : writer'[k].mode # "rewrite" /\ k \notin damaged'
    BY <2>2 DEF Shifted
  <2>4. \A k \in Keys : Calm(k)
    BY <1>4, <2>2 DEF RecoveryInv, ReaderTypes
  <2> QED BY <2>2, <2>3, <2>4 DEF Calm
<1>5. ReaderTypes'
  <2>1. ReaderTypes
    BY DEF RecoveryInv
  <2>2. reader.at # "idle" /\ shifted' = {} => \A k \in Keys : Calm(k)'
    BY <1>4
  <2> QED BY <1>2, <1>3, <2>1, <2>2 DEF ReaderTypes, Readers
<1>6. RecallWhole'
  BY <1>3 DEF RecallWhole
<1>7. ASSUME reader.at # "idle", shifted' = {} PROVE Recalling'
  <2>1. Recalling /\ \A k \in Keys : Grows(k)
    BY <1>4, <1>7, FilesGrow DEF RecoveryInv
  <2>2. \A k \in Keys : Len(file[k]) \in Nat /\ Len(file'[k]) \in Nat
    <3>1. \A k \in Keys : Len(file[k]) \in Nat
      BY FileParts DEF RecoveryInv
    <3>2. ASSUME NEW k \in Keys PROVE Len(file'[k]) \in Nat
      <4>1. file'[k] \in Seq(LinesOf(k)')
        BY <1>1 DEF StoreInv, FileInv, FileTypes
      <4> QED BY <4>1
    <3> QED BY <3>1, <3>2
  <2>3. InFiles(reader.found, file')
    <3>1. ASSUME NEW l \in reader.found
          PROVE  l.sn \in 1..Len(file'[KeyOf[l.record]]) /\ l = file'[KeyOf[l.record]][l.sn]
      <4> DEFINE k == KeyOf[l.record]
      <4>1. l \in ReadLines
        BY DEF RecoveryInv, ReaderTypes, FoundTypes
      <4>2. k \in Keys
        BY <4>1, StoreAssumption DEF ReadLines
      <4>3. l.sn \in 1..Len(file[k]) /\ l = file[k][l.sn]
        BY <2>1 DEF Recalling, InFiles
      <4>4. Len(file[k]) <= Len(file'[k]) /\ file'[k][l.sn] = file[k][l.sn]
        BY <2>1, <4>2, <4>3 DEF Grows
      <4> HIDE DEF k
      <4>5. l.sn \in 1..Len(file'[k])
        BY <2>2, <4>2, <4>3, <4>4
      <4> QED BY <4>3, <4>4, <4>5 DEF k
    <3> QED BY <3>1 DEF InFiles
  <2>4. ASSUME NEW r \in kept PROVE Findable(r, file', writer')
    <3> DEFINE k == KeyOf[r]
    <3>1. r \in Records /\ r \in Recs(file[k]) /\ r \notin Recs(writer[k].lines)
      BY <2>1 DEF Recalling, Findable
    <3>2. k \in Keys
      BY <3>1, StoreAssumption
    <3>3. Grows(k)
      BY <2>1, <3>2
    <3> HIDE DEF k
    <3>4. PICK i \in 1..Len(file[k]) : file[k][i].record = r
      BY <3>1, RecsIn
    <3>5. i \in 1..Len(file'[k]) /\ file'[k][i].record = r
      BY <2>2, <3>2, <3>3, <3>4 DEF Grows
    <3>6. r \in Recs(file'[k])
      BY <3>5, RecsIn
    <3>7. r \notin Recs(writer'[k].lines)
      BY <3>1, <3>3 DEF Grows
    <3> QED BY <3>1, <3>6, <3>7 DEF Findable, k
  <2>5. /\ reader.at = "recent" => Backwards(reader, kept)
        /\ reader.at = "window" => Onwards(reader, kept)
    BY <2>1 DEF Recalling
  <2>6. /\ reader'.at = "recent" => Backwards(reader', kept')
        /\ reader'.at = "window" => Onwards(reader', kept')
    BY <1>3, <2>5
  <2> QED BY <1>3, <2>3, <2>4, <2>6 DEF Recalling
<1> QED BY <1>1, <1>3, <1>5, <1>6, <1>7 DEF RecoveryInv

LEMMA NothingTypes == Nothing \in Readers /\ FoundTypes(Nothing.found) /\ Nothing.at = "idle"
<1>1. IsFiniteSet({})
  BY FS_EmptySet
<1> QED BY <1>1 DEF Nothing, Readers, FoundTypes

LEMMA RestRecalls ==
  ASSUME StoreInv', IndexReaches', dated' \subseteq Keys, Rest
  PROVE  RecoveryInv'
<1>1. reader' = Nothing /\ reader'.at = "idle"
  BY NothingTypes DEF Rest
<1>2. ReaderTypes'
  BY <1>1, NothingTypes DEF ReaderTypes, Readers
<1>3. RecallWhole'
  BY <1>1 DEF RecallWhole
<1> QED BY <1>1, <1>2, <1>3 DEF RecoveryInv

LEMMA FailedReadRecalls ==
  ASSUME RecoveryInv, ReadFails
  PROVE  RecoveryInv'
<1>1. /\ file' = file /\ open' = open /\ damaged' = damaged /\ state' = state /\ queue' = queue
      /\ writer' = writer /\ step' = step /\ checked' = checked /\ index' = index
      /\ stale' = stale /\ dated' = dated /\ scanned' = scanned /\ lost' = lost
      /\ failures' = failures + 1 /\ Rest
  BY DEF ReadFails, Fails, files, requests, indices, days
<1>2. StoreInv /\ IndexReaches /\ dated \subseteq Keys
  BY DEF RecoveryInv, ReaderTypes
<1>3. Shapes' /\ failures' # 0
  BY <1>1, <1>2 DEF StoreInv, Shapes
<1>4. ASSUME NEW k \in Keys PROVE FileInv(k)'
  <2>1. FileInv(k) /\ OfKey(k)' = OfKey(k)
    BY <1>1, <1>2 DEF StoreInv, OfKey
  <2> QED BY <1>1, <1>3, <2>1, FileStays
<1>5. StoreInv'
  BY <1>3, <1>4 DEF StoreInv
<1>6. IndexReaches'
  BY <1>1, <1>2 DEF IndexReaches
<1> QED BY <1>1, <1>2, <1>5, <1>6, RestRecalls

LEMMA BeginRecalls ==
  ASSUME RecoveryInv, NEW n \in Counts, NEW start \in Starts, Begin(n, start)
  PROVE  RecoveryInv'
<1>1. StoreInv /\ IndexReaches /\ ReaderTypes /\ StoreInv' /\ IndexReaches' /\ file' = file
      /\ writer' = writer /\ damaged' = damaged /\ dated' = dated
  <2>1. UNCHANGED vars
    BY DEF Begin
  <2>2. StoreInv /\ IndexReaches /\ ReaderTypes
    BY DEF RecoveryInv
  <2>3. IndexReaches'
    BY <2>1, <2>2, IndexReachesKept
  <2>4. StoreInv'
    BY <2>1, <2>2, StoreStays
  <2> QED BY <2>1, <2>2, <2>3, <2>4 DEF vars, files, days
<1>2. n \in Nat /\ n > 0 /\ start \in DOMAIN DayOf /\ start \in Nat
  BY RecoveryAssumption
<1>3. dated \subseteq Keys
  BY <1>1 DEF ReaderTypes
<1> DEFINE list == Sorted(dated, Later)
<1>4. DaysOf(list, dated) /\ \A i, j \in 1..Len(list) : i < j => Day[list[i]] > Day[list[j]]
  BY <1>3, DaysOrdered, DaysBackwards
<1> HIDE DEF list
<1>5. reader' = [at |-> "recent", count |-> n, start |-> start, days |-> list, found |-> {}, oldest |-> 0]
  BY DEF Begin, Nothing, list
<1>6. reader' \in Readers /\ FoundTypes(reader'.found)
  <2>1. FoundTypes({})
    BY NothingTypes DEF Nothing
  <2>2. list \in Seq(Keys)
    BY <1>4 DEF DaysOf
  <2> QED BY <1>2, <1>5, <2>1, <2>2 DEF Readers
<1>7. ASSUME shifted' = {} PROVE \A k \in Keys : Calm(k) /\ Calm(k)'
  BY <1>1, <1>7 DEF Begin, Calm
<1>8. ReaderTypes'
  BY <1>1, <1>2, <1>3, <1>5, <1>6, <1>7 DEF ReaderTypes, Readers
<1>9. RecallWhole'
  BY <1>5 DEF RecallWhole
<1>10. ASSUME shifted' = {} PROVE Recalling'
  <2>1. ASSUME NEW r \in kept' PROVE Findable(r, file, writer) /\ Due(r, list)
    <3>1. PICK k \in dated : r \in ReadableNow(k)
      BY DEF Begin
    <3>2. k \in Keys /\ Calm(k)
      BY <1>3, <1>7, <1>10
    <3>3. r \in InFile(k) /\ r \notin Waiting(k)
      BY <3>1, <3>2 DEF ReadableNow, Calm
    <3>4. /\ file[k] \in Seq(LinesOf(k)) /\ writer[k].lines \in Seq(LinesOf(k))
      BY <1>1, <3>2, FileParts
    <3>5. PICK i \in 1..Len(file[k]) : file[k][i].record = r
      BY <3>3, <3>4 DEF InFile, Lines
    <3>6. r \notin Recs(writer[k].lines)
      BY <3>3, <3>4 DEF Waiting, Recs
    <3>7. r \in Records /\ KeyOf[r] = k
      BY <1>1, <3>2, <3>5, CalmFile
    <3>8. Findable(r, file, writer)
      BY <3>5, <3>6, <3>7, RecsIn DEF Findable
    <3>9. Due(r, list)
      BY <1>4, <3>1, <3>7 DEF Due, DaysOf
    <3> QED BY <3>8, <3>9
  <2>2. Backwards(reader', kept')
    BY <1>4, <1>5, <2>1 DEF Backwards
  <2>3. InFiles(reader'.found, file')
    BY <1>5 DEF InFiles
  <2>4. reader'.at = "recent"
    BY <1>5
  <2> QED BY <1>1, <2>1, <2>2, <2>3, <2>4 DEF Recalling
<1> QED BY <1>1, <1>8, <1>9, <1>10 DEF RecoveryInv

\* What a day's query leaves of the store as it was.
LEMMA QueryLeaves ==
  ASSUME RecoveryInv, NEW k \in Keys, Loads(k)
  PROVE  /\ StoreInv' /\ IndexReaches' /\ file' = file /\ writer' = writer
         /\ damaged' = damaged /\ dated' = dated
         /\ index'[k] \in Seq([record : Records \cup {Torn}, sn : Nat])
<1>1. StoreInv /\ IndexReaches
  BY DEF RecoveryInv
<1>2. StoreInv' /\ IndexReaches'
  BY <1>1, ReadsKeep, IndexReachesKept
<1>3. file' = file /\ writer' = writer /\ damaged' = damaged /\ dated' = dated
  BY DEF Loads, files, days
<1>4. index'[k] \in Seq([record : Records \cup {Torn}, sn : Nat])
  BY <1>2 DEF StoreInv, FileInv, FileTypes
<1> QED BY <1>2, <1>3, <1>4

\* The first of a list of days, and the others.
LEMMA FirstDay ==
  ASSUME NEW list \in Seq(Keys), list # <<>>
  PROVE  /\ Head(list) \in Keys /\ Head(list) = list[1] /\ Tail(list) \in Seq(Keys)
         /\ Len(list) \in Nat /\ 1 \in 1..Len(list) /\ Len(Tail(list)) = Len(list) - 1
         /\ \A i \in 1..Len(Tail(list)) : i + 1 \in 1..Len(list) /\ Tail(list)[i] = list[i + 1]
         /\ \A r : Due(r, list) => KeyOf[r] = Head(list) \/ Due(r, Tail(list))
<1>1. /\ Head(list) = list[1] /\ Tail(list) \in Seq(Keys) /\ Len(list) \in Nat /\ 1 \in 1..Len(list)
      /\ Len(Tail(list)) = Len(list) - 1
  OBVIOUS
<1>2. list[1] \in Keys
  BY <1>1, ElementOfSeq
<1>3. \A i \in 1..Len(Tail(list)) : i + 1 \in 1..Len(list) /\ Tail(list)[i] = list[i + 1]
  BY <1>1
<1>4. ASSUME NEW r, Due(r, list), KeyOf[r] # Head(list) PROVE Due(r, Tail(list))
  <2>1. PICK i \in 1..Len(list) : list[i] = KeyOf[r]
    BY <1>4 DEF Due
  <2>2. i # 1
    BY <1>1, <1>4, <2>1
  <2>3. i - 1 \in 1..Len(Tail(list)) /\ (i - 1) + 1 = i
    BY <1>1, <2>1, <2>2
  <2>4. Tail(list)[i - 1] = list[i]
    BY <1>3, <2>3
  <2> QED BY <2>1, <2>3, <2>4 DEF Due
<1> QED BY <1>1, <1>2, <1>3, <1>4

\* Of records of different days the one of the earlier day is the earlier.
LEMMA EarlierDay ==
  ASSUME NEW r \in Records, NEW s \in Records, Day[KeyOf[r]] < Day[KeyOf[s]]
  PROVE  TimeOf[r] <= TimeOf[s]
<1>1. /\ TimeOf[r] \in DOMAIN DayOf /\ TimeOf[s] \in DOMAIN DayOf
      /\ DayOf[TimeOf[r]] = Day[KeyOf[r]] /\ DayOf[TimeOf[s]] = Day[KeyOf[s]]
      /\ TimeOf[r] \in Nat /\ TimeOf[s] \in Nat
  BY RecoveryAssumption
<1>2. Day[KeyOf[r]] \in Nat /\ Day[KeyOf[s]] \in Nat
  BY RecoveryAssumption, StoreAssumption
<1>3. ASSUME TimeOf[s] <= TimeOf[r] PROVE FALSE
  <2>1. DayOf[TimeOf[s]] <= DayOf[TimeOf[r]]
    BY <1>1, <1>3, RecoveryAssumption
  <2> QED BY <1>1, <1>2, <2>1
<1> QED BY <1>1, <1>3

LEMMA ReadRecentRecalls ==
  ASSUME RecoveryInv, ReadRecent
  PROVE  RecoveryInv'
<1> DEFINE k == Head(reader.days)
           s == index'[k]
           n == reader.count - Cardinality(reader.found)
           I == LastOf(Parsed(s), n)
           T == Taken(reader.found, s, I)
<1>1. /\ reader.at = "recent" /\ reader.days # <<>> /\ Cardinality(reader.found) < reader.count
      /\ Loads(k) /\ kept' = kept /\ shifted' = shifted
      /\ reader' = [reader EXCEPT !.days = Tail(reader.days), !.found = T]
  BY DEF ReadRecent, Reading
<1>2. /\ reader \in Readers /\ FoundTypes(reader.found) /\ dated \subseteq Keys
      /\ reader.count > 0 /\ reader.start \in DOMAIN DayOf
      /\ shifted = {} => \A j \in Keys : Calm(j)
  BY <1>1 DEF RecoveryInv, ReaderTypes
<1>3. reader.days \in Seq(Keys) /\ reader.count \in Nat
  BY <1>2 DEF Readers
<1>4. k \in Keys /\ Tail(reader.days) \in Seq(Keys)
  BY <1>1, <1>3, FirstDay
<1> HIDE DEF k
<1>5. /\ StoreInv' /\ IndexReaches' /\ file' = file /\ writer' = writer
      /\ damaged' = damaged /\ dated' = dated
      /\ s \in Seq([record : Records \cup {Torn}, sn : Nat])
  BY <1>1, <1>4, QueryLeaves
<1> HIDE DEF s, n
<1>6. FoundTypes(T)
  <2>1. I \subseteq Parsed(s)
    BY DEF LastOf
  <2> HIDE DEF I
  <2> QED BY <1>2, <1>5, <2>1, TakenIs
<1> HIDE DEF I, T
<1>7. /\ reader' \in Readers /\ reader'.at = "recent" /\ reader'.count = reader.count
      /\ reader'.start = reader.start /\ reader'.days = Tail(reader.days) /\ reader'.found = T
  <2>1. T \subseteq ReadLines
    BY <1>6 DEF FoundTypes
  <2> QED BY <1>1, <1>2, <1>4, <2>1 DEF Readers
<1>8. ReaderTypes'
  <2>1. shifted' = {} => \A j \in Keys : Calm(j)'
    BY <1>1, <1>2, <1>5 DEF Calm
  <2> QED BY <1>2, <1>5, <1>6, <1>7, <2>1 DEF ReaderTypes, Readers
<1>9. RecallWhole'
  BY <1>7 DEF RecallWhole
<1>10. ASSUME shifted' = {} PROVE Recalling'
  <2>1. shifted = {} /\ StoreInv /\ IndexReaches /\ Recalling /\ \A j \in Keys : Calm(j)
    BY <1>1, <1>2, <1>10 DEF RecoveryInv
  <2>2. /\ InFiles(reader.found, file) /\ Backwards(reader, kept)
        /\ \A r \in kept : Findable(r, file, writer)
    BY <1>1, <2>1 DEF Recalling
  <2>3. /\ Len(s) \in Nat /\ Parsed(s) = 1..Len(s) /\ Good(s)
        /\ \A i \in 1..Len(s) : s[i] \in ReadLines /\ KeyOf[s[i].record] = k
        /\ \A r \in Recs(file[k]) : r \notin Recs(writer[k].lines) => r \in Recs(s)
        /\ \A J : J \subseteq 1..Len(s) =>
               /\ FoundTypes(Taken(reader.found, s, J))
               /\ InFiles(Taken(reader.found, s, J), file)
               /\ Taken(reader.found, s, J) = reader.found \cup {s[i] : i \in J}
    <3>1. Queried(index'[k], k, reader.found, file, writer)
      BY <1>1, <1>2, <1>4, <2>1, <2>2, QueryTakes
    <3> QED BY <3>1 DEF s, Queried
  <2>4. Cardinality(reader.found) \in Nat
    BY <1>2, FS_CardinalityType DEF FoundTypes
  <2>5. n \in Nat /\ n > 0 /\ n + Cardinality(reader.found) = reader.count
    BY <1>1, <1>3, <2>4 DEF n
  <2>6. /\ I \subseteq 1..Len(s) /\ Cardinality(I) = (IF n <= Len(s) THEN n ELSE Len(s))
        /\ \A i \in 1..Len(s) : i \in I <=> Len(s) - i + 1 <= n
    BY <2>3, <2>5, LastPlaces DEF I
  <2>7. T = reader.found \cup {s[i] : i \in I} /\ InFiles(T, file)
    BY <2>3, <2>6 DEF T
  <2>8. \A l \in reader.found : Day[k] < Day[KeyOf[l.record]]
    <3>1. k = reader.days[1] /\ 1 \in 1..Len(reader.days)
      BY <1>1, <1>3, FirstDay DEF k
    <3> QED BY <2>2, <3>1 DEF Backwards
  <2>9. \A j \in Keys : Day[j] \in Nat
    BY RecoveryAssumption
  <2>10. Cardinality(T) = Cardinality(reader.found) + Cardinality(I)
    <3> DEFINE new == {s[i] : i \in I}
    <3>1. IsFiniteSet(I)
      <4>1. IsFiniteSet(1..Len(s))
        BY <2>3, FS_Interval
      <4> QED BY <2>6, <4>1, FS_Subset
    <3>2. \A i, j \in I : s[i] = s[j] => i = j
      BY <2>3, <2>6 DEF Good
    <3>3. IsFiniteSet(new) /\ Cardinality(new) = Cardinality(I)
      BY <3>1, <3>2, LinesAt
    <3>4. ASSUME NEW l \in reader.found \cap new PROVE FALSE
      <4>1. PICK i \in I : l = s[i]
        OBVIOUS
      <4>2. KeyOf[l.record] = k
        BY <2>3, <2>6, <4>1
      <4> QED BY <1>4, <2>8, <2>9, <4>2
    <3> HIDE DEF new
    <3>5. IsFiniteSet(reader.found) /\ reader.found \cap new = {}
      BY <1>2, <3>4 DEF FoundTypes
    <3>6. Cardinality(reader.found \cup new) =
             Cardinality(reader.found) + Cardinality(new) - Cardinality(reader.found \cap new)
      BY <3>3, <3>5, FS_Union
    <3>7. Cardinality({}) = 0
      BY FS_EmptySet
    <3>8. Cardinality(new) \in Nat
      BY <3>3, FS_CardinalityType
    <3>9. T = reader.found \cup new
      BY <2>7 DEF new
    <3>10. Cardinality(reader.found \cap new) = 0
      BY <3>5, <3>7
    <3>11. Cardinality(T) = Cardinality(reader.found) + Cardinality(new)
      BY <2>4, <3>6, <3>8, <3>9, <3>10
    <3> QED BY <3>3, <3>11
  <2> DEFINE rest == Tail(reader.days)
  <2>11. /\ \A i, j \in 1..Len(rest) : i < j => Day[rest[i]] > Day[rest[j]]
         /\ \A i \in 1..Len(rest) : Day[rest[i]] < Day[k]
    <3> DEFINE list == reader.days
    <3>1. /\ list[1] = k /\ 1 \in 1..Len(list) /\ Len(list) \in Nat /\ Len(rest) = Len(list) - 1
          /\ \A i \in 1..Len(rest) : i + 1 \in 1..Len(list) /\ rest[i] = list[i + 1]
      BY <1>1, <1>3, FirstDay DEF k
    <3>2. \A i, j \in 1..Len(list) : i < j => Day[list[i]] > Day[list[j]]
      BY <2>2 DEF Backwards
    <3> HIDE DEF list, rest
    <3>3. ASSUME NEW i \in 1..Len(rest), NEW j \in 1..Len(rest), i < j
          PROVE  Day[rest[i]] > Day[rest[j]]
      <4>1. i + 1 \in 1..Len(list) /\ j + 1 \in 1..Len(list) /\ i + 1 < j + 1
        BY <3>1, <3>3
      <4> QED BY <3>1, <3>2, <4>1
    <3>4. ASSUME NEW i \in 1..Len(rest) PROVE Day[rest[i]] < Day[k]
      <4>1. i + 1 \in 1..Len(list) /\ 1 < i + 1 /\ rest[i] = list[i + 1]
        BY <3>1
      <4>2. Day[list[1]] > Day[list[i + 1]]
        BY <3>1, <3>2, <4>1
      <4>3. rest[i] \in Keys
        BY <1>4, ElementOfSeq DEF rest
      <4> QED BY <1>4, <2>9, <3>1, <4>1, <4>2, <4>3
    <3> QED BY <3>3, <3>4
  <2>12. \A r : Due(r, reader.days) => KeyOf[r] = k \/ Due(r, rest)
    BY <1>1, <1>3, FirstDay DEF k
  <2>13. \A i \in 1..Len(rest) : rest[i] \in Keys
    BY <1>4, ElementOfSeq
  <2> HIDE DEF rest
  <2>14. ASSUME NEW l \in T, NEW i \in 1..Len(rest) PROVE Day[rest[i]] < Day[KeyOf[l.record]]
    <3>1. CASE l \in reader.found
      <4>1. KeyOf[l.record] \in Keys
        BY <1>2, <3>1, StoreAssumption DEF FoundTypes, ReadLines
      <4> QED BY <1>4, <2>8, <2>9, <2>11, <2>13, <3>1, <4>1
    <3>2. CASE l \notin reader.found
      <4>1. PICK j \in I : l = s[j]
        BY <2>7, <3>2
      <4>2. KeyOf[l.record] = k
        BY <2>3, <2>6, <4>1
      <4> QED BY <2>11, <4>2
    <3> QED BY <3>1, <3>2
  <2>15. ASSUME NEW r \in kept
         PROVE  \/ r \in HeldOf(T)
                \/ /\ Due(r, rest) \/ Cardinality(T) >= reader.count
                   /\ \A l \in T : TimeOf[r] <= TimeOf[l.record]
    <3>1. Findable(r, file, writer)
      BY <2>2
    <3>2. CASE r \in HeldOf(reader.found)
      BY <2>7, <3>2 DEF HeldOf
    <3>3. CASE r \notin HeldOf(reader.found)
      <4>1. /\ Due(r, reader.days) \/ Cardinality(reader.found) >= reader.count
            /\ \A l \in reader.found : TimeOf[r] <= TimeOf[l.record]
        BY <2>2, <3>3 DEF Backwards
      <4>2. Due(r, reader.days)
        BY <1>1, <1>3, <2>4, <4>1
      <4>3. CASE KeyOf[r] = k
        <5>1. r \in Recs(s)
          BY <2>3, <3>1, <4>3 DEF Findable
        <5>2. PICK i \in 1..Len(s) : s[i].record = r
          BY <5>1, RecsIn
        <5>3. CASE i \in I
          BY <2>7, <5>2, <5>3 DEF HeldOf
        <5>4. CASE i \notin I
          <6>1. Len(s) - i + 1 > n
            BY <2>3, <2>5, <2>6, <5>4
          <6>2. n <= Len(s)
            BY <2>3, <2>5, <6>1
          <6>3. Cardinality(T) >= reader.count
            BY <2>4, <2>5, <2>6, <2>10, <6>2
          <6>4. ASSUME NEW l \in T PROVE TimeOf[r] <= TimeOf[l.record]
            <7>1. CASE l \in reader.found
              BY <4>1, <7>1
            <7>2. CASE l \notin reader.found
              <8>1. PICK j \in I : l = s[j]
                BY <2>7, <7>2
              <8>2. j \in 1..Len(s) /\ Len(s) - j + 1 <= n
                BY <2>6
              <8>3. i < j
                BY <2>3, <2>5, <6>1, <8>2
              <8> QED BY <2>3, <5>2, <8>1, <8>2, <8>3 DEF Good
            <7> QED BY <7>1, <7>2
          <6> QED BY <6>3, <6>4
        <5> QED BY <5>3, <5>4
      <4>4. CASE KeyOf[r] # k
        <5>1. Due(r, rest)
          BY <2>12, <4>2, <4>4
        <5>2. Day[KeyOf[r]] < Day[k]
          BY <2>11, <5>1 DEF Due
        <5>3. ASSUME NEW l \in T PROVE TimeOf[r] <= TimeOf[l.record]
          <6>1. CASE l \in reader.found
            BY <4>1, <6>1
          <6>2. CASE l \notin reader.found
            <7>1. PICK j \in I : l = s[j]
              BY <2>7, <6>2
            <7>2. KeyOf[l.record] = k /\ l.record \in Records
              BY <2>3, <2>6, <7>1 DEF ReadLines
            <7>3. r \in Records
              BY <3>1 DEF Findable
            <7> QED BY <5>2, <7>2, <7>3, EarlierDay
          <6> QED BY <6>1, <6>2
        <5> QED BY <5>1, <5>3
      <4> QED BY <4>3, <4>4
    <3> QED BY <3>2, <3>3
  <2>16. Backwards(reader', kept')
    BY <1>1, <1>7, <2>11, <2>14, <2>15 DEF Backwards, rest
  <2>17. InFiles(reader'.found, file') /\ \A r \in kept' : Findable(r, file', writer')
    BY <1>1, <1>5, <1>7, <2>2, <2>7
  <2> QED BY <1>7, <2>16, <2>17 DEF Recalling
<1> QED BY <1>5, <1>8, <1>9, <1>10 DEF RecoveryInv

LEMMA EndRecentRecalls ==
  ASSUME RecoveryInv, EndRecent
  PROVE  RecoveryInv'
<1> DEFINE found == reader.found
           oldest == Oldest(found)
           from == From(reader.start, oldest)
           asked == {k \in Keys : Day[k] \in DayOf[from]..DayOf[oldest]}
           list == Sorted(asked, Sooner)
<1>1. UNCHANGED vars /\ kept' = kept /\ shifted' = shifted /\ reader.at = "recent"
  BY DEF EndRecent, Reading
<1>2. StoreInv /\ IndexReaches /\ StoreInv' /\ IndexReaches'
  BY <1>1, StoreStays, IndexReachesKept DEF RecoveryInv
<1>3. file' = file /\ writer' = writer /\ damaged' = damaged /\ dated' = dated
  BY <1>1 DEF vars, files, days
<1>4. /\ reader \in Readers /\ FoundTypes(found) /\ dated \subseteq Keys
      /\ reader.count > 0 /\ reader.start \in DOMAIN DayOf
      /\ shifted = {} => \A j \in Keys : Calm(j)
  BY <1>1 DEF RecoveryInv, ReaderTypes
<1>5. Cardinality(found) \in Nat /\ reader.count \in Nat /\ reader.days \in Seq(Keys)
      /\ reader.start \in Nat
  BY <1>4, FS_CardinalityType DEF FoundTypes, Readers
<1>6. ASSUME shifted = {}
      PROVE  /\ InFiles(found, file) /\ Backwards(reader, kept)
             /\ (\A r \in kept : Findable(r, file, writer))
             /\ Cardinality(HeldOf(found)) = Cardinality(found)
  <2>1. InFiles(found, file) /\ Backwards(reader, kept) /\ \A r \in kept : Findable(r, file, writer)
    BY <1>1, <1>6 DEF RecoveryInv, Recalling
  <2> QED BY <1>2, <1>4, <1>6, <2>1, HeldOnce
<1>7. CASE Cardinality(found) < reader.count
  <2>1. reader.days = <<>> /\ reader' = [reader EXCEPT !.at = "done", !.days = <<>>]
    BY <1>5, <1>7 DEF EndRecent
  <2>2. /\ reader' \in Readers /\ reader'.at = "done" /\ reader'.count = reader.count
        /\ reader'.start = reader.start /\ reader'.found = found
    <3>1. <<>> \in Seq(Keys)
      OBVIOUS
    <3> HIDE DEF found
    <3> QED BY <1>4, <2>1, <3>1 DEF Readers, found
  <2>3. ReaderTypes'
    BY <1>1, <1>3, <1>4, <2>2 DEF ReaderTypes, Readers, Calm
  <2>4. ASSUME shifted' = {} PROVE kept \subseteq HeldOf(found)
    <3>1. Backwards(reader, kept)
      BY <1>1, <1>6, <2>4
    <3>2. \A r : ~Due(r, reader.days)
      BY <2>1 DEF Due
    <3> QED BY <1>5, <1>7, <3>1, <3>2 DEF Backwards
  <2>5. RecallWhole'
    <3> SUFFICES ASSUME shifted' = {}
                 PROVE  LET held == {l.record : l \in found} IN
                          /\ Cardinality(held) = Cardinality(found)
                          /\ \A r \in kept, t \in held : TimeOf[t] <= TimeOf[r] => r \in held
                          /\ Cardinality(held) >= reader.count \/ kept \subseteq held
                          /\ Cardinality(held) >= reader.count =>
                                 \A r \in kept : reader.start <= TimeOf[r] => r \in held
      BY <1>1, <2>2 DEF RecallWhole
    <3> DEFINE held == {l.record : l \in found}
    <3>1. held = HeldOf(found)
      BY DEF HeldOf
    <3>2. kept \subseteq held /\ Cardinality(held) = Cardinality(found)
      BY <1>1, <1>6, <2>4, <3>1
    <3> QED BY <3>2
  <2>6. ASSUME shifted' = {} PROVE Recalling'
    BY <1>1, <1>3, <1>6, <2>2, <2>6 DEF Recalling
  <2> QED BY <1>2, <2>3, <2>5, <2>6 DEF RecoveryInv
<1>8. CASE ~(Cardinality(found) < reader.count)
  <2>1. reader' = [reader EXCEPT !.at = "window", !.oldest = oldest, !.start = from, !.days = list]
    BY <1>8 DEF EndRecent
  <2>2. found # {} /\ \A l \in found : l.record \in Records
    <3>1. found # {}
      BY <1>4, <1>5, <1>8, FS_EmptySet
    <3> QED BY <1>4, <3>1 DEF FoundTypes, ReadLines
  <2>3. /\ oldest \in {TimeOf[l.record] : l \in found}
        /\ \A l \in found : oldest <= TimeOf[l.record]
    <3> DEFINE Times == {TimeOf[l.record] : l \in found}
    <3>1. Times \subseteq Nat /\ Times # {}
      BY <2>2, StoreAssumption
    <3>2. PICK n \in Times : \A u \in Times : n <= u
      <4> HIDE DEF Times
      <4> QED BY <3>1, LeastOf
    <3>3. \E m \in Times : \A l \in found : m <= TimeOf[l.record]
      BY <3>2
    <3>4. oldest = CHOOSE t \in Times : \A l \in found : t <= TimeOf[l.record]
      BY DEF Oldest
    <3> HIDE DEF Times, oldest
    <3> QED BY <3>3, <3>4 DEF Times
  <2> HIDE DEF oldest
  <2>4. oldest \in Nat /\ oldest \in DOMAIN DayOf
    BY <2>2, <2>3, StoreAssumption, RecoveryAssumption
  <2>5. from \in Nat /\ from \in DOMAIN DayOf /\ from <= oldest
    BY <1>4, <1>5, <2>4 DEF From
  <2> HIDE DEF from, asked
  <2>6. DaysOf(list, asked)
    <3>1. asked \subseteq Keys
      BY DEF asked
    <3> QED BY <3>1, DaysOrdered
  <2> HIDE DEF list
  <2>7. list \in Seq(Keys)
    BY <2>6 DEF DaysOf
  <2>8. /\ reader' \in Readers /\ reader'.at = "window" /\ reader'.count = reader.count
        /\ reader'.start = from /\ reader'.found = found /\ reader'.oldest = oldest
        /\ reader'.days = list
    BY <1>4, <2>1, <2>4, <2>5, <2>7 DEF Readers
  <2>9. ReaderTypes'
    BY <1>1, <1>3, <1>4, <2>5, <2>8 DEF ReaderTypes, Readers, Calm
  <2>10. RecallWhole'
    BY <2>8 DEF RecallWhole
  <2>11. ASSUME shifted' = {} PROVE Recalling'
    <3>1. /\ InFiles(found, file) /\ Backwards(reader, kept)
          /\ \A r \in kept : Findable(r, file, writer)
      BY <1>1, <1>6, <2>11
    <3>2. \A l \in found : from <= TimeOf[l.record]
      <4>1. \A l \in found : TimeOf[l.record] \in Nat
        BY <2>2, StoreAssumption
      <4> QED BY <2>3, <2>4, <2>5, <4>1
    <3>3. ASSUME NEW r \in kept, r \notin HeldOf(found), ~(TimeOf[r] < from)
          PROVE  Due(r, list) /\ TimeOf[r] <= oldest
      <4>1. r \in Records /\ TimeOf[r] \in Nat /\ KeyOf[r] \in Keys
        BY <3>1, StoreAssumption DEF Findable
      <4>2. TimeOf[r] <= oldest
        <5>1. \A l \in found : TimeOf[r] <= TimeOf[l.record]
          BY <3>1, <3>3 DEF Backwards
        <5> QED BY <2>3, <5>1
      <4>3. TimeOf[r] \in DOMAIN DayOf /\ DayOf[TimeOf[r]] = Day[KeyOf[r]] /\ from <= TimeOf[r]
        BY <2>5, <3>3, <4>1, RecoveryAssumption
      <4>4. DayOf[from] <= DayOf[TimeOf[r]] /\ DayOf[TimeOf[r]] <= DayOf[oldest]
        BY <2>4, <2>5, <4>2, <4>3, RecoveryAssumption
      <4>5. DayOf[from] \in Nat /\ DayOf[oldest] \in Nat /\ Day[KeyOf[r]] \in Nat
        BY <2>4, <2>5, <4>1, RecoveryAssumption
      <4>6. KeyOf[r] \in asked
        BY <4>1, <4>3, <4>4, <4>5 DEF asked
      <4>7. Due(r, list)
        BY <2>6, <4>6 DEF DaysOf, Due
      <4> QED BY <4>2, <4>7
    <3>4. Cardinality(found) >= reader.count
      BY <1>5, <1>8
    <3>5. Onwards(reader', kept')
      BY <1>1, <2>8, <3>2, <3>3, <3>4 DEF Onwards
    <3> HIDE DEF found
    <3> QED BY <1>1, <1>3, <2>8, <3>1, <3>5 DEF Recalling
  <2> QED BY <1>2, <2>9, <2>10, <2>11 DEF RecoveryInv
<1> QED BY <1>7, <1>8

LEMMA ReadWindowRecalls ==
  ASSUME RecoveryInv, ReadWindow
  PROVE  RecoveryInv'
<1> DEFINE k == Head(reader.days)
           s == index'[k]
           I == {i \in Parsed(s) : TimeOf[s[i].record] \in reader.start..reader.oldest}
           T == Taken(reader.found, s, I)
<1>1. /\ reader.at = "window" /\ reader.days # <<>>
      /\ Loads(k) /\ kept' = kept /\ shifted' = shifted
      /\ reader' = [reader EXCEPT !.days = Tail(reader.days), !.found = T]
  BY DEF ReadWindow
<1>2. /\ reader \in Readers /\ FoundTypes(reader.found) /\ dated \subseteq Keys
      /\ reader.count > 0 /\ reader.start \in DOMAIN DayOf
      /\ shifted = {} => \A j \in Keys : Calm(j)
  BY <1>1 DEF RecoveryInv, ReaderTypes
<1>3. reader.days \in Seq(Keys) /\ reader.count \in Nat /\ reader.start \in Nat /\ reader.oldest \in Nat
  BY <1>2 DEF Readers
<1>4. k \in Keys /\ Tail(reader.days) \in Seq(Keys)
  BY <1>1, <1>3, FirstDay
<1> HIDE DEF k
<1>5. /\ StoreInv' /\ IndexReaches' /\ file' = file /\ writer' = writer
      /\ damaged' = damaged /\ dated' = dated
      /\ s \in Seq([record : Records \cup {Torn}, sn : Nat])
  BY <1>1, <1>4, QueryLeaves
<1> HIDE DEF s
<1>6. FoundTypes(T) /\ reader.found \subseteq T
  <2>1. I \subseteq Parsed(s)
    OBVIOUS
  <2> HIDE DEF I
  <2> QED BY <1>2, <1>5, <2>1, TakenIs
<1> HIDE DEF T, I
<1>7. /\ reader' \in Readers /\ reader'.at = "window" /\ reader'.count = reader.count
      /\ reader'.start = reader.start /\ reader'.oldest = reader.oldest
      /\ reader'.days = Tail(reader.days) /\ reader'.found = T
  <2>1. T \subseteq ReadLines
    BY <1>6 DEF FoundTypes
  <2> QED BY <1>1, <1>2, <1>4, <2>1 DEF Readers
<1>8. ReaderTypes'
  <2>1. shifted' = {} => \A j \in Keys : Calm(j)'
    BY <1>1, <1>2, <1>5 DEF Calm
  <2> QED BY <1>2, <1>5, <1>6, <1>7, <2>1 DEF ReaderTypes, Readers
<1>9. RecallWhole'
  BY <1>7 DEF RecallWhole
<1>10. ASSUME shifted' = {} PROVE Recalling'
  <2>1. shifted = {} /\ StoreInv /\ IndexReaches /\ Recalling /\ \A j \in Keys : Calm(j)
    BY <1>1, <1>2, <1>10 DEF RecoveryInv
  <2>2. /\ InFiles(reader.found, file) /\ Onwards(reader, kept)
        /\ \A r \in kept : Findable(r, file, writer)
    BY <1>1, <2>1 DEF Recalling
  <2>3. Queried(s, k, reader.found, file, writer)
    <3>1. Queried(index'[k], k, reader.found, file, writer)
      BY <1>1, <1>2, <1>4, <2>1, <2>2, QueryTakes
    <3> QED BY <3>1 DEF s
  <2>4. Parsed(s) = 1..Len(s) /\ \A i \in 1..Len(s) : s[i] \in ReadLines /\ TimeOf[s[i].record] \in Nat
    <3>1. Parsed(s) = 1..Len(s) /\ \A i \in 1..Len(s) : s[i] \in ReadLines
      BY <2>3 DEF Queried
    <3> QED BY <3>1, StoreAssumption DEF ReadLines
  <2>5. /\ I \subseteq 1..Len(s)
        /\ \A i \in 1..Len(s) : i \in I <=> /\ reader.start <= TimeOf[s[i].record]
                                            /\ TimeOf[s[i].record] <= reader.oldest
    BY <1>3, <2>4 DEF I
  <2>6. T = reader.found \cup {s[i] : i \in I} /\ InFiles(T, file)
    BY <2>3, <2>5 DEF T, Queried
  <2>7. Cardinality(T) >= reader.count
    <3>1. Cardinality(reader.found) <= Cardinality(T) /\ IsFiniteSet(reader.found)
      BY <1>6, FS_Subset DEF FoundTypes
    <3>2. Cardinality(reader.found) \in Nat /\ Cardinality(T) \in Nat
      BY <1>6, <3>1, FS_CardinalityType DEF FoundTypes
    <3> QED BY <1>3, <2>2, <3>1, <3>2 DEF Onwards
  <2>8. \A l \in T : reader.start <= TimeOf[l.record]
    BY <2>2, <2>5, <2>6 DEF Onwards
  <2>9. ASSUME NEW r \in kept, r \notin HeldOf(T), ~(TimeOf[r] < reader.start)
        PROVE  Due(r, Tail(reader.days)) /\ TimeOf[r] <= reader.oldest
    <3>1. Findable(r, file, writer)
      BY <2>2
    <3>2. r \notin HeldOf(reader.found)
      BY <1>6, <2>9 DEF HeldOf
    <3>3. Due(r, reader.days) /\ TimeOf[r] <= reader.oldest
      BY <2>2, <2>9, <3>2 DEF Onwards
    <3>4. ASSUME KeyOf[r] = k PROVE FALSE
      <4>1. r \in Recs(s)
        BY <2>3, <3>1, <3>4 DEF Findable, Queried
      <4>2. PICK i \in 1..Len(s) : s[i].record = r
        BY <4>1, RecsIn
      <4>3. reader.start <= TimeOf[r]
        <5>1. TimeOf[r] \in Nat
          BY <2>4, <4>2
        <5> QED BY <1>3, <2>9, <5>1
      <4>4. s[i] \in T
        BY <2>5, <2>6, <3>3, <4>2, <4>3
      <4> QED BY <2>9, <4>2, <4>4 DEF HeldOf
    <3>5. Due(r, Tail(reader.days))
      BY <1>1, <1>3, <3>3, <3>4, FirstDay DEF k
    <3> QED BY <3>3, <3>5
  <2>10. Onwards(reader', kept')
    BY <1>1, <1>7, <2>7, <2>8, <2>9 DEF Onwards
  <2>11. InFiles(reader'.found, file') /\ \A r \in kept' : Findable(r, file', writer')
    BY <1>1, <1>5, <1>7, <2>2, <2>6
  <2> QED BY <1>7, <2>10, <2>11 DEF Recalling
<1> QED BY <1>5, <1>8, <1>9, <1>10 DEF RecoveryInv

LEMMA EndWindowRecalls ==
  ASSUME RecoveryInv, EndWindow
  PROVE  RecoveryInv'
<1> DEFINE found == reader.found
<1>1. /\ UNCHANGED vars /\ kept' = kept /\ shifted' = shifted /\ reader.at = "window"
      /\ reader.days = <<>> /\ reader' = [reader EXCEPT !.at = "done"]
  BY DEF EndWindow
<1>2. StoreInv /\ IndexReaches /\ StoreInv' /\ IndexReaches'
  BY <1>1, StoreStays, IndexReachesKept DEF RecoveryInv
<1>3. file' = file /\ writer' = writer /\ damaged' = damaged /\ dated' = dated
  BY <1>1 DEF vars, files, days
<1>4. /\ reader \in Readers /\ FoundTypes(found) /\ dated \subseteq Keys
      /\ reader.count > 0 /\ reader.start \in DOMAIN DayOf
      /\ shifted = {} => \A j \in Keys : Calm(j)
  BY <1>1 DEF RecoveryInv, ReaderTypes
<1>5. /\ reader' \in Readers /\ reader'.at = "done" /\ reader'.count = reader.count
      /\ reader'.start = reader.start /\ reader'.found = found
  BY <1>1, <1>4 DEF Readers
<1>6. ReaderTypes'
  BY <1>1, <1>3, <1>4, <1>5 DEF ReaderTypes, Readers, Calm
<1>7. ASSUME shifted' = {}
      PROVE  /\ InFiles(found, file) /\ Onwards(reader, kept)
             /\ \A r \in kept : Findable(r, file, writer)
  BY <1>1, <1>7 DEF RecoveryInv, Recalling
<1>8. RecallWhole'
  <2> SUFFICES ASSUME shifted' = {}
               PROVE  LET held == {l.record : l \in found} IN
                        /\ Cardinality(held) = Cardinality(found)
                        /\ \A r \in kept, t \in held : TimeOf[t] <= TimeOf[r] => r \in held
                        /\ Cardinality(held) >= reader.count \/ kept \subseteq held
                        /\ Cardinality(held) >= reader.count =>
                               \A r \in kept : reader.start <= TimeOf[r] => r \in held
    BY <1>1, <1>5 DEF RecallWhole
  <2> DEFINE held == {l.record : l \in found}
  <2>1. held = HeldOf(found)
    BY DEF HeldOf
  <2>2. Cardinality(held) = Cardinality(found)
    BY <1>1, <1>2, <1>4, <1>7, <2>1, HeldOnce
  <2>3. \A r : ~Due(r, reader.days)
    BY <1>1 DEF Due
  <2>4. Onwards(reader, kept)
    BY <1>7
  <2>5. Cardinality(held) >= reader.count
    BY <2>2, <2>4 DEF Onwards
  <2>6. \A r \in kept : r \in held \/ TimeOf[r] < reader.start
    BY <2>1, <2>3, <2>4 DEF Onwards
  <2>7. reader.start \in Nat /\ \A t \in held : TimeOf[t] \in Nat /\ reader.start <= TimeOf[t]
    <3>1. reader.start \in Nat
      BY <1>4 DEF Readers
    <3>2. \A l \in found : TimeOf[l.record] \in Nat
      BY <1>4, StoreAssumption DEF FoundTypes, ReadLines
    <3> QED BY <2>4, <3>1, <3>2 DEF Onwards
  <2>8. \A r \in kept : TimeOf[r] \in Nat
    BY <1>7, StoreAssumption DEF Findable
  <2> HIDE DEF held
  <2> QED BY <2>2, <2>5, <2>6, <2>7, <2>8 DEF held
<1>9. ASSUME shifted' = {} PROVE Recalling'
  BY <1>1, <1>3, <1>5, <1>7, <1>9 DEF Recalling
<1> QED BY <1>2, <1>6, <1>8, <1>9 DEF RecoveryInv

LEMMA RecoveryInvHolds == RecoverySpec => []RecoveryInv
<1>1. Init /\ StartRecovery => RecoveryInv
  <2> SUFFICES ASSUME Init, StartRecovery PROVE RecoveryInv
    OBVIOUS
  <2>1. StoreInv
    BY StoreStarts
  <2>2. reader = Nothing /\ reader.at = "idle" /\ dated = {}
    BY NothingTypes DEF StartRecovery, Init
  <2>3. ReaderTypes
    BY <2>2, NothingTypes DEF ReaderTypes
  <2>4. IndexReaches
    <3>1. \A k \in Keys : writer[k].mode = "rest"
      BY DEF Init, Resting
    <3> QED BY <3>1 DEF IndexReaches
  <2>5. RecallWhole
    BY <2>2 DEF RecallWhole
  <2> QED BY <2>1, <2>2, <2>3, <2>4, <2>5 DEF RecoveryInv
<1>2. RecoveryInv /\ [RecoveryNext]_<<vars, recovery>> => RecoveryInv'
  <2> SUFFICES ASSUME RecoveryInv, [RecoveryNext]_<<vars, recovery>> PROVE RecoveryInv'
    OBVIOUS
  <2>1. ASSUME StoreNext, reader.at # "done",
               shifted' = IF reader = Nothing THEN {} ELSE shifted \cup Shifted,
               UNCHANGED <<reader, kept>>
        PROVE  RecoveryInv'
    BY <2>1, StoreStepRecalls
  <2>2. CASE Crash /\ reader.at # "done" /\ Rest
    <3>1. StoreInv' /\ IndexReaches'
      BY <2>2, StoreStepKeeps, IndexReachesKept DEF RecoveryInv
    <3>2. dated' \subseteq Keys
      BY <2>2 DEF Crash
    <3> QED BY <2>2, <3>1, <3>2, RestRecalls
  <2>3. ASSUME NEW n \in Counts, NEW start \in Starts, Begin(n, start) PROVE RecoveryInv'
    BY <2>3, BeginRecalls
  <2>4. CASE ReadRecent \/ EndRecent \/ ReadWindow \/ EndWindow \/ ReadFails
    BY <2>4, ReadRecentRecalls, EndRecentRecalls, ReadWindowRecalls, EndWindowRecalls,
       FailedReadRecalls
  <2>5. CASE Hand
    <3>1. StoreInv' /\ IndexReaches'
      BY <2>5, StoreStays, IndexReachesKept DEF RecoveryInv, Hand
    <3>2. dated' \subseteq Keys
      BY <2>5 DEF RecoveryInv, ReaderTypes, Hand, vars, days
    <3> QED BY <2>5, <3>1, <3>2, RestRecalls DEF Hand
  <2>6. CASE UNCHANGED <<vars, recovery>>
    <3>1. StoreInv' /\ IndexReaches'
      BY <2>6, StoreStays, IndexReachesKept DEF RecoveryInv
    <3>2. /\ file' = file /\ writer' = writer /\ damaged' = damaged /\ dated' = dated
          /\ reader' = reader /\ kept' = kept /\ shifted' = shifted
      BY <2>6 DEF vars, files, days, recovery
    <3>3. ReaderTypes'
      BY <3>2 DEF RecoveryInv, ReaderTypes, Readers, Calm
    <3>4. RecallWhole'
      BY <3>2 DEF RecoveryInv, RecallWhole
    <3>5. reader.at # "idle" /\ shifted = {} => Recalling'
      BY <3>2 DEF RecoveryInv, Recalling
    <3> QED BY <3>1, <3>2, <3>3, <3>4, <3>5 DEF RecoveryInv
  <2>7. RecoveryNext =>
           \/ /\ StoreNext /\ reader.at # "done"
              /\ shifted' = IF reader = Nothing THEN {} ELSE shifted \cup Shifted
              /\ UNCHANGED <<reader, kept>>
           \/ Crash /\ reader.at # "done" /\ Rest
           \/ \E n \in Counts, start \in Starts : Begin(n, start)
           \/ ReadRecent \/ EndRecent \/ ReadWindow \/ EndWindow \/ ReadFails \/ Hand
    BY DEF RecoveryNext
  <2> QED BY <2>1, <2>2, <2>3, <2>4, <2>5, <2>6, <2>7
<1> QED BY <1>1, <1>2, PTL DEF RecoverySpec

--------------------------------------------------------------------------------
(* ContextRecovery: what is said is packed.                                    *)

\* A fold goes from the first to the last.
LEMMA SpeakByStep ==
  ASSUME NEW s, NEW N \in Nat, DOMAIN s = 1..N
  PROVE  \E p : /\ p[0] = <<>> /\ FoldLeft(Speak, <<>>, s) = p[N]
                /\ \A k \in 1..N : p[k] = Speak(p[k - 1], s[k])
<1> DEFINE FoldAt(g, S) == IF S = {} THEN <<>> ELSE Speak(g[S \ {Max(S)}], s[Max(S)])
           Folds(g, n) == g = [S \in SUBSET (1..n) |-> g[S]] /\ \A S \in SUBSET (1..n) : g[S] = FoldAt(g, S)
           T == {n \in Nat : \E g : Folds(g, n)}
<1>1. ASSUME NEW n \in Nat, NEW S \in SUBSET (1..(n + 1)), n + 1 \in S
      PROVE  Max(S) = n + 1 /\ S \ {Max(S)} \in SUBSET (1..n)
  <2>1. \A i \in S : i \in Nat /\ n + 1 >= i
    OBVIOUS
  <2>2. \A m \in S : (\A i \in S : m >= i) => m = n + 1
    BY <1>1, <2>1
  <2>3. Max(S) = n + 1
    BY <1>1, <2>1, <2>2 DEF Max
  <2>4. \A i \in S : i # n + 1 => i \in 1..n
    OBVIOUS
  <2> QED BY <2>3, <2>4
<1>2. 0 \in T
  <2> DEFINE g == [S \in SUBSET (1..0) |-> <<>>]
  <2>1. \A S \in SUBSET (1..0) : S = {}
    OBVIOUS
  <2>2. Folds(g, 0)
    <3>1. g = [S \in SUBSET (1..0) |-> g[S]] /\ \A S \in SUBSET (1..0) : g[S] = <<>>
      OBVIOUS
    <3> HIDE DEF g
    <3> QED BY <2>1, <3>1
  <2> HIDE DEF g, Folds
  <2> QED BY <2>2
<1>3. ASSUME NEW n \in Nat, n \in T PROVE n + 1 \in T
  <2>1. PICK g : Folds(g, n)
    BY <1>3
  <2> DEFINE h == [S \in SUBSET (1..(n + 1)) |->
                     IF n + 1 \in S THEN Speak(g[S \ {n + 1}], s[n + 1]) ELSE g[S]]
  <2>2. h = [S \in SUBSET (1..(n + 1)) |-> h[S]]
        /\ \A S \in SUBSET (1..(n + 1)) :
              h[S] = IF n + 1 \in S THEN Speak(g[S \ {n + 1}], s[n + 1]) ELSE g[S]
    OBVIOUS
  <2> HIDE DEF h
  <2>3. ASSUME NEW S \in SUBSET (1..n) PROVE S \in SUBSET (1..(n + 1)) /\ n + 1 \notin S /\ h[S] = g[S]
    <3>1. S \in SUBSET (1..(n + 1)) /\ n + 1 \notin S
      OBVIOUS
    <3> QED BY <2>2, <3>1
  <2>4. ASSUME NEW S \in SUBSET (1..(n + 1)) PROVE h[S] = FoldAt(h, S)
    <3>1. CASE n + 1 \in S
      <4>1. Max(S) = n + 1 /\ S \ {n + 1} \in SUBSET (1..n) /\ S # {}
        BY <1>1, <3>1
      <4>2. h[S \ {n + 1}] = g[S \ {n + 1}]
        BY <2>3, <4>1
      <4> QED BY <2>2, <3>1, <4>1, <4>2
    <3>2. CASE n + 1 \notin S
      <4>1. S \in SUBSET (1..n)
        BY <3>2
      <4>2. h[S] = g[S] /\ g[S] = FoldAt(g, S)
        BY <2>1, <2>3, <4>1
      <4>3. CASE S = {}
        BY <4>2, <4>3
      <4>4. CASE S # {}
        <5>1. S \ {Max(S)} \in SUBSET (1..n)
          BY <4>1
        <5>2. h[S \ {Max(S)}] = g[S \ {Max(S)}]
          BY <2>3, <5>1
        <5> QED BY <4>2, <4>4, <5>2
      <4> QED BY <4>3, <4>4
    <3> QED BY <3>1, <3>2
  <2>5. Folds(h, n + 1)
    BY <2>2, <2>4
  <2> HIDE DEF Folds
  <2> QED BY <2>5
<1>4. N \in T
  <2> HIDE DEF T
  <2> QED BY <1>2, <1>3, InductionOverSet
<1>5. PICK g : Folds(g, N)
  BY <1>4
<1> DEFINE Eq(f) == f = [S \in SUBSET (1..N) |->
                           IF S = {} THEN <<>> ELSE Speak(f[S \ {Max(S)}], s[Max(S)])]
<1>6. Eq(g)
  BY <1>5
<1> DEFINE iter == CHOOSE f : Eq(f)
<1>7. Eq(iter)
  <2> HIDE DEF Eq
  <2> QED BY <1>6
<1>8. FoldLeft(Speak, <<>>, s) = iter[1..N]
  BY DEF FoldLeft, MapThenFoldSet
<1> HIDE DEF iter
<1>9. \A S \in SUBSET (1..N) : iter[S] = FoldAt(iter, S)
  BY <1>7
<1> DEFINE p == [k \in 0..N |-> iter[1..k]]
<1>10. p[0] = <<>>
  <2>1. 1..0 = {} /\ p[0] = iter[1..0]
    OBVIOUS
  <2> QED BY <1>9, <2>1
<1>11. ASSUME NEW k \in 1..N PROVE p[k] = Speak(p[k - 1], s[k])
  <2>1. 1..k \in SUBSET (1..N) /\ k \in 1..k /\ (k - 1) + 1 = k /\ k - 1 \in Nat
    OBVIOUS
  <2>2. Max(1..k) = k
    <3>1. \A n \in Nat : n + 1 \in 1..(n + 1) => Max(1..(n + 1)) = n + 1
      BY <1>1
    <3> QED BY <2>1, <3>1
  <2>3. (1..k) \ {k} = 1..(k - 1)
    OBVIOUS
  <2>4. iter[1..k] = Speak(iter[1..(k - 1)], s[k])
    <3>1. iter[1..k] = FoldAt(iter, 1..k) /\ 1..k # {}
      BY <1>9, <2>1
    <3> QED BY <2>2, <2>3, <3>1
  <2>5. p[k] = iter[1..k] /\ p[k - 1] = iter[1..(k - 1)]
    BY <2>1
  <2> QED BY <2>4, <2>5
<1>12. p[N] = iter[1..N]
  OBVIOUS
<1> HIDE DEF p
<1> QED BY <1>8, <1>10, <1>11, <1>12

\* The sequences are joined one after another.
LEMMA JoinByStep ==
  ASSUME NEW ss, Len(ss) \in Nat, Len(ss) # 0
  PROVE  \E f : /\ FlattenSeq(ss) = f[Len(ss)] /\ f[1] = ss[1]
                /\ \A i \in 2..Len(ss) : f[i] = f[i - 1] \o ss[i]
<1> DEFINE N == Len(ss)
           JoinAt(g, i) == IF i = 1 THEN ss[i] ELSE g[i - 1] \o ss[i]
           JoinedUpTo(g, n) == g = [i \in 1..n |-> g[i]] /\ \A i \in 1..n : g[i] = JoinAt(g, i)
           T == {n \in Nat : \E g : JoinedUpTo(g, n)}
<1> HIDE DEF N
<1>1. 0 \in T
  <2> DEFINE g == [i \in 1..0 |-> <<>>]
  <2>1. JoinedUpTo(g, 0)
    OBVIOUS
  <2> HIDE DEF g, JoinedUpTo
  <2> QED BY <2>1
<1>2. ASSUME NEW n \in Nat, n \in T PROVE n + 1 \in T
  <2>1. PICK g : JoinedUpTo(g, n)
    BY <1>2
  <2> DEFINE v == JoinAt(g, n + 1)
  <2> HIDE DEF v
  <2> DEFINE h == [i \in 1..(n + 1) |-> IF i = n + 1 THEN v ELSE g[i]]
  <2>2. h = [i \in 1..(n + 1) |-> h[i]] /\ h[n + 1] = v /\ \A i \in 1..n : h[i] = g[i]
    OBVIOUS
  <2> HIDE DEF h
  <2>3. ASSUME NEW i \in 1..(n + 1) PROVE h[i] = JoinAt(h, i)
    <3>1. CASE i = n + 1
      <4>1. i # 1 => i - 1 \in 1..n
        BY <3>1
      <4>2. i # 1 => h[i - 1] = g[i - 1]
        BY <2>2, <4>1
      <4> QED BY <2>2, <3>1, <4>2 DEF v
    <3>2. CASE i # n + 1
      <4>1. i \in 1..n /\ (i # 1 => i - 1 \in 1..n)
        BY <3>2
      <4>2. h[i] = g[i] /\ (i # 1 => h[i - 1] = g[i - 1])
        BY <2>2, <4>1
      <4>3. g[i] = JoinAt(g, i)
        BY <2>1, <4>1
      <4> QED BY <4>2, <4>3
    <3> QED BY <3>1, <3>2
  <2>4. JoinedUpTo(h, n + 1)
    BY <2>2, <2>3
  <2> HIDE DEF JoinedUpTo
  <2> QED BY <2>4
<1>3. N \in T
  <2> HIDE DEF T
  <2> QED BY <1>1, <1>2, InductionOverSet DEF N
<1>4. PICK g : JoinedUpTo(g, N)
  BY <1>3
<1> DEFINE Eq(f) == f = [i \in 1..N |-> IF i = 1 THEN ss[i] ELSE f[i - 1] \o ss[i]]
<1>5. Eq(g)
  BY <1>4
<1> DEFINE flat == CHOOSE f : Eq(f)
<1>6. Eq(flat)
  <2> HIDE DEF Eq
  <2> QED BY <1>5
<1>7. FlattenSeq(ss) = flat[N]
  BY DEF FlattenSeq, N
<1> HIDE DEF flat
<1>8. \A i \in 1..N : flat[i] = JoinAt(flat, i)
  BY <1>6
<1>9. flat[1] = ss[1] /\ \A i \in 2..N : flat[i] = flat[i - 1] \o ss[i]
  <2>1. 1 \in 1..N /\ \A i \in 2..N : i \in 1..N /\ i # 1
    BY DEF N
  <2> QED BY <1>8, <2>1
<1> QED BY <1>7, <1>9 DEF N

\* What is packed of the first k that are spoken: e says where each message ends.
PackedMessages == [own : BOOLEAN, says : Seq(Records)]
PackedUpTo(P, e, spoken, k) ==
    /\ P \in Seq(PackedMessages)
    /\ e \in [0..Len(P) -> 0..Len(spoken)] /\ e[Len(P)] = k
    /\ \A i \in 1..Len(P) :
          /\ e[i - 1] <= e[i] /\ (i < Len(P) => e[i - 1] < e[i])
          /\ P[i].says = SubSeq(spoken, e[i - 1] + 1, e[i])
          /\ P[i].own = (i % 2 = 0)
    /\ \A i \in 1..e[0] : spoken[i] \in Own
    /\ P # <<>> => e[0] < Len(spoken) /\ spoken[e[0] + 1] \notin Own
Filled(P, e) == \A i \in 1..Len(P) : e[i - 1] < e[i]

LEMMA SpokenPart ==
  ASSUME NEW spoken \in Seq(Records), NEW a \in Nat, NEW k \in Nat, a <= k, k < Len(spoken)
  PROVE  /\ Append(SubSeq(spoken, a + 1, k), spoken[k + 1]) = SubSeq(spoken, a + 1, k + 1)
         /\ <<spoken[k + 1]>> = SubSeq(spoken, k + 1, k + 1)
         /\ SubSeq(spoken, a + 1, k) \in Seq(Records)
<1>1. k + 1 \in 1..Len(spoken) /\ Len(spoken) \in Nat
  OBVIOUS
<1>2. spoken[k + 1] \in Records
  BY <1>1, ElementOfSeq
<1>3. SubSeq(spoken, a + 1, k) \in Seq(Records)
  BY Parts, <1>1
<1>4. ASSUME NEW m \in 1..Len(spoken), NEW n \in m..Len(spoken)
      PROVE  SubSeq(spoken, m, n) = SubSeq(spoken, m, n - 1) \o <<spoken[n]>>
  BY SubSeqRecursiveSecond
<1>5. /\ a + 1 \in 1..Len(spoken) /\ k + 1 \in (a + 1)..Len(spoken) /\ (k + 1) - 1 = k
      /\ k + 1 \in (k + 1)..Len(spoken)
  BY <1>1
<1>6. SubSeq(spoken, a + 1, k + 1) = SubSeq(spoken, a + 1, k) \o <<spoken[k + 1]>>
  BY <1>4, <1>5
<1>7. SubSeq(spoken, k + 1, k + 1) = SubSeq(spoken, k + 1, k) \o <<spoken[k + 1]>>
  BY <1>1, <1>4, <1>5
<1>8. SubSeq(spoken, k + 1, k) = <<>>
  BY SubSeqEmpty
<1>9. <<spoken[k + 1]>> \in Seq(Records)
  BY <1>2
<1>10. SubSeq(spoken, k + 1, k + 1) = <<spoken[k + 1]>>
  BY <1>7, <1>8, <1>9, ConcatEmptySeq
<1>11. Append(SubSeq(spoken, a + 1, k), spoken[k + 1]) = SubSeq(spoken, a + 1, k) \o <<spoken[k + 1]>>
  BY <1>2, <1>3, AppendIsConcat
<1> QED BY <1>3, <1>6, <1>10, <1>11

LEMMA OneMoreSpoken ==
  ASSUME NEW spoken \in Seq(Records), NEW k \in Nat, k < Len(spoken),
         NEW P, NEW e, PackedUpTo(P, e, spoken, k), Filled(P, e)
  PROVE  \E f : PackedUpTo(Speak(P, spoken[k + 1]), f, spoken, k + 1)
                /\ Filled(Speak(P, spoken[k + 1]), f)
<1> DEFINE L == Len(P)
           N == Len(spoken)
           r == spoken[k + 1]
           Q == Speak(P, r)
<1>1. /\ P \in Seq(PackedMessages) /\ L \in Nat /\ N \in Nat /\ e \in [0..L -> 0..N] /\ e[L] = k
      /\ \A i \in 1..e[0] : spoken[i] \in Own
      /\ P # <<>> => e[0] < N /\ spoken[e[0] + 1] \notin Own
  BY DEF PackedUpTo
<1>2. \A i \in 1..L : /\ e[i - 1] < e[i] /\ P[i].says = SubSeq(spoken, e[i - 1] + 1, e[i])
                      /\ P[i].own = (i % 2 = 0)
  BY DEF PackedUpTo, Filled
<1>3. k + 1 \in 1..N /\ r \in Records /\ k + 1 \in 0..N
  BY <1>1, ElementOfSeq
<1>4. CASE P = <<>>
  <2>1. L = 0 /\ e[0] = k
    BY <1>1, <1>4
  <2>2. CASE r \in Own
    <3> DEFINE f == [i \in 0..0 |-> k + 1]
    <3>1. Q = P
      BY <1>4, <2>2 DEF Speak
    <3>2. f \in [0..0 -> 0..N] /\ f[0] = k + 1
      BY <1>3
    <3> HIDE DEF f
    <3>3. \A i \in 1..(k + 1) : spoken[i] \in Own
      BY <1>1, <2>1, <2>2
    <3>4. PackedUpTo(P, f, spoken, k + 1) /\ Filled(P, f)
      BY <1>1, <1>4, <2>1, <3>2, <3>3 DEF PackedUpTo, Filled
    <3> QED BY <3>1, <3>4
  <2>3. CASE r \notin Own
    <3> DEFINE f == [i \in 0..1 |-> k + i]
               m == [own |-> FALSE, says |-> <<r>>]
    <3>1. Q = <<m>>
      BY <1>4, <2>3 DEF Speak
    <3>2. <<r>> = SubSeq(spoken, k + 1, k + 1) /\ <<r>> \in Seq(Records)
      BY <1>3, SpokenPart
    <3>3. m \in PackedMessages /\ m.says = SubSeq(spoken, k + 1, k + 1) /\ m.own = FALSE
      BY <3>2 DEF PackedMessages
    <3> HIDE DEF m
    <3>4. Q \in Seq(PackedMessages) /\ Len(Q) = 1 /\ Q[1] = m /\ Q # <<>>
      BY <3>1, <3>3
    <3>5. f \in [0..1 -> 0..N] /\ f[0] = k /\ f[1] = k + 1
      BY <1>1, <1>3
    <3> HIDE DEF f, Q, r
    <3>6. \A i \in 1..Len(Q) : i = 1 /\ i - 1 = 0
      BY <3>4
    <3>7. (1 % 2 = 0) = FALSE
      OBVIOUS
    <3>8. PackedUpTo(Q, f, spoken, k + 1)
      <4>1. \A i \in 1..Len(Q) :
              /\ f[i - 1] <= f[i] /\ (i < Len(Q) => f[i - 1] < f[i])
              /\ Q[i].says = SubSeq(spoken, f[i - 1] + 1, f[i])
        <5>1. f[0] <= f[1] /\ f[0] < f[1]
          BY <3>5
        <5>2. Q[1].says = SubSeq(spoken, f[0] + 1, f[1])
          BY <3>3, <3>4, <3>5
        <5> QED BY <3>6, <5>1, <5>2
      <4>2. \A i \in 1..Len(Q) : Q[i].own = (i % 2 = 0)
        BY <3>3, <3>4, <3>6, <3>7
      <4>3. \A i \in 1..f[0] : spoken[i] \in Own
        BY <1>1, <2>1, <3>5
      <4>4. f[0] < N /\ spoken[f[0] + 1] \notin Own
        BY <2>3, <3>5 DEF r
      <4> QED BY <3>4, <3>5, <4>1, <4>2, <4>3, <4>4 DEF PackedUpTo
    <3>9. Filled(Q, f)
      BY <3>5, <3>6 DEF Filled
    <3> QED BY <3>8, <3>9 DEF Q, r
  <2> QED BY <2>2, <2>3
<1>5. CASE P # <<>>
  <2>1. L >= 1 /\ L \in 1..L /\ L - 1 \in 0..L /\ L \in 0..L /\ 0 \in 0..L
    BY <1>1, <1>5
  <2>2. P[L] \in PackedMessages /\ Last(P) = P[L] /\ P[L].own = (L % 2 = 0)
    BY <1>1, <1>2, <2>1, ElementOfSeq DEF Last
  <2>3. e[0] \in Nat /\ e[L - 1] \in Nat /\ e[L - 1] < k /\ e[L - 1] <= k
    <3>1. e[0] \in 0..N /\ e[L - 1] \in 0..N
      BY <1>1, <2>1
    <3>2. e[L - 1] < e[L]
      BY <1>2, <2>1
    <3>3. \A i \in 0..N : i \in Nat
      BY <1>1
    <3> HIDE DEF L
    <3>4. e[L - 1] \in Nat /\ e[0] \in Nat
      BY <3>1, <3>3
    <3> QED BY <1>1, <3>2, <3>4
  <2>4. CASE Last(P).own = (r \in Own)
    <3> DEFINE m == [P[L] EXCEPT !.says = Append(P[L].says, r)]
               f == [e EXCEPT ![L] = k + 1]
    <3>1. Q = [P EXCEPT ![L] = m]
      BY <1>5, <2>4 DEF Speak
    <3>2. P[L].says = SubSeq(spoken, e[L - 1] + 1, k)
      BY <1>1, <1>2, <2>1
    <3>3. Append(P[L].says, r) = SubSeq(spoken, e[L - 1] + 1, k + 1)
      <4>1. \A a \in Nat : a <= k =>
              Append(SubSeq(spoken, a + 1, k), spoken[k + 1]) = SubSeq(spoken, a + 1, k + 1)
        BY SpokenPart
      <4> HIDE DEF L
      <4>2. Append(SubSeq(spoken, e[L - 1] + 1, k), spoken[k + 1]) = SubSeq(spoken, e[L - 1] + 1, k + 1)
        BY <2>3, <4>1
      <4> QED BY <3>2, <4>2
    <3>4. Append(P[L].says, r) \in Seq(Records)
      BY <1>3, <2>2 DEF PackedMessages
    <3>5. m \in PackedMessages /\ m.says = SubSeq(spoken, e[L - 1] + 1, k + 1) /\ m.own = P[L].own
      BY <2>2, <3>3, <3>4 DEF PackedMessages
    <3> HIDE DEF m
    <3>6. /\ Q \in Seq(PackedMessages) /\ Len(Q) = L /\ Q[L] = m /\ Q # <<>>
          /\ \A i \in 1..L : i # L => Q[i] = P[i]
      BY <1>1, <1>5, <2>1, <3>1, <3>5, ExceptSeq
    <3>7. /\ f \in [0..L -> 0..N] /\ f[L] = k + 1 /\ \A i \in 0..L : i # L => f[i] = e[i]
      BY <1>1, <1>3, <2>1
    <3> HIDE DEF f, Q, r, L
    <3>8. ASSUME NEW i \in 1..L
          PROVE  /\ f[i - 1] = e[i - 1] /\ i - 1 \in 0..L /\ f[i - 1] < f[i]
                 /\ Q[i].says = SubSeq(spoken, f[i - 1] + 1, f[i])
                 /\ Q[i].own = P[i].own
      <4>1. i - 1 \in 0..L /\ i - 1 # L /\ i \in 0..L
        BY <1>1
      <4>2. f[i - 1] = e[i - 1]
        BY <3>7, <4>1
      <4>3. CASE i = L
        BY <2>3, <3>5, <3>6, <3>7, <4>1, <4>2, <4>3
      <4>4. CASE i # L
        <5>1. f[i] = e[i] /\ Q[i] = P[i]
          BY <3>6, <3>7, <4>1, <4>4
        <5> QED BY <1>2, <4>1, <4>2, <5>1
      <4> QED BY <4>3, <4>4
    <3>9. \A i \in 1..L : Q[i].own = (i % 2 = 0)
      BY <1>2, <3>8
    <3>10. f[0] = e[0]
      BY <2>1, <3>7
    <3>11. Filled(Q, f)
      BY <3>6, <3>8 DEF Filled
    <3>12. PackedUpTo(Q, f, spoken, k + 1)
      <4>1. \A i \in 1..L : f[i - 1] <= f[i]
        <5>1. \A i \in 1..L : f[i - 1] \in Nat /\ f[i] \in Nat
          <6>1. \A i \in 1..L : i - 1 \in 0..L /\ i \in 0..L
            BY <1>1
          <6> QED BY <3>7, <6>1
        <5> QED BY <3>8, <5>1
      <4>2. \A i \in 1..f[0] : spoken[i] \in Own
        BY <1>1, <3>10
      <4>3. f[0] < N /\ spoken[f[0] + 1] \notin Own
        BY <1>1, <1>5, <3>10
      <4> QED BY <3>6, <3>7, <3>8, <3>9, <4>1, <4>2, <4>3 DEF PackedUpTo
    <3> QED BY <3>11, <3>12 DEF Q, r
  <2>5. CASE Last(P).own # (r \in Own)
    <3> DEFINE m == [own |-> r \in Own, says |-> <<r>>]
               f == [i \in 0..(L + 1) |-> IF i = L + 1 THEN k + 1 ELSE e[i]]
    <3>1. Q = Append(P, m)
      BY <1>5, <2>5 DEF Speak
    <3>2. <<r>> = SubSeq(spoken, k + 1, k + 1) /\ <<r>> \in Seq(Records)
      BY <1>3, SpokenPart
    <3>3. (r \in Own) \in BOOLEAN
      OBVIOUS
    <3>4. m \in PackedMessages /\ m.says = SubSeq(spoken, k + 1, k + 1) /\ m.own = (r \in Own)
      BY <3>2, <3>3 DEF PackedMessages
    <3> HIDE DEF m
    <3>5. /\ Q \in Seq(PackedMessages) /\ Len(Q) = L + 1 /\ Q[L + 1] = m /\ Q # <<>>
          /\ \A i \in 1..L : Q[i] = P[i]
      BY <1>1, <3>1, <3>4, AppendProperties
    <3>6. /\ f \in [0..(L + 1) -> 0..N] /\ f[L + 1] = k + 1 /\ \A i \in 0..L : f[i] = e[i]
      <4>1. \A i \in 0..(L + 1) : f[i] = IF i = L + 1 THEN k + 1 ELSE e[i]
        OBVIOUS
      <4>2. \A i \in 0..(L + 1) : i # L + 1 => i \in 0..L
        BY <1>1
      <4>3. \A i \in 0..(L + 1) : f[i] \in 0..N
        BY <1>1, <1>3, <4>1, <4>2
      <4>4. f = [i \in 0..(L + 1) |-> f[i]]
        OBVIOUS
      <4>5. L + 1 \in 0..(L + 1) /\ \A i \in 0..L : i \in 0..(L + 1) /\ i # L + 1
        BY <1>1
      <4> HIDE DEF f
      <4> QED BY <4>1, <4>3, <4>4, <4>5
    <3>7. m.own = ((L + 1) % 2 = 0)
      <4>1. (L % 2 = 0) <=> ~((L + 1) % 2 = 0)
        BY <1>1
      <4>2. (L % 2 = 0) # (r \in Own)
        BY <2>2, <2>5
      <4>3. ((L + 1) % 2 = 0) <=> (r \in Own)
        BY <4>1, <4>2
      <4> QED BY <3>4, <4>3
    <3> HIDE DEF f, Q, r, L
    <3>8. ASSUME NEW i \in 1..(L + 1)
          PROVE  /\ f[i - 1] < f[i] /\ Q[i].says = SubSeq(spoken, f[i - 1] + 1, f[i])
                 /\ Q[i].own = (i % 2 = 0)
      <4>1. i - 1 \in 0..L
        BY <1>1
      <4>2. f[i - 1] = e[i - 1]
        BY <3>6, <4>1
      <4>3. CASE i = L + 1
        <5>1. i - 1 = L /\ f[i - 1] = k /\ f[i] = k + 1
          BY <1>1, <3>6, <4>2, <4>3
        <5>2. Q[i] = m
          BY <3>5, <4>3
        <5>3. Q[i].own = (i % 2 = 0)
          BY <3>7, <4>3, <5>2
        <5> QED BY <3>4, <5>1, <5>2, <5>3
      <4>4. CASE i # L + 1
        <5>1. i \in 1..L /\ i \in 0..L
          BY <1>1, <4>4
        <5>2. f[i] = e[i] /\ Q[i] = P[i]
          BY <3>5, <3>6, <5>1
        <5> QED BY <1>2, <4>2, <5>1, <5>2
      <4> QED BY <4>3, <4>4
    <3>9. f[0] = e[0]
      BY <2>1, <3>6
    <3>10. Filled(Q, f)
      BY <3>5, <3>8 DEF Filled
    <3>11. PackedUpTo(Q, f, spoken, k + 1)
      <4>1. \A i \in 1..(L + 1) : f[i - 1] <= f[i]
        <5>1. \A i \in 1..(L + 1) : f[i - 1] \in Nat /\ f[i] \in Nat
          <6>1. \A i \in 1..(L + 1) : i - 1 \in 0..(L + 1) /\ i \in 0..(L + 1)
            BY <1>1
          <6> QED BY <3>6, <6>1
        <5> QED BY <3>8, <5>1
      <4>2. \A i \in 1..f[0] : spoken[i] \in Own
        BY <1>1, <3>9
      <4>3. f[0] < N /\ spoken[f[0] + 1] \notin Own
        BY <1>1, <1>5, <3>9
      <4> QED BY <3>5, <3>6, <3>8, <4>1, <4>2, <4>3 DEF PackedUpTo
    <3> QED BY <3>10, <3>11 DEF Q, r
  <2> QED BY <2>4, <2>5
<1> QED BY <1>4, <1>5

LEMMA AllPacked ==
  ASSUME NEW spoken \in Seq(Records)
  PROVE  \E e : LET P == FoldLeft(Speak, <<>>, spoken)
                IN  PackedUpTo(P, e, spoken, Len(spoken)) /\ Filled(P, e)
<1> DEFINE N == Len(spoken)
<1>1. N \in Nat /\ DOMAIN spoken = 1..N
  OBVIOUS
<1>2. PICK p : /\ p[0] = <<>> /\ FoldLeft(Speak, <<>>, spoken) = p[N]
               /\ \A k \in 1..N : p[k] = Speak(p[k - 1], spoken[k])
  BY <1>1, SpeakByStep
<1> DEFINE T == {k \in Nat : k <= N => \E e : PackedUpTo(p[k], e, spoken, k) /\ Filled(p[k], e)}
<1>3. 0 \in T
  <2> DEFINE e == [i \in 0..0 |-> 0]
  <2>1. e \in [0..0 -> 0..N] /\ e[0] = 0
    BY <1>1
  <2>2. <<>> \in Seq(PackedMessages) /\ Len(<<>>) = 0
    OBVIOUS
  <2> HIDE DEF e
  <2>3. PackedUpTo(<<>>, e, spoken, 0) /\ Filled(<<>>, e)
    BY <2>1, <2>2 DEF PackedUpTo, Filled
  <2> QED BY <1>2, <2>3
<1>4. ASSUME NEW k \in Nat, k \in T PROVE k + 1 \in T
  <2>1. CASE k + 1 <= N
    <3>1. k < N /\ k <= N /\ k + 1 \in 1..N /\ (k + 1) - 1 = k
      BY <1>1, <2>1
    <3>2. PICK e : PackedUpTo(p[k], e, spoken, k) /\ Filled(p[k], e)
      BY <1>4, <3>1
    <3>3. p[k + 1] = Speak(p[k], spoken[k + 1])
      BY <1>2, <3>1
    <3>4. \E f : PackedUpTo(Speak(p[k], spoken[k + 1]), f, spoken, k + 1)
                 /\ Filled(Speak(p[k], spoken[k + 1]), f)
      BY <3>1, <3>2, OneMoreSpoken
    <3> QED BY <3>3, <3>4
  <2> QED BY <2>1
<1>5. N \in T
  <2> HIDE DEF T, N
  <2> QED BY <1>1, <1>3, <1>4, InductionOverSet
<1> QED BY <1>1, <1>2, <1>5

LEMMA ClosedIsPacked ==
  ASSUME NEW spoken \in Seq(Records), NEW P, NEW e,
         PackedUpTo(P, e, spoken, Len(spoken)), Filled(P, e)
  PROVE  \E f : PackedUpTo(Closed(P), f, spoken, Len(spoken)) /\ Len(Closed(P)) % 2 = 0
<1> DEFINE L == Len(P)
           N == Len(spoken)
<1>1. /\ P \in Seq(PackedMessages) /\ L \in Nat /\ N \in Nat /\ e \in [0..L -> 0..N] /\ e[L] = N
      /\ \A i \in 1..e[0] : spoken[i] \in Own
      /\ P # <<>> => e[0] < N /\ spoken[e[0] + 1] \notin Own
  BY DEF PackedUpTo
<1>2. \A i \in 1..L : /\ e[i - 1] < e[i] /\ P[i].says = SubSeq(spoken, e[i - 1] + 1, e[i])
                      /\ P[i].own = (i % 2 = 0)
  BY DEF PackedUpTo, Filled
<1>3. P # <<>> => L \in 1..L
  BY <1>1
<1>4. CASE ~(P # <<>> /\ ~Last(P).own)
  <2>1. Closed(P) = P
    BY <1>4 DEF Closed
  <2>2. L % 2 = 0
    <3>1. CASE P = <<>>
      BY <3>1
    <3>2. CASE P # <<>>
      BY <1>2, <1>3, <1>4, <3>2 DEF Last
    <3> QED BY <3>1, <3>2
  <2> QED BY <2>1, <2>2
<1>5. CASE P # <<>> /\ ~Last(P).own
  <2> DEFINE m == [own |-> TRUE, says |-> <<>>]
             Q == Append(P, m)
             f == [i \in 0..(L + 1) |-> IF i = L + 1 THEN N ELSE e[i]]
  <2>1. Closed(P) = Q
    BY <1>5 DEF Closed
  <2>2. <<>> \in Seq(Records)
    OBVIOUS
  <2>3. m \in PackedMessages /\ m.own = TRUE /\ m.says = <<>>
    BY <2>2 DEF PackedMessages
  <2> HIDE DEF m
  <2>4. /\ Q \in Seq(PackedMessages) /\ Len(Q) = L + 1 /\ Q[L + 1] = m /\ Q # <<>>
        /\ \A i \in 1..L : Q[i] = P[i]
    BY <1>1, <2>3, AppendProperties
  <2>5. /\ f \in [0..(L + 1) -> 0..N] /\ f[L + 1] = N /\ \A i \in 0..L : f[i] = e[i]
    <3>1. \A i \in 0..(L + 1) : f[i] = IF i = L + 1 THEN N ELSE e[i]
      OBVIOUS
    <3>2. \A i \in 0..(L + 1) : i # L + 1 => i \in 0..L
      BY <1>1
    <3>3. \A i \in 0..(L + 1) : f[i] \in 0..N
      BY <1>1, <3>1, <3>2
    <3>4. f = [i \in 0..(L + 1) |-> f[i]]
      OBVIOUS
    <3>5. L + 1 \in 0..(L + 1) /\ \A i \in 0..L : i \in 0..(L + 1) /\ i # L + 1
      BY <1>1
    <3> HIDE DEF f
    <3> QED BY <3>1, <3>3, <3>4, <3>5
  <2>6. ~(L % 2 = 0) /\ (L + 1) % 2 = 0
    <3>1. ~P[L].own /\ P[L].own = (L % 2 = 0)
      BY <1>2, <1>3, <1>5 DEF Last
    <3>2. ~(L % 2 = 0)
      BY <3>1
    <3> QED BY <1>1, <3>2
  <2>7. SubSeq(spoken, N + 1, N) = <<>>
    BY <1>1, SubSeqEmpty
  <2> HIDE DEF f, Q, L, N
  <2>8. ASSUME NEW i \in 1..(L + 1)
        PROVE  /\ (i < L + 1 => f[i - 1] < f[i]) /\ f[i - 1] <= f[i]
               /\ Q[i].says = SubSeq(spoken, f[i - 1] + 1, f[i])
               /\ Q[i].own = (i % 2 = 0)
    <3>1. i - 1 \in 0..L /\ i - 1 \in 0..(L + 1) /\ i \in 0..(L + 1)
      BY <1>1
    <3>2. f[i - 1] = e[i - 1] /\ f[i - 1] \in 0..N /\ f[i] \in 0..N
      BY <2>5, <3>1
    <3>3. CASE i = L + 1
      <4>1. i - 1 = L /\ f[i - 1] = N /\ f[i] = N
        BY <1>1, <2>5, <3>2, <3>3
      <4>2. Q[i] = m
        BY <2>4, <3>3
      <4>3. (i % 2 = 0) = TRUE
        BY <2>6, <3>3
      <4>4. Q[i].own = (i % 2 = 0)
        BY <2>3, <4>2, <4>3
      <4>5. ~(i < L + 1) /\ f[i - 1] <= f[i]
        BY <1>1, <3>3, <4>1
      <4>6. Q[i].says = SubSeq(spoken, f[i - 1] + 1, f[i])
        BY <2>3, <2>7, <4>1, <4>2
      <4> QED BY <4>4, <4>5, <4>6
    <3>4. CASE i # L + 1
      <4>1. i \in 1..L /\ i \in 0..L
        BY <1>1, <3>4
      <4>2. f[i] = e[i] /\ Q[i] = P[i]
        BY <2>4, <2>5, <4>1
      <4>3. f[i - 1] < f[i]
        BY <1>2, <3>2, <4>1, <4>2
      <4>4. f[i - 1] <= f[i]
        BY <1>1, <3>2, <4>3
      <4> QED BY <1>2, <3>2, <4>1, <4>2, <4>3, <4>4
    <3> QED BY <3>3, <3>4
  <2>9. f[0] = e[0]
    BY <1>1, <2>5
  <2>10. PackedUpTo(Q, f, spoken, N)
    <3>1. \A i \in 1..f[0] : spoken[i] \in Own
      BY <1>1, <2>9
    <3>2. f[0] < N /\ spoken[f[0] + 1] \notin Own
      BY <1>1, <1>5, <2>9
    <3> QED BY <2>4, <2>5, <2>8, <3>1, <3>2 DEF PackedUpTo, N
  <2> QED BY <2>1, <2>4, <2>6, <2>10 DEF N
<1> QED BY <1>4, <1>5

LEMMA AdjacentParts ==
  ASSUME NEW s \in Seq(Records), NEW a \in 0..Len(s), NEW b \in 0..Len(s), NEW c \in 0..Len(s),
         a <= b, b <= c
  PROVE  SubSeq(s, a + 1, b) \o SubSeq(s, b + 1, c) = SubSeq(s, a + 1, c)
<1>1. Len(s) \in Nat
  OBVIOUS
<1>2. a + 1 \in 1..(Len(s) + 1) /\ b \in ((a + 1) - 1)..Len(s) /\ c \in b..Len(s)
  BY <1>1
<1>3. \A m \in 1..(Len(s) + 1) : \A j \in (m - 1)..Len(s) : \A n \in j..Len(s) :
         SubSeq(s, m, j) \o SubSeq(s, j + 1, n) = SubSeq(s, m, n)
  BY ConcatAdjacentSubSeq
<1> QED BY <1>2, <1>3

LEMMA PackedIsSaid ==
  ASSUME NEW spoken \in Seq(Records), NEW P, NEW e, PackedUpTo(P, e, spoken, Len(spoken))
  PROVE  FlattenSeq([i \in DOMAIN P |-> P[i].says]) = SubSeq(spoken, e[0] + 1, Len(spoken))
<1> DEFINE L == Len(P)
           N == Len(spoken)
           ss == [i \in DOMAIN P |-> P[i].says]
<1>1. /\ P \in Seq(PackedMessages) /\ L \in Nat /\ N \in Nat /\ e \in [0..L -> 0..N] /\ e[L] = N
      /\ \A i \in 1..L : e[i - 1] <= e[i] /\ P[i].says = SubSeq(spoken, e[i - 1] + 1, e[i])
  BY DEF PackedUpTo
<1>2. DOMAIN P = 1..L
  BY <1>1
<1>3. Len(ss) = L /\ \A i \in 1..L : ss[i] = P[i].says
  BY <1>1, <1>2
<1>4. CASE L = 0
  <2>1. e[0] = N
    BY <1>1, <1>4
  <2>2. SubSeq(spoken, e[0] + 1, N) = <<>>
    BY <1>1, <2>1, SubSeqEmpty
  <2>3. FlattenSeq(ss) = ss
    <3> HIDE DEF ss
    <3> QED BY <1>3, <1>4 DEF FlattenSeq
  <2>4. ss = <<>>
    BY <1>2, <1>4
  <2> QED BY <2>2, <2>3, <2>4
<1>5. CASE L # 0
  <2> HIDE DEF ss, L, N
  <2>1. PICK f : /\ FlattenSeq(ss) = f[L] /\ f[1] = ss[1]
                 /\ \A i \in 2..L : f[i] = f[i - 1] \o ss[i]
    BY <1>1, <1>3, <1>5, JoinByStep, ZenonT(60)
  <2> DEFINE T == {k \in Nat : k \in 1..L => e[0] <= e[k] /\ f[k] = SubSeq(spoken, e[0] + 1, e[k])}
  <2>2. 0 \in T
    BY <1>1
  <2>3. ASSUME NEW k \in Nat, k \in T PROVE k + 1 \in T
    <3>1. CASE k = 0
      <4>1. 1 \in 1..L
        BY <1>1, <1>5
      <4>2. e[1 - 1] = e[0]
        OBVIOUS
      <4>3. e[0] <= e[1] /\ P[1].says = SubSeq(spoken, e[0] + 1, e[1])
        BY <1>1, <4>1, <4>2
      <4> QED BY <1>3, <2>1, <3>1, <4>1, <4>3
    <3>2. CASE k # 0 /\ k + 1 \in 1..L
      <4>1. k \in 1..L /\ k + 1 \in 2..L /\ (k + 1) - 1 = k /\ k \in 0..L /\ k + 1 \in 0..L /\ 0 \in 0..L
        BY <1>1, <3>2
      <4>2. e[0] <= e[k] /\ f[k] = SubSeq(spoken, e[0] + 1, e[k])
        BY <2>3, <4>1
      <4>3. e[k] <= e[k + 1] /\ ss[k + 1] = SubSeq(spoken, e[k] + 1, e[k + 1])
        BY <1>1, <1>3, <3>2, <4>1
      <4>4. f[k + 1] = f[k] \o ss[k + 1]
        BY <2>1, <4>1
      <4>5. e[0] \in 0..N /\ e[k] \in 0..N /\ e[k + 1] \in 0..N
        BY <1>1, <4>1
      <4>6. \A a, b, c \in 0..N : a <= b /\ b <= c => a <= c
        BY <1>1
      <4>7. e[0] <= e[k + 1]
        BY <4>2, <4>3, <4>5, <4>6
      <4>8. SubSeq(spoken, e[0] + 1, e[k]) \o SubSeq(spoken, e[k] + 1, e[k + 1])
               = SubSeq(spoken, e[0] + 1, e[k + 1])
        BY <4>2, <4>3, <4>5, AdjacentParts DEF N
      <4>9. f[k + 1] = SubSeq(spoken, e[0] + 1, e[k + 1])
        BY <4>2, <4>3, <4>4, <4>8
      <4> HIDE DEF T
      <4>10. k + 1 \in Nat
        OBVIOUS
      <4> QED BY <4>7, <4>9, <4>10 DEF T
    <3>3. CASE ~(k + 1 \in 1..L)
      BY <3>3
    <3> QED BY <3>1, <3>2, <3>3
  <2>4. L \in T
    <3> HIDE DEF T
    <3> QED BY <1>1, <2>2, <2>3, InductionOverSet
  <2>5. f[L] = SubSeq(spoken, e[0] + 1, N)
    BY <1>1, <1>5, <2>4
  <2> QED BY <2>1, <2>5 DEF ss, N
<1> QED BY <1>4, <1>5

LEMMA SpokenIsASequence ==
  ASSUME ReaderTypes
  PROVE  Spoken \in Seq(Records)
<1> DEFINE S == {l \in reader.found : l.record \notin Silent}
           recalled == Sorted(S, Ordered)
<1>1. reader.found \subseteq ReadLines /\ IsFiniteSet(reader.found)
  BY DEF ReaderTypes, FoundTypes
<1>2. IsFiniteSet(S) /\ \A l \in S : l.record \in Records /\ l.sn \in Nat
  <2>1. S \subseteq reader.found
    OBVIOUS
  <2>2. IsFiniteSet(S)
    <3> HIDE DEF S
    <3> QED BY <1>1, <2>1, FS_Subset
  <2> QED BY <1>1, <2>2 DEF ReadLines
<1> HIDE DEF S
<1>3. recalled \in Seq(S)
  BY <1>2, SortedByTime
<1> HIDE DEF recalled
<1>4. DOMAIN recalled = 1..Len(recalled) /\ Len(recalled) \in Nat
  BY <1>3
<1>5. \A i \in 1..Len(recalled) : recalled[i].record \in Records
  BY <1>2, <1>3, ElementOfSeq
<1>6. [i \in DOMAIN recalled |-> recalled[i].record] \in Seq(Records)
  BY <1>4, <1>5, IsASeq
<1> QED BY <1>6 DEF Spoken, recalled, S

LEMMA SpeakersTakeTurns == ASSUME ReaderTypes PROVE TurnsTaken
<1> DEFINE spoken == Spoken
           context == Context(spoken)
           said == FlattenSeq([i \in DOMAIN context |-> context[i].says])
           before == Len(spoken) - Len(said)
<1>1. spoken \in Seq(Records)
  BY SpokenIsASequence
<1> HIDE DEF spoken
<1>2. PICK d : LET P == FoldLeft(Speak, <<>>, spoken)
               IN  PackedUpTo(P, d, spoken, Len(spoken)) /\ Filled(P, d)
  BY <1>1, AllPacked
<1>3. PICK e : PackedUpTo(context, e, spoken, Len(spoken)) /\ Len(context) % 2 = 0
  BY <1>1, <1>2, ClosedIsPacked DEF Context
<1> HIDE DEF context
<1> DEFINE N == Len(spoken)
           L == Len(context)
<1>4. said = SubSeq(spoken, e[0] + 1, N)
  BY <1>1, <1>3, PackedIsSaid
<1> HIDE DEF said
<1>5. /\ context \in Seq(PackedMessages) /\ L \in Nat /\ N \in Nat /\ e \in [0..L -> 0..N] /\ e[L] = N
      /\ (\A i \in 1..e[0] : spoken[i] \in Own)
      /\ (context # <<>> => e[0] < N /\ spoken[e[0] + 1] \notin Own)
  BY <1>1, <1>3 DEF PackedUpTo
<1>6. \A i \in 1..L : /\ (i < L => e[i - 1] < e[i])
                      /\ context[i].says = SubSeq(spoken, e[i - 1] + 1, e[i])
                      /\ context[i].own = (i % 2 = 0)
  BY <1>3 DEF PackedUpTo
<1>7. DOMAIN context = 1..L
  BY <1>5
<1>8. e[0] \in 0..N
  BY <1>5
<1> HIDE DEF N, L
<1>9. ASSUME NEW m \in 0..N, NEW n \in 0..N, m <= n
      PROVE  /\ Len(SubSeq(spoken, m + 1, n)) = n - m
             /\ (m < n => SubSeq(spoken, m + 1, n)[1] = spoken[m + 1])
  <2>1. m + 1 \in Nat /\ m + 1 > 0 /\ n \in Int /\ n <= N
    BY <1>5
  <2>2. /\ Len(SubSeq(spoken, m + 1, n)) = IF m + 1 <= n THEN n - (m + 1) + 1 ELSE 0
        /\ \A i \in 1..(n - (m + 1) + 1) : SubSeq(spoken, m + 1, n)[i] = spoken[(m + 1) + i - 1]
    BY <1>1, <2>1, Parts DEF N
  <2>3. Len(SubSeq(spoken, m + 1, n)) = n - m
    BY <1>9, <2>1, <2>2
  <2>4. m < n => 1 \in 1..(n - (m + 1) + 1) /\ (m + 1) + 1 - 1 = m + 1
    BY <1>9, <2>1
  <2> QED BY <2>2, <2>3, <2>4
<1>10. Len(said) = N - e[0]
  BY <1>4, <1>5, <1>8, <1>9
<1>11. before = e[0]
  BY <1>5, <1>8, <1>10 DEF N
<1> HIDE DEF before
<1>12. \A i \in DOMAIN context :
         /\ context[i].own = (i % 2 = 0)
         /\ i < L => context[i].says # <<>>
  <2>1. ASSUME NEW i \in 1..L, i < L PROVE context[i].says # <<>>
    <3>1. i - 1 \in 0..L /\ i \in 0..L
      BY <1>5
    <3>2. e[i - 1] \in 0..N /\ e[i] \in 0..N /\ e[i - 1] < e[i]
      BY <1>5, <1>6, <2>1, <3>1
    <3>3. Len(SubSeq(spoken, e[i - 1] + 1, e[i])) = e[i] - e[i - 1]
      BY <1>5, <1>9, <3>2
    <3>4. \A a, b \in 0..N : a < b => b - a # 0
      BY <1>5
    <3>5. e[i] - e[i - 1] # 0
      BY <3>2, <3>4
    <3>6. Len(context[i].says) # 0
      BY <1>6, <3>3, <3>5
    <3> QED BY <3>6
  <2> QED BY <1>6, <1>7, <2>1
<1>13. ASSUME said # <<>> PROVE said[1] \notin Own
  <2>1. e[0] < N
    <3>1. CASE e[0] = N
      <4>1. said = <<>>
        BY <1>4, <1>5, <3>1, SubSeqEmpty
      <4> QED BY <1>13, <4>1
    <3> QED BY <1>5, <1>8, <3>1
  <2>2. context # <<>>
    <3>1. ASSUME context = <<>> PROVE e[0] = N
      BY <1>5, <3>1 DEF L
    <3> QED BY <1>5, <1>8, <2>1, <3>1
  <2>3. said[1] = spoken[e[0] + 1]
    BY <1>4, <1>5, <1>8, <1>9, <2>1
  <2> QED BY <1>5, <2>2, <2>3
<1>14. /\ L % 2 = 0
       /\ said = SubSeq(spoken, before + 1, N)
       /\ \A i \in 1..before : spoken[i] \in Own
       /\ said # <<>> => said[1] \notin Own
  BY <1>3, <1>4, <1>5, <1>11, <1>13 DEF L
<1> QED BY <1>12, <1>14 DEF TurnsTaken, spoken, context, said, before, N, L

\* Whatever the records, writes, failures and restarts: a context rebuilt from the
\* store holds every record once and leaves no gap after its oldest one, and is
\* handed on as a conversation in which the two take turns and nothing is left out
\* (read_recent_for_context and pack_memory_messages).
THEOREM ContextsAreRecovered == RecoverySpec => []ContextRecovered
<1>1. RecoveryInv => ContextRecovered
  BY SpeakersTakeTurns DEF RecoveryInv, ContextRecovered
<1> QED BY <1>1, RecoveryInvHolds, PTL

--------------------------------------------------------------------------------
(* The ego memory: the invariant.                                              *)

Contents == [text : Texts, rest : Texts]
Steps == {"idle", "begin", "truncate", "fill", "mark", "search", "sync", "fetch", "reindex"}
Changes == {"create", "update", "edit", "open"}
Jobs == [key : Things \cup {None}, op : Changes \cup {"none", FindAgents, FindRoles},
         text : Texts, new : Contents \cup {None}, load : BOOLEAN,
         todo : SUBSET Searched, at : Searched \cup {None}, old : Texts \cup {None}]

StoreTypes ==
    /\ saved \in [Things -> Contents \cup {None, TornFile}]
    /\ cache \in [Things -> Contents \cup {None}]
    /\ holder \in [Things -> Tasks \cup {None}]
    /\ created \in [Things -> Nat]

IndexTypes ==
    /\ instance \in {"none", "loading", "ready"}
    /\ metadata \in [Searched -> Texts \cup {None}]
    /\ texts \in [Searched -> SUBSET Texts]
    /\ dirty \subseteq Searched

TaskTypes == pc \in [Tasks -> Steps] /\ job \in [Tasks -> Jobs]

EgoTypes == StoreTypes /\ IndexTypes /\ TaskTypes

\* What a task is at says what its request is.
KindOf(s, j) ==
    /\ s \in {"idle", "search"} => j.key = None /\ ~j.load
    /\ s = "search" => j.op \in {FindAgents, FindRoles}
    /\ s \in {"begin", "truncate", "fill", "mark"} =>
          j.key \in Things /\ j.op \in Changes /\ ~j.load
    /\ s \in {"sync", "fetch", "reindex"} =>
          \/ j.op \in {FindAgents, FindRoles} /\ j.key = None
          \/ j.op \in Marked /\ j.load
    /\ s \in {"fetch", "reindex"} => j.at \in Searched
    /\ s = "mark" => j.op \in Marked
    /\ j.op \in Marked => j.key \in Searched
    /\ j.op = "edit" => j.key \in Roles \cup Individuals
    /\ j.op = "open" => j.key \in Individuals
Kinds == \A t \in Tasks : KindOf(pc[t], job[t])

\* Whoever writes has the lock, and memory shows the change already.
Locks == \A t \in Tasks : Writing(t) =>
    /\ holder[job[t].key] = t
    /\ job[t].new \in Contents
    /\ cache[job[t].key] = IF job[t].op = "open" THEN None ELSE job[t].new

Kept == \A k \in Things :
    holder[k] = None /\ cache[k] # None /\ k \notin unsaved => cache[k] = saved[k]

Making(t, k) == job[t].key = k /\ job[t].op = "create" /\ pc[t] \in {"begin", "truncate", "fill"}

Once ==
    /\ \A k \in Things : /\ created[k] > 0 => saved[k] # None
                         /\ k \notin raced => created[k] <= 1
    /\ \A t \in Tasks, k \in Roles : Making(t, k) /\ Writing(t) => created[k] = 0
    /\ \A t \in Tasks, k \in Agents \ raced :
          Making(t, k) => /\ created[k] = 0
                          /\ \A q \in Tasks : Making(q, k) => q = t

Loading ==
    /\ \A t \in Tasks : job[t].load => instance = "loading"
    /\ \A t, q \in Tasks : job[t].load /\ job[q].load => t = q
    /\ instance = "none" =>
          /\ \A t \in Tasks : pc[t] \notin {"sync", "fetch", "reindex"}
          /\ \A k \in Searched : metadata[k] = None

Idle(k) == \A t \in Tasks : ~Syncing(t, k)
Index == \A k \in Searched \ crossed :
    /\ \A t, q \in Tasks : Syncing(t, k) /\ Syncing(q, k) => t = q
    /\ Idle(k) => texts[k] = {metadata[k]} \ {None}
    /\ \A t \in Tasks : Syncing(t, k) =>
          metadata[k] = None /\ texts[k] = {job[t].old} \ {None}

\* A change the index is to be told of.
Pending(k) == \E t \in Tasks : job[t].key = k /\ job[t].op \in Marked /\ pc[t] # "begin"

Present ==
    /\ \A k \in Agents : saved[k] # None => k \in registered
    /\ \A t \in Tasks : job[t].key \in Agents => job[t].key \in registered
    /\ \A k \in Searched \ missed : saved[k] = None /\ cache[k] # None =>
          \E t \in Tasks : job[t].key = k /\ job[t].op \in Marked /\ pc[t] = "truncate"
    /\ \A t \in Tasks : job[t].op \in Marked /\ pc[t] \notin {"begin", "truncate"} =>
          saved[job[t].key] # None

TextOf(x) == IF x = None THEN None ELSE x.text
Awaited(k) == \E t \in Tasks : job[t].load /\ k \in job[t].todo
Shown == \A k \in Searched \ (crossed \cup missed \cup dirty) : ~Pending(k) =>
    /\ instance # "none" /\ Idle(k) /\ ~Awaited(k) => metadata[k] = TextOf(Readable(k))
    /\ \A t \in Tasks : Syncing(t, k) /\ pc[t] = "reindex" => TextOf(job[t].new) = TextOf(Readable(k))

WriteInv == Locks /\ Kept /\ Once
SearchInv == Loading /\ Index /\ Present /\ Shown
EgoSafe == EgoTypes /\ Kinds /\ WriteInv /\ SearchInv

--------------------------------------------------------------------------------
\* Constants apart.
LEMMA Apart ==
    /\ None \notin Things \cup Searched \cup Tasks \cup Texts \cup Contents \cup {TornFile}
    /\ TornFile \notin Contents
    /\ Searched \subseteq Things /\ Agents \cap Roles = {} /\ Agents \cap Individuals = {}
    /\ Searched \cap Individuals = {} /\ Agents \subseteq Searched /\ Roles \subseteq Searched
    /\ Empty \in Texts
  BY EgoAssumption DEF Things, Searched, Contents

LEMMA NoJobType == NoJob \in Jobs /\ KindOf("idle", NoJob)
  BY Apart DEF NoJob, Jobs, KindOf, Marked, FindAgents, FindRoles

\* A step of a task: what it is at, and what its request becomes.
Moves(t, s, j) == pc' = [pc EXCEPT ![t] = s] /\ job' = [job EXCEPT ![t] = j]

LEMMA MovesFacts ==
    ASSUME TaskTypes, NEW t \in Tasks, NEW s \in Steps, NEW j \in Jobs, Moves(t, s, j)
    PROVE  /\ TaskTypes'
           /\ pc'[t] = s /\ job'[t] = j
           /\ \A q \in Tasks \ {t} : pc'[q] = pc[q] /\ job'[q] = job[q]
  BY DEF TaskTypes, Moves

LEMMA MovesKinds ==
    ASSUME TaskTypes, Kinds, NEW t \in Tasks, NEW s \in Steps, NEW j \in Jobs, Moves(t, s, j), KindOf(s, j)
    PROVE  Kinds'
  BY MovesFacts DEF Kinds

LEMMA StoredTypes ==
    ASSUME StoreTypes, NEW k \in Things
    PROVE  /\ Stored(k) \in Contents \cup {None, TornFile}
           /\ Readable(k) \in Contents \cup {None}
  BY DEF StoreTypes, Stored, Readable

\* What each action makes of the task that takes it.
LEMMA RequestMoves ==
    ASSUME TaskTypes, NEW t \in Tasks, NEW k \in Things, NEW o \in Changes, NEW v \in Texts,
           Request(t, k, o, v), o \in Marked => k \in Searched,
           o = "edit" => k \in Roles \cup Individuals, o = "open" => k \in Individuals
    PROVE  \E j \in Jobs : /\ Moves(t, "begin", j) /\ KindOf("begin", j)
                           /\ j.key = k /\ j.op = o /\ pc[t] = "idle"
<1> DEFINE j == [NoJob EXCEPT !.key = k, !.op = o, !.text = v]
<1>1. j \in Jobs /\ j.key = k /\ j.op = o /\ ~j.load
  BY NoJobType DEF Jobs, NoJob
<1>2. Moves(t, "begin", j) /\ pc[t] = "idle"
  BY DEF Request, Moves
<1>3. KindOf("begin", j)
  BY <1>1 DEF KindOf
<1>. HIDE DEF j
<1>4. QED
  BY <1>1, <1>2, <1>3

LEMMA RestMoves ==
    ASSUME NEW t \in Tasks, Rests(t)
    PROVE  Moves(t, "idle", NoJob)
  BY DEF Rests, Moves

LEMMA GotoMoves ==
    ASSUME TaskTypes, NEW t \in Tasks, NEW s, Goto(t, s)
    PROVE  Moves(t, s, job[t])
  BY DEF Goto, Moves, TaskTypes

LEMMA BeginWriteMoves ==
    ASSUME StoreTypes, TaskTypes, Kinds, NEW t \in Tasks, BeginWrite(t)
    PROVE  LET new == Change(t, Stored(job[t].key)) IN
           \E j \in Jobs : /\ new \in Contents /\ pc[t] = "begin"
                           /\ Moves(t, "truncate", j) /\ KindOf("truncate", j)
                           /\ j.key = job[t].key /\ j.op = job[t].op /\ j.new = new
<1> DEFINE k == job[t].key
           new == Change(t, Stored(k))
           j == [job[t] EXCEPT !.new = new]
<1>1. job[t] \in Jobs /\ KindOf("begin", job[t]) /\ pc[t] = "begin"
  BY DEF TaskTypes, Kinds, BeginWrite
<1>2. k \in Things /\ job[t].op \in Changes /\ job[t].text \in Texts
  BY <1>1 DEF Jobs, KindOf
<1>3. Stored(k) \in Contents \/ job[t].op \in {"create", "open"}
  BY <1>2, StoredTypes DEF BeginWrite, Refuses, Changes
<1>4. new \in Contents
  BY <1>2, <1>3, Apart DEF Change, Contents, Changes
<1>5. Moves(t, "truncate", j)
  BY DEF BeginWrite, Moves
<1>. HIDE DEF new
<1>6. j \in Jobs /\ j.key = job[t].key /\ j.op = job[t].op /\ j.new = new /\ j.load = job[t].load
  BY <1>1, <1>4 DEF Jobs
<1>7. KindOf("truncate", j)
  BY <1>1, <1>6 DEF KindOf
<1>. HIDE DEF j
<1>8. QED
  BY <1>1, <1>4, <1>5, <1>6, <1>7 DEF new

\* A task that synchronises, by what its request becomes.
LEMMA LoadMoves ==
    ASSUME TaskTypes, Kinds, NEW t \in Tasks, NEW S \in SUBSET Searched, LoadIndex(t, S)
    PROVE  \E j \in Jobs : /\ Moves(t, "sync", j) /\ KindOf("sync", j) /\ pc[t] \in {"search", "mark"}
                           /\ j.key = job[t].key /\ j.op = job[t].op /\ j.load /\ j.todo = S
<1> DEFINE j == [job[t] EXCEPT !.load = TRUE, !.todo = S]
<1>1. job[t] \in Jobs /\ KindOf(pc[t], job[t]) /\ pc[t] \in {"search", "mark"}
  BY DEF TaskTypes, Kinds, LoadIndex
<1>2. j \in Jobs /\ j.key = job[t].key /\ j.op = job[t].op /\ j.load /\ j.todo = S
  BY <1>1 DEF Jobs
<1>3. Moves(t, "sync", j)
  BY DEF LoadIndex, Moves
<1>4. KindOf("sync", j)
  BY <1>1, <1>2 DEF KindOf
<1>. HIDE DEF j
<1>5. QED
  BY <1>1, <1>2, <1>3, <1>4

\* The steps of one that goes on synchronising keep its request.
LEMMA SyncMoves ==
    ASSUME TaskTypes, IndexTypes, Kinds, NEW t \in Tasks
    PROVE  /\ SyncAll(t) =>
                \E j \in Jobs : /\ pc[t] = "search" /\ Moves(t, "sync", j) /\ KindOf("sync", j)
                               /\ j.key = None /\ ~j.load
           /\ \A k \in Searched : TakeMark(t, k) =>
                \E j \in Jobs : /\ pc[t] = "sync" /\ Moves(t, "fetch", j) /\ KindOf("fetch", j)
                               /\ j.key = job[t].key /\ j.op = job[t].op /\ j.load = job[t].load
                               /\ j.todo = job[t].todo \ {k} /\ j.at = k /\ j.old = metadata[k]
           /\ \A k \in Searched : Skip(t, k) =>
                \E j \in Jobs : /\ pc[t] = "sync" /\ Moves(t, "sync", j) /\ KindOf("sync", j)
                               /\ j.key = job[t].key /\ j.op = job[t].op /\ ~j.load /\ ~job[t].load
           /\ \A n \in Contents \cup {None} : (Fetch(t) \/ FetchFails(t)) /\ job'[t].new = n =>
                \E j \in Jobs : /\ pc[t] = "fetch" /\ Moves(t, "reindex", j) /\ KindOf("reindex", j)
                               /\ j.key = job[t].key /\ j.op = job[t].op /\ j.load = job[t].load
                               /\ j.todo = job[t].todo /\ j.at = job[t].at /\ j.old = job[t].old
                               /\ j.new = n
           /\ Reindex(t) =>
                \E j \in Jobs : /\ pc[t] = "reindex" /\ Moves(t, "sync", j) /\ KindOf("sync", j)
                               /\ j.key = job[t].key /\ j.op = job[t].op /\ j.load = job[t].load
                               /\ j.todo = job[t].todo
           /\ EndSync(t) =>
                \E j \in Jobs : /\ pc[t] = "sync" /\ ~j.load
                               /\ Moves(t, IF Finds(t) THEN "search" ELSE "mark", j)
                               /\ KindOf(IF Finds(t) THEN "search" ELSE "mark", j)
                               /\ j.key = job[t].key /\ j.op = job[t].op
<1>1. job[t] \in Jobs /\ KindOf(pc[t], job[t])
  BY DEF TaskTypes, Kinds
<1>2. ASSUME SyncAll(t)
      PROVE  \E j \in Jobs : /\ pc[t] = "search" /\ Moves(t, "sync", j) /\ KindOf("sync", j)
                            /\ j.key = None /\ ~j.load
  <2> DEFINE j == [job[t] EXCEPT !.todo = Wanted(t)]
  <2>1. pc[t] = "search" /\ Moves(t, "sync", j)
    BY <1>2 DEF SyncAll, Moves
  <2>2. Wanted(t) \in SUBSET Searched
    BY DEF Wanted, IndexTypes
  <2>3. j \in Jobs /\ j.key = job[t].key /\ j.op = job[t].op /\ j.load = job[t].load
    BY <1>1, <2>2 DEF Jobs
  <2>4. KindOf("sync", j) /\ j.key = None /\ ~j.load
    BY <1>1, <2>1, <2>3 DEF KindOf
  <2>. HIDE DEF j
  <2>5. QED
    BY <2>1, <2>3, <2>4
<1>3. ASSUME NEW k \in Searched, TakeMark(t, k)
      PROVE  \E j \in Jobs : /\ pc[t] = "sync" /\ Moves(t, "fetch", j) /\ KindOf("fetch", j)
                            /\ j.key = job[t].key /\ j.op = job[t].op /\ j.load = job[t].load
                            /\ j.todo = job[t].todo \ {k} /\ j.at = k /\ j.old = metadata[k]
  <2> DEFINE j == [job[t] EXCEPT !.todo = job[t].todo \ {k}, !.at = k, !.old = metadata[k]]
  <2>1. pc[t] = "sync" /\ Moves(t, "fetch", j)
    BY <1>3 DEF TakeMark, Moves
  <2>2. j \in Jobs /\ j.key = job[t].key /\ j.op = job[t].op /\ j.load = job[t].load
        /\ j.todo = job[t].todo \ {k} /\ j.at = k /\ j.old = metadata[k]
    BY <1>1 DEF Jobs, IndexTypes
  <2>3. KindOf("fetch", j)
    BY <1>1, <2>1, <2>2 DEF KindOf
  <2>. HIDE DEF j
  <2>4. QED
    BY <2>1, <2>2, <2>3
<1>4. ASSUME NEW k \in Searched, Skip(t, k)
      PROVE  \E j \in Jobs : /\ pc[t] = "sync" /\ Moves(t, "sync", j) /\ KindOf("sync", j)
                            /\ j.key = job[t].key /\ j.op = job[t].op /\ ~j.load /\ ~job[t].load
  <2> DEFINE j == [job[t] EXCEPT !.todo = job[t].todo \ {k}]
  <2>1. pc[t] = "sync" /\ Moves(t, "sync", j) /\ ~job[t].load
    BY <1>4 DEF Skip, Moves, TaskTypes
  <2>2. j \in Jobs /\ j.key = job[t].key /\ j.op = job[t].op /\ j.load = job[t].load
    BY <1>1 DEF Jobs
  <2>3. KindOf("sync", j)
    BY <1>1, <2>1, <2>2 DEF KindOf
  <2>. HIDE DEF j
  <2>4. QED
    BY <2>1, <2>2, <2>3
<1>5. ASSUME NEW n \in Contents \cup {None}, Fetch(t) \/ FetchFails(t), job'[t].new = n
      PROVE  \E j \in Jobs : /\ pc[t] = "fetch" /\ Moves(t, "reindex", j) /\ KindOf("reindex", j)
                            /\ j.key = job[t].key /\ j.op = job[t].op /\ j.load = job[t].load
                            /\ j.todo = job[t].todo /\ j.at = job[t].at /\ j.old = job[t].old
                            /\ j.new = n
  <2> DEFINE j == [job[t] EXCEPT !.new = n]
  <2>1. pc[t] = "fetch" /\ Moves(t, "reindex", j)
    <3>1. PICK x : job' = [job EXCEPT ![t].new = x]
      BY <1>5 DEF Fetch, FetchFails
    <3>2. job'[t].new = x
      BY <1>1, <3>1 DEF TaskTypes, Jobs
    <3>3. QED
      BY <1>5, <3>1, <3>2 DEF Fetch, FetchFails, Moves
  <2>2. j \in Jobs /\ j.key = job[t].key /\ j.op = job[t].op /\ j.load = job[t].load
        /\ j.todo = job[t].todo /\ j.at = job[t].at /\ j.old = job[t].old /\ j.new = n
    BY <1>1 DEF Jobs
  <2>3. KindOf("reindex", j)
    BY <1>1, <2>1, <2>2 DEF KindOf
  <2>. HIDE DEF j
  <2>4. QED
    BY <2>1, <2>2, <2>3
<1>6. ASSUME Reindex(t)
      PROVE  \E j \in Jobs : /\ pc[t] = "reindex" /\ Moves(t, "sync", j) /\ KindOf("sync", j)
                            /\ j.key = job[t].key /\ j.op = job[t].op /\ j.load = job[t].load
                            /\ j.todo = job[t].todo
  <2> DEFINE j == [job[t] EXCEPT !.at = None, !.old = None, !.new = None]
  <2>1. pc[t] = "reindex" /\ Moves(t, "sync", j)
    BY <1>6 DEF Reindex, Moves
  <2>2. j \in Jobs /\ j.key = job[t].key /\ j.op = job[t].op /\ j.load = job[t].load
        /\ j.todo = job[t].todo
    BY <1>1 DEF Jobs
  <2>3. KindOf("sync", j)
    BY <1>1, <2>1, <2>2 DEF KindOf
  <2>. HIDE DEF j
  <2>4. QED
    BY <2>1, <2>2, <2>3
<1>7. ASSUME EndSync(t)
      PROVE  \E j \in Jobs : /\ pc[t] = "sync" /\ ~j.load
                            /\ Moves(t, IF Finds(t) THEN "search" ELSE "mark", j)
                            /\ KindOf(IF Finds(t) THEN "search" ELSE "mark", j)
                            /\ j.key = job[t].key /\ j.op = job[t].op
  <2> DEFINE j == [job[t] EXCEPT !.load = FALSE]
  <2>1. pc[t] = "sync" /\ Moves(t, IF Finds(t) THEN "search" ELSE "mark", j)
    BY <1>7 DEF EndSync, Moves
  <2>2. j \in Jobs /\ j.key = job[t].key /\ j.op = job[t].op /\ ~j.load
    BY <1>1 DEF Jobs
  <2>3. KindOf(IF Finds(t) THEN "search" ELSE "mark", j)
    BY <1>1, <2>1, <2>2, Apart DEF KindOf, Finds, Marked, Changes, FindAgents, FindRoles
  <2>. HIDE DEF j
  <2>4. QED
    BY <2>1, <2>2, <2>3
<1>8. QED
  BY <1>2, <1>3, <1>4, <1>5, <1>6, <1>7

--------------------------------------------------------------------------------
(* Types, and what a task is at.                                               *)

LEMMA InitTypes == EgoInit => EgoTypes /\ Kinds
<1> SUFFICES ASSUME EgoInit PROVE EgoTypes /\ Kinds
  OBVIOUS
<1>1. [text |-> Empty, rest |-> Empty] \in Contents
  BY Apart DEF Contents
<1>2. StoreTypes /\ IndexTypes
  BY <1>1 DEF EgoInit, StoreTypes, IndexTypes
<1>3. TaskTypes /\ Kinds
  BY NoJobType DEF EgoInit, TaskTypes, Kinds, Steps
<1>4. QED
  BY <1>2, <1>3 DEF EgoTypes

LEMMA MovesKept ==
    ASSUME TaskTypes, Kinds, NEW t \in Tasks, NEW s \in Steps,
           \E j \in Jobs : Moves(t, s, j) /\ KindOf(s, j)
    PROVE  TaskTypes' /\ Kinds'
  BY MovesFacts, MovesKinds

LEMMA TypesStep ==
    ASSUME EgoTypes, Kinds, Locks, [EgoNext]_egoVars
    PROVE  EgoTypes' /\ Kinds'
<1> USE DEF EgoTypes
<1>0. \A s \in {"idle", "begin", "truncate", "fill", "mark", "search", "sync", "fetch", "reindex"} :
        s \in Steps
  BY DEF Steps
<1>1. ASSUME NEW t \in Tasks, Rests(t)
      PROVE  TaskTypes' /\ Kinds'
  BY <1>0, <1>1, RestMoves, NoJobType, MovesKept
<1>2. ASSUME NEW t \in Tasks, NEW k \in Things, NEW v \in Texts,
             CreateAgent(t, k, v) \/ CreateRole(t, k, v) \/ Update(t, k, v) \/ Edit(t, k, v)
      PROVE  EgoTypes' /\ Kinds'
  <2>1. \E o \in Changes : /\ Request(t, k, o, v) /\ (o \in Marked => k \in Searched)
                          /\ (o = "edit" => k \in Roles \cup Individuals)
                          /\ (o = "open" => k \in Individuals)
    BY <1>2, Apart DEF CreateAgent, CreateRole, Update, Edit, Changes, Marked
  <2>2. TaskTypes' /\ Kinds'
    BY <1>0, <2>1, RequestMoves, MovesKept
  <2>3. StoreTypes' /\ IndexTypes'
    BY <1>2 DEF CreateAgent, CreateRole, Update, Edit, Request, StoreTypes, IndexTypes,
                things, search, history
  <2>4. QED
    BY <2>2, <2>3
<1>3. ASSUME NEW t \in Tasks, NEW k \in Individuals, OpenIndividuals(t, k)
      PROVE  EgoTypes' /\ Kinds'
  <2>1. Request(t, k, "open", Empty) /\ k \in Things /\ "open" \in Changes /\ "open" \notin Marked
    BY <1>3 DEF OpenIndividuals, Things, Changes, Marked
  <2>2. TaskTypes' /\ Kinds'
    BY <1>0, <2>1, Apart, RequestMoves, MovesKept
  <2>3. StoreTypes' /\ IndexTypes'
    BY <1>3 DEF OpenIndividuals, Request, StoreTypes, IndexTypes, things, search, history
  <2>4. QED
    BY <2>2, <2>3
<1>4. ASSUME NEW t \in Tasks, BeginWrite(t)
      PROVE  EgoTypes' /\ Kinds'
  <2>1. TaskTypes' /\ Kinds' /\ Change(t, Stored(job[t].key)) \in Contents
    BY <1>0, <1>4, BeginWriteMoves, MovesKept
  <2>2. StoreTypes' /\ IndexTypes'
    BY <1>4, <2>1 DEF BeginWrite, StoreTypes, IndexTypes, search
  <2>3. QED
    BY <2>1, <2>2
<1>5. ASSUME NEW t \in Tasks, Refuse(t)
      PROVE  EgoTypes' /\ Kinds'
  <2>1. TaskTypes' /\ Kinds'
    BY <1>1, <1>5 DEF Refuse
  <2>2. job[t].key \in Things
    BY <1>5 DEF Refuse, Kinds, KindOf
  <2>3. Stored(job[t].key) = TornFile \/ Stored(job[t].key) \in Contents \cup {None}
    BY <2>2, StoredTypes
  <2>4. cache' \in [Things -> Contents \cup {None}]
    BY <1>5, <2>3 DEF Refuse, StoreTypes
  <2>5. StoreTypes' /\ IndexTypes'
    BY <1>5, <2>4 DEF Refuse, StoreTypes, IndexTypes, search, history
  <2>6. QED
    BY <2>1, <2>5
<1>6. ASSUME NEW t \in Tasks, Truncate(t)
      PROVE  EgoTypes' /\ Kinds'
  <2>1. Moves(t, "fill", job[t]) /\ job[t] \in Jobs /\ KindOf("fill", job[t])
    BY <1>6, GotoMoves DEF Truncate, TaskTypes, Kinds, KindOf
  <2>2. StoreTypes' /\ IndexTypes'
    BY <1>6 DEF Truncate, StoreTypes, IndexTypes, search, history
  <2>3. QED
    BY <1>0, <2>1, <2>2, MovesKept
<1>7. ASSUME NEW t \in Tasks, Fill(t)
      PROVE  EgoTypes' /\ Kinds'
  <2>1. job[t] \in Jobs /\ KindOf("fill", job[t])
    BY <1>7 DEF Fill, TaskTypes, Kinds
  <2>2. ASSUME job[t].op \in Marked
        PROVE  TaskTypes' /\ Kinds'
    <3>1. Moves(t, "mark", job[t]) /\ KindOf("mark", job[t])
      BY <1>7, <2>1, <2>2, GotoMoves DEF Fill, KindOf
    <3>2. QED
      BY <1>0, <2>1, <3>1, MovesKept
  <2>3. ASSUME job[t].op \notin Marked
        PROVE  TaskTypes' /\ Kinds'
    BY <1>1, <1>7, <2>3 DEF Fill
  <2>4. job[t].new \in Contents /\ job[t].key \in Things
    BY <1>7, <2>1 DEF Fill, Locks, Writing, KindOf
  <2>5. StoreTypes' /\ IndexTypes'
    <3> DEFINE k == job[t].key
    <3>1. saved' = [saved EXCEPT ![k] = job[t].new] /\ cache' = [cache EXCEPT ![k] = job[t].new]
          /\ holder' = [holder EXCEPT ![k] = None] /\ UNCHANGED search
      BY <1>7 DEF Fill
    <3>2. created' = [created EXCEPT ![k] = @ + 1] \/ created' = created
      BY <1>7 DEF Fill
    <3>3. k \in Things
      BY <2>4
    <3>. HIDE DEF k
    <3>4. created' \in [Things -> Nat]
      BY <3>2, <3>3 DEF StoreTypes
    <3>5. QED
      BY <2>4, <3>1, <3>3, <3>4 DEF StoreTypes, IndexTypes, search
  <2>6. QED
    BY <2>2, <2>3, <2>5
<1>8. ASSUME NEW t \in Tasks, SaveFails(t) \/ MarkDirty(t) \/ Answer(t)
      PROVE  EgoTypes' /\ Kinds'
  <2>1. TaskTypes' /\ Kinds'
    BY <1>1, <1>8 DEF SaveFails, MarkDirty, Answer
  <2>2. job[t].key \in Searched \/ ~MarkDirty(t)
    BY DEF MarkDirty, Kinds, KindOf
  <2>3. StoreTypes' /\ IndexTypes'
    <3>1. CASE SaveFails(t)
      BY <3>1, Apart DEF SaveFails, StoreTypes, IndexTypes, search
    <3>2. CASE MarkDirty(t)
      BY <2>2, <3>2 DEF MarkDirty, StoreTypes, IndexTypes, things
    <3>3. CASE Answer(t)
      BY <3>3 DEF Answer, StoreTypes, IndexTypes, things, search, history
    <3>4. QED
      BY <1>8, <3>1, <3>2, <3>3
  <2>4. QED
    BY <2>1, <2>3
<1>9. ASSUME NEW t \in Tasks, NEW o \in {FindAgents, FindRoles}, Search(t, o)
      PROVE  EgoTypes' /\ Kinds'
  <2> DEFINE j == [NoJob EXCEPT !.op = o]
  <2>1. j \in Jobs /\ j.op = o /\ j.key = None /\ ~j.load
    BY NoJobType DEF Jobs, NoJob
  <2>2. KindOf("search", j)
    BY <2>1, Apart DEF KindOf, Marked, FindAgents, FindRoles
  <2>3. Moves(t, "search", j)
    BY <1>9 DEF Search, Moves
  <2>4. StoreTypes' /\ IndexTypes'
    BY <1>9 DEF Search, StoreTypes, IndexTypes, things, search, history
  <2>. HIDE DEF j
  <2>5. QED
    BY <1>0, <2>1, <2>2, <2>3, <2>4, MovesKept
<1>10. ASSUME NEW t \in Tasks, NEW S \in SUBSET Searched, LoadIndex(t, S)
       PROVE  EgoTypes' /\ Kinds'
  <2>1. TaskTypes' /\ Kinds'
    BY <1>0, <1>10, LoadMoves, MovesKept
  <2>2. StoreTypes' /\ IndexTypes'
    BY <1>10 DEF LoadIndex, StoreTypes, IndexTypes, things
  <2>3. QED
    BY <2>1, <2>2
<1>11. ASSUME NEW t \in Tasks, SyncAll(t) \/ (\E k \in Searched : Skip(t, k))
       PROVE  EgoTypes' /\ Kinds'
  <2>1. TaskTypes' /\ Kinds'
    BY <1>0, <1>11, SyncMoves, MovesKept
  <2>2. StoreTypes' /\ IndexTypes'
    BY <1>11 DEF SyncAll, Skip, StoreTypes, IndexTypes, things, search, history
  <2>3. QED
    BY <2>1, <2>2
<1>12. ASSUME NEW t \in Tasks, NEW k \in Searched, TakeMark(t, k)
       PROVE  EgoTypes' /\ Kinds'
  <2>1. TaskTypes' /\ Kinds'
    BY <1>0, <1>12, SyncMoves, MovesKept
  <2>2. StoreTypes' /\ IndexTypes'
    BY <1>12 DEF TakeMark, StoreTypes, IndexTypes, things
  <2>3. QED
    BY <2>1, <2>2
<1>13. ASSUME NEW t \in Tasks, Fetch(t) \/ FetchFails(t)
       PROVE  EgoTypes' /\ Kinds'
  <2>1. job[t] \in Jobs /\ job[t].at \in Searched /\ job[t].at \in Things
    BY <1>13, Apart DEF Fetch, FetchFails, TaskTypes, Kinds, KindOf
  <2>2. Readable(job[t].at) \in Contents \cup {None}
    BY <2>1, StoredTypes
  <2>3. job'[t].new \in Contents \cup {None}
    BY <1>13, <2>1, <2>2 DEF Fetch, FetchFails, TaskTypes, Jobs
  <2>4. TaskTypes' /\ Kinds'
    BY <1>0, <1>13, <2>3, SyncMoves, MovesKept
  <2>5. StoreTypes' /\ IndexTypes'
    BY <1>13, <2>2 DEF Fetch, FetchFails, StoreTypes, IndexTypes, things, search, history
  <2>6. QED
    BY <2>4, <2>5
<1>14. ASSUME NEW t \in Tasks, Reindex(t)
       PROVE  EgoTypes' /\ Kinds'
  <2>1. TaskTypes' /\ Kinds'
    BY <1>0, <1>14, SyncMoves, MovesKept
  <2>2. job[t] \in Jobs /\ job[t].at \in Searched
    BY <1>14 DEF Reindex, TaskTypes, Kinds, KindOf
  <2>3. job[t].new = None \/ job[t].new.text \in Texts
    BY <2>2 DEF Jobs, Contents
  <2>4. StoreTypes' /\ IndexTypes'
    BY <1>14, <2>2, <2>3 DEF Reindex, StoreTypes, IndexTypes, things, history
  <2>5. QED
    BY <2>1, <2>4
<1>15. ASSUME NEW t \in Tasks, EndSync(t)
       PROVE  EgoTypes' /\ Kinds'
  <2>1. TaskTypes' /\ Kinds'
    BY <1>0, <1>15, SyncMoves, MovesKept
  <2>2. StoreTypes' /\ IndexTypes'
    BY <1>15 DEF EndSync, StoreTypes, IndexTypes, things, history
  <2>3. QED
    BY <2>1, <2>2
<1>16. ASSUME NEW k \in Things, Get(k)
       PROVE  EgoTypes' /\ Kinds'
  BY <1>16, StoredTypes DEF Get, StoreTypes, IndexTypes, TaskTypes, Kinds, search, tasks, history
<1>17. ASSUME Restart
       PROVE  EgoTypes' /\ Kinds'
  BY <1>17, NoJobType DEF Restart, StoreTypes, IndexTypes, TaskTypes, Kinds, Steps
<1>18. ASSUME UNCHANGED egoVars
       PROVE  EgoTypes' /\ Kinds'
  BY <1>18 DEF egoVars, StoreTypes, IndexTypes, TaskTypes, Kinds, things, search, tasks, history
<1>19. QED
  BY <1>2, <1>3, <1>4, <1>5, <1>6, <1>7, <1>8, <1>9, <1>10, <1>11, <1>12, <1>13, <1>14, <1>15,
     <1>16, <1>17, <1>18 DEF EgoNext, WriteNext, SearchNext

--------------------------------------------------------------------------------
(* Writing.                                                                    *)

\* A step that writes nothing, and lets memory keep at most what a reader finds.
LEMMA QuietForWrites ==
    ASSUME StoreTypes, WriteInv, UNCHANGED <<saved, holder, created, raced, unsaved>>,
           \A k \in Things : cache'[k] = cache[k] \/ (holder[k] = None /\ cache'[k] = Readable(k)),
           \A t \in Tasks : pc'[t] \in {"begin", "truncate", "fill"} =>
              pc'[t] = pc[t] /\ job'[t] = job[t],
           \A t \in Tasks : Writing(t) => job[t].key \in Things
    PROVE  WriteInv'
<1>1. Locks'
  BY Apart DEF WriteInv, Locks, Writing
<1>2. ASSUME NEW k \in Things, holder[k] = None, cache'[k] # None, k \notin unsaved
      PROVE  cache'[k] = saved[k]
  <2>1. CASE cache'[k] = cache[k]
    BY <1>2, <2>1 DEF WriteInv, Kept
  <2>2. CASE cache'[k] = Readable(k) /\ cache[k] # None
    BY <1>2, <2>2, Apart DEF WriteInv, Kept, Readable, Stored, StoreTypes
  <2>3. CASE cache'[k] = Readable(k) /\ cache[k] = None
    BY <1>2, <2>3 DEF Readable, Stored
  <2>4. QED
    BY <2>1, <2>2, <2>3
<1>3. Kept'
  BY <1>2 DEF Kept
<1>4. \A t \in Tasks, k \in Things : Making(t, k)' => Making(t, k)
  BY DEF Making
<1>5. \A t \in Tasks, k \in Things : (Making(t, k) /\ Writing(t))' => Making(t, k) /\ Writing(t)
  BY DEF Making, Writing
<1>6. Once'
  BY <1>4, <1>5, Apart DEF WriteInv, Once
<1>7. QED
  BY <1>1, <1>3, <1>6 DEF WriteInv

\* The types and what the request of a task is, of one task.
LEMMA AtTask ==
    ASSUME EgoTypes, Kinds, NEW t \in Tasks
    PROVE  job[t] \in Jobs /\ KindOf(pc[t], job[t]) /\ pc[t] \in Steps
           /\ (Writing(t) \/ pc[t] = "begin" => job[t].key \in Things /\ job[t].op \in Changes)
           /\ (job[t].op = "create" => job[t].key \in Searched)
  BY DEF EgoTypes, TaskTypes, Kinds, KindOf, Writing, Marked

LEMMA QuietMoves ==
    ASSUME EgoTypes, Kinds, WriteInv, UNCHANGED <<saved, holder, created, raced, unsaved>>,
           \A k \in Things : cache'[k] = cache[k] \/ (holder[k] = None /\ cache'[k] = Readable(k)),
           NEW t \in Tasks, NEW s \in Steps \ {"begin", "truncate", "fill"},
           \E j \in Jobs : Moves(t, s, j)
    PROVE  WriteInv'
<1>1. \A q \in Tasks : pc'[q] \in {"begin", "truncate", "fill"} =>
         pc'[q] = pc[q] /\ job'[q] = job[q]
  BY MovesFacts DEF EgoTypes
<1>2. \A q \in Tasks : Writing(q) => job[q].key \in Things
  BY AtTask
<1>3. QED
  BY <1>1, <1>2, QuietForWrites DEF EgoTypes

LEMMA RequestWrites ==
    ASSUME EgoTypes, Kinds, WriteInv, NEW t \in Tasks, NEW k \in Things, NEW v \in Texts,
           \/ CreateAgent(t, k, v) \/ CreateRole(t, k, v) \/ Update(t, k, v) \/ Edit(t, k, v)
           \/ OpenIndividuals(t, k)
    PROVE  WriteInv'
<1>1. PICK o \in Changes : /\ Request(t, k, o, v) \/ Request(t, k, o, Empty)
                          /\ (o \in Marked => k \in Searched)
                          /\ (o = "edit" => k \in Roles \cup Individuals)
                          /\ (o = "open" => k \in Individuals)
                          /\ (o = "create" => CreateAgent(t, k, v) \/ k \in Roles)
  BY Apart DEF CreateAgent, CreateRole, Update, Edit, OpenIndividuals, Changes, Marked
<1>2. PICK j \in Jobs : Moves(t, "begin", j) /\ j.key = k /\ j.op = o /\ pc[t] = "idle"
  BY <1>1, RequestMoves, Apart DEF EgoTypes
<1>3. /\ pc'[t] = "begin" /\ job'[t] = j
      /\ \A q \in Tasks \ {t} : pc'[q] = pc[q] /\ job'[q] = job[q]
  BY <1>2, MovesFacts DEF EgoTypes, Steps
<1>4. UNCHANGED <<saved, cache, holder, created, unsaved>>
  BY DEF CreateAgent, CreateRole, Update, Edit, OpenIndividuals, things, history
<1>5. /\ raced \subseteq raced'
      /\ CreateAgent(t, k, v) =>
           /\ k \in Agents /\ saved[k] = None
           /\ (\E q \in Tasks : Creating(q, k)) => k \in raced'
  BY DEF CreateAgent, CreateRole, Update, Edit, OpenIndividuals, things, history
<1>6. Locks' /\ Kept'
  BY <1>3, <1>4, Apart DEF WriteInv, Locks, Kept, Writing
<1>7. \A q \in Tasks, a \in Things :
        Making(q, a)' => \/ q # t /\ Making(q, a)
                         \/ q = t /\ a = k /\ o = "create"
  BY <1>2, <1>3 DEF Making
<1>8. \A q \in Tasks, a \in Things : Making(q, a) => Creating(q, a)
  BY DEF Making, Creating
<1>9. \A q \in Tasks, a \in Roles : (Making(q, a) /\ Writing(q))' => Making(q, a) /\ Writing(q)
  BY <1>3, <1>7, Apart DEF Writing
<1>10. ASSUME NEW q \in Tasks, NEW a \in Agents \ raced', Making(q, a)'
       PROVE  /\ created[a] = 0
              /\ \A p \in Tasks : Making(p, a)' => p = q
  <2>1. a \in Things /\ a \notin raced /\ a \notin Roles
    BY <1>5, Apart
  <2>2. CASE a = k /\ o = "create" /\ (q = t \/ Making(t, a)')
    <3>1. saved[k] = None /\ \A p \in Tasks : ~Creating(p, k)
      BY <1>1, <1>5, <2>1, <2>2
    <3>2. created[k] = 0
      BY <3>1 DEF WriteInv, Once, EgoTypes, StoreTypes
    <3>3. \A p \in Tasks : Making(p, a)' => p = t
      BY <1>7, <1>8, <2>1, <2>2, <3>1
    <3>4. QED
      BY <1>10, <2>2, <3>2, <3>3
  <2>3. CASE q # t /\ ~Making(t, a)'
    BY <1>7, <1>10, <2>1, <2>3 DEF WriteInv, Once
  <2>4. QED
    BY <1>7, <1>10, <2>1, <2>2, <2>3
<1>11. Once'
  BY <1>4, <1>5, <1>9, <1>10 DEF WriteInv, Once
<1>12. QED
  BY <1>6, <1>11 DEF WriteInv

LEMMA BeginWriteWrites ==
    ASSUME EgoTypes, Kinds, WriteInv, NEW t \in Tasks, BeginWrite(t)
    PROVE  WriteInv'
<1> DEFINE k == job[t].key
           new == Change(t, Stored(k))
<1>1. PICK j \in Jobs : /\ new \in Contents /\ pc[t] = "begin" /\ Moves(t, "truncate", j)
                        /\ j.key = k /\ j.op = job[t].op /\ j.new = new
  BY BeginWriteMoves DEF EgoTypes
<1>2. /\ pc'[t] = "truncate" /\ job'[t] = j
      /\ \A q \in Tasks \ {t} : pc'[q] = pc[q] /\ job'[q] = job[q]
  BY <1>1, MovesFacts DEF EgoTypes, Steps
<1>3. k \in Things /\ job[t].op \in Changes
  BY <1>1, AtTask
<1>4. /\ holder[k] = None /\ holder' = [holder EXCEPT ![k] = t]
      /\ cache' = IF job[t].op = "open" THEN cache ELSE [cache EXCEPT ![k] = new]
      /\ ~Refuses(t, Stored(k))
      /\ unsaved' = unsaved \ {k} /\ UNCHANGED <<saved, created, raced>>
  BY DEF BeginWrite
<1>5. job[t].op = "open" \/ (job[t].op = "create" /\ k \in Roles) => cache[k] = None /\ saved[k] = None
  BY <1>4, Apart DEF Refuses, Stored
<1>. HIDE DEF k, new
<1>6. \A q \in Tasks \ {t} : Writing(q) => job[q].key # k
  BY <1>4, Apart DEF WriteInv, Locks
<1>7. ASSUME NEW q \in Tasks, Writing(q)'
      PROVE  /\ holder'[job'[q].key] = q /\ job'[q].new \in Contents
             /\ cache'[job'[q].key] = IF job'[q].op = "open" THEN None ELSE job'[q].new
  <2>1. CASE q = t
    BY <1>1, <1>2, <1>3, <1>4, <1>5, <2>1 DEF EgoTypes, StoreTypes
  <2>2. CASE q # t
    <3>1. Writing(q) /\ job'[q] = job[q] /\ job[q].key \in Things /\ job[q].key # k
      BY <1>2, <1>6, <1>7, <2>2, AtTask DEF Writing
    <3>2. holder'[job[q].key] = holder[job[q].key] /\ cache'[job[q].key] = cache[job[q].key]
      BY <1>4, <3>1 DEF EgoTypes, StoreTypes
    <3>3. QED
      BY <3>1, <3>2 DEF WriteInv, Locks
  <2>3. QED
    BY <2>1, <2>2
<1>8. Kept'
  <2>1. \A a \in Things \ {k} : /\ holder'[a] = holder[a] /\ cache'[a] = cache[a]
                                /\ (a \in unsaved' <=> a \in unsaved)
    BY <1>4 DEF EgoTypes, StoreTypes
  <2>2. holder'[k] # None
    BY <1>3, <1>4, Apart DEF EgoTypes, StoreTypes
  <2>3. QED
    BY <1>4, <2>1, <2>2 DEF WriteInv, Kept
<1>9. \A q \in Tasks, a \in Things : Making(q, a)' => Making(q, a)
  BY <1>1, <1>2 DEF Making, k
<1>10. ASSUME NEW q \in Tasks, NEW a \in Roles, (Making(q, a) /\ Writing(q))'
       PROVE  created[a] = 0
  <2>1. CASE q = t
    <3>1. a = k /\ job[t].op = "create"
      BY <1>1, <1>2, <1>10, <2>1 DEF Making
    <3>2. saved[k] = None
      BY <1>5, <3>1
    <3>3. QED
      BY <1>3, <3>1, <3>2 DEF WriteInv, Once, EgoTypes, StoreTypes
  <2>2. CASE q # t
    BY <1>2, <1>10, <2>2 DEF WriteInv, Once, Making, Writing
  <2>3. QED
    BY <2>1, <2>2
<1>11. Once'
  BY <1>4, <1>9, <1>10, Apart DEF WriteInv, Once
<1>12. QED
  BY <1>7, <1>8, <1>11 DEF WriteInv, Locks

LEMMA TruncateWrites ==
    ASSUME EgoTypes, Kinds, WriteInv, NEW t \in Tasks, Truncate(t)
    PROVE  WriteInv'
<1> DEFINE k == job[t].key
<1>1. /\ pc[t] = "truncate" /\ pc'[t] = "fill" /\ job' = job
      /\ \A q \in Tasks \ {t} : pc'[q] = pc[q]
  BY DEF Truncate, Goto, EgoTypes, TaskTypes
<1>2. Writing(t) /\ k \in Things /\ holder[k] = t
  BY <1>1, AtTask DEF Writing, WriteInv, Locks
<1>3. saved' = [saved EXCEPT ![k] = TornFile] /\ UNCHANGED <<cache, holder, created, raced, unsaved>>
  BY DEF Truncate, history
<1>. HIDE DEF k
<1>4. \A q \in Tasks : (Writing(q)' <=> Writing(q)) /\ \A a \in Things : (Making(q, a)' <=> Making(q, a))
  BY <1>1 DEF Writing, Making
<1>5. Locks'
  BY <1>1, <1>3, <1>4 DEF WriteInv, Locks
<1>6. \A a \in Things \ {k} : saved'[a] = saved[a]
  BY <1>3 DEF EgoTypes, StoreTypes
<1>7. Kept'
  BY <1>2, <1>3, <1>6, Apart DEF WriteInv, Kept
<1>8. saved'[k] # None
  BY <1>2, <1>3, Apart DEF EgoTypes, StoreTypes
<1>9. Once'
  BY <1>3, <1>4, <1>6, <1>8, Apart DEF WriteInv, Once
<1>10. QED
  BY <1>5, <1>7, <1>9 DEF WriteInv

\* The end of a write, done or failed.
LEMMA EndWrites ==
    ASSUME EgoTypes, Kinds, WriteInv, NEW t \in Tasks, Fill(t) \/ SaveFails(t)
    PROVE  WriteInv'
<1> DEFINE k == job[t].key
<1>1. Writing(t) /\ k \in Things /\ holder[k] = t /\ job[t] \in Jobs
      /\ job[t].new \in Contents /\ cache[k] = IF job[t].op = "open" THEN None ELSE job[t].new
  BY AtTask DEF Writing, Fill, SaveFails, WriteInv, Locks
<1>2. /\ pc'[t] \in {"mark", "idle"}
      /\ \A q \in Tasks \ {t} : pc'[q] = pc[q] /\ job'[q] = job[q]
  BY DEF Fill, SaveFails, Rests, Goto, EgoTypes, TaskTypes
<1>3. holder' = [holder EXCEPT ![k] = None] /\ UNCHANGED raced
  BY DEF Fill, SaveFails
<1>4. /\ Fill(t) => /\ saved' = [saved EXCEPT ![k] = job[t].new]
                    /\ cache' = [cache EXCEPT ![k] = job[t].new]
                    /\ created' = IF job[t].op = "create" THEN [created EXCEPT ![k] = @ + 1] ELSE created
                    /\ UNCHANGED unsaved
      /\ SaveFails(t) => /\ UNCHANGED <<saved, cache, created>>
                         /\ unsaved' = IF job[t].op = "open" THEN unsaved ELSE unsaved \cup {k}
  BY DEF Fill, SaveFails
<1>. HIDE DEF k
<1>5. ASSUME NEW a \in Things, a # k
      PROVE  /\ holder'[a] = holder[a] /\ saved'[a] = saved[a] /\ cache'[a] = cache[a]
             /\ created'[a] = created[a] /\ (a \in unsaved' <=> a \in unsaved)
  <2>1. holder'[a] = holder[a]
    BY <1>3, <1>5 DEF EgoTypes, StoreTypes
  <2>2. CASE Fill(t)
    BY <1>4, <1>5, <2>1, <2>2 DEF EgoTypes, StoreTypes
  <2>3. CASE SaveFails(t)
    BY <1>4, <1>5, <2>1, <2>3
  <2>4. QED
    BY <2>2, <2>3
<1>6. \A q \in Tasks : /\ Writing(q)' => q # t /\ Writing(q) /\ job[q].key \in Things /\ job[q].key # k
                       /\ \A a \in Things : Making(q, a)' => q # t /\ Making(q, a)
  <2>1. \A q \in Tasks : Writing(q)' => q # t /\ Writing(q)
    BY <1>2 DEF Writing
  <2>2. \A q \in Tasks, a \in Things : Making(q, a)' => q # t /\ Making(q, a)
    BY <1>2 DEF Making
  <2>3. \A q \in Tasks : Writing(q) /\ q # t => job[q].key \in Things /\ job[q].key # k
    BY <1>1, AtTask DEF WriteInv, Locks
  <2>4. QED
    BY <2>1, <2>2, <2>3
<1>7. Locks'
  BY <1>2, <1>5, <1>6 DEF WriteInv, Locks
<1>8. cache'[k] # None /\ k \notin unsaved' => cache'[k] = saved'[k]
  <2>1. CASE Fill(t)
    BY <1>1, <1>4, <2>1 DEF EgoTypes, StoreTypes
  <2>2. CASE SaveFails(t)
    BY <1>1, <1>4, <2>2
  <2>3. QED
    BY <2>1, <2>2
<1>9. Kept'
  BY <1>5, <1>8 DEF WriteInv, Kept
<1>10. /\ created[k] \in Nat
       /\ created'[k] = created[k] \/ (created'[k] = created[k] + 1 /\ job[t].op = "create" /\ saved'[k] # None)
       /\ saved'[k] = saved[k] \/ saved'[k] # None
  <2>1. CASE Fill(t)
    BY <1>1, <1>4, <2>1, Apart DEF EgoTypes, StoreTypes
  <2>2. CASE SaveFails(t)
    BY <1>1, <1>4, <2>2 DEF EgoTypes, StoreTypes
  <2>3. QED
    BY <2>1, <2>2
<1>11. job[t].op = "create" => Making(t, k) /\ k \in Searched
  BY <1>1, AtTask DEF Making, Writing, k
<1>12. job[t].op = "create" /\ k \notin raced => created[k] = 0
  BY <1>1, <1>11 DEF WriteInv, Once, Searched
<1>13. \A a \in Things : /\ created'[a] > 0 => saved'[a] # None
                         /\ a \notin raced' => created'[a] <= 1
  <2>1. /\ created'[k] > 0 => saved'[k] # None
        /\ k \notin raced' => created'[k] <= 1
    BY <1>1, <1>3, <1>10, <1>12 DEF WriteInv, Once
  <2>2. QED
    BY <1>3, <1>5, <2>1 DEF WriteInv, Once
<1>14. ASSUME NEW q \in Tasks, NEW a \in Roles, (Making(q, a) /\ Writing(q))'
       PROVE  created'[a] = 0
  <2>1. Making(q, a) /\ Writing(q) /\ job[q].key # k /\ a \in Things
    BY <1>6, <1>14, Apart
  <2>2. a # k
    BY <2>1 DEF Making
  <2>3. QED
    BY <1>5, <2>1, <2>2 DEF WriteInv, Once
<1>15. ASSUME NEW q \in Tasks, NEW a \in Agents \ raced', Making(q, a)'
       PROVE  /\ created'[a] = 0
              /\ \A p \in Tasks : Making(p, a)' => p = q
  <2>1. Making(q, a) /\ q # t /\ a \in Things /\ a \in Agents \ raced
    BY <1>3, <1>6, <1>15, Apart
  <2>2. /\ created[a] = 0 /\ \A p \in Tasks : Making(p, a) => p = q
    BY <2>1 DEF WriteInv, Once
  <2>3. a = k => job[t].op # "create"
    BY <1>11, <2>1, <2>2
  <2>4. created'[a] = 0
    BY <1>5, <1>10, <2>1, <2>2, <2>3
  <2>5. QED
    BY <1>6, <2>1, <2>2, <2>4
<1>16. Once'
  BY <1>13, <1>14, <1>15 DEF Once
<1>17. QED
  BY <1>7, <1>9, <1>16 DEF WriteInv

LEMMA WritesStep ==
    ASSUME EgoTypes, Kinds, WriteInv, [EgoNext]_egoVars
    PROVE  WriteInv'
<1>1. ASSUME NEW t \in Tasks, NEW k \in Things, NEW v \in Texts,
             CreateAgent(t, k, v) \/ CreateRole(t, k, v) \/ Update(t, k, v) \/ Edit(t, k, v)
      PROVE  WriteInv'
  BY <1>1, RequestWrites
<1>2. ASSUME NEW t \in Tasks, NEW k \in Individuals, OpenIndividuals(t, k)
      PROVE  WriteInv'
  BY <1>2, RequestWrites, Apart DEF Things
<1>3. ASSUME NEW t \in Tasks, Refuse(t)
      PROVE  WriteInv'
  <2>1. job[t].key \in Things
    BY <1>3, AtTask DEF Refuse
  <2>2. \A k \in Things : cache'[k] = cache[k] \/ (holder[k] = None /\ cache'[k] = Readable(k))
    BY <1>3, <2>1 DEF Refuse, Readable, EgoTypes, StoreTypes
  <2>3. Moves(t, "idle", NoJob) /\ UNCHANGED <<saved, holder, created, raced, unsaved>>
    BY <1>3, RestMoves DEF Refuse, history
  <2>4. QED
    BY <2>2, <2>3, NoJobType, QuietMoves DEF Steps
<1>4. ASSUME NEW t \in Tasks, MarkDirty(t) \/ Answer(t)
      PROVE  WriteInv'
  <2>1. Moves(t, "idle", NoJob) /\ UNCHANGED <<saved, holder, cache, created, raced, unsaved>>
    BY <1>4, RestMoves DEF MarkDirty, Answer, things, history
  <2>2. QED
    BY <2>1, NoJobType, QuietMoves DEF Steps
<1>5. ASSUME NEW t \in Tasks, NEW o \in {FindAgents, FindRoles}, Search(t, o)
      PROVE  WriteInv'
  <2>1. Moves(t, "search", [NoJob EXCEPT !.op = o]) /\ [NoJob EXCEPT !.op = o] \in Jobs
    BY <1>5, NoJobType DEF Search, Moves, Jobs, NoJob
  <2>2. UNCHANGED <<saved, holder, cache, created, raced, unsaved>>
    BY <1>5 DEF Search, things, history
  <2>3. QED
    BY <2>1, <2>2, QuietMoves DEF Steps
<1>6. ASSUME NEW t \in Tasks, NEW S \in SUBSET Searched, LoadIndex(t, S)
      PROVE  WriteInv'
  <2>1. UNCHANGED <<saved, holder, cache, created, raced, unsaved>>
    BY <1>6 DEF LoadIndex, things
  <2>2. QED
    BY <1>6, <2>1, LoadMoves, QuietMoves DEF Steps, EgoTypes
<1>7. ASSUME NEW t \in Tasks,
             SyncAll(t) \/ (\E k \in Searched : TakeMark(t, k) \/ Skip(t, k)) \/ Reindex(t) \/ EndSync(t)
      PROVE  WriteInv'
  <2>1. UNCHANGED <<saved, holder, cache, created, raced, unsaved>>
    BY <1>7 DEF SyncAll, TakeMark, Skip, Reindex, EndSync, things, history
  <2>2. \E s \in {"sync", "fetch", "search", "mark"} : \E j \in Jobs : Moves(t, s, j)
    BY <1>7, SyncMoves DEF EgoTypes
  <2>3. QED
    BY <2>1, <2>2, QuietMoves DEF Steps
<1>8. ASSUME NEW t \in Tasks, Fetch(t) \/ FetchFails(t)
      PROVE  WriteInv'
  <2>1. job[t] \in Jobs /\ job[t].at \in Searched /\ job[t].at \in Things
    BY <1>8, AtTask, Apart DEF Fetch, FetchFails, KindOf
  <2>2. \A k \in Things : cache'[k] = cache[k] \/ (holder[k] = None /\ cache'[k] = Readable(k))
    BY <1>8, <2>1 DEF Fetch, FetchFails, things, EgoTypes, StoreTypes
  <2>3. UNCHANGED <<saved, holder, created, raced, unsaved>>
    BY <1>8 DEF Fetch, FetchFails, things, history
  <2>4. job'[t].new \in Contents \cup {None}
    BY <1>8, <2>1, StoredTypes DEF Fetch, FetchFails, EgoTypes, TaskTypes, Jobs
  <2>5. \E j \in Jobs : Moves(t, "reindex", j)
    BY <1>8, <2>4, SyncMoves DEF EgoTypes
  <2>6. QED
    BY <2>2, <2>3, <2>5, QuietMoves DEF Steps
<1>9. ASSUME NEW k \in Things, Get(k)
      PROVE  WriteInv'
  <2>1. \A a \in Things : cache'[a] = cache[a] \/ (holder[a] = None /\ cache'[a] = Readable(a))
    BY <1>9 DEF Get, EgoTypes, StoreTypes
  <2>2. UNCHANGED <<saved, holder, created, raced, unsaved, pc, job>>
    BY <1>9 DEF Get, tasks, history
  <2>3. QED
    BY <2>1, <2>2, AtTask, QuietForWrites DEF EgoTypes
<1>10. ASSUME Restart
       PROVE  WriteInv'
  <2>1. \A t \in Tasks : pc'[t] = "idle"
    BY <1>10 DEF Restart
  <2>2. \A k \in Things : cache'[k] = None
    BY <1>10 DEF Restart
  <2>3. UNCHANGED <<saved, created, raced>>
    BY <1>10 DEF Restart
  <2>4. QED
    BY <2>1, <2>2, <2>3 DEF WriteInv, Locks, Kept, Once, Making, Writing
<1>11. ASSUME UNCHANGED egoVars
       PROVE  WriteInv'
  BY <1>11, AtTask, QuietForWrites DEF egoVars, things, tasks, history, EgoTypes
<1>12. QED
  BY <1>1, <1>2, <1>3, <1>4, <1>5, <1>6, <1>7, <1>8, <1>9, <1>10, <1>11, BeginWriteWrites,
     TruncateWrites, EndWrites DEF EgoNext, WriteNext, SearchNext

LEMMA WritesInit == EgoInit => WriteInv
  BY Apart DEF EgoInit, WriteInv, Locks, Kept, Once, Making, Writing

--------------------------------------------------------------------------------
(* Searching.                                                                  *)

SyncSteps == {"sync", "fetch", "reindex"}

\* A step that the index does not take part in.
Aside == \A q \in Tasks :
    \/ pc'[q] = pc[q] /\ job'[q] = job[q]
    \/ pc[q] \notin SyncSteps /\ pc'[q] \notin SyncSteps /\ ~job'[q].load

LEMMA LoadsSync ==
    ASSUME EgoTypes, Kinds, NEW t \in Tasks
    PROVE  job[t].load => pc[t] \in SyncSteps
  BY AtTask DEF Steps, KindOf, SyncSteps

LEMMA AsideSync ==
    ASSUME Aside, NEW q \in Tasks, NEW k
    PROVE  /\ Syncing(q, k)' <=> Syncing(q, k)
           /\ Syncing(q, k) => pc'[q] = pc[q] /\ job'[q] = job[q]
           /\ pc'[q] \in SyncSteps => pc[q] \in SyncSteps
           /\ job'[q].load => job[q].load
  BY DEF Aside, Syncing, SyncSteps

LEMMA QuietForIndex ==
    ASSUME Loading, Index, Aside, UNCHANGED <<instance, metadata, texts, crossed>>
    PROVE  Loading' /\ Index'
<1>1. Loading'
  BY AsideSync DEF Loading, SyncSteps
<1>2. ASSUME NEW k \in Searched \ crossed'
      PROVE  /\ \A t, q \in Tasks : (Syncing(t, k) /\ Syncing(q, k))' => t = q
             /\ Idle(k)' => texts'[k] = {metadata'[k]} \ {None}
             /\ \A t \in Tasks : Syncing(t, k)' =>
                   metadata'[k] = None /\ texts'[k] = {job'[t].old} \ {None}
  BY <1>2, AsideSync DEF Index, Idle
<1>3. Index'
  BY <1>2 DEF Index
<1>4. QED
  BY <1>1, <1>3

LEMMA QuietForFresh ==
    ASSUME EgoTypes, Kinds, Shown, Aside, UNCHANGED <<instance, metadata, crossed>>,
           \A k \in Searched \ (crossed \cup missed' \cup dirty') : ~Pending(k)' =>
              /\ k \notin missed \cup dirty /\ ~Pending(k)
              /\ TextOf(Readable(k))' = TextOf(Readable(k))
    PROVE  Shown'
<1>1. \A k \in Searched : Awaited(k)' <=> Awaited(k)
  BY LoadsSync DEF Awaited, Aside
<1>2. ASSUME NEW k \in Searched \ (crossed' \cup missed' \cup dirty'), ~Pending(k)'
      PROVE  /\ (instance # "none" /\ Idle(k) /\ ~Awaited(k))' => metadata'[k] = TextOf(Readable(k))'
             /\ \A t \in Tasks : (Syncing(t, k) /\ pc[t] = "reindex")' =>
                   TextOf(job[t].new)' = TextOf(Readable(k))'
  <2>1. /\ k \in Searched \ (crossed \cup missed \cup dirty) /\ ~Pending(k)
        /\ TextOf(Readable(k))' = TextOf(Readable(k))
    BY <1>2
  <2>2. Idle(k)' <=> Idle(k)
    BY AsideSync DEF Idle
  <2>3. \A t \in Tasks : (Syncing(t, k) /\ pc[t] = "reindex")' =>
           Syncing(t, k) /\ pc[t] = "reindex" /\ job'[t] = job[t]
    BY AsideSync
  <2>4. ASSUME NEW t \in Tasks, (Syncing(t, k) /\ pc[t] = "reindex")'
        PROVE  TextOf(job[t].new)' = TextOf(Readable(k))'
    <3>1. TextOf(job[t].new) = TextOf(Readable(k)) /\ job'[t] = job[t]
      BY <2>1, <2>3, <2>4 DEF Shown
    <3>2. TextOf(job[t].new)' = TextOf(job[t].new)
      BY <3>1 DEF TextOf
    <3>3. QED
      BY <2>1, <3>1, <3>2
  <2>5. QED
    BY <1>1, <2>1, <2>2, <2>4 DEF Shown
<1>3. QED
  BY <1>2 DEF Shown

\* A step that stores nothing, and begins no write of an agent that has no directory.
LEMMA QuietForPresent ==
    ASSUME EgoTypes, Present, UNCHANGED saved, registered \subseteq registered',
           missed \subseteq missed',
           \A k \in Things : cache'[k] = cache[k] \/ cache'[k] = Readable(k),
           \A q \in Tasks :
              \/ pc'[q] = pc[q] /\ job'[q].key = job[q].key /\ job'[q].op = job[q].op
              \/ /\ pc[q] # "truncate" /\ (job'[q].key \in Agents => job'[q].key \in registered')
                 /\ job'[q].op \in Marked =>
                      \/ pc'[q] = "begin"
                      \/ /\ pc[q] # "begin" /\ pc'[q] # "truncate"
                         /\ job'[q].key = job[q].key /\ job'[q].op = job[q].op
    PROVE  Present'
<1>1. \A k \in Agents : saved'[k] # None => k \in registered'
  BY DEF Present
<1>2. \A t \in Tasks : job'[t].key \in Agents => job'[t].key \in registered'
  BY DEF Present
<1>3. ASSUME NEW k \in Searched \ missed', saved'[k] = None, cache'[k] # None
      PROVE  \E t \in Tasks : job'[t].key = k /\ job'[t].op \in Marked /\ pc'[t] = "truncate"
  <2>1. k \in Searched \ missed /\ saved[k] = None /\ cache[k] # None
    BY <1>3, Apart DEF Readable, Stored
  <2>2. PICK t \in Tasks : job[t].key = k /\ job[t].op \in Marked /\ pc[t] = "truncate"
    BY <2>1 DEF Present
  <2>3. QED
    BY <2>2
<1>4. \A t \in Tasks : job'[t].op \in Marked /\ pc'[t] \notin {"begin", "truncate"} =>
          saved'[job'[t].key] # None
  BY DEF Present
<1>5. QED
  BY <1>1, <1>2, <1>3, <1>4 DEF Present

LEMMA ReadableFrom ==
    ASSUME EgoTypes, NEW k \in Things, saved'[k] = saved[k],
           cache'[k] = cache[k] \/ cache'[k] = Readable(k)
    PROVE  Readable(k)' = Readable(k)
  BY Apart DEF Readable, Stored, EgoTypes, StoreTypes

LEMMA TextFrom ==
    ASSUME NEW k, Readable(k)' = Readable(k)
    PROVE  TextOf(Readable(k))' = TextOf(Readable(k))
  BY DEF TextOf

\* A step of t that is aside, stores nothing and tells the index nothing.
LEMMA QuietForSearch ==
    ASSUME EgoTypes, Kinds, SearchInv, NEW t \in Tasks, NEW s \in Steps, NEW j \in Jobs,
           Moves(t, s, j), pc[t] \notin SyncSteps, s \notin SyncSteps, ~j.load,
           UNCHANGED <<instance, metadata, texts, dirty, missed, crossed, saved>>,
           registered \subseteq registered',
           \A k \in Things : cache'[k] = cache[k] \/ cache'[k] = Readable(k),
           pc[t] = "begin" \/ job[t].key = None,
           j.op \in Marked => s = "begin", j.key \in Agents => j.key \in registered'
    PROVE  SearchInv'
<1>1. pc'[t] = s /\ job'[t] = j /\ \A q \in Tasks \ {t} : pc'[q] = pc[q] /\ job'[q] = job[q]
  BY MovesFacts DEF EgoTypes
<1>2. Aside
  BY <1>1 DEF Aside
<1>3. Present'
  <2>1. \A q \in Tasks :
              \/ pc'[q] = pc[q] /\ job'[q].key = job[q].key /\ job'[q].op = job[q].op
              \/ /\ pc[q] # "truncate" /\ (job'[q].key \in Agents => job'[q].key \in registered')
                 /\ job'[q].op \in Marked =>
                      \/ pc'[q] = "begin"
                      \/ /\ pc[q] # "begin" /\ pc'[q] # "truncate"
                         /\ job'[q].key = job[q].key /\ job'[q].op = job[q].op
    BY <1>1, AtTask, Apart DEF Writing
  <2>2. QED
    BY <2>1, QuietForPresent DEF SearchInv
<1>4. ASSUME NEW k \in Searched
      PROVE  /\ ~Pending(k)' => ~Pending(k)
             /\ TextOf(Readable(k))' = TextOf(Readable(k))
  <2>1. ~Pending(k)' => ~Pending(k)
    BY <1>1, Apart DEF Pending
  <2>2. k \in Things /\ saved'[k] = saved[k]
    BY Apart
  <2>3. QED
    BY <2>1, <2>2, ReadableFrom, TextFrom
<1>5. QED
  BY <1>2, <1>3, <1>4, QuietForIndex, QuietForFresh DEF SearchInv

LEMMA RequestSearch ==
    ASSUME EgoTypes, Kinds, SearchInv, NEW t \in Tasks, NEW k \in Things, NEW v \in Texts,
           \/ CreateAgent(t, k, v) \/ CreateRole(t, k, v) \/ Update(t, k, v) \/ Edit(t, k, v)
           \/ OpenIndividuals(t, k)
    PROVE  SearchInv'
<1>1. PICK o \in Changes : /\ Request(t, k, o, v) \/ Request(t, k, o, Empty)
                          /\ (o \in Marked => k \in Searched)
                          /\ (o = "edit" => k \in Roles \cup Individuals)
                          /\ (o = "open" => k \in Individuals)
  BY Apart DEF CreateAgent, CreateRole, Update, Edit, OpenIndividuals, Changes, Marked
<1>2. PICK j \in Jobs : Moves(t, "begin", j) /\ KindOf("begin", j) /\ j.key = k /\ j.op = o /\ pc[t] = "idle"
  BY <1>1, RequestMoves, Apart DEF EgoTypes
<1>3. UNCHANGED <<saved, cache, missed, crossed, instance, metadata, texts, dirty>>
  <2>1. UNCHANGED <<saved, cache, missed, crossed>>
    BY DEF CreateAgent, CreateRole, Update, Edit, OpenIndividuals, things, history
  <2>2. QED
    BY <1>1, <2>1 DEF Request, search
<1>4. registered \subseteq registered' /\ (k \in Agents => k \in registered')
  BY Apart DEF CreateAgent, CreateRole, Update, Edit, OpenIndividuals, things, Register
<1>5. ~j.load /\ job[t].key = None /\ "begin" \in Steps
  BY <1>2, AtTask DEF KindOf, Steps
<1>6. pc[t] \notin SyncSteps /\ "begin" \notin SyncSteps
  BY <1>2 DEF SyncSteps
<1>7. QED
  BY <1>2, <1>3, <1>4, <1>5, <1>6, QuietForSearch

LEMMA RefuseSearch ==
    ASSUME EgoTypes, Kinds, SearchInv, NEW t \in Tasks, Refuse(t)
    PROVE  SearchInv'
<1>1. job[t].key \in Things /\ pc[t] = "begin"
  BY AtTask DEF Refuse
<1>2. \A k \in Things : cache'[k] = cache[k] \/ cache'[k] = Readable(k)
  BY <1>1 DEF Refuse, Readable, EgoTypes, StoreTypes
<1>3. Moves(t, "idle", NoJob) /\ NoJob \in Jobs /\ "idle" \in Steps
      /\ ~NoJob.load /\ NoJob.op \notin Marked /\ NoJob.key \notin Agents
  BY RestMoves, NoJobType, Apart DEF Refuse, Steps, NoJob, Marked
<1>4. UNCHANGED <<instance, metadata, texts, dirty, missed, crossed, saved, registered>>
  BY DEF Refuse, search, history
<1>5. pc[t] \notin SyncSteps /\ "idle" \notin SyncSteps
  BY <1>1 DEF SyncSteps
<1>6. QED
  BY <1>1, <1>2, <1>3, <1>4, <1>5, QuietForSearch

LEMMA AskSearch ==
    ASSUME EgoTypes, Kinds, SearchInv, NEW t \in Tasks,
           Answer(t) \/ \E o \in {FindAgents, FindRoles} : Search(t, o)
    PROVE  SearchInv'
<1>1. pc[t] \in {"idle", "search"}
      /\ UNCHANGED <<instance, metadata, texts, dirty, missed, crossed, saved, cache, registered>>
  BY DEF Answer, Search, things, search, history
<1>2. \E s \in Steps, j \in Jobs : /\ Moves(t, s, j) /\ s \notin SyncSteps
                                   /\ ~j.load /\ j.op \notin Marked /\ j.key \notin Agents
  <2>1. CASE Answer(t)
    <3>1. Moves(t, "idle", NoJob) /\ NoJob \in Jobs /\ "idle" \in Steps /\ "idle" \notin SyncSteps
          /\ ~NoJob.load /\ NoJob.op \notin Marked /\ NoJob.key \notin Agents
      BY <2>1, RestMoves, NoJobType, Apart DEF Answer, Steps, NoJob, Marked, SyncSteps
    <3>2. QED
      BY <3>1
  <2>2. ASSUME NEW o \in {FindAgents, FindRoles}, Search(t, o)
        PROVE  \E s \in Steps, j \in Jobs : /\ Moves(t, s, j) /\ s \notin SyncSteps
                                          /\ ~j.load /\ j.op \notin Marked /\ j.key \notin Agents
    <3> DEFINE j == [NoJob EXCEPT !.op = o]
    <3>1. Moves(t, "search", j) /\ "search" \in Steps /\ "search" \notin SyncSteps
      BY <2>2 DEF Search, Moves, Steps, SyncSteps
    <3>2. j \in Jobs /\ ~j.load /\ j.op = o /\ j.key \notin Agents
      BY NoJobType, Apart DEF Jobs, NoJob
    <3>3. o \notin Marked
      BY DEF Marked, FindAgents, FindRoles
    <3>. HIDE DEF j
    <3>4. QED
      BY <3>1, <3>2, <3>3
  <2>3. QED
    BY <2>1, <2>2
<1>3. job[t].key = None /\ pc[t] \notin SyncSteps
  BY <1>1, AtTask DEF KindOf, SyncSteps
<1>4. QED
  BY <1>1, <1>2, <1>3, QuietForSearch

LEMMA GetSearch ==
    ASSUME EgoTypes, Kinds, SearchInv, NEW a \in Things, Get(a)
    PROVE  SearchInv'
<1>1. UNCHANGED <<instance, metadata, texts, dirty, missed, crossed, saved, pc, job>>
      /\ registered \subseteq registered'
  BY DEF Get, search, tasks, history, Register
<1>2. \A k \in Things : cache'[k] = cache[k] \/ cache'[k] = Readable(k)
  BY DEF Get, EgoTypes, StoreTypes
<1>3. Aside
  BY <1>1 DEF Aside
<1>4. Present'
  BY <1>1, <1>2, QuietForPresent DEF SearchInv
<1>5. \A k \in Searched : /\ Pending(k)' <=> Pending(k)
                          /\ TextOf(Readable(k))' = TextOf(Readable(k))
  BY <1>1, <1>2, ReadableFrom, TextFrom, Apart DEF Pending
<1>6. QED
  BY <1>1, <1>3, <1>4, <1>5, QuietForIndex, QuietForFresh DEF SearchInv

\* A step of t, which writes, and is aside.
LEMMA AsideMoves ==
    ASSUME EgoTypes, NEW t \in Tasks, NEW s \in Steps, NEW j \in Jobs, Moves(t, s, j),
           pc[t] \notin SyncSteps, s \notin SyncSteps, ~j.load
    PROVE  /\ Aside /\ pc'[t] = s /\ job'[t] = j
           /\ \A q \in Tasks \ {t} : pc'[q] = pc[q] /\ job'[q] = job[q]
  BY MovesFacts DEF EgoTypes, Aside

LEMMA WriteSteps == /\ {"idle", "begin", "truncate", "fill", "mark"} \subseteq Steps \ SyncSteps
  BY DEF Steps, SyncSteps

LEMMA BeginWriteSearch ==
    ASSUME EgoTypes, Kinds, WriteInv, SearchInv, NEW t \in Tasks, BeginWrite(t)
    PROVE  SearchInv'
<1> DEFINE k == job[t].key
           new == Change(t, Stored(k))
<1>1. PICK j \in Jobs : /\ new \in Contents /\ pc[t] = "begin" /\ Moves(t, "truncate", j)
                        /\ KindOf("truncate", j) /\ j.key = k /\ j.op = job[t].op /\ j.new = new
  BY BeginWriteMoves DEF EgoTypes
<1>2. /\ Aside /\ pc'[t] = "truncate" /\ job'[t] = j
      /\ \A q \in Tasks \ {t} : pc'[q] = pc[q] /\ job'[q] = job[q]
  BY <1>1, AsideMoves, WriteSteps DEF KindOf
<1>3. k \in Things /\ job[t].op \in Changes /\ KindOf("begin", job[t])
  BY <1>1, AtTask
<1>4. /\ holder[k] = None /\ Stored(k) # TornFile
      /\ cache' = IF job[t].op = "open" THEN cache ELSE [cache EXCEPT ![k] = new]
      /\ ~Refuses(t, Stored(k))
      /\ UNCHANGED <<saved, registered, instance, dirty, metadata, texts, missed, crossed>>
  BY DEF BeginWrite, search
<1>5. job[t].op = "open" => k \notin Searched
  BY <1>3, Apart DEF KindOf
<1>6. job[t].op = "edit" => /\ Stored(k) \in Contents /\ new.text = Stored(k).text /\ new # None
  <2>1. ASSUME job[t].op = "edit" PROVE Stored(k) \in Contents
    BY <1>3, <1>4, <2>1, StoredTypes DEF Refuses, EgoTypes
  <2>2. ASSUME job[t].op = "edit" PROVE new = [Stored(k) EXCEPT !.rest = job[t].text]
    BY <2>2 DEF Change
  <2>3. QED
    BY <1>1, <2>1, <2>2, Apart DEF Contents
<1>7. job[t].op \in Marked \cup {"edit", "open"}
  BY <1>3 DEF Changes, Marked
<1>. HIDE DEF k, new
<1>8. \A a \in Searched : a # k \/ job[t].op = "open" => a \in Things /\ cache'[a] = cache[a]
  BY <1>4, Apart DEF EgoTypes, StoreTypes
<1>9. job[t].op = "edit" => cache'[k] = new
  BY <1>3, <1>4 DEF EgoTypes, StoreTypes
<1>10. ASSUME NEW a \in Searched, ~Pending(a)'
       PROVE  ~Pending(a) /\ TextOf(Readable(a))' = TextOf(Readable(a))
  <2>1. ~Pending(a)
    <3>1. \A q \in Tasks : job[q].key = a /\ job[q].op \in Marked /\ pc[q] # "begin" =>
             job'[q].key = a /\ job'[q].op \in Marked /\ pc'[q] # "begin"
      BY <1>1, <1>2
    <3>2. QED
      BY <1>10, <3>1 DEF Pending
  <2>2. CASE a # k
    BY <1>4, <1>8, <2>1, <2>2, ReadableFrom, TextFrom
  <2>3. CASE a = k
    <3>1. job[t].op \notin Marked
      BY <1>1, <1>2, <1>10, <2>3 DEF Pending
    <3>2. job[t].op = "edit"
      BY <1>5, <1>7, <2>3, <3>1
    <3>3. Readable(a)' = new
      BY <1>1, <1>9, <2>3, <3>2, Apart DEF Readable, Stored
    <3>4. Readable(a) = Stored(k)
      BY <1>4, <2>3 DEF Readable
    <3>5. TextOf(Readable(a))' = new.text
      BY <1>6, <3>2, <3>3 DEF TextOf
    <3>6. TextOf(Readable(a)) = Stored(k).text
      BY <1>6, <3>2, <3>4, Apart DEF TextOf
    <3>7. QED
      BY <1>6, <2>1, <3>2, <3>5, <3>6
  <2>4. QED
    BY <2>1, <2>2, <2>3
<1>11. Loading' /\ Index'
  BY <1>2, <1>4, QuietForIndex DEF SearchInv
<1>12. Shown'
  BY <1>2, <1>4, <1>10, QuietForFresh DEF SearchInv
<1>13. ASSUME NEW a \in Searched \ missed', saved'[a] = None, cache'[a] # None
       PROVE  \E q \in Tasks : job'[q].key = a /\ job'[q].op \in Marked /\ pc'[q] = "truncate"
  <2>1. CASE a = k /\ job[t].op \in Marked
    BY <1>1, <1>2, <2>1
  <2>2. CASE ~(a = k /\ job[t].op \in Marked)
    <3>1. saved[a] = None /\ cache[a] # None
      BY <1>4, <1>5, <1>6, <1>7, <1>8, <1>13, <2>2, Apart DEF Stored
    <3>2. PICK q \in Tasks : job[q].key = a /\ job[q].op \in Marked /\ pc[q] = "truncate"
      BY <1>4, <1>13, <3>1 DEF SearchInv, Present
    <3>3. QED
      BY <1>1, <1>2, <3>2
  <2>3. QED
    BY <2>1, <2>2
<1>14. Present'
  BY <1>1, <1>2, <1>4, <1>13 DEF SearchInv, Present, k
<1>15. QED
  BY <1>11, <1>12, <1>14 DEF SearchInv

LEMMA TruncateSearch ==
    ASSUME EgoTypes, Kinds, WriteInv, SearchInv, NEW t \in Tasks, Truncate(t)
    PROVE  SearchInv'
<1> DEFINE k == job[t].key
<1>1. pc[t] = "truncate" /\ Moves(t, "fill", job[t]) /\ job[t] \in Jobs /\ KindOf("truncate", job[t])
  BY GotoMoves, AtTask DEF Truncate, EgoTypes
<1>2. /\ Aside /\ pc'[t] = "fill" /\ job'[t] = job[t]
      /\ \A q \in Tasks \ {t} : pc'[q] = pc[q] /\ job'[q] = job[q]
  BY <1>1, AsideMoves, WriteSteps DEF KindOf
<1>3. k \in Things /\ job[t].op \in Changes /\ Writing(t)
  BY <1>1, AtTask DEF Writing
<1>4. job[t].new \in Contents /\ cache[k] = IF job[t].op = "open" THEN None ELSE job[t].new
  BY <1>3 DEF WriteInv, Locks
<1>5. job[t].op = "open" => k \notin Searched
  BY <1>1, Apart DEF KindOf
<1>6. saved' = [saved EXCEPT ![k] = TornFile]
      /\ UNCHANGED <<cache, registered, instance, dirty, metadata, texts, missed, crossed>>
  BY DEF Truncate, search, history
<1>7. /\ \A a \in Things \ {k} : saved'[a] = saved[a]
      /\ saved'[k] = TornFile
  BY <1>3, <1>6 DEF EgoTypes, StoreTypes
<1>8. k \in Agents => k \in registered
  BY DEF SearchInv, Present
<1>. HIDE DEF k
<1>9. ASSUME NEW a \in Searched
      PROVE  (Pending(a)' <=> Pending(a)) /\ TextOf(Readable(a))' = TextOf(Readable(a))
  <2>1. Pending(a)' <=> Pending(a)
    BY <1>1, <1>2 DEF Pending
  <2>2. Readable(a)' = Readable(a)
    <3>1. CASE a # k
      BY <1>6, <1>7, <3>1, ReadableFrom, Apart
    <3>2. CASE a = k
      BY <1>4, <1>5, <1>6, <3>2, Apart DEF Readable, Stored
    <3>3. QED
      BY <3>1, <3>2
  <2>3. QED
    BY <2>1, <2>2, TextFrom
<1>10. Loading' /\ Index'
  BY <1>2, <1>6, QuietForIndex DEF SearchInv
<1>11. Shown'
  BY <1>2, <1>6, <1>9, QuietForFresh DEF SearchInv
<1>12. ASSUME NEW a \in Searched \ missed', saved'[a] = None, cache'[a] # None
       PROVE  \E q \in Tasks : job'[q].key = a /\ job'[q].op \in Marked /\ pc'[q] = "truncate"
  <2>1. a # k /\ saved[a] = None
    BY <1>7, <1>12, Apart
  <2>2. PICK q \in Tasks : job[q].key = a /\ job[q].op \in Marked /\ pc[q] = "truncate"
    BY <1>6, <1>12, <2>1 DEF SearchInv, Present
  <2>3. q # t
    BY <2>1, <2>2 DEF k
  <2>4. QED
    BY <1>2, <2>2, <2>3
<1>13. \A a \in Things : saved[a] # None => saved'[a] # None
  BY <1>7, Apart
<1>14. \A q \in Tasks : job'[q].op \in Marked => job'[q].key \in Things
  BY <1>2, AtTask, Apart DEF KindOf
<1>15. \A q \in Tasks : job'[q].op \in Marked /\ pc'[q] \notin {"begin", "truncate"} =>
          saved'[job'[q].key] # None
  <2>1. ASSUME NEW q \in Tasks, q # t, job'[q].op \in Marked, pc'[q] \notin {"begin", "truncate"}
        PROVE  saved'[job'[q].key] # None
    BY <1>2, <1>13, <1>14, <2>1 DEF SearchInv, Present
  <2>2. saved'[job'[t].key] # None
    BY <1>2, <1>7, Apart DEF k
  <2>3. QED
    BY <2>1, <2>2
<1>16. \A a \in Agents : saved'[a] # None => a \in registered'
  BY <1>6, <1>7, <1>8, Apart DEF SearchInv, Present
<1>17. \A q \in Tasks : job'[q].key \in Agents => job'[q].key \in registered'
  BY <1>2, <1>6 DEF SearchInv, Present
<1>18. Present'
  BY <1>12, <1>15, <1>16, <1>17 DEF Present
<1>19. QED
  BY <1>10, <1>11, <1>18 DEF SearchInv

LEMMA FillSearch ==
    ASSUME EgoTypes, Kinds, WriteInv, SearchInv, NEW t \in Tasks, Fill(t)
    PROVE  SearchInv'
<1> DEFINE k == job[t].key
<1>1. pc[t] = "fill" /\ job[t] \in Jobs /\ KindOf("fill", job[t])
  BY AtTask DEF Fill
<1>2. /\ Aside
      /\ job[t].op \in Marked => pc'[t] = "mark" /\ job'[t] = job[t]
      /\ job[t].op \notin Marked => pc'[t] = "idle" /\ job'[t] = NoJob
      /\ \A q \in Tasks \ {t} : pc'[q] = pc[q] /\ job'[q] = job[q]
  <2>1. CASE job[t].op \in Marked
    <3>1. Moves(t, "mark", job[t])
      BY <2>1, GotoMoves DEF Fill, EgoTypes
    <3>2. QED
      BY <1>1, <2>1, <3>1, AsideMoves, WriteSteps DEF KindOf
  <2>2. CASE job[t].op \notin Marked
    <3>1. Moves(t, "idle", NoJob) /\ ~NoJob.load
      BY <2>2, RestMoves DEF Fill, NoJob
    <3>2. QED
      BY <1>1, <2>2, <3>1, NoJobType, AsideMoves, WriteSteps
  <2>3. QED
    BY <2>1, <2>2
<1>3. k \in Things /\ job[t].op \in Changes /\ Writing(t)
  BY <1>1, AtTask DEF Writing
<1>4. job[t].new \in Contents /\ cache[k] = IF job[t].op = "open" THEN None ELSE job[t].new
  BY <1>3 DEF WriteInv, Locks
<1>5. job[t].op = "open" => k \notin Searched
  BY <1>1, Apart DEF KindOf
<1>6. saved' = [saved EXCEPT ![k] = job[t].new] /\ cache' = [cache EXCEPT ![k] = job[t].new]
      /\ UNCHANGED <<registered, instance, dirty, metadata, texts, missed, crossed>>
  BY DEF Fill, search
<1>7. /\ \A a \in Things \ {k} : saved'[a] = saved[a] /\ cache'[a] = cache[a]
      /\ saved'[k] = job[t].new /\ cache'[k] = job[t].new
  BY <1>3, <1>6 DEF EgoTypes, StoreTypes
<1>8. k \in Agents => k \in registered
  BY DEF SearchInv, Present
<1>9. NoJob.key = None /\ NoJob.op \notin Marked
  BY DEF NoJob, Marked
<1>. HIDE DEF k
<1>10. ASSUME NEW a \in Searched
       PROVE  (Pending(a)' <=> Pending(a)) /\ TextOf(Readable(a))' = TextOf(Readable(a))
  <2>1. Pending(a)' <=> Pending(a)
    BY <1>1, <1>2, <1>9 DEF Pending
  <2>2. Readable(a)' = Readable(a)
    <3>1. CASE a # k
      BY <1>7, <3>1, ReadableFrom, Apart
    <3>2. CASE a = k
      BY <1>4, <1>5, <1>7, <3>2, Apart DEF Readable, Stored
    <3>3. QED
      BY <3>1, <3>2
  <2>3. QED
    BY <2>1, <2>2, TextFrom
<1>11. Loading' /\ Index'
  BY <1>2, <1>6, QuietForIndex DEF SearchInv
<1>12. Shown'
  BY <1>2, <1>6, <1>10, QuietForFresh DEF SearchInv
<1>13. ASSUME NEW a \in Searched \ missed', saved'[a] = None, cache'[a] # None
       PROVE  \E q \in Tasks : job'[q].key = a /\ job'[q].op \in Marked /\ pc'[q] = "truncate"
  <2>1. a # k /\ saved[a] = None /\ cache[a] # None
    BY <1>4, <1>7, <1>13, Apart
  <2>2. PICK q \in Tasks : job[q].key = a /\ job[q].op \in Marked /\ pc[q] = "truncate"
    BY <1>6, <1>13, <2>1 DEF SearchInv, Present
  <2>3. q # t
    BY <2>1, <2>2 DEF k
  <2>4. QED
    BY <1>2, <2>2, <2>3
<1>14. \A a \in Things : saved[a] # None => saved'[a] # None
  BY <1>4, <1>7, Apart
<1>15. \A q \in Tasks : job'[q].op \in Marked /\ pc'[q] \notin {"begin", "truncate"} =>
          saved'[job'[q].key] # None
  <2>1. ASSUME NEW q \in Tasks, q # t, job'[q].op \in Marked, pc'[q] \notin {"begin", "truncate"}
        PROVE  saved'[job'[q].key] # None
    <3>1. job[q].key \in Things /\ saved[job[q].key] # None /\ job'[q] = job[q]
      BY <1>2, <2>1, AtTask, Apart DEF SearchInv, Present, KindOf
    <3>2. QED
      BY <1>14, <3>1
  <2>2. ASSUME job'[t].op \in Marked
        PROVE  saved'[job'[t].key] # None
    BY <1>2, <1>4, <1>7, <1>9, <2>2, Apart DEF k
  <2>3. QED
    BY <2>1, <2>2
<1>16. \A a \in Agents : saved'[a] # None => a \in registered'
  BY <1>6, <1>7, <1>8, Apart DEF SearchInv, Present
<1>17. \A q \in Tasks : job'[q].key \in Agents => job'[q].key \in registered'
  BY <1>2, <1>6, <1>9, Apart DEF SearchInv, Present
<1>18. Present'
  BY <1>13, <1>15, <1>16, <1>17 DEF Present
<1>19. QED
  BY <1>11, <1>12, <1>18 DEF SearchInv

\* A write that fails, and the mark: the request ends.
LEMMA EndSearch ==
    ASSUME EgoTypes, Kinds, WriteInv, SearchInv, NEW t \in Tasks, SaveFails(t) \/ MarkDirty(t)
    PROVE  SearchInv'
<1> DEFINE k == job[t].key
<1>1. pc[t] \in {"truncate", "fill", "mark"} /\ job[t] \in Jobs /\ KindOf(pc[t], job[t])
  BY AtTask DEF SaveFails, MarkDirty, Writing
<1>2. NoJob.key = None /\ NoJob.op \notin Marked /\ ~NoJob.load
  BY DEF NoJob, Marked
<1>3. /\ Aside /\ pc'[t] = "idle" /\ job'[t] = NoJob
      /\ \A q \in Tasks \ {t} : pc'[q] = pc[q] /\ job'[q] = job[q]
  BY <1>1, <1>2, RestMoves, NoJobType, AsideMoves, WriteSteps DEF SaveFails, MarkDirty
<1>4. UNCHANGED <<saved, cache, registered, instance, metadata, texts, crossed>>
  BY DEF SaveFails, MarkDirty, things, search
<1>5. /\ SaveFails(t) => /\ UNCHANGED dirty
                         /\ missed' = IF job[t].op \in Marked THEN missed \cup {k} ELSE missed
      /\ MarkDirty(t) => /\ dirty' = dirty \cup {k} /\ missed' = missed \ {k}
                         /\ pc[t] = "mark" /\ job[t].op \in Marked
  BY <1>1 DEF SaveFails, MarkDirty, search, KindOf
<1>6. MarkDirty(t) => saved[k] # None
  BY <1>5 DEF SearchInv, Present
<1>. HIDE DEF k
<1>7. ASSUME NEW a \in Searched \ (crossed \cup missed' \cup dirty'), ~Pending(a)'
      PROVE  /\ a \notin missed \cup dirty /\ ~Pending(a)
             /\ TextOf(Readable(a))' = TextOf(Readable(a))
  <2>1. a \notin missed \cup dirty /\ (a = k => job[t].op \notin Marked)
    BY <1>5, <1>7
  <2>2. ~Pending(a)
    BY <1>3, <1>7, <2>1 DEF Pending, k
  <2>3. QED
    BY <1>4, <2>1, <2>2, ReadableFrom, TextFrom, Apart
<1>8. Loading' /\ Index'
  BY <1>3, <1>4, QuietForIndex DEF SearchInv
<1>9. Shown'
  BY <1>3, <1>4, <1>7, QuietForFresh DEF SearchInv
<1>10. ASSUME NEW a \in Searched \ missed', saved'[a] = None, cache'[a] # None
       PROVE  \E q \in Tasks : job'[q].key = a /\ job'[q].op \in Marked /\ pc'[q] = "truncate"
  <2>1. a \notin missed /\ (a = k => job[t].op \notin Marked)
    BY <1>4, <1>5, <1>6, <1>10
  <2>2. PICK q \in Tasks : job[q].key = a /\ job[q].op \in Marked /\ pc[q] = "truncate"
    BY <1>4, <1>10, <2>1 DEF SearchInv, Present
  <2>3. q # t
    BY <2>1, <2>2 DEF k
  <2>4. QED
    BY <1>3, <2>2, <2>3
<1>11. \A q \in Tasks : /\ job'[q].op \in Marked /\ pc'[q] \notin {"begin", "truncate"} =>
                             saved'[job'[q].key] # None
                        /\ job'[q].key \in Agents => job'[q].key \in registered'
  BY <1>2, <1>3, <1>4, Apart DEF SearchInv, Present
<1>12. Present'
  BY <1>4, <1>10, <1>11 DEF SearchInv, Present
<1>13. QED
  BY <1>8, <1>9, <1>12 DEF SearchInv

\* A step that the index takes part in: its task is at no write.
LEMMA SyncPresent ==
    ASSUME EgoTypes, Kinds, Present, NEW t \in Tasks, NEW s \in Steps, NEW j \in Jobs, Moves(t, s, j),
           pc[t] \in SyncSteps \cup {"search", "mark"}, s \notin {"begin", "truncate"},
           j.key = job[t].key, j.op = job[t].op,
           UNCHANGED saved, registered \subseteq registered', missed \subseteq missed',
           \A k \in Things : cache'[k] = cache[k] \/ cache'[k] = Readable(k)
    PROVE  Present'
<1>1. pc'[t] = s /\ job'[t] = j /\ \A q \in Tasks \ {t} : pc'[q] = pc[q] /\ job'[q] = job[q]
  BY MovesFacts DEF EgoTypes
<1>2. job'[t].key \in Agents => job'[t].key \in registered'
  BY <1>1 DEF Present
<1>3. QED
  BY <1>1, <1>2, QuietForPresent DEF SyncSteps

LEMMA SyncPending ==
    ASSUME EgoTypes, NEW t \in Tasks, NEW s \in Steps, NEW j \in Jobs, Moves(t, s, j),
           pc[t] # "begin", s # "begin", j.key = job[t].key, j.op = job[t].op, NEW k
    PROVE  Pending(k)' <=> Pending(k)
  BY MovesFacts DEF EgoTypes, Pending

LEMMA SameText ==
    ASSUME EgoTypes, UNCHANGED saved, NEW k \in Searched,
           \A a \in Things : cache'[a] = cache[a] \/ cache'[a] = Readable(a)
    PROVE  Readable(k)' = Readable(k) /\ TextOf(Readable(k))' = TextOf(Readable(k))
  BY Apart, ReadableFrom, TextFrom

LEMMA LoadIndexSearch ==
    ASSUME EgoTypes, Kinds, SearchInv, NEW t \in Tasks, NEW S \in SUBSET Searched, LoadIndex(t, S)
    PROVE  SearchInv'
<1>1. PICK j \in Jobs : /\ Moves(t, "sync", j) /\ pc[t] \in {"search", "mark"}
                        /\ j.key = job[t].key /\ j.op = job[t].op /\ j.load /\ j.todo = S
  BY LoadMoves DEF EgoTypes
<1>2. pc'[t] = "sync" /\ job'[t] = j /\ \A q \in Tasks \ {t} : pc'[q] = pc[q] /\ job'[q] = job[q]
  BY <1>1, MovesFacts DEF EgoTypes, Steps
<1>3. /\ instance = "none" /\ instance' = "loading" /\ Listed \subseteq S
      /\ missed' = missed \cup {k \in Roles \ S : saved[k] # None}
      /\ UNCHANGED <<saved, cache, registered, dirty, metadata, texts, crossed>>
  BY DEF LoadIndex, things
<1>4. \A q \in Tasks : ~job[q].load /\ pc[q] \notin {"sync", "fetch", "reindex"}
  BY <1>3 DEF SearchInv, Loading
<1>5. Loading'
  BY <1>2, <1>3, <1>4 DEF Loading
<1>6. \A q \in Tasks, k \in Searched : ~Syncing(q, k) /\ ~Syncing(q, k)'
  BY <1>2, <1>4 DEF Syncing
<1>7. Index'
  BY <1>3, <1>6 DEF SearchInv, Index, Idle
<1>8. Present'
  BY <1>1, <1>3, SyncPresent DEF SearchInv, Steps
<1>9. ASSUME NEW k \in Searched \ (crossed' \cup missed' \cup dirty'), ~Pending(k)', ~Awaited(k)'
      PROVE  metadata'[k] = TextOf(Readable(k))'
  <2>1. k \notin S
    BY <1>1, <1>2, <1>9 DEF Awaited
  <2>2. metadata'[k] = None
    BY <1>3 DEF SearchInv, Loading
  <2>3. saved[k] = None
    <3>1. CASE k \in Roles
      BY <1>3, <1>9, <2>1, <3>1
    <3>2. CASE k \in Agents
      BY <1>3, <2>1, <3>2 DEF Listed, SearchInv, Present
    <3>3. QED
      BY <3>1, <3>2 DEF Searched
  <2>4. ~Pending(k)
    BY <1>1, <1>9, SyncPending DEF Steps
  <2>5. cache[k] = None
    BY <1>3, <1>9, <2>3, <2>4 DEF SearchInv, Present, Pending
  <2>6. Readable(k)' = None
    BY <1>3, <2>3, <2>5, Apart DEF Readable, Stored
  <2>7. QED
    BY <2>2, <2>6 DEF TextOf
<1>10. Shown'
  BY <1>6, <1>9 DEF Shown
<1>11. QED
  BY <1>5, <1>7, <1>8, <1>10 DEF SearchInv

\* Which tasks wait for their turn does not matter to the index.
LEMMA TurnSearch ==
    ASSUME EgoTypes, Kinds, SearchInv, NEW t \in Tasks,
           SyncAll(t) \/ \E k \in Searched : Skip(t, k)
    PROVE  SearchInv'
<1>1. PICK j \in Jobs : /\ Moves(t, "sync", j) /\ pc[t] \in {"search", "sync"}
                        /\ j.key = job[t].key /\ j.op = job[t].op /\ ~j.load /\ ~job[t].load
  <2>1. SyncAll(t) => job[t].op = job'[t].op /\ job[t].key = None /\ ~job[t].load
    BY AtTask DEF SyncAll, KindOf, Jobs, EgoTypes, TaskTypes
  <2>2. ASSUME NEW j \in Jobs, Moves(t, "sync", j)
        PROVE  job'[t] = j
    BY <2>2, MovesFacts DEF EgoTypes, Steps
  <2>3. QED
    BY <2>1, <2>2, SyncMoves DEF EgoTypes
<1>2. pc'[t] = "sync" /\ job'[t] = j /\ \A q \in Tasks \ {t} : pc'[q] = pc[q] /\ job'[q] = job[q]
  BY <1>1, MovesFacts DEF EgoTypes, Steps
<1>3. UNCHANGED <<saved, cache, registered, instance, dirty, metadata, texts, missed, crossed>>
  BY DEF SyncAll, Skip, things, search, history
<1>4. instance # "none"
  BY DEF SyncAll, Skip, SearchInv, Loading
<1>5. \A q \in Tasks, k \in Searched : /\ Syncing(q, k)' <=> Syncing(q, k)
                                       /\ Syncing(q, k) => job'[q] = job[q] /\ pc'[q] = pc[q]
  BY <1>1, <1>2 DEF Syncing
<1>6. Loading'
  BY <1>1, <1>2, <1>3, <1>4 DEF SearchInv, Loading
<1>7. Index'
  BY <1>3, <1>5 DEF SearchInv, Index, Idle
<1>8. Present'
  BY <1>1, <1>3, SyncPresent DEF SearchInv, Steps, SyncSteps
<1>9. \A k \in Searched : /\ Pending(k)' <=> Pending(k)
                          /\ TextOf(Readable(k))' = TextOf(Readable(k))
                          /\ Idle(k)' <=> Idle(k)
                          /\ Awaited(k)' <=> Awaited(k)
  <2>1. \A k \in Searched : Pending(k)' <=> Pending(k)
    BY <1>1, SyncPending DEF Steps
  <2>2. \A k \in Searched : TextOf(Readable(k))' = TextOf(Readable(k))
    BY <1>3, SameText
  <2>3. \A k \in Searched : (Idle(k)' <=> Idle(k)) /\ (Awaited(k)' <=> Awaited(k))
    BY <1>1, <1>2, <1>5 DEF Idle, Awaited
  <2>4. QED
    BY <2>1, <2>2, <2>3
<1>10. \A q \in Tasks, k \in Searched : (Syncing(q, k) /\ pc[q] = "reindex")' =>
          Syncing(q, k) /\ pc[q] = "reindex" /\ TextOf(job[q].new)' = TextOf(job[q].new)
  BY <1>5 DEF TextOf
<1>11. Shown'
  BY <1>3, <1>9, <1>10 DEF SearchInv, Shown
<1>12. QED
  BY <1>6, <1>7, <1>8, <1>11 DEF SearchInv

LEMMA TakeMarkSearch ==
    ASSUME EgoTypes, Kinds, SearchInv, NEW t \in Tasks, NEW k \in Searched, TakeMark(t, k)
    PROVE  SearchInv'
<1>1. PICK j \in Jobs : /\ pc[t] = "sync" /\ Moves(t, "fetch", j)
                        /\ j.key = job[t].key /\ j.op = job[t].op /\ j.load = job[t].load
                        /\ j.todo = job[t].todo \ {k} /\ j.at = k /\ j.old = metadata[k]
  BY SyncMoves DEF EgoTypes
<1>2. pc'[t] = "fetch" /\ job'[t] = j /\ \A q \in Tasks \ {t} : pc'[q] = pc[q] /\ job'[q] = job[q]
  BY <1>1, MovesFacts DEF EgoTypes, Steps
<1>3. /\ dirty' = dirty \ {k} /\ metadata' = [metadata EXCEPT ![k] = None]
      /\ crossed' = IF \E q \in Tasks : Syncing(q, k) THEN crossed \cup {k} ELSE crossed
      /\ UNCHANGED <<saved, cache, registered, instance, texts, missed>>
  BY DEF TakeMark, things
<1>4. instance # "none"
  BY <1>1 DEF SearchInv, Loading
<1>5. metadata'[k] = None /\ \A a \in Searched \ {k} : metadata'[a] = metadata[a]
  BY <1>3 DEF EgoTypes, IndexTypes
<1>6. \A q \in Tasks, a \in Searched :
         /\ Syncing(q, a)' <=> Syncing(q, a) \/ (q = t /\ a = k)
         /\ Syncing(q, a) => q # t /\ job'[q] = job[q] /\ pc'[q] = pc[q]
  BY <1>1, <1>2 DEF Syncing
<1>7. Loading'
  <2>1. \A q \in Tasks : job'[q].load <=> job[q].load
    BY <1>1, <1>2
  <2>2. QED
    BY <1>3, <1>4, <2>1 DEF SearchInv, Loading
<1>8. k \notin crossed' => Idle(k) /\ k \notin crossed
  BY <1>3 DEF Idle
<1>9. ASSUME NEW a \in Searched \ crossed'
      PROVE  /\ \A p, q \in Tasks : (Syncing(p, a) /\ Syncing(q, a))' => p = q
             /\ Idle(a)' => texts'[a] = {metadata'[a]} \ {None}
             /\ \A q \in Tasks : Syncing(q, a)' =>
                   metadata'[a] = None /\ texts'[a] = {job'[q].old} \ {None}
  <2>1. CASE a = k
    <3>1. Idle(k) /\ texts[k] = {metadata[k]} \ {None}
      BY <1>8, <1>9, <2>1 DEF SearchInv, Index
    <3>2. \A q \in Tasks : Syncing(q, k)' => q = t
      BY <1>6, <3>1 DEF Idle
    <3>3. Syncing(t, k)' /\ job'[t].old = metadata[k]
      BY <1>1, <1>2, <1>6
    <3>4. QED
      BY <1>3, <1>5, <2>1, <3>1, <3>2, <3>3 DEF Idle
  <2>2. CASE a # k
    <3>1. a \notin crossed
      BY <1>3, <1>9
    <3>2. QED
      BY <1>3, <1>5, <1>6, <2>2, <3>1 DEF SearchInv, Index, Idle
  <2>3. QED
    BY <2>1, <2>2
<1>10. Index'
  BY <1>9 DEF Index
<1>11. Present'
  BY <1>1, <1>3, SyncPresent DEF SearchInv, Steps, SyncSteps
<1>12. ASSUME NEW a \in Searched \ (crossed' \cup missed' \cup dirty'), ~Pending(a)'
       PROVE  /\ (instance # "none" /\ Idle(a) /\ ~Awaited(a))' => metadata'[a] = TextOf(Readable(a))'
              /\ \A q \in Tasks : (Syncing(q, a) /\ pc[q] = "reindex")' =>
                    TextOf(job[q].new)' = TextOf(Readable(a))'
  <2>1. ~Pending(a) /\ TextOf(Readable(a))' = TextOf(Readable(a))
    BY <1>1, <1>3, <1>12, SyncPending, SameText DEF Steps
  <2>2. CASE a = k
    <3>1. Idle(k)
      BY <1>8, <1>12, <2>2
    <3>2. ~Idle(a)' /\ \A q \in Tasks : Syncing(q, a)' => pc'[q] = "fetch"
      BY <1>2, <1>6, <2>2, <3>1 DEF Idle
    <3>3. QED
      BY <3>2
  <2>3. CASE a # k
    <3>1. a \in Searched \ (crossed \cup missed \cup dirty)
      BY <1>3, <1>12, <2>3
    <3>2. (Idle(a)' <=> Idle(a)) /\ (Awaited(a)' <=> Awaited(a))
      BY <1>1, <1>2, <1>6, <2>3 DEF Idle, Awaited
    <3>3. \A q \in Tasks : (Syncing(q, a) /\ pc[q] = "reindex")' =>
             Syncing(q, a) /\ pc[q] = "reindex" /\ TextOf(job[q].new)' = TextOf(job[q].new)
      BY <1>6, <2>3 DEF TextOf
    <3>4. QED
      BY <1>3, <1>5, <2>1, <2>3, <3>1, <3>2, <3>3 DEF SearchInv, Shown
  <2>4. QED
    BY <2>2, <2>3
<1>13. Shown'
  BY <1>12 DEF Shown
<1>14. QED
  BY <1>7, <1>10, <1>11, <1>13 DEF SearchInv

LEMMA FetchSearch ==
    ASSUME EgoTypes, Kinds, SearchInv, NEW t \in Tasks, Fetch(t) \/ FetchFails(t)
    PROVE  SearchInv'
<1> DEFINE k == job[t].at
           n == job'[t].new
<1>1. job[t] \in Jobs /\ pc[t] = "fetch" /\ k \in Searched /\ k \in Things
  BY AtTask, Apart DEF Fetch, FetchFails, KindOf
<1>2. /\ Fetch(t) => n = Readable(k)
      /\ FetchFails(t) => n = None
  BY <1>1 DEF Fetch, FetchFails, EgoTypes, TaskTypes, Jobs
<1>3. n \in Contents \cup {None}
  BY <1>1, <1>2, StoredTypes DEF EgoTypes
<1>4. PICK j \in Jobs : /\ Moves(t, "reindex", j)
                        /\ j.key = job[t].key /\ j.op = job[t].op /\ j.load = job[t].load
                        /\ j.todo = job[t].todo /\ j.at = job[t].at /\ j.old = job[t].old
                        /\ j.new = n
  BY <1>3, SyncMoves DEF EgoTypes
<1>5. pc'[t] = "reindex" /\ job'[t] = j /\ \A q \in Tasks \ {t} : pc'[q] = pc[q] /\ job'[q] = job[q]
  BY <1>4, MovesFacts DEF EgoTypes, Steps
<1>6. /\ UNCHANGED <<saved, instance, dirty, metadata, texts, crossed>>
      /\ registered \subseteq registered'
      /\ missed \subseteq missed' /\ (FetchFails(t) => k \in missed')
  BY DEF Fetch, FetchFails, things, search, history, Register
<1>7. \A a \in Things : cache'[a] = cache[a] \/ cache'[a] = Readable(a)
  BY <1>1 DEF Fetch, FetchFails, things, EgoTypes, StoreTypes
<1>. HIDE DEF k, n
<1>8. instance # "none"
  BY <1>1 DEF SearchInv, Loading
<1>9. \A q \in Tasks : job'[q].load = job[q].load /\ job'[q].todo = job[q].todo
  BY <1>4, <1>5
<1>10. \A q \in Tasks, a \in Searched :
          /\ Syncing(q, a)' <=> Syncing(q, a)
          /\ Syncing(q, a) => job'[q].old = job[q].old /\ (q = t => a = k)
          /\ q # t => job'[q] = job[q] /\ pc'[q] = pc[q]
  BY <1>1, <1>4, <1>5 DEF Syncing, k
<1>11. Loading'
  BY <1>6, <1>8, <1>9 DEF SearchInv, Loading
<1>12. Index'
  BY <1>6, <1>10 DEF SearchInv, Index, Idle
<1>13. Present'
  BY <1>1, <1>4, <1>6, <1>7, SyncPresent DEF SearchInv, Steps, SyncSteps
<1>14. ASSUME NEW a \in Searched \ (crossed' \cup missed' \cup dirty'), ~Pending(a)'
       PROVE  /\ (instance # "none" /\ Idle(a) /\ ~Awaited(a))' => metadata'[a] = TextOf(Readable(a))'
              /\ \A q \in Tasks : (Syncing(q, a) /\ pc[q] = "reindex")' =>
                    TextOf(job[q].new)' = TextOf(Readable(a))'
  <2>1. ~Pending(a)
    BY <1>1, <1>4, <1>14, SyncPending DEF Steps
  <2>2. TextOf(Readable(a))' = TextOf(Readable(a)) /\ Readable(a)' = Readable(a)
    BY <1>6, <1>7, SameText
  <2>3. a \in Searched \ (crossed \cup missed \cup dirty)
    BY <1>6, <1>14
  <2>4. (Idle(a)' <=> Idle(a)) /\ (Awaited(a)' <=> Awaited(a))
    BY <1>9, <1>10 DEF Idle, Awaited
  <2>5. ASSUME NEW q \in Tasks, (Syncing(q, a) /\ pc[q] = "reindex")'
        PROVE  TextOf(job[q].new)' = TextOf(Readable(a))'
    <3>1. CASE q = t
      <4>1. a = k
        BY <1>10, <2>5, <3>1
      <4>2. job'[t].new = Readable(a)
        BY <1>2, <1>6, <1>14, <4>1 DEF n
      <4>3. QED
        BY <2>2, <3>1, <4>2 DEF TextOf
    <3>2. CASE q # t
      <4>1. Syncing(q, a) /\ pc[q] = "reindex" /\ job'[q] = job[q]
        BY <1>10, <2>5, <3>2
      <4>2. TextOf(job[q].new) = TextOf(Readable(a))
        BY <2>1, <2>3, <4>1 DEF SearchInv, Shown
      <4>3. TextOf(job[q].new)' = TextOf(job[q].new)
        BY <4>1 DEF TextOf
      <4>4. QED
        BY <2>2, <4>2, <4>3
    <3>3. QED
      BY <3>1, <3>2
  <2>6. QED
    BY <1>6, <2>1, <2>2, <2>3, <2>4, <2>5 DEF SearchInv, Shown
<1>15. Shown'
  BY <1>14 DEF Shown
<1>16. QED
  BY <1>11, <1>12, <1>13, <1>15 DEF SearchInv

LEMMA ReindexSearch ==
    ASSUME EgoTypes, Kinds, SearchInv, NEW t \in Tasks, Reindex(t)
    PROVE  SearchInv'
<1> DEFINE k == job[t].at
           old == job[t].old
           new == job[t].new
<1>1. job[t] \in Jobs /\ pc[t] = "reindex" /\ k \in Searched /\ Syncing(t, k)
  BY AtTask, Apart DEF Reindex, KindOf, Syncing
<1>2. old \in Texts \cup {None} /\ (new = None \/ (new # None /\ new.text \in Texts))
  BY <1>1 DEF Jobs, Contents
<1>3. PICK j \in Jobs : /\ Moves(t, "sync", j)
                        /\ j.key = job[t].key /\ j.op = job[t].op /\ j.load = job[t].load
                        /\ j.todo = job[t].todo
  BY SyncMoves DEF EgoTypes
<1>4. pc'[t] = "sync" /\ job'[t] = j /\ \A q \in Tasks \ {t} : pc'[q] = pc[q] /\ job'[q] = job[q]
  BY <1>3, MovesFacts DEF EgoTypes, Steps
<1>5. /\ UNCHANGED <<saved, cache, registered, instance, dirty, missed, crossed>>
      /\ texts' = [texts EXCEPT ![k] = IF new = None THEN @ \ {old}
                                       ELSE IF new.text = old THEN @ ELSE (@ \ {old}) \cup {new.text}]
      /\ metadata' = IF new = None THEN metadata ELSE [metadata EXCEPT ![k] = new.text]
  <2>1. UNCHANGED <<saved, cache, registered, instance, dirty, missed, crossed>>
        /\ texts \in [Searched -> SUBSET Texts]
    BY DEF Reindex, things, history, EgoTypes, IndexTypes
  <2>2. CASE new = None
    BY <2>1, <2>2 DEF Reindex
  <2>3. CASE new # None
    BY <1>1, <2>1, <2>3 DEF Reindex
  <2>4. QED
    BY <2>1, <2>2, <2>3
<1>. HIDE DEF k, old, new
<1>6. /\ \A a \in Searched \ {k} : texts'[a] = texts[a] /\ metadata'[a] = metadata[a]
      /\ texts'[k] = IF new = None THEN texts[k] \ {old}
                     ELSE IF new.text = old THEN texts[k] ELSE (texts[k] \ {old}) \cup {new.text}
      /\ metadata'[k] = IF new = None THEN metadata[k] ELSE new.text
  BY <1>1, <1>5 DEF EgoTypes, IndexTypes
<1>7. \A q \in Tasks, a \in Searched :
         /\ Syncing(q, a)' <=> Syncing(q, a) /\ q # t
         /\ Syncing(t, a) <=> a = k
         /\ q # t => job'[q] = job[q] /\ pc'[q] = pc[q]
  BY <1>1, <1>4 DEF Syncing, k
<1>8. \A q \in Tasks : job'[q].load = job[q].load /\ job'[q].todo = job[q].todo
  BY <1>3, <1>4
<1>9. instance # "none"
  BY <1>1 DEF SearchInv, Loading
<1>10. Loading'
  BY <1>5, <1>8, <1>9 DEF SearchInv, Loading
<1>11. k \notin crossed => /\ metadata[k] = None /\ texts[k] = {old} \ {None}
                           /\ \A q \in Tasks : Syncing(q, k) => q = t
  BY <1>1 DEF SearchInv, Index, old
<1>12. k \notin crossed => /\ texts'[k] = {metadata'[k]} \ {None}
                           /\ metadata'[k] = TextOf(new)
  BY <1>2, <1>6, <1>11, Apart DEF TextOf
<1>13. ASSUME NEW a \in Searched \ crossed'
       PROVE  /\ \A p, q \in Tasks : (Syncing(p, a) /\ Syncing(q, a))' => p = q
              /\ Idle(a)' => texts'[a] = {metadata'[a]} \ {None}
              /\ \A q \in Tasks : Syncing(q, a)' =>
                    metadata'[a] = None /\ texts'[a] = {job'[q].old} \ {None}
  <2>1. CASE a = k
    BY <1>5, <1>7, <1>11, <1>12, <1>13, <2>1
  <2>2. CASE a # k
    BY <1>5, <1>6, <1>7, <1>13, <2>2 DEF SearchInv, Index, Idle
  <2>3. QED
    BY <2>1, <2>2
<1>14. Index'
  BY <1>13 DEF Index
<1>15. Present'
  BY <1>1, <1>3, <1>5, SyncPresent DEF SearchInv, Steps, SyncSteps
<1>16. ASSUME NEW a \in Searched \ (crossed' \cup missed' \cup dirty'), ~Pending(a)'
       PROVE  /\ (instance # "none" /\ Idle(a) /\ ~Awaited(a))' => metadata'[a] = TextOf(Readable(a))'
              /\ \A q \in Tasks : (Syncing(q, a) /\ pc[q] = "reindex")' =>
                    TextOf(job[q].new)' = TextOf(Readable(a))'
  <2>1. ~Pending(a) /\ TextOf(Readable(a))' = TextOf(Readable(a))
    BY <1>1, <1>3, <1>5, <1>16, SyncPending, SameText DEF Steps
  <2>2. a \in Searched \ (crossed \cup missed \cup dirty)
    BY <1>5, <1>16
  <2>3. \A q \in Tasks : (Syncing(q, a) /\ pc[q] = "reindex")' =>
           Syncing(q, a) /\ pc[q] = "reindex" /\ TextOf(job[q].new)' = TextOf(job[q].new)
    BY <1>7 DEF TextOf
  <2>4. \A q \in Tasks : Syncing(q, a) /\ pc[q] = "reindex" => TextOf(job[q].new) = TextOf(Readable(a))
    BY <2>1, <2>2 DEF SearchInv, Shown
  <2>5. CASE a = k
    <3>1. metadata'[a] = TextOf(new)
      BY <1>12, <2>2, <2>5
    <3>2. TextOf(new) = TextOf(Readable(a))
      BY <1>1, <2>4, <2>5 DEF new
    <3>3. QED
      BY <2>1, <2>3, <2>4, <3>1, <3>2
  <2>6. CASE a # k
    <3>1. (Idle(a)' <=> Idle(a)) /\ (Awaited(a)' <=> Awaited(a))
      BY <1>7, <1>8, <2>6 DEF Idle, Awaited
    <3>2. QED
      BY <1>5, <1>6, <2>1, <2>2, <2>3, <2>4, <2>6, <3>1 DEF SearchInv, Shown
  <2>7. QED
    BY <2>5, <2>6
<1>17. Shown'
  BY <1>16 DEF Shown
<1>18. QED
  BY <1>10, <1>14, <1>15, <1>17 DEF SearchInv

LEMMA EndSyncSearch ==
    ASSUME EgoTypes, Kinds, SearchInv, NEW t \in Tasks, EndSync(t)
    PROVE  SearchInv'
<1> DEFINE s == IF Finds(t) THEN "search" ELSE "mark"
<1>1. PICK j \in Jobs : /\ pc[t] = "sync" /\ ~j.load /\ Moves(t, s, j)
                        /\ j.key = job[t].key /\ j.op = job[t].op
  BY SyncMoves DEF EgoTypes
<1>2. s \in {"search", "mark"} /\ s \in Steps /\ s \notin {"begin", "truncate", "sync", "fetch", "reindex"}
  BY DEF Steps
<1>. HIDE DEF s
<1>3. pc'[t] = s /\ job'[t] = j /\ \A q \in Tasks \ {t} : pc'[q] = pc[q] /\ job'[q] = job[q]
  BY <1>1, <1>2, MovesFacts DEF EgoTypes
<1>4. /\ job[t].todo = {}
      /\ instance' = IF job[t].load THEN "ready" ELSE instance
      /\ UNCHANGED <<saved, cache, registered, dirty, metadata, texts, missed, crossed>>
  BY DEF EndSync, things, history
<1>5. instance # "none" /\ instance' # "none"
  BY <1>1, <1>4 DEF SearchInv, Loading
<1>6. Loading'
  BY <1>1, <1>3, <1>4, <1>5 DEF SearchInv, Loading
<1>7. \A q \in Tasks, k \in Searched : /\ Syncing(q, k)' <=> Syncing(q, k)
                                       /\ Syncing(q, k) => job'[q] = job[q] /\ pc'[q] = pc[q]
  BY <1>1, <1>2, <1>3 DEF Syncing
<1>8. Index'
  BY <1>4, <1>7 DEF SearchInv, Index, Idle
<1>9. Present'
  BY <1>1, <1>2, <1>4, SyncPresent DEF SearchInv, SyncSteps
<1>10. ASSUME NEW k \in Searched
       PROVE  /\ Pending(k)' <=> Pending(k)
              /\ TextOf(Readable(k))' = TextOf(Readable(k))
              /\ Idle(k)' <=> Idle(k)
              /\ Awaited(k)' <=> Awaited(k)
  <2>1. Pending(k)' <=> Pending(k)
    BY <1>1, <1>2, SyncPending
  <2>2. TextOf(Readable(k))' = TextOf(Readable(k))
    BY <1>4, SameText
  <2>3. (Idle(k)' <=> Idle(k)) /\ (Awaited(k)' <=> Awaited(k))
    BY <1>1, <1>3, <1>4, <1>7 DEF Idle, Awaited
  <2>4. QED
    BY <2>1, <2>2, <2>3
<1>11. \A q \in Tasks, k \in Searched : (Syncing(q, k) /\ pc[q] = "reindex")' =>
          Syncing(q, k) /\ pc[q] = "reindex" /\ TextOf(job[q].new)' = TextOf(job[q].new)
  BY <1>7 DEF TextOf
<1>12. Shown'
  BY <1>4, <1>5, <1>10, <1>11 DEF SearchInv, Shown
<1>13. QED
  BY <1>6, <1>8, <1>9, <1>12 DEF SearchInv

LEMMA RestartSearch ==
    ASSUME EgoTypes, SearchInv, Restart
    PROVE  SearchInv'
<1>1. /\ \A q \in Tasks : /\ pc'[q] = "idle" /\ job'[q] = NoJob /\ ~job'[q].load
                          /\ job'[q].key = None /\ job'[q].op \notin Marked
      /\ \A k \in Things : cache'[k] = None
      /\ \A k \in Searched : metadata'[k] = None /\ texts'[k] = {}
      /\ instance' = "none" /\ UNCHANGED <<saved, registered>>
  BY DEF Restart, NoJob, Marked
<1>2. Loading'
  BY <1>1 DEF Loading
<1>3. \A q \in Tasks, k \in Searched : ~Syncing(q, k)'
  BY <1>1 DEF Syncing
<1>4. Index'
  BY <1>1, <1>3 DEF Index, Idle
<1>5. Present'
  BY <1>1, Apart DEF SearchInv, Present
<1>6. Shown'
  BY <1>1, <1>3 DEF Shown
<1>7. QED
  BY <1>2, <1>4, <1>5, <1>6 DEF SearchInv

LEMMA StillSearch ==
    ASSUME EgoTypes, Kinds, SearchInv, UNCHANGED egoVars
    PROVE  SearchInv'
<1>1. UNCHANGED <<instance, metadata, texts, dirty, missed, crossed, saved, registered, cache, pc, job>>
  BY DEF egoVars, things, search, tasks, history
<1>2. Aside
  BY <1>1 DEF Aside
<1>3. Present'
  BY <1>1, QuietForPresent DEF SearchInv
<1>4. \A k \in Searched : /\ Pending(k)' <=> Pending(k)
                          /\ TextOf(Readable(k))' = TextOf(Readable(k))
  BY <1>1, SameText DEF Pending
<1>5. QED
  BY <1>1, <1>2, <1>3, <1>4, QuietForIndex, QuietForFresh DEF SearchInv

LEMMA SearchInit == EgoInit => SearchInv
<1> SUFFICES ASSUME EgoInit PROVE SearchInv
  OBVIOUS
<1>1. /\ \A q \in Tasks : /\ pc[q] = "idle" /\ job[q] = NoJob /\ ~job[q].load
                          /\ job[q].key = None /\ job[q].op \notin Marked
      /\ \A k \in Things : cache[k] = None
      /\ \A k \in Searched : metadata[k] = None /\ texts[k] = {}
      /\ instance = "none"
      /\ \A k \in Agents : saved[k] # None => k \in registered
  BY Apart DEF EgoInit, NoJob, Marked
<1>2. \A q \in Tasks, k \in Searched : ~Syncing(q, k)
  BY <1>1 DEF Syncing
<1>3. Loading /\ Index /\ Shown
  BY <1>1, <1>2 DEF Loading, Index, Idle, Shown
<1>4. Present
  BY <1>1, Apart DEF Present
<1>5. QED
  BY <1>3, <1>4 DEF SearchInv

LEMMA SearchStep ==
    ASSUME EgoTypes, Kinds, WriteInv, SearchInv, [EgoNext]_egoVars
    PROVE  SearchInv'
<1>1. ASSUME NEW t \in Tasks, NEW k \in Individuals, OpenIndividuals(t, k)
      PROVE  SearchInv'
  BY <1>1, Apart, RequestSearch DEF Things
<1>2. ASSUME NEW t \in Tasks, WriteNext(t)
      PROVE  SearchInv'
  BY <1>1, <1>2, RequestSearch, BeginWriteSearch, RefuseSearch, TruncateSearch, FillSearch, EndSearch
     DEF WriteNext
<1>3. ASSUME NEW t \in Tasks, SearchNext(t)
      PROVE  SearchInv'
  BY <1>3, AskSearch, LoadIndexSearch, TurnSearch, TakeMarkSearch, FetchSearch, ReindexSearch,
     EndSyncSearch DEF SearchNext
<1>4. QED
  BY <1>2, <1>3, GetSearch, RestartSearch, StillSearch DEF EgoNext

--------------------------------------------------------------------------------
(* The theorems.                                                               *)

LEMMA EgoSafeAlways == EgoSpec => []EgoSafe
<1>1. EgoInit => EgoSafe
  BY InitTypes, WritesInit, SearchInit DEF EgoSafe
<1>2. EgoSafe /\ [EgoNext]_egoVars => EgoSafe'
  BY TypesStep, WritesStep, SearchStep DEF EgoSafe, WriteInv
<1>3. QED
  BY <1>1, <1>2, PTL DEF EgoSpec

\* Through writes, failures of writes, loads and restarts of any number of
\* requests, memory shows of each thing what its file holds, and no creation
\* succeeds twice, but for agents whose creations overlapped: the three managers'
\* write_..._ref take the lock before they look.
THEOREM WritesAreKept == EgoSpec => []WritesKept
<1>1. EgoSafe => WritesKept
  <2>1. ASSUME EgoSafe, NEW k \in Things, created[k] > 1
        PROVE  k \in raced
    BY <2>1 DEF EgoSafe, WriteInv, Once, EgoTypes, StoreTypes
  <2>2. QED
    BY <2>1 DEF EgoSafe, WriteInv, Kept, WritesKept
<1>2. QED
  BY <1>1, EgoSafeAlways, PTL

\* When nothing is on its way, a search finds a thing by the text a reader is
\* shown and by no other: marks, loads and synchronisations of any number of
\* requests lose no change but those the property names.
THEOREM SearchesAreAccurate == EgoSpec => []SearchAccurate
<1>1. ASSUME EgoSafe, NEW k \in Searched \ (crossed \cup missed), Settled(k)
      PROVE  texts[k] = IF Readable(k) = None THEN {} ELSE {Readable(k).text}
  <2>1. EgoTypes /\ Kinds /\ Loading /\ Index /\ Shown
    BY <1>1 DEF EgoSafe, SearchInv
  <2>2. Idle(k) /\ ~Awaited(k) /\ k \notin dirty /\ instance = "ready"
    BY <1>1, <2>1 DEF Settled, Idle, Awaited, Loading
  <2>3. ~Pending(k)
    <3>1. ASSUME NEW t \in Tasks, job[t].key = k, job[t].op \in Marked, pc[t] # "begin"
          PROVE  FALSE
      <4>1. pc[t] \in {"sync", "fetch", "reindex"}
        BY <1>1, <2>1, <3>1, AtTask, Apart DEF Settled, Steps, KindOf
      <4>2. job[t].load
        BY <2>1, <3>1, <4>1, AtTask, Apart DEF KindOf
      <4>3. QED
        BY <2>1, <2>2, <4>2 DEF Loading
    <3>2. QED
      BY <3>1 DEF Pending
  <2>4. metadata[k] = TextOf(Readable(k)) /\ texts[k] = {metadata[k]} \ {None}
    BY <1>1, <2>1, <2>2, <2>3 DEF Shown, Index
  <2>5. Readable(k) = None \/ Readable(k).text # None
    BY <2>1, StoredTypes, Apart DEF EgoTypes, Contents
  <2>6. QED
    BY <2>4, <2>5 DEF TextOf
<1>2. EgoSafe => SearchAccurate
  BY <1>1 DEF SearchAccurate
<1>3. QED
  BY <1>2, EgoSafeAlways, PTL

==================================================================================
