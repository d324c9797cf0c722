--------------------------- MODULE CaseArchive_proofs ---------------------------
(* Proofs about CaseArchive, for any records, suffixes, channels and cases, any *)
(* sizes of batches and any number of requests, failures and crashes: nothing   *)
(* is lost at the watermark, nothing is copied twice as long as nothing failed  *)
(* and no record came late, the state files agree, and a request leaves the     *)
(* files of the other suffixes alone.                                           *)
EXTENDS CaseArchive, FiniteSetTheorems, TLAPS

--------------------------------------------------------------------------------
(* The types.                                                                   *)

Points == Nat \X Nat
Marks == [Channels -> [Kinds -> Points]]
Pointers == [Channels -> Cases \cup {NoCase}]
Trees == UNION {[D -> Nat] : D \in SUBSET Cases}
Items == Records \cup {Msg}
Places == UNION {[D -> Cases] : D \in SUBSET Items}

Jobs ==
    [op : {"none", "trigger", "rebuild", "locate"}, suffix : Suffixes \cup {NoSuffix},
     message : Channels \cup {NoChannel}, view : [Kinds -> Nat], todo : SUBSET Channels,
     channel : Channels \cup {NoChannel}, rest : SUBSET Items, place : Places,
     appends : SUBSET (Cases \X Kinds), doomed : SUBSET Cases]

Saving == {"savetree", "savecurrent", "savemark"}
Working == {"next", "append"} \cup Saving
Steps == {"idle", "ensure", "clear", "clearmark", "view", "view2"} \cup Working

DiskTypes ==
    /\ copies \in [Cases -> [Records -> Nat]]
    /\ diskTree \in Trees
    /\ diskCurrent \in [Suffixes -> Pointers]
    /\ diskMark \in [Suffixes -> Marks]

MemoryTypes ==
    /\ opened \in BOOLEAN /\ loaded \in SUBSET Suffixes
    /\ tree \in Trees
    /\ current \in [Suffixes -> Pointers]
    /\ mark \in [Suffixes -> Marks]

OtherTypes ==
    /\ at \in [Records -> Nat]
    /\ pc \in Steps /\ job \in Jobs
    /\ requests \in Nat /\ failures \in Nat
    /\ dropped \in SUBSET Records /\ broken \in SUBSET Suffixes

TypeOK == DiskTypes /\ MemoryTypes /\ OtherTypes

--------------------------------------------------------------------------------
(* The inductive invariant.                                                     *)

\* What a request holds at its steps.
Stages ==
    /\ pc = "idle" => job = NoJob
    /\ pc # "idle" => opened /\ suffix \in Suffixes
    /\ pc \notin {"idle", "ensure"} => suffix \in loaded
    /\ pc \notin Working => rest = {}
    /\ pc # "append" => place = NoPlace /\ job.appends = {}
    /\ pc # "clear" => job.doomed = {}
    /\ pc = "append" => rest # {}
    /\ ~opened => tree = NoTree /\ loaded = {}
    /\ \A s \in Suffixes \ loaded : mark[s] = NoMarks

\* Each suffix keeps to its own cases.
OwnParts ==
    /\ \A c \in Cases, r \in Records : copies[c][r] > 0 => c \in OwnCases(SuffixOf[r])
    /\ \A s \in Suffixes, ch \in Channels :
          /\ diskCurrent[s][ch] \in OwnCases(s) \cup {NoCase}
          /\ current[s][ch] \in OwnCases(s) \cup {NoCase}
    /\ job.doomed \subseteq OwnCases(suffix)
    /\ \A x \in DOMAIN place : place[x] \in OwnCases(suffix)
    /\ \A t \in job.appends : t[1] \in OwnCases(suffix)

\* A record has one place among the writes, and a request sees a part of them.
Numbering ==
    /\ \A r \in Records : at[r] <= Written
    /\ \A r, x \in Records : at[r] # 0 /\ at[r] = at[x] => r = x
    /\ pc \in {"view2"} \cup Working => view["channel"] <= Written
    /\ pc \in Working => view["think"] = Written

\* A record that a channel claims.
IsClaimed(r) == at[r] # 0 /\ (KindOf(r) = "think" => at[Placeholder[r]] # 0)

Of(s, ch, k) ==
    {r \in Records : SuffixOf[r] = s /\ ChannelOf[r] = ch /\ KindOf(r) = k}

\* What a watermark may say: it stands at a claimed record, whose number may have
\* grown since, ...
Reached(w, s, ch, k) ==
    w = Zero \/ \E x \in Of(s, ch, k) : IsClaimed(x) /\ ~Beyond(w, Position(x, Written))

\* ... and no record in order is lost behind it.
Lost(r) == ~HasCopy(r) /\ ~OutOfOrder(r) /\ r \notin dropped
Passed(w, s, ch, k) ==
    \A r \in Of(s, ch, k) :
        IsClaimed(r) /\ Lost(r) => Beyond(Position(r, Written), w)

Sound(m) ==
    \A s \in Suffixes \ broken, ch \in Channels, k \in Kinds :
        /\ Reached(m[s][ch][k], s, ch, k)
        /\ Passed(m[s][ch][k], s, ch, k)

\* The same of what the request has seen.
SoundInView ==
    \A ch \in Channels, k \in Kinds :
        /\ pc \in Working \/ (pc = "view2" /\ k = "channel")
        /\ suffix \notin broken
        => \A r \in Of(suffix, ch, k) :
              Claimed(r, view) /\ Lost(r) => Beyond(Position(r, view[k]), mark[suffix][ch][k])

\* The rest of a batch is what its channel has behind the watermark.
RestIsPending ==
    rest # {} =>
        /\ channel \in Channels
        /\ Stored(rest) = PendingFor(suffix, channel, view, mark[suffix][channel])

\* A chunk on its way to the files.
Carried ==
    pc = "append" =>
        /\ DOMAIN place \subseteq Chunk /\ DOMAIN place # {}
        /\ Stored(Chunk) \ DOMAIN place \subseteq dropped
        /\ job.appends \subseteq UNION {Targets(place, k) : k \in Kinds}
        /\ \A r \in Stored(DOMAIN place) :
              <<place[r], KindOf(r)>> \in job.appends \/ copies[place[r]][r] > 0

\* The current cases and the trees, but for what an interrupted rebuild leaves.
Pointing ==
    /\ \A s \in Suffixes \ broken, ch \in Channels :
          /\ diskCurrent[s][ch] \in DOMAIN diskTree \cup {NoCase}
          /\ current[s][ch] \in DOMAIN tree \cup {NoCase}
          /\ opened => diskCurrent[s][ch] \in DOMAIN tree \cup {NoCase}
    /\ pc = "savecurrent" => diskTree = tree
    /\ pc = "clear" => job.doomed \subseteq CasesToClear
    /\ pc = "clear" /\ suffix \notin broken => job.doomed = CasesToClear
    /\ pc = "clearmark" => /\ current[suffix] = NoCurrent /\ diskCurrent[suffix] = NoCurrent
                           /\ mark[suffix] = NoMarks

ArchiveInv ==
    /\ TypeOK /\ Stages /\ OwnParts /\ Numbering
    /\ Sound(diskMark) /\ Sound(mark) /\ SoundInView
    /\ RestIsPending /\ Carried /\ Pointing

--------------------------------------------------------------------------------
(* Without failures.                                                            *)

\* The records of a chunk that the files of c hold already.
Added(c) == {r \in Stored(DOMAIN place) : place[r] = c /\ <<c, KindOf(r)>> \notin job.appends}

OnTime(r) == \A x \in Records : SameFile(r, x) => ~Late(x)

Counted ==
    \A c \in Cases :
        /\ IsFiniteSet(Held(c))
        /\ pc \notin {"append", "clear"} => Cardinality(Held(c)) = CountOf(c)
        /\ pc = "append" => Cardinality(Held(c)) = CountOf(c) + Cardinality(Added(c))
        /\ pc = "clear" => IF c \in CasesToClear \ job.doomed THEN Held(c) = {}
                           ELSE Cardinality(Held(c)) = CountOf(c)

\* A rebuild that clears is not interrupted.
Intact ==
    /\ broken \subseteq {suffix}
    /\ pc \notin {"clear", "clearmark"} => broken = {}

Behind(r, c) ==
    \/ ~Beyond(Position(r, Written), mark[SuffixOf[r]][ChannelOf[r]][KindOf(r)])
    \/ r \in Added(c)

Copied ==
    \A c \in Cases, r \in Records : copies[c][r] > 0 =>
        /\ at[r] # 0
        /\ SuffixOf[r] \in loaded
        /\ c \in DOMAIN tree \/ \E x \in DOMAIN place : place[x] = c
        /\ OnTime(r) => /\ copies[c][r] = 1
                        /\ \A d \in Cases : copies[d][r] > 0 => d = c
                        /\ Behind(r, c)

Exact == failures = 0 => Counted /\ Intact /\ Copied /\ (~opened => diskTree = NoTree)

--------------------------------------------------------------------------------
(* The order of the files.                                                      *)

LEMMA SomeRecords == ASSUME NEW S \in SUBSET Items PROVE IsFiniteSet(S) /\ Cardinality(S) \in Nat
<1>1. IsFiniteSet(Records)
  BY ArchiveAssumption
<1>2. IsFiniteSet(Items)
  BY <1>1, FS_AddElement DEF Items
<1>3. IsFiniteSet(S)
  BY <1>2, FS_Subset
<1>4. QED
  BY <1>3, FS_CardinalityType

LEMMA KindOfRecords == \A r \in Records : KindOf(r) \in Kinds
  BY DEF KindOf, Kinds

\* A placeholder is a channel record.
LEMMA Placeholders ==
    ASSUME NEW r \in Records, KindOf(r) = "think"
    PROVE  Placeholder[r] \in Records /\ KindOf(Placeholder[r]) = "channel"
<1>1. Placeholder[r] # NoRecord
  BY DEF KindOf
<1>2. Placeholder[r] \in Records
  BY <1>1, ArchiveAssumption
<1>3. QED
  BY <1>2, ArchiveAssumption DEF KindOf

LEMMA BeyondOrder ==
    /\ \A p, q \in Points : p = q \/ Beyond(p, q) \/ Beyond(q, p)
    /\ \A p, q \in Points : ~(Beyond(p, q) /\ Beyond(q, p))
    /\ \A p, q, o \in Points : Beyond(p, q) /\ Beyond(q, o) => Beyond(p, o)
    /\ \A p, q, o \in Points : ~Beyond(p, q) /\ ~Beyond(q, o) => ~Beyond(p, o)
    /\ \A p, q, o \in Points : Beyond(p, q) /\ ~Beyond(o, q) => Beyond(p, o)
    /\ \A p, q, o \in Points : ~Beyond(p, q) /\ Beyond(o, q) => Beyond(o, p)
<1>1. \A p \in Points : p[1] \in Nat /\ p[2] \in Nat
  BY DEF Points
<1>2. \A p, q \in Points : p[1] = q[1] /\ p[2] = q[2] => p = q
  BY DEF Points
<1>3. QED
  BY <1>1, <1>2 DEF Beyond

LEMMA ZeroPoint == Zero \in Points
  BY DEF Zero, Points

\* The records that a file shows up to r.
UpTo(r, n) == {x \in Records : SameFile(r, x) /\ at[x] \in 1..n /\ (x = r \/ Before(x, r))}

LEMMA SnIsACount == \A r, n : SnAt(r, n) = Cardinality(UpTo(r, n)) /\ UpTo(r, n) \in SUBSET Items
  BY DEF SnAt, UpTo, Items

LEMMA PositionType ==
    ASSUME NEW r \in Records, NEW n
    PROVE  Position(r, n) \in Points /\ SnAt(r, n) \in Nat
<1>1. SnAt(r, n) \in Nat
  BY SomeRecords, SnIsACount
<1>2. TimeOf[r] \in Nat
  BY ArchiveAssumption
<1>3. QED
  BY <1>1, <1>2 DEF Position, Points

LEMMA BeforeOrder ==
    ASSUME at \in [Records -> Nat]
    PROVE  /\ \A r \in Records : ~Before(r, r)
           /\ \A r, x, z \in Records : Before(r, x) /\ Before(x, z) => Before(r, z)
           /\ \A r, x \in Records : at[r] # at[x] => Before(r, x) \/ Before(x, r)
  BY ArchiveAssumption DEF Before

\* A record keeps its place or moves back as the store goes on.
LEMMA PositionGrows ==
    ASSUME at \in [Records -> Nat], NEW r \in Records, NEW n \in Nat, NEW m \in Nat, n <= m
    PROVE  ~Beyond(Position(r, n), Position(r, m))
<1>1. UpTo(r, n) \in SUBSET UpTo(r, m)
  BY DEF UpTo
<1>2. IsFiniteSet(UpTo(r, m)) /\ Cardinality(UpTo(r, m)) \in Nat /\ Cardinality(UpTo(r, n)) \in Nat
  BY SomeRecords, SnIsACount
<1>3. SnAt(r, n) <= SnAt(r, m)
  BY <1>1, <1>2, FS_Subset, SnIsACount
<1>4. SnAt(r, n) \in Nat /\ SnAt(r, m) \in Nat /\ TimeOf[r] \in Nat
  BY PositionType, ArchiveAssumption
<1>5. QED
  BY <1>3, <1>4 DEF Beyond, Position

\* The positions in a file tell its order.
LEMMA PositionsInOrder ==
    ASSUME at \in [Records -> Nat], NEW n \in Nat,
           NEW r \in Records, NEW x \in Records, SameFile(r, x),
           at[r] \in 1..n, at[x] \in 1..n
    PROVE  Before(x, r) => Beyond(Position(r, n), Position(x, n))
<1> SUFFICES ASSUME Before(x, r) PROVE Beyond(Position(r, n), Position(x, n))
  OBVIOUS
<1>1. TimeOf[x] \in Nat /\ TimeOf[r] \in Nat /\ TimeOf[x] <= TimeOf[r]
  BY ArchiveAssumption DEF Before
<1>2. UpTo(x, n) \in SUBSET UpTo(r, n)
  BY BeforeOrder DEF UpTo, SameFile
<1>3. r \in UpTo(r, n) /\ r \notin UpTo(x, n)
  BY BeforeOrder DEF UpTo, SameFile
<1>4. IsFiniteSet(UpTo(r, n)) /\ Cardinality(UpTo(r, n)) \in Nat /\ Cardinality(UpTo(x, n)) \in Nat
  BY SomeRecords, SnIsACount
<1>5. Cardinality(UpTo(x, n)) < Cardinality(UpTo(r, n))
  BY <1>2, <1>3, <1>4, FS_Subset
<1>6. QED
  BY <1>1, <1>5, SnIsACount DEF Beyond, Position

LEMMA PositionsDiffer ==
    ASSUME at \in [Records -> Nat], Numbering, NEW n \in Nat,
           NEW r \in Records, NEW x \in Records, SameFile(r, x), r # x,
           at[r] \in 1..n, at[x] \in 1..n
    PROVE  Beyond(Position(r, n), Position(x, n)) <=> Before(x, r)
<1>1. at[r] # at[x]
  BY DEF Numbering
<1>2. Before(r, x) \/ Before(x, r)
  BY <1>1, BeforeOrder
<1>3. SameFile(x, r)
  BY DEF SameFile
<1>4. Before(x, r) => Beyond(Position(r, n), Position(x, n))
  BY PositionsInOrder
<1>5. Before(r, x) => Beyond(Position(x, n), Position(r, n))
  BY <1>3, PositionsInOrder
<1>6. Position(r, n) \in Points /\ Position(x, n) \in Points
  BY PositionType
<1>7. ~(Beyond(Position(r, n), Position(x, n)) /\ Beyond(Position(x, n), Position(r, n)))
  BY <1>6, BeyondOrder
<1>8. QED
  BY <1>2, <1>4, <1>5, <1>7

--------------------------------------------------------------------------------
(* Finite orders.  The order is a set of pairs.                                 *)

StrictOrder(S, R) ==
    /\ \A a \in S : <<a, a>> \notin R
    /\ \A a, b \in S : a = b \/ <<a, b>> \in R \/ <<b, a>> \in R
    /\ \A a, b, c \in S : <<a, b>> \in R /\ <<b, c>> \in R => <<a, c>> \in R

\* The elements of a finite set are numbered in their order.
LEMMA Ranked ==
    ASSUME NEW S, IsFiniteSet(S), NEW R, StrictOrder(S, R)
    PROVE  \E rank \in [S -> 1..Cardinality(S)] :
              /\ \A a, b \in S : rank[a] = rank[b] => a = b
              /\ \A a, b \in S : rank[a] < rank[b] => <<a, b>> \in R
              /\ \A i \in 1..Cardinality(S) : \E a \in S : rank[a] = i
<1> DEFINE N == Cardinality(S)
           From(a) == {b \in S : b = a \/ <<b, a>> \in R}
           rank == [a \in S |-> Cardinality(From(a))]
<1>1. N \in Nat
  BY FS_CardinalityType
<1>2. ASSUME NEW a \in S
      PROVE  IsFiniteSet(From(a)) /\ Cardinality(From(a)) \in 1..N
  <2>1. From(a) \in SUBSET S /\ {a} \in SUBSET From(a)
    OBVIOUS
  <2>2. IsFiniteSet(From(a)) /\ Cardinality(From(a)) <= N
    BY <2>1, FS_Subset
  <2>3. Cardinality({a}) = 1
    BY FS_Singleton
  <2> HIDE DEF From, N
  <2>4. 1 <= Cardinality(From(a)) /\ Cardinality(From(a)) \in Nat
    BY <2>1, <2>2, <2>3, FS_Subset, FS_CardinalityType
  <2>5. QED
    BY <1>1, <2>2, <2>4
<1>3. ASSUME NEW a \in S, NEW b \in S, <<a, b>> \in R
      PROVE  Cardinality(From(a)) < Cardinality(From(b))
  <2>1. From(a) \in SUBSET From(b) /\ b \in From(b) /\ b \notin From(a)
    BY <1>3 DEF StrictOrder
  <2> HIDE DEF From
  <2>2. Cardinality(From(a)) <= Cardinality(From(b)) /\ Cardinality(From(a)) # Cardinality(From(b))
    BY <1>2, <2>1, FS_Subset
  <2>3. Cardinality(From(a)) \in Int /\ Cardinality(From(b)) \in Int
    BY <1>2, <1>1
  <2>4. QED
    BY <2>2, <2>3
<1>4. \A a \in S : rank[a] = Cardinality(From(a))
  OBVIOUS
<1>5. rank \in [S -> 1..N]
  BY <1>2
<1> HIDE DEF rank, From
<1>6. \A a, b \in S : <<a, b>> \in R => rank[a] < rank[b]
  BY <1>3, <1>4
<1>7. \A a \in S : rank[a] \in Int
  BY <1>5, <1>1
<1> HIDE DEF N
<1>8. ASSUME NEW a \in S, NEW b \in S
      PROVE  /\ rank[a] = rank[b] => a = b
             /\ rank[a] < rank[b] => <<a, b>> \in R
  <2>1. rank[a] \in Int /\ rank[b] \in Int
    BY <1>7
  <2>2. a = b \/ <<a, b>> \in R \/ <<b, a>> \in R
    BY DEF StrictOrder
  <2>3. <<a, b>> \in R => rank[a] < rank[b]
    BY <1>6
  <2>4. <<b, a>> \in R => rank[b] < rank[a]
    BY <1>6
  <2>5. QED
    BY <2>1, <2>2, <2>3, <2>4
<1>9. \A a, b \in S : rank[a] = rank[b] => a = b
  BY <1>8
<1>10. \A a, b \in S : rank[a] < rank[b] => <<a, b>> \in R
  BY <1>8
<1>11. \A i \in 1..N : \E a \in S : rank[a] = i
  <2>1. rank \in Injection(S, 1..N)
    BY <1>5, <1>9 DEF Injection, IsInjective
  <2>2. IsFiniteSet(1..N) /\ Cardinality(1..N) = N
    BY <1>1, FS_Interval
  <2>3. Cardinality(1..N) = Cardinality(S)
    BY <2>2 DEF N
  <2>4. rank \in Surjection(S, 1..N)
    BY <2>1, <2>2, <2>3, FS_Injection
  <2>5. QED
    BY <2>4 DEF Surjection
<1>12. QED
  BY <1>5, <1>9, <1>10, <1>11 DEF N

\* A finite set has a beginning of any length.
LEMMA Beginning ==
    ASSUME NEW S, IsFiniteSet(S), NEW R, StrictOrder(S, R),
           NEW m \in Nat, m <= Cardinality(S)
    PROVE  \E C \in SUBSET S : Cardinality(C) = m /\ \A x \in C, y \in S \ C : <<x, y>> \in R
<1> DEFINE N == Cardinality(S)
<1>1. N \in Nat /\ m <= N
  BY FS_CardinalityType
<1>2. PICK rank \in [S -> 1..N] :
              /\ \A a, b \in S : rank[a] = rank[b] => a = b
              /\ \A a, b \in S : rank[a] < rank[b] => <<a, b>> \in R
              /\ \A i \in 1..N : \E a \in S : rank[a] = i
  BY Ranked
<1> HIDE DEF N
<1> DEFINE C == {a \in S : rank[a] <= m}
           f == [a \in C |-> rank[a]]
<1>3. \A a \in S : rank[a] \in Nat /\ 1 <= rank[a]
  BY <1>1, <1>2
<1>4. C \in SUBSET S /\ IsFiniteSet(C)
  BY FS_Subset
<1>5. f \in Bijection(C, 1..m)
  <2>1. f \in [C -> 1..m]
    BY <1>3
  <2>2. \A a, b \in C : f[a] = f[b] => a = b
    BY <1>2
  <2>3. \A i \in 1..m : \E a \in C : f[a] = i
    <3> SUFFICES ASSUME NEW i \in 1..m PROVE \E a \in C : f[a] = i
      OBVIOUS
    <3>1. i \in 1..N
      BY <1>1
    <3>2. PICK a \in S : rank[a] = i
      BY <1>2, <3>1
    <3>3. a \in C
      BY <3>2
    <3>4. QED
      BY <3>2, <3>3
  <2> HIDE DEF f, C
  <2>4. QED
    BY <2>1, <2>2, <2>3 DEF Bijection, Injection, Surjection, IsInjective
<1>6. Cardinality(1..m) = Cardinality(C)
  <2> HIDE DEF f, C
  <2>1. QED
    BY <1>4, <1>5, FS_Bijection DEF ExistsBijection
<1>7. Cardinality(1..m) = m
  BY FS_Interval
<1>8. ASSUME NEW x \in C, NEW y \in S \ C PROVE <<x, y>> \in R
  <2>1. x \in S /\ rank[x] <= m /\ rank[x] \in Nat
    BY <1>3
  <2>2. y \in S /\ ~(rank[y] <= m) /\ rank[y] \in Nat
    BY <1>3
  <2>3. rank[x] < rank[y]
    BY <2>1, <2>2
  <2>4. QED
    BY <1>2, <2>1, <2>2, <2>3
<1>9. C \in SUBSET S /\ Cardinality(C) = m /\ \A x \in C, y \in S \ C : <<x, y>> \in R
  BY <1>4, <1>6, <1>7, <1>8
<1> HIDE DEF C
<1>10. QED
  BY <1>9

\* ... and a last element.
LEMMA LastInOrder ==
    ASSUME NEW S, IsFiniteSet(S), S # {}, NEW R, StrictOrder(S, R)
    PROVE  \E x \in S : \A y \in S \ {x} : <<y, x>> \in R
<1> DEFINE N == Cardinality(S)
<1>1. N \in Nat /\ N # 0
  BY FS_CardinalityType, FS_EmptySet
<1>2. PICK rank \in [S -> 1..N] :
              /\ \A a, b \in S : rank[a] = rank[b] => a = b
              /\ \A a, b \in S : rank[a] < rank[b] => <<a, b>> \in R
              /\ \A i \in 1..N : \E a \in S : rank[a] = i
  BY Ranked
<1> HIDE DEF N
<1>3. PICK x \in S : rank[x] = N
  BY <1>1, <1>2
<1>4. ASSUME NEW y \in S \ {x} PROVE <<y, x>> \in R
  <2>1. rank[y] \in 1..N /\ rank[y] # N
    BY <1>2, <1>3
  <2>2. rank[y] < rank[x]
    BY <1>1, <1>3, <2>1
  <2>3. QED
    BY <1>2, <2>2
<1>5. QED
  BY <1>4

--------------------------------------------------------------------------------
(* The order of a batch.                                                        *)

\* What the store shows of one suffix and channel, and maybe a new message.
OneBatch(S) ==
    /\ S \in SUBSET Items
    /\ \A x \in Stored(S) : at[x] \in 1..view[KindOf(x)]
    /\ \A x, y \in Stored(S) : SuffixOf[x] = SuffixOf[y]

Seat(x) == Position(x, view[KindOf(x)])

LEMMA MsgIsNew == Msg \notin Records /\ MsgTime \in Nat
  BY ArchiveAssumption

LEMMA StoredPrecede ==
    ASSUME NEW x, NEW y, x # Msg, y # Msg
    PROVE  Precedes(x, y) <=> \/ Beyond(Seat(y), Seat(x))
                              \/ Seat(x) = Seat(y) /\ KindOf(x) = "channel" /\ KindOf(y) = "think"
  BY DEF Precedes, Seat

LEMMA NewPrecedes ==
    /\ ~Precedes(Msg, Msg)
    /\ \A y : y # Msg => (Precedes(Msg, y) <=> MsgTime < TimeOf[y])
    /\ \A x : x # Msg => (Precedes(x, Msg) <=> TimeOf[x] <= MsgTime)
  BY DEF Precedes

LEMMA Seats ==
    ASSUME NEW r \in Records
    PROVE  /\ Seat(r) \in Points /\ Seat(r)[1] = TimeOf[r] /\ TimeOf[r] \in Nat
           /\ KindOf(r) \in Kinds /\ r # Msg
  BY PositionType, ArchiveAssumption, KindOfRecords DEF Seat, Position

LEMMA SeatsDiffer ==
    ASSUME at \in [Records -> Nat], Numbering, view \in [Kinds -> Nat],
           NEW S, OneBatch(S), NEW x \in Stored(S), NEW y \in Stored(S), x # y
    PROVE  Precedes(x, y) \/ Precedes(y, x)
<1>1. x \in Records /\ y \in Records /\ x # Msg /\ y # Msg
  BY MsgIsNew DEF OneBatch, Stored, Items
<1>2. Seat(x) \in Points /\ Seat(y) \in Points /\ KindOf(x) \in Kinds /\ KindOf(y) \in Kinds
  BY <1>1, Seats
<1>3. CASE Seat(x) # Seat(y)
  BY <1>1, <1>2, <1>3, BeyondOrder, StoredPrecede
<1>4. CASE KindOf(x) # KindOf(y)
  BY <1>1, <1>2, <1>3, <1>4, StoredPrecede DEF Kinds
<1>5. CASE KindOf(x) = KindOf(y)
  <2>1. SameFile(x, y) /\ SameFile(y, x)
    BY <1>5 DEF OneBatch, SameFile
  <2>2. at[x] \in 1..view[KindOf(x)] /\ at[y] \in 1..view[KindOf(x)] /\ view[KindOf(x)] \in Nat
    BY <1>2, <1>5 DEF OneBatch
  <2>3. at[x] # at[y]
    BY <1>1, <2>2 DEF Numbering
  <2>4. Before(x, y) \/ Before(y, x)
    BY <1>1, <2>3, BeforeOrder
  <2>5. Beyond(Seat(y), Seat(x)) \/ Beyond(Seat(x), Seat(y))
    BY <1>1, <1>5, <2>1, <2>2, <2>4, PositionsInOrder DEF Seat
  <2>6. QED
    BY <1>1, <2>5, StoredPrecede
<1>6. QED
  BY <1>4, <1>5

LEMMA PrecedesIsTransitive ==
    ASSUME NEW x \in Items, NEW y \in Items, NEW z \in Items, Precedes(x, y), Precedes(y, z)
    PROVE  Precedes(x, z)
<1>1. \A i \in Items : i = Msg \/ i \in Records
  BY DEF Items
<1>2. CASE x = Msg
  <2>1. y # Msg /\ MsgTime < TimeOf[y]
    BY <1>2, NewPrecedes
  <2>2. y \in Records /\ TimeOf[y] \in Nat /\ Seat(y)[1] = TimeOf[y]
    BY <1>1, <2>1, Seats
  <2>3. CASE z = Msg
    BY <2>1, <2>2, <2>3, NewPrecedes, MsgIsNew
  <2>4. CASE z # Msg
    <3>1. z \in Records /\ TimeOf[z] \in Nat /\ Seat(z)[1] = TimeOf[z]
      BY <1>1, <2>4, Seats
    <3>2. TimeOf[y] <= TimeOf[z]
      BY <2>1, <2>2, <2>4, <3>1, StoredPrecede DEF Beyond
    <3>3. MsgTime < TimeOf[z]
      BY <2>1, <2>2, <3>1, <3>2, MsgIsNew
    <3>4. QED
      BY <1>2, <2>4, <3>3, NewPrecedes
  <2>5. QED
    BY <2>3, <2>4
<1>3. CASE x # Msg /\ y = Msg
  <2>1. x \in Records /\ TimeOf[x] \in Nat /\ Seat(x)[1] = TimeOf[x] /\ TimeOf[x] <= MsgTime
    BY <1>1, <1>3, Seats, NewPrecedes
  <2>2. z # Msg /\ MsgTime < TimeOf[z]
    BY <1>3, NewPrecedes
  <2>3. z \in Records /\ TimeOf[z] \in Nat /\ Seat(z)[1] = TimeOf[z]
    BY <1>1, <2>2, Seats
  <2>4. TimeOf[z] > TimeOf[x]
    BY <2>1, <2>2, <2>3, MsgIsNew
  <2>5. Beyond(Seat(z), Seat(x))
    BY <2>1, <2>3, <2>4 DEF Beyond
  <2>6. QED
    BY <1>3, <2>2, <2>5, StoredPrecede
<1>4. CASE x # Msg /\ y # Msg /\ z = Msg
  <2>1. /\ x \in Records /\ TimeOf[x] \in Nat /\ Seat(x)[1] = TimeOf[x]
        /\ y \in Records /\ TimeOf[y] \in Nat /\ Seat(y)[1] = TimeOf[y]
    BY <1>1, <1>4, Seats
  <2>2. TimeOf[y] <= MsgTime /\ TimeOf[x] <= TimeOf[y]
    <3>1. TimeOf[y] <= MsgTime
      BY <1>4, NewPrecedes
    <3>2. TimeOf[x] <= TimeOf[y]
      BY <1>4, <2>1, StoredPrecede DEF Beyond
    <3>3. QED
      BY <3>1, <3>2
  <2>3. TimeOf[x] <= MsgTime
    BY <2>1, <2>2, MsgIsNew
  <2>4. QED
    BY <1>4, <2>3, NewPrecedes
<1>5. CASE x # Msg /\ y # Msg /\ z # Msg
  <2>1. Seat(x) \in Points /\ Seat(y) \in Points /\ Seat(z) \in Points
    BY <1>1, <1>5, Seats
  <2>2. Beyond(Seat(y), Seat(x)) /\ Beyond(Seat(z), Seat(y)) => Beyond(Seat(z), Seat(x))
    BY <2>1, BeyondOrder
  <2>3. \/ Beyond(Seat(y), Seat(x))
        \/ Seat(x) = Seat(y) /\ KindOf(x) = "channel" /\ KindOf(y) = "think"
    BY <1>5, StoredPrecede
  <2>4. \/ Beyond(Seat(z), Seat(y))
        \/ Seat(y) = Seat(z) /\ KindOf(y) = "channel" /\ KindOf(z) = "think"
    BY <1>5, StoredPrecede
  <2>5. \/ Beyond(Seat(z), Seat(x))
        \/ Seat(x) = Seat(z) /\ KindOf(x) = "channel" /\ KindOf(z) = "think"
    BY <2>2, <2>3, <2>4
  <2>6. QED
    BY <1>5, <2>5, StoredPrecede
<1>6. QED
  BY <1>2, <1>3, <1>4, <1>5

LEMMA BatchIsOrdered ==
    ASSUME at \in [Records -> Nat], Numbering, view \in [Kinds -> Nat],
           NEW S, OneBatch(S)
    PROVE  StrictOrder(S, {t \in S \X S : Precedes(t[1], t[2])})
<1> DEFINE R == {t \in S \X S : Precedes(t[1], t[2])}
<1>1. S \in SUBSET Items
  BY DEF OneBatch
<1>2. \A x, y \in S : <<x, y>> \in R <=> Precedes(x, y)
  OBVIOUS
<1>3. ASSUME NEW x \in S PROVE ~Precedes(x, x)
  <2>1. CASE x = Msg
    BY <2>1, NewPrecedes
  <2>2. CASE x # Msg
    <3>1. Seat(x) \in Points
      BY <1>1, <2>2, Seats DEF Items
    <3>2. QED
      BY <2>2, <3>1, BeyondOrder, StoredPrecede
  <2>3. QED
    BY <2>1, <2>2
<1>4. ASSUME NEW x \in S, NEW y \in S, x # y PROVE Precedes(x, y) \/ Precedes(y, x)
  <2>1. CASE x = Msg
    <3>1. y \in Records /\ y # Msg
      BY <1>1, <1>4, <2>1 DEF Items
    <3>2. TimeOf[y] \in Nat
      BY <3>1, Seats
    <3>3. QED
      BY <2>1, <3>1, <3>2, NewPrecedes, MsgIsNew
  <2>2. CASE y = Msg
    <3>1. x \in Records /\ x # Msg
      BY <1>1, <1>4, <2>2 DEF Items
    <3>2. TimeOf[x] \in Nat
      BY <3>1, Seats
    <3>3. QED
      BY <2>2, <3>1, <3>2, NewPrecedes, MsgIsNew
  <2>3. CASE x # Msg /\ y # Msg
    <3>1. x \in Stored(S) /\ y \in Stored(S)
      BY <2>3 DEF Stored
    <3>2. QED
      BY <1>4, <3>1, SeatsDiffer
  <2>4. QED
    BY <2>1, <2>2, <2>3
<1>5. \A x, y, z \in S : Precedes(x, y) /\ Precedes(y, z) => Precedes(x, z)
  BY <1>1, PrecedesIsTransitive
<1> HIDE DEF R
<1>6. QED
  BY <1>2, <1>3, <1>4, <1>5 DEF StrictOrder, R

--------------------------------------------------------------------------------
(* Chunks, their last items, and watermarks.                                    *)

\* The chunk is a beginning of the rest of the batch.
LEMMA ChunkBegins ==
    ASSUME at \in [Records -> Nat], Numbering, view \in [Kinds -> Nat], OneBatch(rest)
    PROVE  /\ Chunk \in SUBSET rest
           /\ \A x \in Chunk, y \in rest \ Chunk : Precedes(x, y)
           /\ rest # {} => Chunk # {}
<1> DEFINE R == {t \in rest \X rest : Precedes(t[1], t[2])}
           m == IF Cardinality(rest) < MaxBatch THEN Cardinality(rest) ELSE MaxBatch
<1>1. IsFiniteSet(rest) /\ Cardinality(rest) \in Nat
  BY SomeRecords DEF OneBatch
<1>2. MaxBatch \in Nat /\ MaxBatch # 0
  BY ArchiveAssumption
<1>3. m \in Nat /\ m <= Cardinality(rest) /\ (m = 0 => Cardinality(rest) = 0)
  BY <1>1, <1>2
<1>4. \A x, y \in rest : <<x, y>> \in R <=> Precedes(x, y)
  OBVIOUS
<1>5. StrictOrder(rest, R)
  BY BatchIsOrdered
<1>6. Chunk = CHOOSE C \in SUBSET rest : Cardinality(C) = m /\ \A x \in C, y \in rest \ C : Precedes(x, y)
  BY DEF Chunk
<1> HIDE DEF R, m
<1>7. PICK C \in SUBSET rest : Cardinality(C) = m /\ \A x \in C, y \in rest \ C : <<x, y>> \in R
  BY <1>1, <1>3, <1>5, Beginning
<1>8. \A x \in C, y \in rest \ C : Precedes(x, y)
  BY <1>4, <1>7
<1>9. Chunk \in SUBSET rest /\ Cardinality(Chunk) = m /\ \A x \in Chunk, y \in rest \ Chunk : Precedes(x, y)
  BY <1>6, <1>7, <1>8
<1>10. rest # {} => Chunk # {}
  BY <1>1, <1>3, <1>9, FS_EmptySet
<1>11. QED
  BY <1>9, <1>10

LEMMA LastIsThere ==
    ASSUME at \in [Records -> Nat], Numbering, view \in [Kinds -> Nat],
           NEW S, OneBatch(S), S # {}
    PROVE  LastOf(S) \in S
<1> DEFINE R == {t \in S \X S : Precedes(t[1], t[2])}
<1>1. IsFiniteSet(S)
  BY SomeRecords DEF OneBatch
<1>2. StrictOrder(S, R)
  BY BatchIsOrdered
<1>3. \A x, y \in S : <<x, y>> \in R <=> Precedes(x, y)
  OBVIOUS
<1> HIDE DEF R
<1>4. PICK x \in S : \A y \in S \ {x} : <<y, x>> \in R
  BY <1>1, <1>2, LastInOrder
<1>5. \A y \in S \ {x} : Precedes(y, x)
  BY <1>3, <1>4
<1>6. QED
  BY <1>5 DEF LastOf

LEMMA PartOfBatch ==
    ASSUME NEW S, OneBatch(S), NEW T \in SUBSET S
    PROVE  OneBatch(T)
  BY DEF OneBatch, Stored

\* The watermark passes the records of the chunk, and stands at the last of them.
LEMMA AdvancedFacts ==
    ASSUME NEW p \in Points, NEW k, NEW S \in SUBSET Records
    PROVE  /\ Advanced(p, k, S) \in Points
           /\ ~Beyond(p, Advanced(p, k, S))
           /\ \A x \in S : KindOf(x) = k => ~Beyond(Position(x, view[k]), Advanced(p, k, S))
           /\ \/ Advanced(p, k, S) = p
              \/ \E x \in S : KindOf(x) = k /\ Advanced(p, k, S) = Position(x, view[k])
<1> DEFINE T == {x \in S : KindOf(x) = k}
           Q == {Position(x, view[k]) : x \in T}
           Ps == Q \cup {p}
           R == {t \in Ps \X Ps : Beyond(t[2], t[1])}
           f == [x \in T |-> Position(x, view[k])]
<1>1. IsFiniteSet(T)
  BY SomeRecords DEF Items
<1>2. IsFiniteSet(Ps)
  <2>1. f \in Surjection(T, Q)
    BY DEF Surjection
  <2> HIDE DEF f, T, Q
  <2>2. IsFiniteSet(Q)
    BY <1>1, <2>1, FS_Surjection
  <2>3. QED
    BY <2>2, FS_AddElement
<1>3. Ps \subseteq Points
  BY PositionType
<1>4. \A a, b \in Ps : <<a, b>> \in R <=> Beyond(b, a)
  OBVIOUS
<1>5. Advanced(p, k, S) = CHOOSE q \in Ps : \A o \in Ps : ~Beyond(o, q)
  BY DEF Advanced
<1>6. p \in Ps /\ \A x \in S : KindOf(x) = k => Position(x, view[k]) \in Ps
  OBVIOUS
<1>7. \A q \in Ps : q = p \/ \E x \in S : KindOf(x) = k /\ q = Position(x, view[k])
  OBVIOUS
<1> HIDE DEF R, Ps
<1>8. StrictOrder(Ps, R)
  BY <1>3, <1>4, BeyondOrder DEF StrictOrder
<1>9. PICK q \in Ps : \A o \in Ps \ {q} : <<o, q>> \in R
  BY <1>2, <1>6, <1>8, LastInOrder
<1>10. \A o \in Ps : ~Beyond(o, q)
  BY <1>3, <1>4, <1>9, BeyondOrder
<1>11. Advanced(p, k, S) \in Ps /\ \A o \in Ps : ~Beyond(o, Advanced(p, k, S))
  BY <1>5, <1>10
<1>12. QED
  BY <1>3, <1>6, <1>7, <1>11

\* What is left of a batch can be ordered.
LEMMA RestIsABatch ==
    ASSUME TypeOK, Stages, Numbering, RestIsPending
    PROVE  /\ at \in [Records -> Nat] /\ view \in [Kinds -> Nat]
           /\ OneBatch(rest)
           /\ Stored(rest) \subseteq Records
<1>1. at \in [Records -> Nat] /\ job \in Jobs
  BY DEF TypeOK, OtherTypes
<1>2. view \in [Kinds -> Nat] /\ rest \in SUBSET Items
  BY <1>1 DEF Jobs, view, rest
<1>3. CASE rest = {}
  BY <1>1, <1>2, <1>3 DEF OneBatch, Stored
<1>4. CASE rest # {}
  <2>1. Stored(rest) = PendingFor(suffix, channel, view, mark[suffix][channel])
    BY <1>4 DEF RestIsPending
  <2>2. ASSUME NEW x \in Stored(rest)
        PROVE  x \in Records /\ SuffixOf[x] = suffix /\ at[x] \in 1..view[KindOf(x)]
    <3>1. x \in Records /\ SuffixOf[x] = suffix /\ Seen(x, view)
      BY <2>1 DEF PendingFor, Claimed
    <3>2. at[x] \in Nat /\ view[KindOf(x)] \in Nat
      BY <1>1, <1>2, <3>1, KindOfRecords
    <3>3. QED
      BY <3>1, <3>2 DEF Seen
  <2>3. QED
    BY <1>1, <1>2, <2>2 DEF OneBatch
<1>5. QED
  BY <1>3, <1>4

--------------------------------------------------------------------------------
(* What a step that writes nothing to the store leaves alone.                   *)

LEMMA SameStore ==
    ASSUME UNCHANGED at
    PROVE  /\ Written' = Written
           /\ \A r, n : Position(r, n)' = Position(r, n)
           /\ \A r : OutOfOrder(r)' <=> OutOfOrder(r)
           /\ \A r : Late(r)' <=> Late(r)
           /\ \A r : OnTime(r)' <=> OnTime(r)
           /\ \A r : IsClaimed(r)' <=> IsClaimed(r)
           /\ \A r, v : Claimed(r, v)' <=> Claimed(r, v)
           /\ \A s, ch, v, w : PendingFor(s, ch, v, w)' = PendingFor(s, ch, v, w)
<1>1. Written' = Written
  BY DEF Written
<1>2. \A r, n : SnAt(r, n)' = SnAt(r, n)
  BY DEF SnAt, Before
<1>3. \A r, n : Position(r, n)' = Position(r, n)
  BY <1>2 DEF Position
<1>4. \A r : OutOfOrder(r)' <=> OutOfOrder(r)
  BY DEF OutOfOrder, Before
<1>5. \A r : Late(r)' <=> Late(r)
  BY DEF Late, Before
<1>6. \A r : IsClaimed(r)' <=> IsClaimed(r)
  BY DEF IsClaimed
<1>7. \A r, v : Claimed(r, v)' <=> Claimed(r, v)
  BY DEF Claimed, Seen
<1>8. \A s, ch, v, w : PendingFor(s, ch, v, w)' = PendingFor(s, ch, v, w)
  BY <1>3, <1>7 DEF PendingFor
<1>9. \A r : OnTime(r)' <=> OnTime(r)
  BY <1>5 DEF OnTime
<1>10. QED
  BY <1>1, <1>3, <1>4, <1>5, <1>6, <1>7, <1>8, <1>9

--------------------------------------------------------------------------------
(* The types.                                                                   *)

LEMMA TreesAndPlaces ==
    /\ \A D \in SUBSET Cases : [D -> Nat] \subseteq Trees
    /\ \A f \in Trees : DOMAIN f \in SUBSET Cases /\ f \in [DOMAIN f -> Nat]
    /\ \A D \in SUBSET Items : [D -> Cases] \subseteq Places
    /\ \A f \in Places : DOMAIN f \in SUBSET Items /\ f \in [DOMAIN f -> Cases]
  BY DEF Trees, Places

LEMMA EmptyOnes ==
    /\ NoTree \in Trees /\ DOMAIN NoTree = {}
    /\ NoPlace \in Places /\ DOMAIN NoPlace = {}
    /\ NoMarks \in Marks /\ NoCurrent \in Pointers
    /\ NoJob \in Jobs
    /\ \A ch \in Channels, k \in Kinds : NoMarks[ch][k] = Zero
    /\ \A ch \in Channels : NoCurrent[ch] = NoCase
<1>1. NoTree \in [{} -> Nat] /\ DOMAIN NoTree = {}
  BY DEF NoTree
<1>2. NoPlace \in [{} -> Cases] /\ DOMAIN NoPlace = {}
  BY DEF NoPlace
<1>3. NoTree \in Trees /\ NoPlace \in Places
  BY <1>1, <1>2, TreesAndPlaces
<1>4. NoMarks \in Marks /\ \A ch \in Channels, k \in Kinds : NoMarks[ch][k] = Zero
  BY ZeroPoint DEF NoMarks, Marks
<1>5. NoCurrent \in Pointers /\ \A ch \in Channels : NoCurrent[ch] = NoCase
  BY DEF NoCurrent, Pointers
<1>6. NoJob \in Jobs
  <2>1. [k \in Kinds |-> 0] \in [Kinds -> Nat]
    OBVIOUS
  <2>2. QED
    BY <1>3, <2>1 DEF NoJob, Jobs
<1>7. QED
  BY <1>1, <1>2, <1>3, <1>4, <1>5, <1>6

\* A role has one suffix without an event, so the cases of suffixes are apart.
LEMMA CasesApart ==
    /\ \A s, t \in Suffixes : s # t => OwnCases(s) \cap OwnCases(t) = {}
    /\ \A s \in Suffixes : OwnCases(s) \subseteq Cases
    /\ NoCase \notin Cases
  BY ArchiveAssumption DEF OwnCases, Cases

LEMMA JobTypes ==
    ASSUME TypeOK
    PROVE  /\ job \in Jobs /\ pc \in Steps /\ requests \in Nat /\ failures \in Nat
           /\ suffix \in Suffixes \cup {NoSuffix} /\ job.message \in Channels \cup {NoChannel}
           /\ view \in [Kinds -> Nat] /\ view["channel"] \in Nat /\ view["think"] \in Nat
           /\ job.todo \in SUBSET Channels
           /\ channel \in Channels \cup {NoChannel} /\ rest \in SUBSET Items
           /\ place \in Places /\ job.appends \in SUBSET (Cases \X Kinds)
           /\ job.doomed \in SUBSET Cases
<1>1. job \in Jobs /\ pc \in Steps /\ requests \in Nat /\ failures \in Nat
  BY DEF TypeOK, OtherTypes
<1>2. view \in [Kinds -> Nat]
  BY <1>1 DEF Jobs, view
<1>3. QED
  BY <1>1, <1>2 DEF Jobs, suffix, rest, place, channel, Kinds

LEMMA WrittenType ==
    ASSUME at \in [Records -> Nat] PROVE Written \in Nat
<1>1. {r \in Records : at[r] # 0} \in SUBSET Items
  BY DEF Items
<1>2. QED
  BY <1>1, SomeRecords DEF Written

LEMMA SuffixOfRecords == \A r \in Records : SuffixOf[r] \in Suffixes /\ ChannelOf[r] \in Channels
  BY ArchiveAssumption

LEMMA FailTypes == ASSUME TypeOK, Fail
    PROVE /\ pc' \in Steps /\ job' \in Jobs /\ requests' \in Nat /\ failures' \in Nat
          /\ pc' = "idle" /\ job' = NoJob /\ failures' # 0
<1>1. pc' = "idle" /\ job' = NoJob /\ requests' = requests /\ failures' = failures + 1
  BY DEF Fail, Idle
<1>2. QED
  BY <1>1, EmptyOnes, JobTypes DEF Steps

LEMMA WriteTypes == ASSUME TypeOK, NEW r \in Records, Write(r) PROVE TypeOK'
<1>1. at' \in [Records -> Nat]
  <2>1. at \in [Records -> Nat]
    BY DEF TypeOK, OtherTypes
  <2>2. QED
    BY <2>1, WrittenType DEF Write
<1>2. DiskTypes' /\ MemoryTypes'
  <2>1. DiskTypes /\ MemoryTypes
    BY DEF TypeOK
  <2>2. UNCHANGED disk /\ UNCHANGED memory
    BY DEF Write
  <2>3. QED
    BY <2>1, <2>2 DEF DiskTypes, MemoryTypes, disk, memory
<1>3. QED
  BY <1>1, <1>2 DEF Write, TypeOK, OtherTypes, bounds, history

\* Memory and disk keep their types when they are left alone.
LEMMA SameDiskTypes == ASSUME TypeOK, UNCHANGED disk PROVE DiskTypes'
  BY DEF TypeOK, DiskTypes, disk

LEMMA SameMemoryTypes == ASSUME TypeOK, UNCHANGED memory PROVE MemoryTypes'
<1>1. opened' \in BOOLEAN
  BY DEF TypeOK, MemoryTypes, memory
<1>2. QED
  BY <1>1 DEF TypeOK, MemoryTypes, memory

LEMMA BeginTypes ==
    ASSUME TypeOK, NEW o \in {"trigger", "rebuild", "locate"}, NEW s \in Suffixes,
           NEW m \in Channels \cup {NoChannel}, Begin(o, s, m)
    PROVE  TypeOK'
<1>1. job' \in Jobs
  <2>1. job' = [job EXCEPT !.op = o, !.suffix = s, !.message = m]
    BY DEF Begin
  <2>2. QED
    BY <2>1, JobTypes DEF Jobs
<1>2. DiskTypes'
  BY SameDiskTypes DEF Begin
<1>3. tree' \in Trees
  BY DEF Begin, TypeOK, MemoryTypes, DiskTypes
<1>4. MemoryTypes'
  <2>1. opened' \in BOOLEAN
    BY DEF Begin
  <2>2. QED
    BY <1>3, <2>1 DEF Begin, TypeOK, MemoryTypes
<1>5. pc' \in Steps /\ requests' \in Nat
  BY JobTypes DEF Begin, Steps
<1>6. QED
  BY <1>1, <1>2, <1>4, <1>5 DEF TypeOK, OtherTypes, Begin, history

LEMMA AfterEnsureTypes == ASSUME TypeOK, AfterEnsure PROVE job' \in Jobs /\ pc' \in Steps
<1>1. CasesToClear \in SUBSET Cases
  <2>1. DOMAIN tree \in SUBSET Cases
    BY TreesAndPlaces DEF TypeOK, MemoryTypes
  <2>2. QED
    BY <2>1 DEF CasesToClear
<1>2. [job EXCEPT !.doomed = CasesToClear] \in Jobs
  BY <1>1, JobTypes DEF Jobs
<1>3. QED
  BY <1>2, JobTypes DEF AfterEnsure, Steps

LEMMA EnsureKnownTypes == ASSUME TypeOK, EnsureKnown PROVE TypeOK'
<1>1. job' \in Jobs /\ pc' \in Steps
  BY AfterEnsureTypes DEF EnsureKnown
<1>2. DiskTypes' /\ MemoryTypes'
  BY SameDiskTypes, SameMemoryTypes DEF EnsureKnown
<1>3. QED
  BY <1>1, <1>2 DEF TypeOK, OtherTypes, EnsureKnown, bounds, history

\* The suffix of a request.
LEMMA SuffixType == ASSUME TypeOK, Stages, pc # "idle" PROVE suffix \in Suffixes /\ opened
  BY DEF Stages

LEMMA EnsureReadTypes == ASSUME TypeOK, Stages, EnsureRead PROVE TypeOK'
<1>1. job' \in Jobs /\ pc' \in Steps
  BY AfterEnsureTypes DEF EnsureRead
<1>2. suffix \in Suffixes
  BY SuffixType DEF EnsureRead
<1>3. DiskTypes'
  BY SameDiskTypes DEF EnsureRead
<1>4. current' \in [Suffixes -> Pointers] /\ mark' \in [Suffixes -> Marks]
  BY <1>2 DEF EnsureRead, TypeOK, DiskTypes, MemoryTypes
<1>5. MemoryTypes'
  <2>1. opened' \in BOOLEAN
    BY DEF EnsureRead, TypeOK, MemoryTypes
  <2>2. QED
    BY <1>2, <1>4, <2>1 DEF EnsureRead, TypeOK, MemoryTypes
<1>6. QED
  BY <1>1, <1>3, <1>5 DEF TypeOK, OtherTypes, EnsureRead, bounds, history

LEMMA EnsureFailsTypes == ASSUME TypeOK, Stages, EnsureFails PROVE TypeOK'
<1>1. pc' \in Steps /\ job' \in Jobs /\ requests' \in Nat /\ failures' \in Nat
  BY FailTypes DEF EnsureFails
<1>2. suffix \in Suffixes
  BY SuffixType DEF EnsureFails
<1>3. DiskTypes'
  BY SameDiskTypes DEF EnsureFails
<1>4. current' \in [Suffixes -> Pointers]
  BY <1>2 DEF EnsureFails, TypeOK, DiskTypes, MemoryTypes
<1>5. MemoryTypes'
  <2>1. opened' \in BOOLEAN
    BY DEF EnsureFails, TypeOK, MemoryTypes
  <2>2. QED
    BY <1>2, <1>4, <2>1 DEF EnsureFails, TypeOK, MemoryTypes
<1>6. QED
  BY <1>1, <1>3, <1>5 DEF TypeOK, OtherTypes, EnsureFails, history

LEMMA ClearCopiesTypes == ASSUME TypeOK, Stages, NEW c \in Cases, ClearCopies(c) PROVE TypeOK'
<1>1. suffix \in Suffixes
  BY SuffixType DEF ClearCopies
<1>2. pc' \in Steps /\ job' \in Jobs /\ requests' \in Nat /\ failures' \in Nat
  <2>1. CASE Fail
    BY <2>1, FailTypes
  <2>2. CASE job' = [job EXCEPT !.doomed = @ \ {c}] /\ UNCHANGED <<pc, bounds>>
    <3>1. [job EXCEPT !.doomed = @ \ {c}] \in Jobs
      BY JobTypes DEF Jobs
    <3>2. QED
      BY <2>2, <3>1, JobTypes DEF bounds
  <2>3. QED
    BY <2>1, <2>2 DEF ClearCopies
<1>3. copies' \in [Cases -> [Records -> Nat]]
  <2>1. copies \in [Cases -> [Records -> Nat]]
    BY DEF TypeOK, DiskTypes
  <2>2. PICK K \in SUBSET Kinds : copies' = [copies EXCEPT ![c] =
              [r \in Records |-> IF KindOf(r) \in K THEN 0 ELSE @[r]]]
    BY DEF ClearCopies
  <2>3. [r \in Records |-> IF KindOf(r) \in K THEN 0 ELSE copies[c][r]] \in [Records -> Nat]
    BY <2>1
  <2>4. QED
    BY <2>1, <2>2, <2>3
<1>4. DiskTypes'
  BY <1>3 DEF ClearCopies, TypeOK, DiskTypes
<1>5. MemoryTypes'
  BY SameMemoryTypes DEF ClearCopies
<1>6. QED
  BY <1>1, <1>2, <1>4, <1>5 DEF TypeOK, OtherTypes, ClearCopies

LEMMA ResetCurrentTypes == ASSUME TypeOK, Stages, ResetCurrent PROVE TypeOK'
<1>1. suffix \in Suffixes
  BY SuffixType DEF ResetCurrent
<1>2. pc' \in Steps /\ job' \in Jobs /\ requests' \in Nat /\ failures' \in Nat
  <2>1. CASE Fail
    BY <2>1, FailTypes
  <2>2. CASE pc' = "clearmark" /\ UNCHANGED <<job, bounds>>
    BY <2>2, JobTypes DEF bounds, Steps
  <2>3. QED
    BY <2>1, <2>2 DEF ResetCurrent
<1>3. tree' \in Trees
  <2>1. tree \in Trees
    BY DEF TypeOK, MemoryTypes
  <2>2. DOMAIN tree \ CasesToClear \in SUBSET Cases /\ \A c \in DOMAIN tree : tree[c] \in Nat
    BY <2>1, TreesAndPlaces
  <2>3. tree' \in [DOMAIN tree \ CasesToClear -> Nat]
    BY <2>2 DEF ResetCurrent
  <2>4. QED
    BY <2>2, <2>3, TreesAndPlaces
<1>4. current' \in [Suffixes -> Pointers] /\ mark' \in [Suffixes -> Marks]
  BY <1>1, EmptyOnes DEF ResetCurrent, TypeOK, MemoryTypes
<1>5. MemoryTypes'
  <2>1. opened' \in BOOLEAN
    BY DEF ResetCurrent, TypeOK, MemoryTypes
  <2>2. QED
    BY <1>3, <1>4, <2>1 DEF ResetCurrent, TypeOK, MemoryTypes
<1>6. diskCurrent' \in [Suffixes -> Pointers]
  BY <1>1, EmptyOnes DEF ResetCurrent, TypeOK, DiskTypes
<1>7. DiskTypes'
  BY <1>6 DEF ResetCurrent, TypeOK, DiskTypes
<1>8. QED
  BY <1>2, <1>5, <1>7 DEF TypeOK, OtherTypes, ResetCurrent, history

LEMMA ResetMarkTypes == ASSUME TypeOK, Stages, ResetMark PROVE TypeOK'
<1>1. suffix \in Suffixes
  BY SuffixType DEF ResetMark
<1>2. pc' \in Steps /\ job' \in Jobs /\ requests' \in Nat /\ failures' \in Nat
  <2>1. CASE Fail
    BY <2>1, FailTypes
  <2>2. CASE pc' = "view" /\ UNCHANGED <<job, bounds>>
    BY <2>2, JobTypes DEF bounds, Steps
  <2>3. QED
    BY <2>1, <2>2 DEF ResetMark
<1>3. diskMark' \in [Suffixes -> Marks] /\ broken' \in SUBSET Suffixes
  BY <1>1, EmptyOnes DEF ResetMark, TypeOK, DiskTypes, OtherTypes
<1>4. DiskTypes'
  BY <1>3 DEF ResetMark, TypeOK, DiskTypes
<1>5. MemoryTypes'
  BY SameMemoryTypes DEF ResetMark
<1>6. QED
  BY <1>2, <1>3, <1>4, <1>5 DEF TypeOK, OtherTypes, ResetMark

LEMMA ReadChannelTypes == ASSUME TypeOK, ReadChannelFile PROVE TypeOK'
<1>1. Written \in Nat
  BY WrittenType DEF TypeOK, OtherTypes
<1>2. job' \in Jobs
  <2>1. job' = [job EXCEPT !.view = [view EXCEPT !["channel"] = Written]]
    BY JobTypes DEF ReadChannelFile, view, Jobs
  <2>2. [view EXCEPT !["channel"] = Written] \in [Kinds -> Nat]
    BY <1>1, JobTypes
  <2> HIDE DEF view
  <2>3. QED
    BY <2>1, <2>2, JobTypes DEF Jobs
<1>3. pc' \in Steps
  BY DEF ReadChannelFile, Steps, Working
<1>4. DiskTypes' /\ MemoryTypes'
  BY SameDiskTypes, SameMemoryTypes DEF ReadChannelFile
<1>5. QED
  BY <1>2, <1>3, <1>4 DEF TypeOK, OtherTypes, ReadChannelFile, bounds, history

LEMMA ReadThinkTypes == ASSUME TypeOK, ReadThinkFile PROVE TypeOK'
<1>1. Written \in Nat
  BY WrittenType DEF TypeOK, OtherTypes
<1>2. PICK v : /\ v = [view EXCEPT !["think"] = Written]
               /\ job' = [job EXCEPT !.view = v,
                            !.todo = KnownChannels(v) \cup ({job.message} \ {NoChannel})]
  BY DEF ReadThinkFile
<1>3. v \in [Kinds -> Nat]
  BY <1>1, <1>2, JobTypes
<1>4. KnownChannels(v) \in SUBSET Channels
  BY SuffixOfRecords DEF KnownChannels
<1>5. KnownChannels(v) \cup ({job.message} \ {NoChannel}) \in SUBSET Channels
  BY <1>4, JobTypes
<1>6. job' \in Jobs
  BY <1>2, <1>3, <1>5, JobTypes DEF Jobs
<1>7. pc' \in Steps
  BY DEF ReadThinkFile, Steps, Working
<1>8. DiskTypes' /\ MemoryTypes'
  BY SameDiskTypes, SameMemoryTypes DEF ReadThinkFile
<1>9. QED
  BY <1>6, <1>7, <1>8 DEF TypeOK, OtherTypes, ReadThinkFile, bounds, history

LEMMA BatchType ==
    ASSUME NEW ch, NEW B \in Batches(ch)
    PROVE  /\ B \in SUBSET Items
           /\ Stored(B) = PendingFor(suffix, ch, view, mark[suffix][ch])
<1> DEFINE P == PendingFor(suffix, ch, view, mark[suffix][ch])
<1>1. P \in SUBSET Records
  BY DEF PendingFor
<1>2. B = P \/ B = P \cup {Msg}
  BY DEF Batches
<1> HIDE DEF P
<1>3. B \in SUBSET Items /\ Stored(B) = P
  BY <1>1, <1>2, MsgIsNew DEF Items, Stored
<1>4. QED
  BY <1>3 DEF P

LEMMA NextChannelTypes == ASSUME TypeOK, NextChannel PROVE TypeOK'
<1>1. PICK ch \in job.todo : \E B \in Batches(ch) :
         job' = [job EXCEPT !.todo = @ \ {ch}, !.channel = ch, !.rest = B]
  BY DEF NextChannel
<1>2. PICK B \in Batches(ch) :
         job' = [job EXCEPT !.todo = @ \ {ch}, !.channel = ch, !.rest = B]
  BY <1>1
<1>3. B \in SUBSET Items /\ ch \in Channels
  BY BatchType, JobTypes
<1>4. job' \in Jobs
  BY <1>2, <1>3, JobTypes DEF Jobs
<1>5. DiskTypes' /\ MemoryTypes'
  BY SameDiskTypes, SameMemoryTypes DEF NextChannel
<1>6. QED
  BY <1>4, <1>5 DEF TypeOK, OtherTypes, NextChannel, bounds, history

\* The request ends and leaves the rest as it was.
LEMMA EndTypes ==
    ASSUME TypeOK, pc' = "idle", job' = NoJob, UNCHANGED <<at, disk, memory, history>>,
           requests' \in Nat, failures' \in Nat
    PROVE  TypeOK'
<1>1. DiskTypes' /\ MemoryTypes'
  BY SameDiskTypes, SameMemoryTypes
<1>2. pc' \in Steps /\ job' \in Jobs
  BY EmptyOnes DEF Steps
<1>3. QED
  BY <1>1, <1>2 DEF TypeOK, OtherTypes, history

\* Where the groups of a chunk may go.
LEMMA PlacesFacts ==
    ASSUME NEW s \in Suffixes, NEW C \in SUBSET Items, NEW f \in PlacesOf(s, C)
    PROVE  /\ DOMAIN f \in SUBSET C /\ f \in [DOMAIN f -> Cases]
           /\ \A x \in DOMAIN f : f[x] \in OwnCases(s)
           /\ C # {} => DOMAIN f # {}
<1>1. CASE s \in EventSuffixes
  <2>1. f = [x \in C |-> s] /\ s \in Cases
    BY <1>1 DEF PlacesOf, Cases
  <2>2. QED
    BY <1>1, <2>1 DEF OwnCases
<1>2. CASE s \notin EventSuffixes
  <2>1. f \in AcceptedPlaces(s, C) /\ \A x \in DOMAIN f : f[x] \in RoleCases
    BY <1>2 DEF PlacesOf
  <2>2. PICK K \in SUBSET C :
           f \in {g \in [K -> Cases] :
              \A x \in C \ K : \E y, z \in K :
                 /\ Precedes(y, x) /\ Precedes(x, z)
                 /\ \A w \in K : Precedes(w, x) => w = y \/ Precedes(w, y)
                 /\ \A w \in K : Precedes(x, w) => w = z \/ Precedes(z, w)
                 /\ g[y] = g[z]}
    BY <2>1 DEF AcceptedPlaces
  <2>3. f \in [K -> Cases] /\ \A x \in C \ K : \E y \in K : TRUE
    BY <2>2
  <2>4. QED
    BY <1>2, <2>1, <2>3 DEF OwnCases
<1>3. QED
  BY <1>1, <1>2

LEMMA TargetsFacts ==
    /\ \A f, k, t : t \in Targets(f, k) <=>
          \E x \in DOMAIN f : x # Msg /\ KindOf(x) = k /\ t = <<f[x], k>>
  BY DEF Targets

LEMMA AppendsType ==
    ASSUME NEW f \in Places
    PROVE  UNION {Targets(f, k) : k \in Kinds} \in SUBSET (Cases \X Kinds)
<1>1. \A x \in DOMAIN f : f[x] \in Cases
  BY TreesAndPlaces
<1>2. \A k \in Kinds : \A t \in Targets(f, k) : t \in Cases \X Kinds
  BY <1>1, TargetsFacts
<1>3. QED
  BY <1>2

\* The chunk is a part of what is left of the batch.
LEMMA ChunkType ==
    ASSUME TypeOK, Stages, Numbering, RestIsPending
    PROVE  /\ Chunk \in SUBSET rest /\ Chunk \in SUBSET Items /\ Stored(Chunk) \in SUBSET Records
           /\ rest # {} => Chunk # {}
           /\ OneBatch(Chunk)
<1>1. Chunk \in SUBSET rest /\ (rest # {} => Chunk # {})
  BY RestIsABatch, ChunkBegins
<1>2. rest \in SUBSET Items /\ OneBatch(rest)
  BY JobTypes, RestIsABatch
<1>3. OneBatch(Chunk)
  BY <1>1, <1>2, PartOfBatch
<1>4. QED
  BY <1>1, <1>2, <1>3 DEF Stored, Items

LEMMA DecideTypes ==
    ASSUME TypeOK, Stages, Numbering, RestIsPending, Decide PROVE TypeOK'
<1>1. PICK f \in PlacesOf(suffix, Chunk) :
         /\ job' = [job EXCEPT !.place = f,
                               !.appends = UNION {Targets(f, k) : k \in Kinds}]
         /\ dropped' = dropped \cup (Stored(Chunk) \ DOMAIN f)
  BY DEF Decide
<1>2. suffix \in Suffixes
  BY SuffixType DEF Decide
<1>3. Chunk \in SUBSET Items /\ Stored(Chunk) \in SUBSET Records
  BY ChunkType
<1>4. f \in Places
  <2>1. DOMAIN f \in SUBSET Items /\ f \in [DOMAIN f -> Cases]
    BY <1>2, <1>3, PlacesFacts
  <2>2. QED
    BY <2>1, TreesAndPlaces
<1>5. UNION {Targets(f, k) : k \in Kinds} \in SUBSET (Cases \X Kinds)
  BY <1>4, AppendsType
<1>6. job' \in Jobs
  BY <1>1, <1>4, <1>5, JobTypes DEF Jobs
<1>7. dropped' \in SUBSET Records
  BY <1>1, <1>3 DEF TypeOK, OtherTypes
<1>8. pc' \in Steps
  BY DEF Decide, Steps, Working
<1>9. DiskTypes' /\ MemoryTypes'
  BY SameDiskTypes, SameMemoryTypes DEF Decide
<1>10. QED
  BY <1>6, <1>7, <1>8, <1>9 DEF TypeOK, OtherTypes, Decide, bounds

LEMMA AppendCopiesTypes ==
    ASSUME TypeOK, NEW c \in Cases, NEW k \in Kinds, AppendCopies(c, k) PROVE TypeOK'
<1>1. copies' \in [Cases -> [Records -> Nat]]
  <2>1. copies \in [Cases -> [Records -> Nat]]
    BY DEF TypeOK, DiskTypes
  <2>2. [r \in Records |-> copies[c][r] + IF r \in Group(c, k) THEN 1 ELSE 0] \in [Records -> Nat]
    BY <2>1
  <2>3. QED
    BY <2>1, <2>2 DEF AppendCopies
<1>2. job' \in Jobs
  BY JobTypes DEF AppendCopies, Jobs
<1>3. DiskTypes'
  BY <1>1 DEF AppendCopies, TypeOK, DiskTypes
<1>4. MemoryTypes'
  BY SameMemoryTypes DEF AppendCopies
<1>5. QED
  BY <1>2, <1>3, <1>4 DEF TypeOK, OtherTypes, AppendCopies, bounds, history

\* The parts of the state that Apply works with.
LEMMA ApplyParts ==
    ASSUME TypeOK, Stages, Numbering, RestIsPending, Carried, pc = "append"
    PROVE  /\ suffix \in Suffixes /\ channel \in Channels
           /\ DOMAIN place \in SUBSET Chunk /\ DOMAIN place # {}
           /\ \A x \in DOMAIN place : place[x] \in Cases
           /\ LastOf(DOMAIN place) \in DOMAIN place
<1>1. DOMAIN place \in SUBSET Chunk /\ DOMAIN place # {}
  BY DEF Carried
<1>2. OneBatch(DOMAIN place)
  BY <1>1, ChunkType, PartOfBatch
<1>3. LastOf(DOMAIN place) \in DOMAIN place
  BY <1>1, <1>2, RestIsABatch, LastIsThere
<1>4. suffix \in Suffixes /\ channel \in Channels
  BY DEF Stages, RestIsPending
<1>5. \A x \in DOMAIN place : place[x] \in Cases
  BY JobTypes, TreesAndPlaces
<1>6. QED
  BY <1>1, <1>3, <1>4, <1>5

LEMMA ApplyTypes ==
    ASSUME TypeOK, Stages, Numbering, RestIsPending, Carried, Apply PROVE TypeOK'
<1>1. /\ suffix \in Suffixes /\ channel \in Channels
      /\ \A x \in DOMAIN place : place[x] \in Cases
      /\ place[LastOf(DOMAIN place)] \in Cases
  BY ApplyParts DEF Apply
<1>2. tree' \in Trees
  <2>1. tree \in Trees
    BY DEF TypeOK, MemoryTypes
  <2>2. DOMAIN tree \cup Created \in SUBSET Cases
    BY <1>1, <2>1, TreesAndPlaces DEF Created
  <2>3. \A c : CountOf(c) \in Nat
    BY <2>1, TreesAndPlaces DEF CountOf
  <2>4. ASSUME NEW c PROVE Cardinality(UNION {Group(c, k) : k \in Kinds}) \in Nat
    <3>1. UNION {Group(c, k) : k \in Kinds} \in SUBSET Items
      BY JobTypes, TreesAndPlaces DEF Group
    <3>2. QED
      BY <3>1, SomeRecords
  <2>5. tree' \in [DOMAIN tree \cup Created -> Nat]
    BY <2>3, <2>4 DEF Apply
  <2>6. QED
    BY <2>2, <2>5, TreesAndPlaces
<1>3. current' \in [Suffixes -> Pointers]
  BY <1>1 DEF Apply, TypeOK, MemoryTypes, Pointers
<1>4. mark' \in [Suffixes -> Marks]
  <2>1. mark \in [Suffixes -> Marks]
    BY DEF TypeOK, MemoryTypes
  <2>2. mark[suffix][channel] \in [Kinds -> Points]
    BY <1>1, <2>1 DEF Marks
  <2>3. [k \in Kinds |-> Advanced(mark[suffix][channel][k], k, Stored(Chunk))] \in [Kinds -> Points]
    BY <2>2, ChunkType, AdvancedFacts
  <2>4. mark' = [mark EXCEPT ![suffix][channel] =
                   [k \in Kinds |-> Advanced(mark[suffix][channel][k], k, Stored(Chunk))]]
    BY DEF Apply
  <2>5. QED
    BY <1>1, <2>1, <2>3, <2>4 DEF Marks
<1>5. MemoryTypes'
  <2>1. opened' \in BOOLEAN
    BY DEF Apply, TypeOK, MemoryTypes
  <2>2. QED
    BY <1>2, <1>3, <1>4, <2>1 DEF Apply, TypeOK, MemoryTypes
<1>6. job' \in Jobs
  <2>1. job' = [job EXCEPT !.rest = rest \ Chunk, !.place = NoPlace]
    BY DEF Apply, rest
  <2>2. QED
    BY <2>1, JobTypes, EmptyOnes DEF Jobs
<1>7. pc' \in Steps
  BY DEF Apply, Steps, Working, Saving
<1>8. DiskTypes'
  BY SameDiskTypes DEF Apply
<1>9. QED
  BY <1>5, <1>6, <1>7, <1>8 DEF TypeOK, OtherTypes, Apply, bounds, history

LEMMA SaveTreeTypes == ASSUME TypeOK, SaveTree PROVE TypeOK'
<1>1. DiskTypes'
  BY DEF SaveTree, TypeOK, DiskTypes, MemoryTypes
<1>2. MemoryTypes'
  BY SameMemoryTypes DEF SaveTree
<1>3. pc' \in Steps
  BY DEF SaveTree, Steps, Working, Saving
<1>4. QED
  BY <1>1, <1>2, <1>3 DEF TypeOK, OtherTypes, SaveTree, bounds, history

LEMMA SaveCurrentTypes == ASSUME TypeOK, Stages, SaveCurrent PROVE TypeOK'
<1>1. suffix \in Suffixes
  BY SuffixType DEF SaveCurrent
<1>2. DiskTypes'
  BY <1>1 DEF SaveCurrent, TypeOK, DiskTypes, MemoryTypes
<1>3. MemoryTypes'
  BY SameMemoryTypes DEF SaveCurrent
<1>4. pc' \in Steps
  BY DEF SaveCurrent, Steps, Working, Saving
<1>5. QED
  BY <1>2, <1>3, <1>4 DEF TypeOK, OtherTypes, SaveCurrent, bounds, history

LEMMA SaveMarkTypes == ASSUME TypeOK, Stages, SaveMark PROVE TypeOK'
<1>1. suffix \in Suffixes
  BY SuffixType DEF SaveMark
<1>2. DiskTypes'
  BY <1>1 DEF SaveMark, TypeOK, DiskTypes, MemoryTypes
<1>3. MemoryTypes'
  BY SameMemoryTypes DEF SaveMark
<1>4. pc' \in Steps
  BY DEF SaveMark, Steps, Working
<1>5. QED
  BY <1>2, <1>3, <1>4 DEF TypeOK, OtherTypes, SaveMark, bounds, history

LEMMA CrashTypes == ASSUME TypeOK, Crash PROVE TypeOK'
<1>1. pc' \in Steps /\ job' \in Jobs /\ requests' \in Nat /\ failures' \in Nat
  BY FailTypes DEF Crash
<1>2. MemoryTypes'
  <2>1. opened' \in BOOLEAN
    BY DEF Crash
  <2>2. current' \in [Suffixes -> Pointers] /\ mark' \in [Suffixes -> Marks] /\ tree' \in Trees
    BY EmptyOnes DEF Crash
  <2>3. QED
    BY <2>1, <2>2 DEF Crash, MemoryTypes
<1>3. DiskTypes'
  BY SameDiskTypes DEF Crash
<1>4. QED
  BY <1>1, <1>2, <1>3 DEF TypeOK, OtherTypes, Crash, history

LEMMA InitTypes == Init => TypeOK
<1> SUFFICES ASSUME Init PROVE TypeOK
  OBVIOUS
<1>1. opened \in BOOLEAN
  BY DEF Init
<1>2. DiskTypes
  BY EmptyOnes DEF Init, DiskTypes
<1>3. MemoryTypes
  BY <1>1, EmptyOnes DEF Init, MemoryTypes
<1>4. OtherTypes
  BY EmptyOnes DEF Init, OtherTypes, Steps
<1>5. QED
  BY <1>2, <1>3, <1>4 DEF TypeOK

LEMMA StutterTypes == ASSUME TypeOK, UNCHANGED vars PROVE TypeOK'
<1>1. UNCHANGED disk /\ UNCHANGED memory
  BY DEF vars
<1>2. DiskTypes' /\ MemoryTypes'
  BY <1>1, SameDiskTypes, SameMemoryTypes
<1>3. QED
  BY <1>2 DEF TypeOK, OtherTypes, vars, bounds, history

--------------------------------------------------------------------------------
(* The steps of a request.                                                      *)

LEMMA NoJobFacts ==
    /\ NoJob.suffix = NoSuffix /\ NoJob.rest = {} /\ NoJob.place = NoPlace
    /\ NoJob.appends = {} /\ NoJob.doomed = {} /\ NoJob.channel = NoChannel
    /\ NoJob.message = NoChannel
  BY DEF NoJob

\* A request that is over.
LEMMA EndStages ==
    ASSUME Stages, pc' = "idle", job' = NoJob,
           ~opened' => tree' = NoTree /\ loaded' = {},
           \A s \in Suffixes \ loaded' : mark'[s] = NoMarks
    PROVE  Stages'
<1>1. rest' = {} /\ place' = NoPlace /\ job'.appends = {} /\ job'.doomed = {}
  BY NoJobFacts DEF rest, place
<1>2. QED
  BY <1>1 DEF Stages

LEMMA StagesStay == ASSUME TypeOK, Stages, Next PROVE Stages'
<1> USE DEF suffix, view, channel, rest, place, Working, Saving
<1>1. job \in Jobs
  BY JobTypes
<1>2. ASSUME NEW r \in Records, Write(r) PROVE Stages'
  BY <1>2 DEF Stages, Write, memory
<1>3. ASSUME NEW o \in {"trigger", "rebuild", "locate"}, NEW s \in Suffixes,
             NEW m \in Channels \cup {NoChannel}, Begin(o, s, m)
      PROVE  Stages'
  <2>1. /\ job'.suffix = s /\ job'.rest = {} /\ job'.place = NoPlace
        /\ job'.appends = {} /\ job'.doomed = {}
    BY <1>1, <1>3, NoJobFacts DEF Stages, Begin, Jobs
  <2>2. opened' = TRUE /\ pc' = "ensure" /\ loaded' = loaded /\ mark' = mark
    BY <1>3 DEF Begin
  <2>3. QED
    BY <2>1, <2>2 DEF Stages
<1>4. ASSUME AfterEnsure
      PROVE  /\ pc' \in {"clear", "view"} /\ job'.suffix = suffix /\ job'.rest = rest
             /\ job'.place = place /\ job'.appends = job.appends
             /\ pc' # "clear" => job'.doomed = job.doomed
  BY <1>1, <1>4 DEF AfterEnsure, Jobs
<1>5. CASE EnsureKnown
  <2>1. AfterEnsure /\ pc = "ensure" /\ suffix \in loaded /\ UNCHANGED memory
    BY <1>5 DEF EnsureKnown
  <2>2. QED
    BY <1>4, <2>1 DEF Stages, memory
<1>6. CASE EnsureRead
  <2>1. /\ AfterEnsure /\ pc = "ensure" /\ loaded' = loaded \cup {suffix}
        /\ opened' = opened /\ tree' = tree
        /\ mark' = [mark EXCEPT ![suffix] = diskMark[suffix]]
    BY <1>6 DEF EnsureRead
  <2>2. mark \in [Suffixes -> Marks] /\ suffix \in Suffixes /\ opened
    BY <2>1, SuffixType DEF TypeOK, MemoryTypes
  <2>3. \A s \in Suffixes \ loaded' : mark'[s] = NoMarks
    BY <2>1, <2>2 DEF Stages
  <2>4. QED
    BY <1>4, <2>1, <2>2, <2>3 DEF Stages
<1>7. CASE EnsureFails
  <2>1. /\ pc' = "idle" /\ job' = NoJob /\ loaded' = loaded \cup {suffix}
        /\ opened' = opened /\ tree' = tree /\ mark' = mark /\ opened
    BY <1>7, SuffixType DEF EnsureFails, Fail, Idle
  <2>2. \A s \in Suffixes \ loaded' : mark'[s] = NoMarks
    BY <2>1 DEF Stages
  <2>3. QED
    BY <2>1, <2>2, EndStages
<1>8. ASSUME NEW c \in Cases, ClearCopies(c) PROVE Stages'
  <2>1. pc = "clear" /\ UNCHANGED memory
    BY <1>8 DEF ClearCopies
  <2>2. CASE Fail
    <3>1. pc' = "idle" /\ job' = NoJob
      BY <2>2 DEF Fail, Idle
    <3>2. QED
      BY <2>1, <3>1, EndStages DEF memory, Stages
  <2>3. CASE job' = [job EXCEPT !.doomed = @ \ {c}] /\ UNCHANGED <<pc, bounds>>
    <3>1. /\ job'.suffix = suffix /\ job'.rest = rest
          /\ job'.place = place /\ job'.appends = job.appends
      BY <1>1, <2>3 DEF Jobs
    <3>2. QED
      BY <2>1, <2>3, <3>1 DEF memory, Stages
  <2>4. QED
    BY <1>8, <2>2, <2>3 DEF ClearCopies
<1>9. CASE ResetCurrent
  <2>1. /\ pc = "clear" /\ job.doomed = {} /\ opened' = opened /\ loaded' = loaded
        /\ mark' = [mark EXCEPT ![suffix] = NoMarks] /\ mark \in [Suffixes -> Marks]
        /\ suffix \in Suffixes /\ opened
    BY <1>9, SuffixType DEF ResetCurrent, TypeOK, MemoryTypes
  <2>2. \A s \in Suffixes \ loaded' : mark'[s] = NoMarks
    BY <2>1 DEF Stages
  <2>3. CASE Fail
    <3>1. pc' = "idle" /\ job' = NoJob
      BY <2>3 DEF Fail, Idle
    <3>2. QED
      BY <2>1, <2>2, <3>1, EndStages
  <2>4. CASE pc' = "clearmark" /\ UNCHANGED <<job, bounds>>
    BY <2>1, <2>2, <2>4 DEF Stages
  <2>5. QED
    BY <1>9, <2>3, <2>4 DEF ResetCurrent
<1>10. CASE ResetMark
  <2>1. pc = "clearmark" /\ UNCHANGED memory
    BY <1>10 DEF ResetMark
  <2>2. CASE Fail
    <3>1. pc' = "idle" /\ job' = NoJob
      BY <2>2 DEF Fail, Idle
    <3>2. QED
      BY <2>1, <3>1, EndStages DEF memory, Stages
  <2>3. CASE pc' = "view" /\ UNCHANGED <<job, bounds>>
    BY <2>1, <2>3 DEF Stages, memory
  <2>4. QED
    BY <1>10, <2>2, <2>3 DEF ResetMark
<1>11. CASE ReadChannelFile
  <2>1. /\ job'.suffix = suffix /\ job'.rest = rest /\ job'.doomed = job.doomed
        /\ job'.place = place /\ job'.appends = job.appends
    BY <1>1, <1>11 DEF ReadChannelFile, Jobs
  <2>2. QED
    BY <1>11, <2>1 DEF Stages, ReadChannelFile, memory
<1>12. CASE ReadThinkFile
  <2>1. /\ job'.suffix = suffix /\ job'.rest = rest /\ job'.doomed = job.doomed
        /\ job'.place = place /\ job'.appends = job.appends
    BY <1>1, <1>12 DEF ReadThinkFile, Jobs
  <2>2. QED
    BY <1>12, <2>1 DEF Stages, ReadThinkFile, memory
<1>13. CASE NextChannel
  <2>1. /\ job'.suffix = suffix /\ job'.doomed = job.doomed
        /\ job'.place = place /\ job'.appends = job.appends
    BY <1>1, <1>13 DEF NextChannel, Jobs
  <2>2. QED
    BY <1>13, <2>1 DEF Stages, NextChannel, memory
<1>14. CASE Finish
  BY <1>14, EndStages DEF Finish, Idle, memory, Stages
<1>15. CASE Decide
  <2>1. /\ job'.suffix = suffix /\ job'.rest = rest /\ job'.doomed = job.doomed
    BY <1>1, <1>15 DEF Decide, Jobs
  <2>2. QED
    BY <1>15, <2>1 DEF Stages, Decide, memory
<1>16. CASE DecideFails
  BY <1>16, EndStages DEF DecideFails, Idle, memory, Stages
<1>17. ASSUME NEW c \in Cases, NEW k \in Kinds, AppendCopies(c, k) PROVE Stages'
  <2>1. /\ job'.suffix = suffix /\ job'.rest = rest /\ job'.doomed = job.doomed
    BY <1>1, <1>17 DEF AppendCopies, Jobs
  <2>2. QED
    BY <1>17, <2>1 DEF Stages, AppendCopies, memory
<1>18. CASE AppendFails
  BY <1>18, EndStages DEF AppendFails, Fail, Idle, memory, Stages
<1>19. CASE Apply
  <2>1. /\ job'.suffix = suffix /\ job'.rest = rest \ Chunk /\ job'.doomed = job.doomed
        /\ job'.place = NoPlace /\ job'.appends = job.appends /\ job.appends = {}
        /\ pc = "append" /\ pc' \in {"next", "savetree"}
        /\ opened' = opened /\ loaded' = loaded
    BY <1>1, <1>19 DEF Apply, Jobs
  <2>2. suffix \in loaded /\ mark \in [Suffixes -> Marks] /\ suffix \in Suffixes /\ opened
    BY <2>1 DEF Stages, TypeOK, MemoryTypes
  <2>3. \A s \in Suffixes \ loaded' : mark'[s] = NoMarks
    BY <1>19, <2>1, <2>2 DEF Stages, Apply
  <2>4. QED
    BY <2>1, <2>2, <2>3 DEF Stages
<1>20. CASE SaveTree
  BY <1>20 DEF SaveTree, Stages, memory
<1>21. CASE SaveCurrent
  BY <1>21 DEF SaveCurrent, Stages, memory
<1>22. CASE SaveMark
  BY <1>22 DEF SaveMark, Stages, memory
<1>23. CASE SaveFails
  BY <1>23, EndStages DEF SaveFails, Fail, Idle, memory, Stages
<1>24. CASE Crash
  <2>1. pc' = "idle" /\ job' = NoJob /\ tree' = NoTree /\ loaded' = {}
    BY <1>24 DEF Crash, Fail, Idle
  <2>2. \A s \in Suffixes \ loaded' : mark'[s] = NoMarks
    BY <1>24 DEF Crash
  <2>3. QED
    BY <2>1, <2>2, EndStages
<1>25. QED
  BY <1>2, <1>3, <1>5, <1>6, <1>7, <1>8, <1>9, <1>10, <1>11, <1>12, <1>13, <1>14, <1>15,
     <1>16, <1>17, <1>18, <1>19, <1>20, <1>21, <1>22, <1>23, <1>24 DEF Next

--------------------------------------------------------------------------------
(* Each suffix keeps to its cases.                                              *)

OwnCopies == \A c \in Cases, r \in Records : copies[c][r] > 0 => c \in OwnCases(SuffixOf[r])
OwnPointers ==
    \A s \in Suffixes, ch \in Channels :
        /\ diskCurrent[s][ch] \in OwnCases(s) \cup {NoCase}
        /\ current[s][ch] \in OwnCases(s) \cup {NoCase}
OwnJob ==
    /\ job.doomed \subseteq OwnCases(suffix)
    /\ \A x \in DOMAIN place : place[x] \in OwnCases(suffix)
    /\ \A t \in job.appends : t[1] \in OwnCases(suffix)

LEMMA OwnPartsSplit == OwnParts <=> OwnCopies /\ OwnPointers /\ OwnJob
  BY DEF OwnParts, OwnCopies, OwnPointers, OwnJob

LEMMA OwnPartsJoin == OwnCopies' /\ OwnPointers' /\ OwnJob' => OwnParts'
  BY DEF OwnParts, OwnCopies, OwnPointers, OwnJob

LEMMA ToClearAreOwn == CasesToClear \subseteq OwnCases(suffix) /\ CasesToClear \subseteq DOMAIN tree
  BY DEF CasesToClear, OwnCases

LEMMA EndOwnJob == ASSUME job' = NoJob PROVE OwnJob'
<1>1. DOMAIN place' = {} /\ job'.appends = {} /\ job'.doomed = {}
  BY EmptyOnes, NoJobFacts DEF place
<1>2. QED
  BY <1>1 DEF OwnJob

LEMMA OwnPointersStay ==
    ASSUME OwnPointers, UNCHANGED <<diskCurrent, current>> PROVE OwnPointers'
  BY DEF OwnPointers

LEMMA OwnCopiesStay == ASSUME OwnCopies, UNCHANGED copies PROVE OwnCopies'
  BY DEF OwnCopies

LEMMA OwnPartsStay ==
    ASSUME TypeOK, Stages, OwnParts, Numbering, RestIsPending, Carried, Next
    PROVE  OwnParts'
<1> USE DEF suffix, place
<1>1. OwnCopies /\ OwnPointers /\ OwnJob
  BY OwnPartsSplit
<1>2. /\ job \in Jobs /\ diskCurrent \in [Suffixes -> Pointers] /\ current \in [Suffixes -> Pointers]
      /\ copies \in [Cases -> [Records -> Nat]]
  BY JobTypes DEF TypeOK, DiskTypes, MemoryTypes
<1>3. ASSUME NEW r \in Records, Write(r) PROVE OwnParts'
  BY <1>3 DEF OwnParts, Write, memory, disk
<1>4. ASSUME NEW o \in {"trigger", "rebuild", "locate"}, NEW s \in Suffixes,
             NEW m \in Channels \cup {NoChannel}, Begin(o, s, m)
      PROVE  OwnParts'
  <2>1. DOMAIN place' = {} /\ job'.appends = {} /\ job'.doomed = {}
    BY <1>2, <1>4, NoJobFacts, EmptyOnes DEF Stages, Begin, Jobs
  <2>2. UNCHANGED <<diskCurrent, current, copies>>
    BY <1>4 DEF Begin, disk
  <2>3. QED
    BY <1>1, <2>1, <2>2, OwnCopiesStay, OwnPointersStay, OwnPartsJoin DEF OwnParts
<1>5. ASSUME AfterEnsure PROVE OwnJob'
  <2>1. CASE UNCHANGED job
    BY <1>1, <2>1 DEF OwnJob
  <2>2. CASE job' = [job EXCEPT !.doomed = CasesToClear]
    <3>1. job'.doomed = CasesToClear /\ job'.suffix = job.suffix /\ job'.place = job.place
          /\ job'.appends = job.appends
      BY <1>2, <2>2 DEF Jobs
    <3>2. QED
      BY <1>1, <3>1, ToClearAreOwn DEF OwnJob
  <2>3. QED
    BY <1>5, <2>1, <2>2 DEF AfterEnsure
<1>6. CASE EnsureKnown
  <2>1. AfterEnsure /\ UNCHANGED <<diskCurrent, current, copies>>
    BY <1>6 DEF EnsureKnown, disk, memory
  <2>2. QED
    BY <1>1, <1>5, <2>1, OwnCopiesStay, OwnPointersStay, OwnPartsJoin
<1>7. CASE EnsureRead
  <2>1. /\ AfterEnsure /\ UNCHANGED <<diskCurrent, copies>>
        /\ current' = [current EXCEPT ![suffix] = diskCurrent[suffix]]
    BY <1>7 DEF EnsureRead, disk
  <2>2. OwnPointers'
    BY <1>1, <1>2, <2>1 DEF OwnPointers
  <2>3. QED
    BY <1>1, <1>5, <2>1, <2>2, OwnCopiesStay, OwnPartsJoin
<1>8. CASE EnsureFails
  <2>1. /\ job' = NoJob /\ UNCHANGED <<diskCurrent, copies>>
        /\ \/ UNCHANGED current
           \/ current' = [current EXCEPT ![suffix] = diskCurrent[suffix]]
    BY <1>8 DEF EnsureFails, disk, Fail, Idle
  <2>2. OwnPointers'
    BY <1>1, <1>2, <2>1 DEF OwnPointers
  <2>3. QED
    BY <1>1, <2>1, <2>2, EndOwnJob, OwnCopiesStay, OwnPartsJoin
<1>9. ASSUME NEW c \in Cases, ClearCopies(c) PROVE OwnParts'
  <2>1. UNCHANGED <<diskCurrent, current>>
    BY <1>9 DEF ClearCopies, memory
  <2>2. OwnJob'
    <3>1. CASE job' = NoJob
      BY <3>1, EndOwnJob
    <3>2. CASE job' = [job EXCEPT !.doomed = @ \ {c}]
      <4>1. job'.doomed = job.doomed \ {c} /\ job'.suffix = job.suffix /\ job'.place = job.place
            /\ job'.appends = job.appends
        BY <1>2, <3>2 DEF Jobs
      <4>2. QED
        BY <1>1, <4>1 DEF OwnJob
    <3>3. QED
      BY <1>9, <3>1, <3>2 DEF ClearCopies, Fail, Idle
  <2>3. OwnCopies'
    <3>1. PICK K \in SUBSET Kinds : copies' = [copies EXCEPT ![c] =
              [r \in Records |-> IF KindOf(r) \in K THEN 0 ELSE @[r]]]
      BY <1>9 DEF ClearCopies
    <3>2. ASSUME NEW d \in Cases, NEW r \in Records
          PROVE  copies'[d][r] = copies[d][r] \/ copies'[d][r] = 0
      BY <1>2, <3>1
    <3>3. QED
      BY <1>1, <3>2 DEF OwnCopies
  <2>4. QED
    BY <1>1, <2>1, <2>2, <2>3, OwnPointersStay, OwnPartsJoin
<1>10. CASE ResetCurrent
  <2>1. /\ UNCHANGED copies
        /\ current' = [current EXCEPT ![suffix] = NoCurrent]
        /\ diskCurrent' \in {diskCurrent, [diskCurrent EXCEPT ![suffix] = NoCurrent]}
        /\ job' = NoJob \/ job' = job
    BY <1>10 DEF ResetCurrent, Fail, Idle
  <2>2. OwnPointers'
    <3>1. ASSUME NEW s \in Suffixes, NEW ch \in Channels
          PROVE  /\ current'[s][ch] \in {current[s][ch], NoCase}
                 /\ diskCurrent'[s][ch] \in {diskCurrent[s][ch], NoCase}
      BY <1>2, <2>1, EmptyOnes
    <3>2. QED
      BY <1>1, <3>1 DEF OwnPointers
  <2>3. OwnJob'
    <3>1. CASE job' = NoJob
      BY <3>1, EndOwnJob
    <3>2. CASE job' = job
      BY <1>1, <3>2 DEF OwnJob
    <3>3. QED
      BY <2>1, <3>1, <3>2
  <2>4. QED
    BY <1>1, <2>1, <2>2, <2>3, OwnCopiesStay, OwnPartsJoin
<1>11. CASE ResetMark
  <2>1. UNCHANGED <<copies, diskCurrent, current>> /\ (job' = NoJob \/ job' = job)
    BY <1>11 DEF ResetMark, memory, Fail, Idle
  <2>2. OwnJob'
    <3>1. CASE job' = NoJob
      BY <3>1, EndOwnJob
    <3>2. CASE job' = job
      BY <1>1, <3>2 DEF OwnJob
    <3>3. QED
      BY <2>1, <3>1, <3>2
  <2>3. QED
    BY <1>1, <2>1, <2>2, OwnCopiesStay, OwnPointersStay, OwnPartsJoin
<1>12. CASE ReadChannelFile \/ ReadThinkFile \/ NextChannel
  <2>1. UNCHANGED <<copies, diskCurrent, current>>
    BY <1>12 DEF ReadChannelFile, ReadThinkFile, NextChannel, disk, memory
  <2>2. /\ job'.suffix = job.suffix /\ job'.doomed = job.doomed
        /\ job'.place = job.place /\ job'.appends = job.appends
    BY <1>2, <1>12 DEF ReadChannelFile, ReadThinkFile, NextChannel, Jobs
  <2>3. OwnJob'
    BY <1>1, <2>2 DEF OwnJob
  <2>4. QED
    BY <1>1, <2>1, <2>3, OwnCopiesStay, OwnPointersStay, OwnPartsJoin
<1>13. CASE Finish \/ DecideFails \/ AppendFails \/ SaveFails
  <2>1. UNCHANGED <<copies, diskCurrent, current>> /\ job' = NoJob
    BY <1>13 DEF Finish, DecideFails, AppendFails, SaveFails, Fail, Idle, disk, memory
  <2>2. QED
    BY <1>1, <2>1, EndOwnJob, OwnCopiesStay, OwnPointersStay, OwnPartsJoin
<1>14. CASE Decide
  <2>1. UNCHANGED <<copies, diskCurrent, current>> /\ suffix \in Suffixes
    BY <1>14, SuffixType DEF Decide, disk, memory
  <2>2. PICK f \in PlacesOf(suffix, Chunk) :
           job' = [job EXCEPT !.place = f, !.appends = UNION {Targets(f, k) : k \in Kinds}]
    BY <1>14 DEF Decide
  <2>3. /\ job'.suffix = job.suffix /\ job'.doomed = job.doomed /\ job'.place = f
        /\ job'.appends = UNION {Targets(f, k) : k \in Kinds}
    BY <1>2, <2>2 DEF Jobs
  <2>4. \A x \in DOMAIN f : f[x] \in OwnCases(suffix)
    BY <2>1, ChunkType, PlacesFacts
  <2>5. \A t \in job'.appends : t[1] \in OwnCases(suffix)
    BY <2>3, <2>4, TargetsFacts
  <2>6. OwnJob'
    BY <1>1, <2>3, <2>4, <2>5 DEF OwnJob
  <2>7. QED
    BY <1>1, <2>1, <2>6, OwnCopiesStay, OwnPointersStay, OwnPartsJoin
<1>15. ASSUME NEW c \in Cases, NEW k \in Kinds, AppendCopies(c, k) PROVE OwnParts'
  <2>1. UNCHANGED <<diskCurrent, current>> /\ pc = "append"
    BY <1>15 DEF AppendCopies, memory
  <2>2. /\ job'.suffix = job.suffix /\ job'.doomed = job.doomed /\ job'.place = job.place
        /\ job'.appends \subseteq job.appends
    BY <1>2, <1>15 DEF AppendCopies, Jobs
  <2>3. OwnJob'
    BY <1>1, <2>2 DEF OwnJob
  <2>4. OwnCopies'
    <3>1. ASSUME NEW d \in Cases, NEW r \in Records
          PROVE  copies'[d][r] = copies[d][r] \/ (d = c /\ r \in Group(c, k))
      BY <1>2, <1>15 DEF AppendCopies
    <3>2. ASSUME NEW r \in Records, r \in Group(c, k)
          PROVE  c \in OwnCases(SuffixOf[r])
      <4>1. r \in DOMAIN place /\ place[r] = c /\ r # Msg
        BY <3>2 DEF Group
      <4>2. r \in Stored(rest) /\ rest # {}
        BY <2>1, <4>1, ChunkType DEF Carried, Stored
      <4>3. SuffixOf[r] = suffix
        BY <4>2 DEF RestIsPending, PendingFor
      <4>4. QED
        BY <1>1, <4>1, <4>3 DEF OwnJob
    <3>3. QED
      BY <1>1, <3>1, <3>2 DEF OwnCopies
  <2>5. QED
    BY <1>1, <2>1, <2>3, <2>4, OwnPointersStay, OwnPartsJoin
<1>16. CASE Apply
  <2>1. /\ UNCHANGED <<copies, diskCurrent>>
        /\ current' = [current EXCEPT ![suffix][channel] = place[LastOf(DOMAIN place)]]
        /\ pc = "append" /\ job.appends = {}
    BY <1>16 DEF Apply, disk
  <2>2. /\ job'.suffix = job.suffix /\ job'.doomed = job.doomed /\ job'.place = NoPlace
        /\ job'.appends = job.appends
    BY <1>2, <1>16 DEF Apply, Jobs
  <2>3. OwnJob'
    BY <1>1, <2>2, EmptyOnes DEF OwnJob
  <2>4. /\ suffix \in Suffixes /\ channel \in Channels
        /\ place[LastOf(DOMAIN place)] \in OwnCases(suffix)
    BY <1>1, <2>1, ApplyParts DEF OwnJob
  <2>5. OwnPointers'
    <3>1. ASSUME NEW s \in Suffixes, NEW ch \in Channels
          PROVE  current'[s][ch] = current[s][ch]
                 \/ (s = suffix /\ current'[s][ch] = place[LastOf(DOMAIN place)])
      BY <1>2, <2>1, <2>4 DEF Pointers
    <3>2. QED
      BY <1>1, <2>1, <2>4, <3>1 DEF OwnPointers
  <2>6. QED
    BY <1>1, <2>1, <2>3, <2>5, OwnCopiesStay, OwnPartsJoin
<1>17. CASE SaveTree \/ SaveCurrent \/ SaveMark
  <2>1. /\ UNCHANGED <<copies, current, job>>
        /\ \/ UNCHANGED diskCurrent
           \/ diskCurrent' = [diskCurrent EXCEPT ![suffix] = current[suffix]]
    BY <1>17 DEF SaveTree, SaveCurrent, SaveMark, memory
  <2>2. OwnPointers'
    BY <1>1, <1>2, <2>1 DEF OwnPointers
  <2>3. OwnJob'
    BY <1>1, <2>1 DEF OwnJob
  <2>4. QED
    BY <1>1, <2>1, <2>2, <2>3, OwnCopiesStay, OwnPartsJoin
<1>18. CASE Crash
  <2>1. /\ UNCHANGED <<copies, diskCurrent>> /\ job' = NoJob
        /\ current' = [s \in Suffixes |-> NoCurrent]
    BY <1>18 DEF Crash, Fail, Idle, disk
  <2>2. OwnPointers'
    BY <1>1, <2>1, EmptyOnes DEF OwnPointers
  <2>3. QED
    BY <1>1, <2>1, <2>2, EndOwnJob, OwnCopiesStay, OwnPartsJoin
<1>19. QED
  BY <1>3, <1>4, <1>6, <1>7, <1>8, <1>9, <1>10, <1>11, <1>12, <1>13, <1>14, <1>15, <1>16,
     <1>17, <1>18 DEF Next

--------------------------------------------------------------------------------
(* The store goes on.                                                           *)

LEMMA FirstPosition ==
    ASSUME at \in [Records -> Nat], NEW r \in Records, NEW n \in Nat, at[r] \in 1..n
    PROVE  Beyond(Position(r, n), Zero)
<1>1. r \in UpTo(r, n)
  BY DEF UpTo, SameFile
<1>2. IsFiniteSet(UpTo(r, n)) /\ Cardinality(UpTo(r, n)) \in Nat
  BY SomeRecords, SnIsACount
<1>3. SnAt(r, n) # 0
  BY <1>1, <1>2, SnIsACount, FS_EmptySet
<1>4. SnAt(r, n) \in Nat /\ TimeOf[r] \in Nat
  BY PositionType, ArchiveAssumption
<1>5. QED
  BY <1>3, <1>4 DEF Beyond, Position, Zero

\* What holds of the places of records in every state, so also in the next one.
PlaceLaws ==
    /\ at \in [Records -> Nat] /\ Numbering =>
          \A n \in Nat, r, x \in Records :
             SameFile(r, x) /\ r # x /\ at[r] \in 1..n /\ at[x] \in 1..n =>
                (Beyond(Position(r, n), Position(x, n)) <=> Before(x, r))
    /\ at \in [Records -> Nat] =>
          /\ \A r \in Records, n \in Nat : at[r] \in 1..n => Beyond(Position(r, n), Zero)
          /\ \A r \in Records, n, m \in Nat : n <= m => ~Beyond(Position(r, n), Position(r, m))
    /\ \A r \in Records : \A n : Position(r, n) \in Points

LEMMA PlaceLawsHold == PlaceLaws
  BY PositionsDiffer, FirstPosition, PositionGrows, PositionType DEF PlaceLaws

LEMMA PlaceLawsNext == PlaceLaws'
  BY PlaceLawsHold, PTL

LEMMA WriteFacts ==
    ASSUME TypeOK, Numbering, NEW y \in Records, Write(y)
    PROVE  /\ Written \in Nat /\ Written' = Written + 1
           /\ at \in [Records -> Nat] /\ at' \in [Records -> Nat]
           /\ at[y] = 0 /\ at'[y] = Written + 1
           /\ \A x \in Records : x # y => at'[x] = at[x]
           /\ \A x \in Records : at[x] <= Written
<1>1. at \in [Records -> Nat] /\ Written \in Nat
  BY WrittenType DEF TypeOK, OtherTypes
<1>2. at[y] = 0 /\ at' = [at EXCEPT ![y] = Written + 1]
  BY DEF Write
<1>3. /\ at' \in [Records -> Nat] /\ at'[y] = Written + 1
      /\ \A x \in Records : x # y => at'[x] = at[x]
  BY <1>1, <1>2
<1>4. Written' = Written + 1
  <2> DEFINE S == {r \in Records : at[r] # 0}
             T == {r \in Records : at'[r] # 0}
  <2>1. T = S \cup {y} /\ y \notin S
    BY <1>1, <1>2, <1>3
  <2>2. S \in SUBSET Items /\ Written = Cardinality(S) /\ Written' = Cardinality(T)
    BY DEF Items, Written
  <2> HIDE DEF S, T
  <2>3. IsFiniteSet(S)
    BY <2>2, SomeRecords
  <2>4. QED
    BY <2>1, <2>2, <2>3, FS_AddElement
<1>5. \A x \in Records : at[x] <= Written
  BY DEF Numbering
<1>6. QED
  BY <1>1, <1>2, <1>3, <1>4, <1>5

LEMMA WriteNumbering ==
    ASSUME TypeOK, Numbering, NEW y \in Records, Write(y) PROVE Numbering'
<1>1. \A r \in Records : at'[r] <= Written'
  BY WriteFacts
<1>2. \A r, x \in Records : at'[r] # 0 /\ at'[r] = at'[x] => r = x
  <2> SUFFICES ASSUME NEW r \in Records, NEW x \in Records, at'[r] # 0, at'[r] = at'[x]
               PROVE  r = x
    OBVIOUS
  <2>1. CASE r # y /\ x # y
    BY <2>1, WriteFacts DEF Numbering
  <2>2. CASE r = y \/ x = y
    BY <2>2, WriteFacts
  <2>3. QED
    BY <2>1, <2>2
<1>3. pc' = pc /\ job' = job /\ pc \in {"idle", "view", "view2"}
  BY DEF Write
<1>4. view["channel"] \in Nat
  BY JobTypes
<1>5. QED
  BY <1>1, <1>2, <1>3, <1>4, WriteFacts DEF Numbering, Working, Saving, view

\* A record keeps its position in what was read before, ...
LEMMA WriteKeepsPositions ==
    ASSUME TypeOK, Numbering, NEW y \in Records, Write(y), NEW n \in Nat, n <= Written,
           NEW r \in Records, at[r] \in 1..n
    PROVE  Position(r, n)' = Position(r, n)
<1>1. r # y
  BY WriteFacts
<1>2. ASSUME NEW x \in Records
      PROVE  /\ at'[x] \in 1..n <=> at[x] \in 1..n
             /\ at[x] \in 1..n => (Before(x, r)' <=> Before(x, r))
  <2>1. CASE x = y
    BY <2>1, WriteFacts
  <2>2. CASE x # y
    BY <1>1, <2>2, WriteFacts DEF Before
  <2>3. QED
    BY <2>1, <2>2
<1>3. SnAt(r, n)' = SnAt(r, n)
  BY <1>2 DEF SnAt
<1>4. QED
  BY <1>3 DEF Position

\* ... and in all that was written it keeps it or moves back.
LEMMA WriteMovesBack ==
    ASSUME TypeOK, Numbering, NEW y \in Records, Write(y),
           NEW r \in Records, at[r] # 0
    PROVE  ~Beyond(Position(r, Written), Position(r, Written)')
<1>1. Written \in Nat /\ Written' \in Nat /\ Written <= Written' /\ at[r] \in 1..Written
  BY WriteFacts
<1>2. Position(r, Written) = Position(r, Written)
  OBVIOUS
<1>3. \A n : n = Written => Position(r, n)' = Position(r, n)
  BY <1>1, WriteKeepsPositions
<1>4. \A n, m \in Nat : n <= m => ~Beyond(Position(r, n), Position(r, m))'
  BY WriteFacts, PlaceLawsNext DEF PlaceLaws
<1>5. \A n, m : n = Written /\ m = Written' =>
         /\ Position(r, n) = Position(r, Written)
         /\ Position(r, m)' = Position(r, Written)'
         /\ ~Beyond(Position(r, n), Position(r, m)')
  BY <1>1, <1>3, <1>4 DEF Beyond
<1>6. QED
  BY <1>5

LEMMA OfFacts == ASSUME NEW s, NEW ch, NEW k, NEW r \in Of(s, ch, k)
    PROVE  /\ r \in Records /\ SuffixOf[r] = s /\ ChannelOf[r] = ch /\ KindOf(r) = k
           /\ \A x \in Of(s, ch, k) : SameFile(r, x) /\ ChannelOf[r] = ChannelOf[x]
  BY DEF Of, SameFile

LEMMA ClaimedStays ==
    ASSUME TypeOK, Numbering, NEW y \in Records, Write(y), NEW r \in Records, IsClaimed(r)
    PROVE  /\ IsClaimed(r)' /\ r # y
           /\ KindOf(r) = "think" => Placeholder[r] \in Records /\ Placeholder[r] # y
<1>1. r # y
  BY WriteFacts DEF IsClaimed
<1>2. KindOf(r) = "think" => Placeholder[r] \in Records /\ Placeholder[r] # y
  BY Placeholders, WriteFacts DEF IsClaimed
<1>3. QED
  BY <1>1, <1>2, WriteFacts DEF IsClaimed

LEMMA WriteKeepsDisorder ==
    ASSUME TypeOK, Numbering, NEW y \in Records, Write(y), NEW r \in Records, IsClaimed(r),
           OutOfOrder(r)
    PROVE  OutOfOrder(r)'
<1>1. PICK x \in Records :
        /\ SameFile(r, x) /\ ChannelOf[r] = ChannelOf[x]
        /\ at[x] # 0 /\ Before(r, x)
        /\ \/ at[x] < at[r]
           \/ /\ KindOf(r) = "think"
              /\ at[Placeholder[x]] # 0
              /\ at[Placeholder[x]] < at[Placeholder[r]]
  BY DEF OutOfOrder
<1>2. at'[r] = at[r] /\ at'[x] = at[x]
  BY <1>1, ClaimedStays, WriteFacts
<1>3. Before(r, x)'
  BY <1>1, <1>2 DEF Before
<1>4. KindOf(r) = "think" /\ at[Placeholder[x]] # 0 =>
         at'[Placeholder[x]] = at[Placeholder[x]] /\ at'[Placeholder[r]] = at[Placeholder[r]]
  <2>1. KindOf(r) = "think" => Placeholder[x] \in Records
    BY <1>1, Placeholders DEF SameFile
  <2>2. QED
    BY <2>1, ClaimedStays, WriteFacts
<1>5. QED
  BY <1>1, <1>2, <1>3, <1>4 DEF OutOfOrder

\* A record that comes to be claimed before one that is claimed is out of order.
LEMMA ClaimedTooLate ==
    ASSUME TypeOK, Numbering, NEW y \in Records, Write(y),
           NEW r \in Records, ~IsClaimed(r), IsClaimed(r)',
           NEW x \in Records, IsClaimed(x), SameFile(r, x), ChannelOf[r] = ChannelOf[x],
           Before(r, x)'
    PROVE  OutOfOrder(r)'
<1>1. at'[x] = at[x] /\ at[x] # 0 /\ at[x] < Written + 1 /\ Written \in Nat
  BY ClaimedStays, WriteFacts DEF IsClaimed
<1>2. CASE r = y
  <2>1. at'[x] # 0 /\ at'[x] < at'[r]
    BY <1>1, <1>2, WriteFacts
  <2>2. QED
    BY <2>1 DEF OutOfOrder
<1>3. CASE r # y
  <2>1. KindOf(r) = "think" /\ Placeholder[r] = y
    BY <1>3, Placeholders, WriteFacts DEF IsClaimed
  <2>2. KindOf(x) = "think" /\ Placeholder[x] \in Records /\ Placeholder[x] # y
    BY <2>1, ClaimedStays DEF SameFile
  <2>3. at[Placeholder[x]] # 0
    BY <2>2 DEF IsClaimed
  <2>4. at'[Placeholder[x]] # 0 /\ at'[Placeholder[x]] < at'[Placeholder[r]]
    BY <2>1, <2>2, <2>3, WriteFacts
  <2>5. QED
    BY <1>1, <2>1, <2>4 DEF OutOfOrder
<1>4. QED
  BY <1>2, <1>3

LEMMA WriteKeepsReached ==
    ASSUME TypeOK, Numbering, NEW y \in Records, Write(y),
           NEW s, NEW ch, NEW k, NEW w \in Points, Reached(w, s, ch, k)
    PROVE  Reached(w, s, ch, k)'
<1>1. CASE w = Zero
  BY <1>1 DEF Reached
<1>2. CASE w # Zero
  <2>1. PICK x \in Of(s, ch, k) : IsClaimed(x) /\ ~Beyond(w, Position(x, Written))
    BY <1>2 DEF Reached
  <2>2. x \in Records /\ at[x] # 0 /\ IsClaimed(x)'
    BY <2>1, OfFacts, ClaimedStays DEF IsClaimed
  <2>3. ~Beyond(Position(x, Written), Position(x, Written)')
    BY <2>2, WriteMovesBack
  <2>4. Position(x, Written) \in Points /\ Position(x, Written)' \in Points
    BY <2>2, PlaceLawsHold, PlaceLawsNext DEF PlaceLaws
  <2>5. ~Beyond(w, Position(x, Written)')
    BY <2>1, <2>3, <2>4, BeyondOrder
  <2>6. ~Beyond(w, Position(x, Written))'
    BY <2>5 DEF Beyond
  <2>7. QED
    BY <2>2, <2>6 DEF Reached, Of
<1>3. QED
  BY <1>1, <1>2

LEMMA WriteKeepsPassed ==
    ASSUME TypeOK, Numbering, NEW y \in Records, Write(y),
           NEW s, NEW ch, NEW k, NEW w \in Points, Reached(w, s, ch, k), Passed(w, s, ch, k)
    PROVE  Passed(w, s, ch, k)'
<1> SUFFICES ASSUME NEW r \in Of(s, ch, k), IsClaimed(r)', Lost(r)'
             PROVE  Beyond(Position(r, Written)', w)
  BY DEF Passed, Beyond, Of
<1>1. r \in Records
  BY OfFacts
<1>2. Position(r, Written) \in Points /\ Position(r, Written)' \in Points
  BY <1>1, PlaceLawsHold, PlaceLawsNext DEF PlaceLaws
<1>3. CASE IsClaimed(r)
  <2>1. Lost(r)
    BY <1>1, <1>3, WriteKeepsDisorder DEF Lost, HasCopy, Write, disk, history
  <2>2. Beyond(Position(r, Written), w)
    BY <1>3, <2>1 DEF Passed
  <2>3. ~Beyond(Position(r, Written), Position(r, Written)')
    BY <1>1, <1>3, WriteMovesBack DEF IsClaimed
  <2>4. QED
    BY <1>2, <2>2, <2>3, BeyondOrder
<1>4. CASE ~IsClaimed(r)
  <2>1. at' \in [Records -> Nat] /\ Written' \in Nat
    BY WriteFacts
  <2>2. Numbering'
    BY WriteNumbering
  <2>3. at'[r] \in 1..Written'
    <3>1. at'[r] # 0 /\ at'[r] \in Nat
      BY <1>1, <2>1 DEF IsClaimed
    <3>2. QED
      BY <1>1, <2>1, <2>2, <3>1 DEF Numbering
  <2>4. CASE w = Zero
    <3>1. \A n \in Nat : at'[r] \in 1..n => Beyond(Position(r, n)', Zero)
      BY <1>1, <2>1, PlaceLawsNext DEF PlaceLaws, Beyond, Zero
    <3>2. \A n : n = Written' => Position(r, n)' = Position(r, Written)'
      OBVIOUS
    <3>3. QED
      BY <2>1, <2>4, <2>3, <3>1, <3>2
  <2>5. CASE w # Zero
    <3>1. PICK x \in Of(s, ch, k) : IsClaimed(x) /\ ~Beyond(w, Position(x, Written))
      BY <2>5 DEF Reached
    <3>2. /\ x \in Records /\ at[x] # 0 /\ IsClaimed(x)' /\ x # r
          /\ SameFile(r, x) /\ ChannelOf[r] = ChannelOf[x]
      BY <1>4, <3>1, OfFacts, ClaimedStays DEF IsClaimed
    <3>3. ~Beyond(Position(x, Written), Position(x, Written)')
      BY <3>2, WriteMovesBack
    <3>4. Position(x, Written) \in Points /\ Position(x, Written)' \in Points
      BY <3>2, PlaceLawsHold, PlaceLawsNext DEF PlaceLaws
    <3>5. ~Beyond(w, Position(x, Written)')
      BY <3>1, <3>3, <3>4, BeyondOrder
    <3>6. ~Before(r, x)'
      BY <1>1, <1>4, <3>1, <3>2, ClaimedTooLate DEF Lost
    <3>7. Before(x, r)'
      <4>1. at'[r] # at'[x]
        BY <1>1, <2>2, <2>3, <3>2 DEF Numbering
      <4>2. QED
        BY <1>1, <2>1, <3>2, <3>6, <4>1, ArchiveAssumption DEF Before
    <3>8. at'[x] \in 1..Written'
      <4>1. at'[x] # 0 /\ at'[x] \in Nat
        BY <2>1, <3>2 DEF IsClaimed
      <4>2. QED
        BY <2>1, <2>2, <3>2, <4>1 DEF Numbering
    <3>9. \A n \in Nat : n = Written' => Beyond(Position(r, n)', Position(x, n)')
      <4>1. \A n \in Nat : at'[r] \in 1..n /\ at'[x] \in 1..n =>
               (Beyond(Position(r, n), Position(x, n))' <=> Before(x, r)')
        BY <1>1, <2>1, <2>2, <3>2, PlaceLawsNext DEF PlaceLaws, SameFile
      <4>2. \A n \in Nat :
              Beyond(Position(r, n), Position(x, n))' <=> Beyond(Position(r, n)', Position(x, n)')
        BY DEF Beyond
      <4>3. QED
        BY <2>3, <3>7, <3>8, <4>1, <4>2
    <3>10. Beyond(Position(r, Written)', Position(x, Written)')
      <4>1. \A n : n = Written' =>
               Position(r, n)' = Position(r, Written)' /\ Position(x, n)' = Position(x, Written)'
        OBVIOUS
      <4>2. QED
        BY <2>1, <3>9, <4>1
    <3>11. QED
      BY <1>2, <3>4, <3>5, <3>10, BeyondOrder
  <2>6. QED
    BY <2>4, <2>5
<1>5. QED
  BY <1>3, <1>4

--------------------------------------------------------------------------------
(* The watermarks, when the store stands still.                                 *)

LEMMA ZeroIsSound ==
    ASSUME at \in [Records -> Nat], Numbering, NEW s, NEW ch, NEW k
    PROVE  Reached(Zero, s, ch, k) /\ Passed(Zero, s, ch, k)
<1>1. Reached(Zero, s, ch, k)
  BY DEF Reached
<1>2. ASSUME NEW r \in Of(s, ch, k), IsClaimed(r)
      PROVE  Beyond(Position(r, Written), Zero)
  <2>1. r \in Records /\ at[r] # 0 /\ at[r] \in Nat /\ Written \in Nat
    BY <1>2, OfFacts, WrittenType DEF IsClaimed
  <2>2. at[r] \in 1..Written
    BY <2>1 DEF Numbering
  <2>3. QED
    BY <2>1, <2>2, FirstPosition
<1>3. QED
  BY <1>1, <1>2 DEF Passed

LEMMA MarkFollows ==
    ASSUME at \in [Records -> Nat], Numbering, UNCHANGED at, NEW s, NEW ch, NEW k,
           \A r \in Records : SuffixOf[r] = s /\ Lost(r)' => Lost(r),
           NEW w, w = Zero \/ (Reached(w, s, ch, k) /\ Passed(w, s, ch, k))
    PROVE  Reached(w, s, ch, k)' /\ Passed(w, s, ch, k)'
<1>1. Reached(w, s, ch, k) /\ Passed(w, s, ch, k)
  BY ZeroIsSound
<1>2. \A r \in Records : Position(r, Written)' = Position(r, Written)
  <2>1. Written' = Written
    BY SameStore
  <2>2. \A r, n : Position(r, n)' = Position(r, n)
    BY SameStore
  <2>3. \A r, n : n = Written' => Position(r, n)' = Position(r, Written)'
    OBVIOUS
  <2>4. QED
    BY <2>1, <2>2, <2>3
<1>3. \A r : IsClaimed(r)' <=> IsClaimed(r)
  BY SameStore
<1>4. Of(s, ch, k) \in SUBSET Records /\ \A r \in Of(s, ch, k) : SuffixOf[r] = s
  BY DEF Of
<1>5. Reached(w, s, ch, k)'
  <2>1. CASE w = Zero
    BY <2>1 DEF Reached
  <2>2. CASE w # Zero
    <3>1. PICK x \in Of(s, ch, k) : IsClaimed(x) /\ ~Beyond(w, Position(x, Written))
      BY <1>1, <2>2 DEF Reached
    <3>2. IsClaimed(x)' /\ ~Beyond(w, Position(x, Written)')
      BY <1>2, <1>3, <1>4, <3>1
    <3>3. ~Beyond(w, Position(x, Written))'
      BY <3>2 DEF Beyond
    <3>4. QED
      BY <3>2, <3>3 DEF Reached, Of
  <2>3. QED
    BY <2>1, <2>2
<1>6. Passed(w, s, ch, k)'
  <2> SUFFICES ASSUME NEW r \in Of(s, ch, k), IsClaimed(r)', Lost(r)'
               PROVE  Beyond(Position(r, Written)', w)
    BY DEF Passed, Beyond, Of
  <2>1. IsClaimed(r) /\ Lost(r)
    BY <1>3, <1>4
  <2>2. Beyond(Position(r, Written), w)
    BY <1>1, <2>1 DEF Passed
  <2>3. QED
    BY <1>2, <1>4, <2>2
<1>7. QED
  BY <1>5, <1>6

\* What Sound says, said of the values of the marks.
LEMMA SoundMemory ==
    /\ Sound(mark) => \A s \in Suffixes \ broken, ch \in Channels, k \in Kinds :
          \A w : w = mark[s][ch][k] => Reached(w, s, ch, k) /\ Passed(w, s, ch, k)
    /\ (\A s \in Suffixes \ broken', ch \in Channels, k \in Kinds :
          \A w : w = mark'[s][ch][k] => Reached(w, s, ch, k)' /\ Passed(w, s, ch, k)')
       => Sound(mark)'
  BY DEF Sound

LEMMA SoundDisk ==
    /\ Sound(diskMark) => \A s \in Suffixes \ broken, ch \in Channels, k \in Kinds :
          \A w : w = diskMark[s][ch][k] => Reached(w, s, ch, k) /\ Passed(w, s, ch, k)
    /\ (\A s \in Suffixes \ broken', ch \in Channels, k \in Kinds :
          \A w : w = diskMark'[s][ch][k] => Reached(w, s, ch, k)' /\ Passed(w, s, ch, k)')
       => Sound(diskMark)'
  BY DEF Sound

\* A mark that is moved to another place, or reset, stays sound.
LEMMA SoundFollows ==
    ASSUME TypeOK, Numbering, UNCHANGED at, Sound(mark), Sound(diskMark),
           \A r \in Records : SuffixOf[r] \notin broken' /\ Lost(r)' => Lost(r)
    PROVE  /\ (\A s \in Suffixes \ broken' :
                  mark'[s] = NoMarks \/ (s \notin broken /\ mark'[s] \in {mark[s], diskMark[s]}))
              => Sound(mark)'
           /\ (\A s \in Suffixes \ broken' :
                  diskMark'[s] = NoMarks \/ (s \notin broken /\ diskMark'[s] \in {mark[s], diskMark[s]}))
              => Sound(diskMark)'
<1>1. at \in [Records -> Nat]
  BY DEF TypeOK, OtherTypes
<1>2. \A s \in Suffixes \ broken, ch \in Channels, k \in Kinds :
         \A w : w = mark[s][ch][k] \/ w = diskMark[s][ch][k] =>
            Reached(w, s, ch, k) /\ Passed(w, s, ch, k)
  BY SoundMemory, SoundDisk
<1>3. ASSUME NEW s \in Suffixes \ broken', NEW ch \in Channels, NEW k \in Kinds, NEW w,
             w = Zero \/ (s \notin broken /\ (w = mark[s][ch][k] \/ w = diskMark[s][ch][k]))
      PROVE  Reached(w, s, ch, k)' /\ Passed(w, s, ch, k)'
  <2>1. w = Zero \/ (Reached(w, s, ch, k) /\ Passed(w, s, ch, k))
    BY <1>2, <1>3
  <2>2. \A r \in Records : SuffixOf[r] = s /\ Lost(r)' => Lost(r)
    OBVIOUS
  <2>3. QED
    BY <1>1, <2>1, <2>2, MarkFollows
<1>4. ASSUME \A s \in Suffixes \ broken' :
                mark'[s] = NoMarks \/ (s \notin broken /\ mark'[s] \in {mark[s], diskMark[s]})
      PROVE  Sound(mark)'
  <2>1. \A s \in Suffixes \ broken', ch \in Channels, k \in Kinds :
          \A w : w = mark'[s][ch][k] =>
             w = Zero \/ (s \notin broken /\ (w = mark[s][ch][k] \/ w = diskMark[s][ch][k]))
    BY <1>4, EmptyOnes
  <2>2. QED
    BY <1>3, <2>1, SoundMemory
<1>5. ASSUME \A s \in Suffixes \ broken' :
                diskMark'[s] = NoMarks \/ (s \notin broken /\ diskMark'[s] \in {mark[s], diskMark[s]})
      PROVE  Sound(diskMark)'
  <2>1. \A s \in Suffixes \ broken', ch \in Channels, k \in Kinds :
          \A w : w = diskMark'[s][ch][k] =>
             w = Zero \/ (s \notin broken /\ (w = mark[s][ch][k] \/ w = diskMark[s][ch][k]))
    BY <1>5, EmptyOnes
  <2>2. QED
    BY <1>3, <2>1, SoundDisk
<1>6. QED
  BY <1>4, <1>5

LEMMA WriteKeepsSound ==
    ASSUME TypeOK, Numbering, Sound(mark), Sound(diskMark), NEW y \in Records, Write(y)
    PROVE  Sound(mark)' /\ Sound(diskMark)'
<1>1. UNCHANGED <<mark, diskMark, broken>>
  BY DEF Write, disk, memory, history
<1>2. \A s \in Suffixes, ch \in Channels, k \in Kinds :
         mark[s][ch][k] \in Points /\ diskMark[s][ch][k] \in Points
  BY DEF TypeOK, MemoryTypes, DiskTypes, Marks
<1>3. \A s \in Suffixes \ broken, ch \in Channels, k \in Kinds :
         \A w : w = mark[s][ch][k] => Reached(w, s, ch, k)' /\ Passed(w, s, ch, k)'
  BY <1>2, SoundMemory, WriteKeepsReached, WriteKeepsPassed
<1>4. \A s \in Suffixes \ broken, ch \in Channels, k \in Kinds :
         \A w : w = diskMark[s][ch][k] => Reached(w, s, ch, k)' /\ Passed(w, s, ch, k)'
  BY <1>2, SoundDisk, WriteKeepsReached, WriteKeepsPassed
<1>5. QED
  BY <1>1, <1>3, <1>4, SoundMemory, SoundDisk

\* A chunk that is applied loses nothing of what its request has seen, ...
LEMMA ChunkPassed ==
    ASSUME TypeOK, Stages, Numbering, SoundInView, RestIsPending, Carried, Apply,
           suffix \notin broken, NEW k \in Kinds, NEW r \in Of(suffix, channel, k),
           Claimed(r, view), Lost(r)
    PROVE  Beyond(Position(r, view[k]), Advanced(mark[suffix][channel][k], k, Stored(Chunk)))
<1> DEFINE w == mark[suffix][channel][k]
           v == Advanced(w, k, Stored(Chunk))
<1>1. pc = "append" /\ job.appends = {} /\ rest # {}
  BY DEF Apply, Stages
<1>2. /\ suffix \in Suffixes /\ channel \in Channels
      /\ Stored(rest) = PendingFor(suffix, channel, view, mark[suffix][channel])
  BY <1>1 DEF Stages, RestIsPending
<1>3. w \in Points
  BY <1>2 DEF TypeOK, MemoryTypes, Marks
<1>4. r \in Records /\ SuffixOf[r] = suffix /\ ChannelOf[r] = channel /\ KindOf(r) = k /\ r # Msg
  BY OfFacts, MsgIsNew
<1>5. Beyond(Position(r, view[k]), w)
  BY <1>1, <1>2 DEF SoundInView, Working
<1>6. r \in rest
  <2>1. r \in PendingFor(suffix, channel, view, mark[suffix][channel])
    BY <1>4, <1>5 DEF PendingFor
  <2>2. QED
    BY <1>2, <2>1 DEF Stored
<1>7. Stored(Chunk) \in SUBSET Records /\ Chunk \in SUBSET rest
  BY ChunkType
<1>8. v = w \/ \E x \in Stored(Chunk) : KindOf(x) = k /\ v = Position(x, view[k])
  BY <1>3, <1>7, AdvancedFacts
<1>9. r \notin Chunk
  <2> SUFFICES ASSUME r \in Chunk PROVE FALSE
    OBVIOUS
  <2>1. r \in Stored(Chunk) /\ r \notin dropped
    BY <1>4 DEF Stored, Lost
  <2>2. r \in DOMAIN place
    BY <1>1, <2>1 DEF Carried
  <2>3. r \in Stored(DOMAIN place)
    BY <1>4, <2>2 DEF Stored
  <2>4. copies[place[r]][r] > 0 /\ place[r] \in Cases
    BY <1>1, <2>2, <2>3, ApplyParts DEF Carried
  <2>5. QED
    BY <2>4 DEF Lost, HasCopy
<1>10. ASSUME NEW x \in Stored(Chunk), KindOf(x) = k
       PROVE  Beyond(Position(r, view[k]), Position(x, view[k]))
  <2>1. Precedes(x, r)
    BY <1>6, <1>9, RestIsABatch, ChunkBegins DEF Stored
  <2>2. x # Msg
    BY DEF Stored
  <2>3. QED
    BY <1>4, <1>10, <2>1, <2>2, StoredPrecede DEF Seat
<1> HIDE DEF w, v
<1>11. Beyond(Position(r, view[k]), v)
  BY <1>5, <1>8, <1>10
<1>12. QED
  BY <1>11 DEF w, v

\* ... nor of what the store has written since.
LEMMA ChunkSound ==
    ASSUME TypeOK, Stages, Numbering, Sound(mark), SoundInView, RestIsPending, Carried, Apply,
           suffix \notin broken, NEW k \in Kinds, NEW v,
           v = Advanced(mark[suffix][channel][k], k, Stored(Chunk))
    PROVE  Reached(v, suffix, channel, k) /\ Passed(v, suffix, channel, k)
<1> DEFINE w == mark[suffix][channel][k]
<1>1. pc = "append" /\ rest # {}
  BY DEF Apply, Stages
<1>2. /\ suffix \in Suffixes /\ channel \in Channels
      /\ Stored(rest) = PendingFor(suffix, channel, view, mark[suffix][channel])
  BY <1>1 DEF Stages, RestIsPending
<1>3. w \in Points
  BY <1>2 DEF TypeOK, MemoryTypes, Marks
<1>4. Stored(Chunk) \in SUBSET Records /\ Chunk \in SUBSET rest
  BY ChunkType
<1>5. v = w \/ \E x \in Stored(Chunk) : KindOf(x) = k /\ v = Position(x, view[k])
  BY <1>3, <1>4, AdvancedFacts
<1>6. Reached(w, suffix, channel, k) /\ Passed(w, suffix, channel, k)
  BY <1>2, SoundMemory
<1>7. CASE v = w
  BY <1>6, <1>7
<1>8. ASSUME NEW x \in Stored(Chunk), KindOf(x) = k, v = Position(x, view[k])
      PROVE  Reached(v, suffix, channel, k) /\ Passed(v, suffix, channel, k)
  <2>1. at \in [Records -> Nat] /\ Written \in Nat /\ view \in [Kinds -> Nat]
    BY WrittenType, JobTypes DEF TypeOK, OtherTypes
  <2>2. /\ view[k] \in Nat /\ view["channel"] \in Nat
        /\ view["channel"] <= Written /\ view["think"] = Written
    BY <1>1, <2>1, JobTypes DEF Numbering, Working
  <2>3. view[k] <= Written
    BY <2>2 DEF Kinds
  <2>4. /\ x \in Records /\ SuffixOf[x] = suffix /\ ChannelOf[x] = channel /\ Claimed(x, view)
    BY <1>2, <1>4 DEF PendingFor, Stored
  <2>5. at[x] # 0 /\ at[x] <= view[k] /\ x \in Of(suffix, channel, k)
    BY <1>8, <2>4 DEF Claimed, Seen, Of
  <2>6. k = "think" => /\ Placeholder[x] \in Records /\ KindOf(Placeholder[x]) = "channel"
                       /\ at[Placeholder[x]] # 0 /\ at[Placeholder[x]] <= view["channel"]
    BY <1>8, <2>4, Placeholders DEF Claimed, Seen
  <2>7. IsClaimed(x)
    BY <1>8, <2>5, <2>6 DEF IsClaimed
  <2>8. Position(x, view[k]) \in Points /\ Position(x, Written) \in Points
    BY <2>4, PositionType
  <2>9. ~Beyond(v, Position(x, Written))
    BY <1>8, <2>1, <2>2, <2>3, <2>4, PositionGrows
  <2>10. Reached(v, suffix, channel, k)
    BY <2>5, <2>7, <2>9 DEF Reached
  <2>11. ASSUME NEW r \in Of(suffix, channel, k), IsClaimed(r), Lost(r)
         PROVE  Beyond(Position(r, Written), v)
    <3>1. r \in Records /\ SameFile(r, x) /\ ChannelOf[r] = ChannelOf[x] /\ KindOf(r) = k
      BY <2>5, OfFacts
    <3>2. Position(r, view[k]) \in Points /\ Position(r, Written) \in Points
      BY <3>1, PositionType
    <3>3. CASE Claimed(r, view)
      <4>1. Beyond(Position(r, view[k]), v)
        BY <2>11, <3>3, ChunkPassed
      <4>2. ~Beyond(Position(r, view[k]), Position(r, Written))
        BY <2>1, <2>2, <2>3, <3>1, PositionGrows
      <4>3. QED
        BY <1>8, <2>8, <3>2, <4>1, <4>2, BeyondOrder
    <3>4. CASE ~Claimed(r, view)
      <4>1. r # x
        BY <2>4, <3>4
      <4>2. at[r] # 0 /\ at[r] \in Nat /\ at[x] \in Nat /\ at[r] # at[x]
        BY <2>1, <2>4, <2>5, <2>11, <3>1, <4>1 DEF IsClaimed, Numbering
      <4>3. ~Before(r, x)
        <5>1. CASE at[r] > view[k]
          <6>1. at[x] < at[r]
            BY <2>2, <2>5, <4>2, <5>1
          <6>2. QED
            BY <2>4, <2>5, <2>11, <3>1, <6>1 DEF Lost, OutOfOrder
        <5>2. CASE ~(at[r] > view[k])
          <6>1. Seen(r, view)
            BY <2>2, <3>1, <4>2, <5>2 DEF Seen
          <6>2. k = "think" /\ ~Seen(Placeholder[r], view)
            BY <3>1, <3>4, <6>1 DEF Claimed
          <6>3. Placeholder[r] \in Records /\ KindOf(Placeholder[r]) = "channel"
            BY <3>1, <6>2, Placeholders
          <6>4. at[Placeholder[r]] # 0 /\ at[Placeholder[r]] \in Nat
            BY <2>1, <2>11, <3>1, <6>2, <6>3 DEF IsClaimed
          <6>5. ~(at[Placeholder[r]] <= view["channel"])
            BY <6>2, <6>3, <6>4 DEF Seen
          <6>6. at[Placeholder[x]] # 0 /\ at[Placeholder[x]] < at[Placeholder[r]]
            <7>1. at[Placeholder[x]] \in Nat
              BY <2>1, <2>6, <6>2
            <7>2. QED
              BY <2>2, <2>6, <6>2, <6>4, <6>5, <7>1
          <6>7. QED
            BY <2>4, <2>5, <2>11, <3>1, <6>2, <6>6 DEF Lost, OutOfOrder
        <5>3. QED
          BY <5>1, <5>2
      <4>4. Before(x, r)
        BY <2>1, <2>4, <3>1, <4>2, <4>3, BeforeOrder
      <4>5. at[r] \in 1..Written /\ at[x] \in 1..Written
        BY <2>1, <2>4, <2>5, <3>1, <4>2 DEF Numbering
      <4>6. Beyond(Position(r, Written), Position(x, Written))
        BY <2>1, <2>4, <3>1, <4>4, <4>5, PositionsInOrder
      <4>7. QED
        BY <1>8, <2>8, <2>9, <3>2, <4>6, BeyondOrder
    <3>5. QED
      BY <3>3, <3>4
  <2>12. QED
    BY <2>10, <2>11 DEF Passed
<1> HIDE DEF w
<1>9. QED
  BY <1>5, <1>7, <1>8

--------------------------------------------------------------------------------
(* What the steps of a request leave as it is.                                  *)

\* Only a write moves the store, and only the two reads what a request has seen.
LEMMA Seeing ==
    ASSUME TypeOK, Stages, Next
    PROVE  \/ \E y \in Records : Write(y)
           \/ ReadChannelFile
           \/ ReadThinkFile
           \/ /\ UNCHANGED at
              /\ pc' # "view2"
              /\ pc' \in Working => pc \in Working /\ view' = view /\ suffix' = suffix
<1> USE DEF suffix, view, Working, Saving
<1>1. job \in Jobs
  BY JobTypes
<1> DEFINE Quiet == /\ UNCHANGED at
                    /\ pc' # "view2"
                    /\ pc' \in Working => pc \in Working /\ view' = view /\ suffix' = suffix
<1>2. ASSUME NEW o \in {"trigger", "rebuild", "locate"}, NEW s \in Suffixes,
             NEW m \in Channels \cup {NoChannel}, Begin(o, s, m)
      PROVE  Quiet
  BY <1>2 DEF Begin
<1>3. CASE EnsureKnown \/ EnsureRead
  BY <1>3 DEF EnsureKnown, EnsureRead, AfterEnsure
<1>4. CASE EnsureFails \/ Finish \/ DecideFails \/ AppendFails \/ SaveFails \/ Crash
  BY <1>4 DEF EnsureFails, Finish, DecideFails, AppendFails, SaveFails, Crash, Fail, Idle
<1>5. ASSUME NEW c \in Cases, ClearCopies(c) PROVE Quiet
  BY <1>5 DEF ClearCopies, Fail, Idle
<1>6. CASE ResetCurrent \/ ResetMark
  BY <1>6 DEF ResetCurrent, ResetMark, Fail, Idle
<1>7. CASE NextChannel \/ Decide
  <2>1. job'.view = job.view /\ job'.suffix = job.suffix
    BY <1>1, <1>7 DEF NextChannel, Decide, Jobs
  <2>2. QED
    BY <1>7, <2>1 DEF NextChannel, Decide
<1>8. ASSUME NEW c \in Cases, NEW k \in Kinds, AppendCopies(c, k) PROVE Quiet
  <2>1. job'.view = job.view /\ job'.suffix = job.suffix
    BY <1>1, <1>8 DEF AppendCopies, Jobs
  <2>2. QED
    BY <1>8, <2>1 DEF AppendCopies
<1>9. CASE Apply
  <2>1. job'.view = job.view /\ job'.suffix = job.suffix
    BY <1>1, <1>9 DEF Apply, Jobs
  <2>2. QED
    BY <1>9, <2>1 DEF Apply
<1>10. CASE SaveTree \/ SaveCurrent \/ SaveMark
  BY <1>10 DEF SaveTree, SaveCurrent, SaveMark
<1>11. QED
  BY <1>2, <1>3, <1>4, <1>5, <1>6, <1>7, <1>8, <1>9, <1>10 DEF Next

LEMMA ReadFacts ==
    ASSUME TypeOK
    PROVE  /\ ReadChannelFile => /\ UNCHANGED at /\ pc = "view" /\ pc' = "view2" /\ suffix' = suffix
                                 /\ view'["channel"] = Written
                                 /\ UNCHANGED <<mark, broken>>
           /\ ReadThinkFile => /\ UNCHANGED at /\ pc = "view2" /\ pc' = "next" /\ suffix' = suffix
                               /\ view'["channel"] = view["channel"]
                               /\ view'["think"] = Written
                               /\ UNCHANGED <<mark, broken>>
<1> USE DEF suffix, view
<1>1. job \in Jobs /\ view \in [Kinds -> Nat]
  BY JobTypes
<1>2. ASSUME ReadChannelFile
      PROVE  job'.suffix = job.suffix /\ job'.view = [view EXCEPT !["channel"] = Written]
  BY <1>1, <1>2 DEF ReadChannelFile, Jobs
<1>3. ASSUME ReadThinkFile
      PROVE  job'.suffix = job.suffix /\ job'.view = [view EXCEPT !["think"] = Written]
  BY <1>1, <1>3 DEF ReadThinkFile, Jobs
<1>4. QED
  BY <1>1, <1>2, <1>3 DEF ReadChannelFile, ReadThinkFile, Kinds, memory, history

LEMMA NumberingStay == ASSUME TypeOK, Stages, Numbering, Next PROVE Numbering'
<1>1. ASSUME NEW y \in Records, Write(y) PROVE Numbering'
  BY <1>1, WriteNumbering
<1>2. ASSUME UNCHANGED at,
             pc' \in {"view2"} \cup Working => view'["channel"] <= Written,
             pc' \in Working => view'["think"] = Written
      PROVE  Numbering'
  <2>1. Written' = Written
    BY <1>2, SameStore
  <2>2. QED
    BY <1>2, <2>1 DEF Numbering
<1>3. Written \in Nat
  BY WrittenType DEF TypeOK, OtherTypes
<1>4. CASE ReadChannelFile
  BY <1>2, <1>4, <1>3, ReadFacts DEF Working, Saving
<1>5. CASE ReadThinkFile
  BY <1>2, <1>5, ReadFacts DEF Numbering
<1>6. CASE /\ UNCHANGED at
           /\ pc' # "view2"
           /\ pc' \in Working => pc \in Working /\ view' = view /\ suffix' = suffix
  BY <1>2, <1>6 DEF Numbering
<1>7. QED
  BY <1>1, <1>4, <1>5, <1>6, Seeing

\* Nothing is lost but by a rebuild that broke off.
LEMMA LostBefore ==
    ASSUME TypeOK, Stages, OwnParts, Next, UNCHANGED at,
           NEW r \in Records, SuffixOf[r] \notin broken', Lost(r)'
    PROVE  Lost(r)
<1>1. OutOfOrder(r)' <=> OutOfOrder(r)
  BY SameStore
<1>2. dropped \subseteq dropped'
  BY DEF Next, Write, Begin, EnsureKnown, EnsureRead, EnsureFails, ClearCopies, ResetCurrent,
         ResetMark, ReadChannelFile, ReadThinkFile, NextChannel, Finish, Decide, DecideFails,
         AppendCopies, AppendFails, Apply, SaveTree, SaveCurrent, SaveMark, SaveFails, Crash,
         history
<1>3. copies \in [Cases -> [Records -> Nat]]
  BY DEF TypeOK, DiskTypes
<1>4. ASSUME NEW d \in Cases, copies[d][r] > 0 PROVE copies'[d][r] > 0
  <2>1. CASE UNCHANGED copies
    BY <1>4, <2>1
  <2>2. ASSUME NEW c \in Cases, NEW k \in Kinds, AppendCopies(c, k) PROVE copies'[d][r] > 0
    <3>1. copies'[d][r] = copies[d][r] \/ copies'[d][r] = copies[d][r] + 1
      BY <1>3, <2>2 DEF AppendCopies
    <3>2. copies[d][r] \in Nat
      BY <1>3
    <3>3. QED
      BY <1>4, <3>1, <3>2
  <2>3. ASSUME NEW c \in Cases, ClearCopies(c) PROVE copies'[d][r] > 0
    <3>1. c \in OwnCases(suffix) /\ broken' = broken \cup {suffix} /\ pc = "clear"
      BY <2>3 DEF OwnParts, ClearCopies
    <3>2. suffix \in Suffixes /\ SuffixOf[r] \in Suffixes /\ SuffixOf[r] # suffix
      BY <3>1, SuffixType, SuffixOfRecords
    <3>3. d \in OwnCases(SuffixOf[r])
      BY <1>4 DEF OwnParts
    <3>4. d # c
      BY <3>1, <3>2, <3>3, CasesApart
    <3>5. PICK K \in SUBSET Kinds : copies' = [copies EXCEPT ![c] =
              [x \in Records |-> IF KindOf(x) \in K THEN 0 ELSE @[x]]]
      BY <2>3 DEF ClearCopies
    <3>6. QED
      BY <1>4, <1>3, <3>4, <3>5
  <2>4. QED
    BY <2>1, <2>2, <2>3 DEF Next, Write, Begin, EnsureKnown, EnsureRead, EnsureFails, ResetCurrent,
         ResetMark, ReadChannelFile, ReadThinkFile, NextChannel, Finish, Decide, DecideFails,
         AppendFails, Apply, SaveTree, SaveCurrent, SaveMark, SaveFails, Crash, disk
<1>5. QED
  BY <1>1, <1>2, <1>4 DEF Lost, HasCopy

--------------------------------------------------------------------------------
(* The watermarks stay sound.                                                   *)

\* Apart from a chunk, a step moves marks between the disk and the memory, or
\* resets them.
LEMMA MarksMove ==
    ASSUME TypeOK, Stages, Pointing, Next, ~Apply, NEW s \in Suffixes \ broken'
    PROVE  /\ mark'[s] = NoMarks \/ (s \notin broken /\ mark'[s] \in {mark[s], diskMark[s]})
           /\ diskMark'[s] = NoMarks \/ (s \notin broken /\ diskMark'[s] \in {mark[s], diskMark[s]})
<1>1. mark \in [Suffixes -> Marks] /\ diskMark \in [Suffixes -> Marks]
  BY DEF TypeOK, DiskTypes, MemoryTypes
<1>2. CASE ResetMark
  <2>1. pc = "clearmark" /\ suffix \in Suffixes /\ mark[suffix] = NoMarks /\ UNCHANGED mark
    BY <1>2, SuffixType DEF ResetMark, Pointing, memory
  <2>2. CASE UNCHANGED <<diskMark, broken>>
    BY <2>1, <2>2
  <2>3. CASE diskMark' = [diskMark EXCEPT ![suffix] = NoMarks] /\ broken' = broken \ {suffix}
    BY <1>1, <2>1, <2>3
  <2>4. QED
    BY <1>2, <2>2, <2>3 DEF ResetMark
<1>3. CASE EnsureRead
  <2>1. suffix \in Suffixes
    BY <1>3, SuffixType DEF EnsureRead
  <2>2. QED
    BY <1>3, <1>1, <2>1 DEF EnsureRead, disk, history
<1>4. CASE ResetCurrent
  <2>1. suffix \in Suffixes
    BY <1>4, SuffixType DEF ResetCurrent
  <2>2. QED
    BY <1>4, <1>1, <2>1 DEF ResetCurrent, history
<1>5. CASE SaveMark
  <2>1. suffix \in Suffixes
    BY <1>5, SuffixType DEF SaveMark
  <2>2. QED
    BY <1>5, <1>1, <2>1 DEF SaveMark, history, memory
<1>6. CASE Crash
  BY <1>6 DEF Crash, disk, history
<1>7. CASE UNCHANGED <<mark, diskMark>> /\ broken \subseteq broken'
  BY <1>7
<1>8. ASSUME NEW c \in Cases, ClearCopies(c)
      PROVE  UNCHANGED <<mark, diskMark>> /\ broken \subseteq broken'
  BY <1>8 DEF ClearCopies, memory
<1>9. QED
  BY <1>2, <1>3, <1>4, <1>5, <1>6, <1>7, <1>8
  DEF Next, Write, Begin, EnsureKnown, EnsureFails,
      ReadChannelFile, ReadThinkFile, NextChannel, Finish, Decide, DecideFails,
      AppendCopies, AppendFails, SaveTree, SaveCurrent, SaveFails, disk, memory, history

LEMMA ApplyMarks ==
    ASSUME TypeOK, Stages, RestIsPending, Apply
    PROVE  /\ UNCHANGED <<at, copies, diskMark, dropped, broken>>
           /\ suffix \in Suffixes /\ channel \in Channels
           /\ suffix' = suffix /\ view' = view /\ pc = "append"
           /\ \A s \in Suffixes, ch \in Channels, k \in Kinds :
                 mark'[s][ch][k] = IF s = suffix /\ ch = channel
                                   THEN Advanced(mark[suffix][channel][k], k, Stored(Chunk))
                                   ELSE mark[s][ch][k]
<1>1. pc = "append" /\ UNCHANGED <<at, copies, diskMark, dropped, broken>>
  BY DEF Apply, disk, history
<1>2. suffix \in Suffixes /\ channel \in Channels
  BY <1>1 DEF Stages, RestIsPending
<1>3. suffix' = suffix /\ view' = view
  <2>1. job'.suffix = job.suffix /\ job'.view = job.view
    BY JobTypes DEF Apply, Jobs
  <2>2. QED
    BY <2>1 DEF suffix, view
<1>4. mark \in [Suffixes -> Marks] /\ mark[suffix] \in [Channels -> [Kinds -> Points]]
  BY <1>2 DEF TypeOK, MemoryTypes, Marks
<1>5. mark' = [mark EXCEPT ![suffix][channel] =
                 [k \in Kinds |-> Advanced(mark[suffix][channel][k], k, Stored(Chunk))]]
  BY DEF Apply
<1>6. ASSUME NEW s \in Suffixes, NEW ch \in Channels, NEW k \in Kinds
      PROVE  mark'[s][ch][k] = IF s = suffix /\ ch = channel
                               THEN Advanced(mark[suffix][channel][k], k, Stored(Chunk))
                               ELSE mark[s][ch][k]
  BY <1>2, <1>4, <1>5 DEF Marks
<1>7. QED
  BY <1>1, <1>2, <1>3, <1>6

LEMMA SoundStay ==
    ASSUME TypeOK, Stages, OwnParts, Numbering, Sound(diskMark), Sound(mark), SoundInView,
           RestIsPending, Carried, Pointing, Next
    PROVE  Sound(diskMark)' /\ Sound(mark)'
<1>1. ASSUME NEW y \in Records, Write(y) PROVE Sound(diskMark)' /\ Sound(mark)'
  BY <1>1, WriteKeepsSound
<1>2. ASSUME UNCHANGED at PROVE \A r \in Records : SuffixOf[r] \notin broken' /\ Lost(r)' => Lost(r)
  BY <1>2, LostBefore
<1>3. ASSUME UNCHANGED at, ~Apply PROVE Sound(diskMark)' /\ Sound(mark)'
  <2>1. \A s \in Suffixes \ broken' :
           mark'[s] = NoMarks \/ (s \notin broken /\ mark'[s] \in {mark[s], diskMark[s]})
    BY <1>3, MarksMove
  <2>2. \A s \in Suffixes \ broken' :
           diskMark'[s] = NoMarks \/ (s \notin broken /\ diskMark'[s] \in {mark[s], diskMark[s]})
    BY <1>3, MarksMove
  <2>3. QED
    BY <1>2, <1>3, <2>1, <2>2, SoundFollows
<1>4. CASE Apply
  <2>1. /\ UNCHANGED <<at, diskMark, broken>> /\ at \in [Records -> Nat]
        /\ suffix \in Suffixes
    BY <1>4, ApplyMarks DEF TypeOK, OtherTypes
  <2>2. Sound(diskMark)'
    BY <1>2, <2>1, SoundFollows
  <2>3. ASSUME NEW s \in Suffixes \ broken', NEW ch \in Channels, NEW k \in Kinds,
               NEW w, w = mark'[s][ch][k]
        PROVE  Reached(w, s, ch, k)' /\ Passed(w, s, ch, k)'
    <3>1. \A r \in Records : SuffixOf[r] = s /\ Lost(r)' => Lost(r)
      BY <1>2, <2>1
    <3>2. Reached(w, s, ch, k) /\ Passed(w, s, ch, k)
      <4>1. CASE s = suffix /\ ch = channel
        <5>1. w = Advanced(mark[suffix][channel][k], k, Stored(Chunk))
          BY <1>4, <2>3, <4>1, ApplyMarks
        <5>2. QED
          BY <1>4, <2>1, <4>1, <5>1, ChunkSound
      <4>2. CASE ~(s = suffix /\ ch = channel)
        <5>1. w = mark[s][ch][k]
          BY <1>4, <2>3, <4>2, ApplyMarks
        <5>2. QED
          BY <2>1, <5>1, SoundMemory
      <4>3. QED
        BY <4>1, <4>2
    <3>3. QED
      BY <2>1, <3>1, <3>2, MarkFollows
  <2>4. QED
    BY <2>2, <2>3, SoundMemory
<1>5. QED
  BY <1>1, <1>3, <1>4, Seeing, ReadFacts

--------------------------------------------------------------------------------
(* ... also for what a request has seen.                                        *)

\* What SoundInView says of one record, with its terms named.
LEMMA SoundOfView ==
    /\ SoundInView /\ suffix \notin broken =>
         \A ch \in Channels, k \in Kinds :
           (pc \in Working \/ (pc = "view2" /\ k = "channel")) =>
             \A r \in Of(suffix, ch, k) :
                Claimed(r, view) /\ Lost(r) => Beyond(Position(r, view[k]), mark[suffix][ch][k])
    /\ (suffix' \notin broken' =>
          \A ch \in Channels, k \in Kinds :
            (pc' \in Working \/ (pc' = "view2" /\ k = "channel")) =>
              \A s, v : s = suffix' /\ v = view' =>
                \A r \in Of(s, ch, k) :
                   Claimed(r, v)' /\ Lost(r)' => \A n : n = v[k] =>
                      Beyond(Position(r, n)', mark'[s][ch][k]))
       => SoundInView'
<1>1. \A s, ch, k : Of(s, ch, k)' = Of(s, ch, k)
  BY DEF Of
<1>2. /\ \A r, v : v = view' => (Claimed(r, v)' <=> Claimed(r, view)')
      /\ \A r, v, k, n : v = view' /\ n = v[k] => Position(r, n)' = Position(r, view[k])'
  OBVIOUS
<1>3. QED
  BY <1>1, <1>2 DEF SoundInView, Beyond

\* A step within the work of a request changes nothing it has seen but the mark
\* that a chunk moves.
LEMMA WorkingOn ==
    ASSUME TypeOK, Stages, Next, pc \in Working, pc' \in Working
    PROVE  /\ UNCHANGED <<at, broken>> /\ suffix' = suffix /\ view' = view
           /\ Apply \/ (UNCHANGED mark)
<1> USE DEF suffix, view, Working, Saving
<1>1. job \in Jobs
  BY JobTypes
<1>2. pc \notin {"idle", "ensure", "clear", "clearmark", "view", "view2"}
  OBVIOUS
<1>3. pc' # "idle"
  OBVIOUS
<1>4. CASE NextChannel \/ Decide \/ \E c \in Cases, k \in Kinds : AppendCopies(c, k)
  <2>1. job'.view = job.view /\ job'.suffix = job.suffix
    BY <1>1, <1>4 DEF NextChannel, Decide, AppendCopies, Jobs
  <2>2. QED
    BY <1>4, <2>1 DEF NextChannel, Decide, AppendCopies, memory, history
<1>5. CASE Apply
  <2>1. job'.view = job.view /\ job'.suffix = job.suffix
    BY <1>1, <1>5 DEF Apply, Jobs
  <2>2. QED
    BY <1>5, <2>1 DEF Apply, history
<1>6. CASE SaveTree \/ SaveCurrent \/ SaveMark
  BY <1>6 DEF SaveTree, SaveCurrent, SaveMark, memory, history
<1>7. QED
  BY <1>2, <1>3, <1>4, <1>5, <1>6
  DEF Next, Write, Begin, EnsureKnown, EnsureRead, EnsureFails, ClearCopies, ResetCurrent, ResetMark,
      ReadChannelFile, ReadThinkFile, Finish, DecideFails, AppendFails, SaveFails, Crash, Fail, Idle

LEMMA WriteKeepsView ==
    ASSUME TypeOK, Stages, Numbering, SoundInView, NEW y \in Records, Write(y)
    PROVE  SoundInView'
<1>1. /\ pc' = pc /\ suffix' = suffix /\ view' = view /\ UNCHANGED <<mark, broken>>
      /\ pc \in {"idle", "view", "view2"}
  BY DEF Write, memory, history, suffix, view
<1>2. ASSUME pc = "view2", suffix \notin broken, NEW ch \in Channels, NEW r \in Of(suffix, ch, "channel"),
             NEW v, v = view, Claimed(r, v)', Lost(r)', NEW n, n = v["channel"]
      PROVE  Beyond(Position(r, n)', mark[suffix][ch]["channel"])
  <2>1. n \in Nat /\ n <= Written /\ Written \in Nat
    BY <1>2, JobTypes, WriteFacts DEF Numbering
  <2>2. r \in Records /\ KindOf(r) = "channel"
    BY OfFacts
  <2>3. at'[r] # 0 /\ at'[r] <= n
    BY <1>2, <2>2 DEF Claimed, Seen
  <2>4. r # y /\ at'[r] = at[r]
    BY <2>1, <2>2, <2>3, WriteFacts
  <2>5. Claimed(r, view) /\ IsClaimed(r)
    BY <1>2, <2>2, <2>3, <2>4 DEF Claimed, Seen, IsClaimed
  <2>6. Lost(r)
    BY <1>2, <2>2, <2>5, WriteKeepsDisorder DEF Lost, HasCopy, Write, disk, history
  <2>7. Beyond(Position(r, n), mark[suffix][ch]["channel"])
    BY <1>2, <2>5, <2>6 DEF SoundInView, Kinds
  <2>8. at[r] \in 1..n
    BY <2>1, <2>2, <2>3, <2>4, WriteFacts
  <2>9. Position(r, n)' = Position(r, n)
    BY <2>1, <2>2, <2>8, WriteKeepsPositions
  <2>10. QED
    BY <2>7, <2>9
<1>3. QED
  BY <1>1, <1>2, SoundOfView DEF Working, Saving

\* The two reads: what the files show now is what Sound speaks of.
LEMMA ReadKeepsView ==
    ASSUME TypeOK, Stages, OwnParts, Numbering, Sound(mark), SoundInView, Next,
           ReadChannelFile \/ ReadThinkFile
    PROVE  SoundInView'
<1>1. /\ UNCHANGED <<at, mark, broken>> /\ suffix' = suffix
      /\ \/ pc' = "view2" /\ view'["channel"] = Written
         \/ /\ pc = "view2" /\ pc' = "next"
            /\ view'["channel"] = view["channel"] /\ view'["think"] = Written
  BY ReadFacts
<1>2. suffix \in Suffixes /\ at \in [Records -> Nat]
  BY SuffixType DEF ReadChannelFile, ReadThinkFile, TypeOK, OtherTypes
<1>3. ASSUME suffix \notin broken, NEW ch \in Channels, NEW k \in Kinds, NEW r \in Of(suffix, ch, k),
             NEW v, Claimed(r, v)', Lost(r)',
             \/ v[k] = Written
             \/ k = "channel" /\ pc = "view2" /\ v["channel"] = view["channel"],
             NEW n, n = v[k]
      PROVE  Beyond(Position(r, n)', mark[suffix][ch][k])
  <2>1. r \in Records /\ KindOf(r) = k /\ SuffixOf[r] = suffix
    BY OfFacts
  <2>2. Claimed(r, v) /\ Lost(r) /\ Position(r, n)' = Position(r, n)
    <3>1. Claimed(r, v)
      BY <1>1, <1>3, SameStore
    <3>2. Lost(r)
      BY <1>1, <1>3, <2>1, LostBefore
    <3>3. Position(r, n)' = Position(r, n)
      BY <1>1, SameStore
    <3>4. QED
      BY <3>1, <3>2, <3>3
  <2>3. CASE v[k] = Written
    <3>1. IsClaimed(r)
      BY <2>2 DEF Claimed, Seen, IsClaimed
    <3>2. Passed(mark[suffix][ch][k], suffix, ch, k)
      BY <1>2, <1>3 DEF Sound
    <3>3. QED
      BY <1>3, <2>2, <2>3, <3>1, <3>2 DEF Passed
  <2>4. CASE k = "channel" /\ pc = "view2" /\ v["channel"] = view["channel"]
    <3>1. Claimed(r, view)
      BY <2>1, <2>2, <2>4 DEF Claimed, Seen
    <3>2. QED
      BY <1>3, <2>2, <2>4, <3>1 DEF SoundInView
  <2>5. QED
    BY <1>3, <2>3, <2>4
<1>4. \A k \in Kinds : pc' \in Working \/ (pc' = "view2" /\ k = "channel") =>
         \/ view'[k] = Written
         \/ k = "channel" /\ pc = "view2" /\ view'["channel"] = view["channel"]
  BY <1>1 DEF Kinds, Working, Saving
<1>5. QED
  BY <1>1, <1>3, <1>4, SoundOfView

LEMMA SoundInViewStay ==
    ASSUME TypeOK, Stages, OwnParts, Numbering, Sound(mark), SoundInView,
           RestIsPending, Carried, Next
    PROVE  SoundInView'
<1>1. ASSUME NEW y \in Records, Write(y) PROVE SoundInView'
  BY <1>1, WriteKeepsView
<1>2. CASE ReadChannelFile \/ ReadThinkFile
  BY <1>2, ReadKeepsView
<1>3. CASE pc' # "view2" /\ pc' \notin Working
  BY <1>3, SoundOfView
<1>4. CASE pc \in Working /\ pc' \in Working
  <2>1. UNCHANGED <<at, broken>> /\ suffix' = suffix /\ view' = view /\ (Apply \/ (UNCHANGED mark))
    BY <1>4, WorkingOn
  <2>2. suffix \in Suffixes
    BY <1>4 DEF Stages, Working, Saving
  <2>3. ASSUME suffix \notin broken, NEW ch \in Channels, NEW k \in Kinds, NEW r \in Of(suffix, ch, k),
               NEW v, v = view, Claimed(r, v)', Lost(r)', NEW n, n = v[k]
        PROVE  Beyond(Position(r, n)', mark'[suffix][ch][k])
    <3>1. r \in Records /\ SuffixOf[r] = suffix
      BY OfFacts
    <3>2. Claimed(r, view)
      BY <2>1, <2>3, SameStore
    <3>3. Lost(r)
      BY <2>1, <2>3, <3>1, LostBefore
    <3>4. Position(r, n)' = Position(r, n)
      BY <2>1, SameStore
    <3>5. Beyond(Position(r, view[k]), mark[suffix][ch][k])
      BY <1>4, <2>3, <3>2, <3>3, SoundOfView
    <3>6. CASE mark'[suffix][ch][k] = mark[suffix][ch][k]
      BY <2>3, <3>4, <3>5, <3>6
    <3>7. CASE Apply /\ ch = channel
      <4>1. mark'[suffix][ch][k] = Advanced(mark[suffix][channel][k], k, Stored(Chunk))
        BY <2>2, <3>7, ApplyMarks
      <4>2. Beyond(Position(r, view[k]), Advanced(mark[suffix][channel][k], k, Stored(Chunk)))
        BY <2>3, <3>2, <3>3, <3>7, ChunkPassed
      <4>3. QED
        BY <2>3, <3>4, <4>1, <4>2
    <3>8. CASE Apply /\ ch # channel
      BY <2>2, <3>6, <3>8, ApplyMarks
    <3>9. QED
      BY <2>1, <3>6, <3>7, <3>8
  <2>4. QED
    BY <2>1, <2>3, SoundOfView
<1>5. QED
  BY <1>1, <1>2, <1>3, <1>4, Seeing

--------------------------------------------------------------------------------
(* The batch and the chunk.                                                     *)

LEMMA SamePrecedes ==
    ASSUME UNCHANGED at, view' = view
    PROVE  \A x, y : Precedes(x, y)' <=> Precedes(x, y)
<1>1. \A r, n : Position(r, n)' = Position(r, n)
  BY SameStore
<1>2. \A r, n : n = view[KindOf(r)] => Position(r, n)' = Position(r, view[KindOf(r)])'
  BY DEF KindOf
<1>3. \A r : Position(r, view[KindOf(r)])' = Position(r, view[KindOf(r)])
  BY <1>1, <1>2
<1>4. \A x, y : x = Msg \/ y = Msg => (Precedes(x, y)' <=> Precedes(x, y))
  BY DEF Precedes
<1>5. ASSUME NEW x, NEW y, x # Msg, y # Msg
      PROVE  Precedes(x, y)' <=> Precedes(x, y)
  <2>1. Precedes(x, y) <=>
           \/ Beyond(Position(y, view[KindOf(y)]), Position(x, view[KindOf(x)]))
           \/ /\ Position(x, view[KindOf(x)]) = Position(y, view[KindOf(y)])
              /\ KindOf(x) = "channel" /\ KindOf(y) = "think"
    BY <1>5, StoredPrecede DEF Seat
  <2>2. Precedes(x, y)' <=>
           \/ Beyond(Position(y, view[KindOf(y)])', Position(x, view[KindOf(x)])')
           \/ /\ Position(x, view[KindOf(x)])' = Position(y, view[KindOf(y)])'
              /\ KindOf(x) = "channel" /\ KindOf(y) = "think"
    BY <1>5 DEF Precedes, Beyond, KindOf
  <2>3. QED
    BY <1>3, <2>1, <2>2
<1>6. QED
  BY <1>4, <1>5

LEMMA SameChunk ==
    ASSUME UNCHANGED at, view' = view, rest' = rest
    PROVE  Chunk' = Chunk
<1> DEFINE Size(S) == IF Cardinality(S) < MaxBatch THEN Cardinality(S) ELSE MaxBatch
           P(C) == Cardinality(C) = Size(rest) /\ \A x \in C, y \in rest \ C : Precedes(x, y)
           Q(C) == Cardinality(C) = Size(rest) /\ \A x \in C, y \in rest \ C : Precedes(x, y)'
<1>1. \A C : P(C) <=> Q(C)
  BY SamePrecedes
<1>2. Chunk = CHOOSE C \in SUBSET rest : P(C)
  BY DEF Chunk
<1>3. Chunk' = CHOOSE C \in SUBSET rest : Q(C)
  BY DEF Chunk
<1> HIDE DEF P, Q
<1>4. QED
  BY <1>1, <1>2, <1>3

LEMMA BatchStep ==
    ASSUME TypeOK, Stages, Next, pc \in Working, pc' \in Working
    PROVE  \/ NextChannel
           \/ Apply
           \/ rest' = rest /\ channel' = channel
<1> USE DEF rest, channel, Working, Saving
<1>1. job \in Jobs
  BY JobTypes
<1>2. pc \notin {"idle", "ensure", "clear", "clearmark", "view", "view2"}
  OBVIOUS
<1>3. pc' # "idle"
  OBVIOUS
<1>4. CASE Decide \/ \E c \in Cases, k \in Kinds : AppendCopies(c, k)
  BY <1>1, <1>4 DEF Decide, AppendCopies, Jobs
<1>5. CASE SaveTree \/ SaveCurrent \/ SaveMark
  BY <1>5 DEF SaveTree, SaveCurrent, SaveMark
<1>6. QED
  BY <1>2, <1>3, <1>4, <1>5
  DEF Next, Write, Begin, EnsureKnown, EnsureRead, EnsureFails, ClearCopies, ResetCurrent, ResetMark,
      ReadChannelFile, ReadThinkFile, Finish, DecideFails, AppendFails, SaveFails, Crash, Fail, Idle

LEMMA AppliedRest ==
    ASSUME TypeOK, Stages, Numbering, RestIsPending, Apply
    PROVE  /\ rest' = rest \ Chunk /\ channel' = channel
           /\ \A w : (\A k \in Kinds : w[k] = Advanced(mark[suffix][channel][k], k, Stored(Chunk)))
                 => Stored(rest \ Chunk) = PendingFor(suffix, channel, view, w)
<1>1. rest' = rest \ Chunk /\ channel' = channel
  <2>1. job'.rest = rest \ Chunk /\ job'.channel = channel
    BY JobTypes DEF Apply, Jobs, rest, channel
  <2>2. QED
    BY <2>1 DEF rest, channel
<1>2. pc = "append" /\ rest # {}
  BY DEF Apply, Stages
<1>3. /\ suffix \in Suffixes /\ channel \in Channels
      /\ Stored(rest) = PendingFor(suffix, channel, view, mark[suffix][channel])
  BY <1>2 DEF Stages, RestIsPending
<1>4. /\ Chunk \in SUBSET rest /\ Stored(Chunk) \in SUBSET Records
      /\ \A x \in Chunk, y \in rest \ Chunk : Precedes(x, y)
  BY ChunkType, RestIsABatch, ChunkBegins
<1>5. \A k \in Kinds : mark[suffix][channel][k] \in Points
  BY <1>3 DEF TypeOK, MemoryTypes, Marks
<1>6. ASSUME NEW w, \A k \in Kinds : w[k] = Advanced(mark[suffix][channel][k], k, Stored(Chunk))
      PROVE  Stored(rest \ Chunk) = PendingFor(suffix, channel, view, w)
  <2>1. \A r \in Records : r \in Stored(rest) <=>
           /\ SuffixOf[r] = suffix /\ ChannelOf[r] = channel /\ Claimed(r, view)
           /\ Beyond(Position(r, view[KindOf(r)]), mark[suffix][channel][KindOf(r)])
    BY <1>3 DEF PendingFor
  <2>2. \A r \in Records : r \in PendingFor(suffix, channel, view, w) <=>
           /\ SuffixOf[r] = suffix /\ ChannelOf[r] = channel /\ Claimed(r, view)
           /\ Beyond(Position(r, view[KindOf(r)]), w[KindOf(r)])
    BY DEF PendingFor
  <2>3. \A r \in Records : KindOf(r) \in Kinds /\ Position(r, view[KindOf(r)]) \in Points /\ r # Msg
    BY KindOfRecords, PositionType, MsgIsNew
  <2>4. ASSUME NEW r \in Records, r \in Stored(rest), r \notin Chunk
        PROVE  Beyond(Position(r, view[KindOf(r)]), w[KindOf(r)])
    <3> DEFINE k == KindOf(r)
    <3>1. k \in Kinds
      BY <2>3
    <3>2. \/ w[k] = mark[suffix][channel][k]
          \/ \E x \in Stored(Chunk) : KindOf(x) = k /\ w[k] = Position(x, view[k])
      <4>1. \A j \in Kinds : \A v : v = Advanced(mark[suffix][channel][j], j, Stored(Chunk)) =>
               \/ v = mark[suffix][channel][j]
               \/ \E x \in Stored(Chunk) : KindOf(x) = j /\ v = Position(x, view[j])
        BY <1>4, <1>5, AdvancedFacts
      <4> HIDE DEF k
      <4>2. QED
        BY <1>6, <3>1, <4>1
    <3>3. CASE w[k] = mark[suffix][channel][k]
      BY <2>4, <2>1, <3>3
    <3>4. ASSUME NEW x \in Stored(Chunk), KindOf(x) = k, w[k] = Position(x, view[k])
          PROVE  Beyond(Position(r, view[k]), w[k])
      <4>1. Precedes(x, r) /\ x # Msg /\ r # Msg
        BY <1>4, <2>4, <2>3 DEF Stored
      <4>2. \/ Beyond(Seat(r), Seat(x))
            \/ Seat(x) = Seat(r) /\ KindOf(x) = "channel" /\ KindOf(r) = "think"
        BY <4>1, StoredPrecede
      <4>3. QED
        BY <3>4, <4>2 DEF Seat
    <3>5. QED
      BY <3>2, <3>3, <3>4
  <2>5. ASSUME NEW r \in Records, Beyond(Position(r, view[KindOf(r)]), w[KindOf(r)])
        PROVE  /\ r \notin Stored(Chunk)
               /\ Beyond(Position(r, view[KindOf(r)]), mark[suffix][channel][KindOf(r)])
    <3> DEFINE k == KindOf(r)
               p == mark[suffix][channel][k]
    <3>1. k \in Kinds /\ Position(r, view[k]) \in Points /\ p \in Points
      BY <1>5, <2>3
    <3>2. \A j \in Kinds : \A v : v = Advanced(mark[suffix][channel][j], j, Stored(Chunk)) =>
             /\ v \in Points
             /\ ~Beyond(mark[suffix][channel][j], v)
             /\ \A x \in Stored(Chunk) : KindOf(x) = j => ~Beyond(Position(x, view[j]), v)
      BY <1>4, <1>5, AdvancedFacts
    <3>3. /\ w[k] \in Points /\ ~Beyond(p, w[k])
          /\ \A x \in Stored(Chunk) : KindOf(x) = k => ~Beyond(Position(x, view[k]), w[k])
      BY <1>6, <3>2, <3>1
    <3>4. r \notin Stored(Chunk)
      BY <2>5, <3>3
    <3>5. Beyond(Position(r, view[k]), p)
      BY <2>5, <3>3, <3>1, BeyondOrder
    <3>6. QED
      BY <3>4, <3>5
  <2>6. ASSUME NEW r PROVE r \in Stored(rest \ Chunk) <=> r \in PendingFor(suffix, channel, view, w)
    <3>1. ASSUME r \in Stored(rest \ Chunk) PROVE r \in PendingFor(suffix, channel, view, w)
      <4>1. r \in Stored(rest) /\ r \notin Chunk
        BY <3>1 DEF Stored
      <4>2. r \in Records
        BY <1>3, <4>1 DEF PendingFor
      <4>3. QED
        BY <2>4, <2>1, <2>2, <4>1, <4>2
    <3>2. ASSUME r \in PendingFor(suffix, channel, view, w) PROVE r \in Stored(rest \ Chunk)
      <4>1. r \in Records
        BY <3>2 DEF PendingFor
      <4>2. r \in Stored(rest) /\ r \notin Stored(Chunk)
        BY <2>5, <2>1, <2>2, <3>2, <4>1
      <4>3. QED
        BY <4>2 DEF Stored
    <3>3. QED
      BY <3>1, <3>2
  <2>7. QED
    BY <2>6
<1>7. QED
  BY <1>1, <1>6

LEMMA RestIsPendingStay ==
    ASSUME TypeOK, Stages, Numbering, RestIsPending, Next
    PROVE  RestIsPending'
<1> SUFFICES ASSUME rest' # {}
             PROVE  /\ channel' \in Channels
                    /\ \A s, v, c : s = suffix' /\ v = view' /\ c = channel' =>
                          \A w : w = mark'[s][c] => Stored(rest') = PendingFor(s, c, v, w)'
  BY DEF RestIsPending, Stored
<1>1. Stages'
  BY StagesStay
<1>2. pc' \in Working
  BY <1>1 DEF Stages
<1>3. pc \in Working
  <2>1. ASSUME NEW y \in Records, Write(y) PROVE FALSE
    BY <1>2, <2>1 DEF Write, Working, Saving
  <2>2. CASE ReadThinkFile
    <3>1. rest' = rest /\ pc = "view2"
      BY <2>2, JobTypes DEF ReadThinkFile, Jobs, rest
    <3>2. QED
      BY <3>1 DEF Stages, Working, Saving
  <2>3. QED
    BY <1>2, <2>1, <2>2, Seeing, ReadFacts DEF Working, Saving
<1>4. /\ UNCHANGED at /\ suffix' = suffix /\ view' = view
      /\ Apply \/ (UNCHANGED mark)
      /\ \A s, c, v, w : PendingFor(s, c, v, w)' = PendingFor(s, c, v, w)
  BY <1>2, <1>3, WorkingOn, SameStore
<1>5. CASE NextChannel
  <2>1. PICK ch \in job.todo : \E B \in Batches(ch) :
           job' = [job EXCEPT !.todo = @ \ {ch}, !.channel = ch, !.rest = B]
    BY <1>5 DEF NextChannel
  <2>2. channel' = ch /\ rest' \in Batches(ch) /\ ch \in Channels
    BY <2>1, JobTypes DEF Jobs, channel, rest
  <2>3. Stored(rest') = PendingFor(suffix, ch, view, mark[suffix][ch])
    BY <2>2, BatchType
  <2>4. UNCHANGED mark
    BY <1>5 DEF NextChannel, memory
  <2>5. QED
    BY <1>4, <2>2, <2>3, <2>4
<1>6. CASE Apply
  <2>1. rest # {} /\ channel \in Channels /\ suffix \in Suffixes
    BY <1>6 DEF Apply, Stages, RestIsPending
  <2>2. \A w : w = mark'[suffix][channel] =>
          \A k \in Kinds : w[k] = Advanced(mark[suffix][channel][k], k, Stored(Chunk))
    BY <1>6, <2>1, ApplyMarks
  <2>3. rest' = rest \ Chunk /\ channel' = channel
    BY <1>6, AppliedRest
  <2>4. \A w : w = mark'[suffix][channel] => Stored(rest \ Chunk) = PendingFor(suffix, channel, view, w)
    BY <1>6, <2>2, AppliedRest
  <2>5. QED
    BY <1>4, <2>1, <2>3, <2>4
<1>7. CASE rest' = rest /\ channel' = channel /\ ~Apply
  BY <1>4, <1>7 DEF RestIsPending
<1>8. QED
  BY <1>2, <1>3, <1>5, <1>6, <1>7, BatchStep

LEMMA CarriedStay ==
    ASSUME TypeOK, Stages, Numbering, RestIsPending, Carried, Next
    PROVE  Carried'
<1>1. job \in Jobs /\ place \in Places
  BY JobTypes
<1>2. ASSUME UNCHANGED at, view' = view, rest' = rest,
             NEW C, C = Chunk,
             DOMAIN place' \subseteq C, DOMAIN place' # {},
             Stored(C) \ DOMAIN place' \subseteq dropped',
             \A t \in job'.appends : \E k \in Kinds : t \in Targets(place', k),
             \A r \in Stored(DOMAIN place') :
                 <<place'[r], KindOf(r)>> \in job'.appends \/ copies'[place'[r]][r] > 0
      PROVE  Carried'
  <2>1. Chunk' = C
    BY <1>2, SameChunk
  <2>2. job'.appends \subseteq UNION {Targets(place, k) : k \in Kinds}'
    BY <1>2 DEF Targets
  <2>3. QED
    BY <1>2, <2>1, <2>2 DEF Carried, Stored, KindOf
<1>3. CASE pc' # "append"
  BY <1>3 DEF Carried
<1>4. CASE Decide
  <2>1. /\ UNCHANGED <<at, copies>> /\ suffix \in Suffixes /\ rest # {}
    BY <1>4, SuffixType DEF Decide, disk
  <2>2. PICK f \in PlacesOf(suffix, Chunk) :
           /\ job' = [job EXCEPT !.place = f, !.appends = UNION {Targets(f, k) : k \in Kinds}]
           /\ dropped' = dropped \cup (Stored(Chunk) \ DOMAIN f)
    BY <1>4 DEF Decide
  <2>3. /\ view' = view /\ rest' = rest /\ place' = f
        /\ job'.appends = UNION {Targets(f, k) : k \in Kinds}
    BY <1>1, <2>2 DEF Jobs, view, rest, place
  <2>4. DOMAIN f \in SUBSET Chunk /\ DOMAIN f # {}
    BY <2>1, ChunkType, PlacesFacts
  <2>5. \A r \in Stored(DOMAIN f) : <<f[r], KindOf(r)>> \in job'.appends
    <3> TAKE r \in Stored(DOMAIN f)
    <3>1. r \in DOMAIN f /\ r # Msg /\ r \in Records
      BY <2>4, ChunkType DEF Stored, Items
    <3>2. KindOf(r) \in Kinds /\ <<f[r], KindOf(r)>> \in Targets(f, KindOf(r))
      BY <3>1, KindOfRecords, TargetsFacts
    <3>3. QED
      BY <2>3, <3>2
  <2>6. \A t \in job'.appends : \E k \in Kinds : t \in Targets(f, k)
    BY <2>3
  <2>7. QED
    BY <1>2, <2>1, <2>2, <2>3, <2>4, <2>5, <2>6
<1>5. ASSUME NEW c \in Cases, NEW k \in Kinds, AppendCopies(c, k) PROVE Carried'
  <2>1. UNCHANGED <<at, dropped>> /\ pc = "append"
    BY <1>5 DEF AppendCopies, history
  <2>2. /\ view' = view /\ rest' = rest /\ place' = place
        /\ job'.appends = job.appends \ {<<c, k>>}
    BY <1>5, <1>1 DEF AppendCopies, Jobs, view, rest, place
  <2>3. copies \in [Cases -> [Records -> Nat]]
    BY DEF TypeOK, DiskTypes
  <2>4. \A d \in Cases, r \in Records :
           copies'[d][r] = copies[d][r] + IF d = c /\ r \in Group(c, k) THEN 1 ELSE 0
    BY <1>5, <2>3 DEF AppendCopies
  <2>5. ASSUME NEW r \in Stored(DOMAIN place)
        PROVE  <<place[r], KindOf(r)>> \in job'.appends \/ copies'[place[r]][r] > 0
    <3>1. r \in DOMAIN place /\ r # Msg /\ r \in Records /\ place[r] \in Cases
      BY <1>1, TreesAndPlaces DEF Stored, Items
    <3>2. copies[place[r]][r] \in Nat
      BY <2>3, <3>1
    <3>3. CASE <<place[r], KindOf(r)>> = <<c, k>>
      <4>1. r \in Group(c, k) /\ place[r] = c
        BY <3>1, <3>3 DEF Group
      <4>2. QED
        BY <2>4, <3>1, <3>2, <4>1
    <3>4. CASE <<place[r], KindOf(r)>> # <<c, k>>
      <4>1. <<place[r], KindOf(r)>> \in job.appends \/ copies[place[r]][r] > 0
        BY <2>1 DEF Carried
      <4>2. copies'[place[r]][r] >= copies[place[r]][r]
        BY <2>4, <3>1, <3>2
      <4>3. copies'[place[r]][r] \in Nat
        BY <2>4, <3>1, <3>2
      <4>4. QED
        BY <2>2, <3>2, <3>4, <4>1, <4>2, <4>3
    <3>5. QED
      BY <3>3, <3>4
  <2>6. \A t \in job'.appends : \E j \in Kinds : t \in Targets(place, j)
    BY <2>1, <2>2 DEF Carried
  <2>7. /\ DOMAIN place \subseteq Chunk /\ DOMAIN place # {}
        /\ Stored(Chunk) \ DOMAIN place \subseteq dropped
    BY <2>1 DEF Carried
  <2>8. QED
    BY <1>2, <2>1, <2>2, <2>5, <2>6, <2>7
<1>6. QED
  BY <1>3, <1>4, <1>5
  DEF Next, Write, Begin, EnsureKnown, EnsureRead, EnsureFails, AfterEnsure, ClearCopies, ResetCurrent,
      ResetMark, ReadChannelFile, ReadThinkFile, NextChannel, Finish, DecideFails, AppendFails, Apply,
      SaveTree, SaveCurrent, SaveMark, SaveFails, Crash, Fail, Idle

--------------------------------------------------------------------------------
(* The trees and the pointers.                                                  *)

PointersKnown ==
    \A s \in Suffixes \ broken, ch \in Channels :
        /\ diskCurrent[s][ch] \in DOMAIN diskTree \cup {NoCase}
        /\ current[s][ch] \in DOMAIN tree \cup {NoCase}
        /\ opened => diskCurrent[s][ch] \in DOMAIN tree \cup {NoCase}

Clearing ==
    /\ pc = "savecurrent" => diskTree = tree
    /\ pc = "clear" => job.doomed \subseteq CasesToClear
    /\ pc = "clear" /\ suffix \notin broken => job.doomed = CasesToClear
    /\ pc = "clearmark" => /\ current[suffix] = NoCurrent /\ diskCurrent[suffix] = NoCurrent
                           /\ mark[suffix] = NoMarks

LEMMA PointingSplit == Pointing <=> PointersKnown /\ Clearing
  BY DEF Pointing, PointersKnown, Clearing

LEMMA PointingJoin == PointersKnown' /\ Clearing' => Pointing'
  BY DEF Pointing, PointersKnown, Clearing

LEMMA ClearingStay ==
    ASSUME TypeOK, Stages, Clearing, Next PROVE Clearing'
<1>1. job \in Jobs
  BY JobTypes
<1>2. CASE pc' \notin {"savecurrent", "clear", "clearmark"}
  BY <1>2 DEF Clearing
<1>3. CASE SaveTree
  BY <1>3 DEF SaveTree, Clearing, memory
<1>4. CASE EnsureKnown \/ EnsureRead
  <2>1. AfterEnsure /\ tree' = tree
    BY <1>4 DEF EnsureKnown, EnsureRead, memory
  <2>2. CASE pc' = "view"
    BY <2>2 DEF Clearing
  <2>3. CASE pc' = "clear" /\ job' = [job EXCEPT !.doomed = CasesToClear]
    <3>1. suffix' = suffix /\ job'.doomed = CasesToClear
      BY <1>1, <2>3 DEF Jobs, suffix
    <3>2. CasesToClear' = CasesToClear
      BY <2>1, <3>1 DEF CasesToClear
    <3>3. QED
      BY <2>3, <3>1, <3>2 DEF Clearing
  <2>4. QED
    BY <2>1, <2>2, <2>3 DEF AfterEnsure
<1>5. ASSUME NEW c \in Cases, ClearCopies(c) PROVE Clearing'
  <2>1. pc = "clear" /\ tree' = tree /\ broken' = broken \cup {suffix}
    BY <1>5 DEF ClearCopies, memory
  <2>2. CASE job' = [job EXCEPT !.doomed = @ \ {c}] /\ UNCHANGED pc
    <3>1. suffix' = suffix /\ job'.doomed = job.doomed \ {c}
      BY <1>1, <2>2 DEF Jobs, suffix
    <3>2. CasesToClear' = CasesToClear
      BY <2>1, <3>1 DEF CasesToClear
    <3>3. QED
      BY <2>1, <2>2, <3>1, <3>2 DEF Clearing
  <2>3. QED
    BY <1>2, <1>5, <2>2 DEF ClearCopies, Fail, Idle
<1>6. CASE ResetCurrent
  <2>1. CASE pc' = "idle"
    BY <2>1 DEF Clearing
  <2>2. CASE /\ diskCurrent' = [diskCurrent EXCEPT ![suffix] = NoCurrent]
             /\ pc' = "clearmark" /\ UNCHANGED job
    <3>1. suffix \in Suffixes /\ suffix' = suffix
      BY <1>6, <2>2, SuffixType DEF ResetCurrent, suffix
    <3>2. /\ current' = [current EXCEPT ![suffix] = NoCurrent]
          /\ mark' = [mark EXCEPT ![suffix] = NoMarks]
      BY <1>6 DEF ResetCurrent
    <3>3. /\ current \in [Suffixes -> Pointers] /\ mark \in [Suffixes -> Marks]
          /\ diskCurrent \in [Suffixes -> Pointers]
      BY DEF TypeOK, DiskTypes, MemoryTypes
    <3>4. current'[suffix] = NoCurrent /\ diskCurrent'[suffix] = NoCurrent /\ mark'[suffix] = NoMarks
      BY <2>2, <3>1, <3>2, <3>3
    <3>5. QED
      BY <2>2, <3>1, <3>4 DEF Clearing
  <2>3. QED
    BY <1>6, <2>1, <2>2 DEF ResetCurrent, Fail, Idle
<1>7. ASSUME NEW y \in Records, Write(y) PROVE Clearing'
  BY <1>2, <1>7 DEF Write
<1>8. QED
  BY <1>2, <1>3, <1>4, <1>5, <1>6, <1>7
  DEF Next, Begin, EnsureFails, ResetMark, ReadChannelFile, ReadThinkFile, NextChannel, Finish,
      Decide, DecideFails, AppendCopies, AppendFails, Apply, SaveCurrent, SaveMark, SaveFails, Crash,
      Fail, Idle

LEMMA PointersKnownStay ==
    ASSUME TypeOK, Stages, OwnParts, Numbering, RestIsPending, Carried, Pointing, Next
    PROVE  PointersKnown'
<1>1. /\ current \in [Suffixes -> Pointers] /\ diskCurrent \in [Suffixes -> Pointers]
      /\ PointersKnown /\ Clearing
  BY PointingSplit DEF TypeOK, DiskTypes, MemoryTypes
<1>2. ASSUME UNCHANGED <<diskTree, diskCurrent, tree, current, opened>>, broken \subseteq broken'
      PROVE  PointersKnown'
  BY <1>1, <1>2 DEF PointersKnown
<1>3. ASSUME NEW o \in {"trigger", "rebuild", "locate"}, NEW s \in Suffixes,
             NEW m \in Channels \cup {NoChannel}, Begin(o, s, m)
      PROVE  PointersKnown'
  <2>1. /\ UNCHANGED <<diskTree, diskCurrent, current, broken>>
        /\ tree' = IF opened THEN tree ELSE diskTree
    BY <1>3 DEF Begin, disk, history
  <2>2. CASE opened
    BY <1>1, <2>1, <2>2 DEF PointersKnown
  <2>3. CASE ~opened
    <3>1. DOMAIN tree = {}
      BY <2>3, EmptyOnes DEF Stages
    <3>2. QED
      BY <1>1, <2>1, <2>3, <3>1 DEF PointersKnown
  <2>4. QED
    BY <2>2, <2>3
<1>4. CASE EnsureRead \/ EnsureFails
  <2>1. /\ UNCHANGED <<diskTree, diskCurrent, tree, opened, broken>> /\ suffix \in Suffixes /\ opened
        /\ \/ UNCHANGED current
           \/ current' = [current EXCEPT ![suffix] = diskCurrent[suffix]]
    BY <1>4, SuffixType DEF EnsureRead, EnsureFails, disk, history
  <2>2. \A s \in Suffixes : current'[s] \in {current[s], diskCurrent[s]}
    BY <1>1, <2>1
  <2>3. QED
    BY <1>1, <2>1, <2>2 DEF PointersKnown
<1>5. ASSUME NEW c \in Cases, ClearCopies(c) PROVE PointersKnown'
  BY <1>2, <1>5 DEF ClearCopies, memory
<1>6. CASE ResetCurrent
  <2>1. /\ UNCHANGED <<diskTree, opened, broken>> /\ suffix \in Suffixes
        /\ pc = "clear" /\ job.doomed = {}
        /\ DOMAIN tree' = DOMAIN tree \ CasesToClear
        /\ current' = [current EXCEPT ![suffix] = NoCurrent]
        /\ diskCurrent' \in {diskCurrent, [diskCurrent EXCEPT ![suffix] = NoCurrent]}
    BY <1>6, SuffixType DEF ResetCurrent, history
  <2>2. \A s \in Suffixes, ch \in Channels :
           /\ s # suffix => current'[s][ch] = current[s][ch] /\ diskCurrent'[s][ch] = diskCurrent[s][ch]
           /\ current'[suffix][ch] = NoCase
           /\ diskCurrent'[s][ch] \in {diskCurrent[s][ch], NoCase}
    BY <1>1, <2>1, EmptyOnes
  <2>3. ASSUME NEW s \in Suffixes \ broken, s # suffix, NEW ch \in Channels
        PROVE  /\ current[s][ch] \in DOMAIN tree' \cup {NoCase}
               /\ opened => diskCurrent[s][ch] \in DOMAIN tree' \cup {NoCase}
    <3>1. OwnCases(s) \cap CasesToClear = {}
      BY <2>1, <2>3, CasesApart, ToClearAreOwn
    <3>2. current[s][ch] \in OwnCases(s) \cup {NoCase} /\ diskCurrent[s][ch] \in OwnCases(s) \cup {NoCase}
      BY DEF OwnParts
    <3>3. QED
      BY <1>1, <2>1, <3>1, <3>2 DEF PointersKnown
  <2>4. suffix \notin broken => DOMAIN tree' = DOMAIN tree
    BY <1>1, <2>1 DEF Clearing
  <2>5. QED
    BY <1>1, <2>1, <2>2, <2>3, <2>4 DEF PointersKnown
<1>7. CASE ResetMark
  <2>1. UNCHANGED <<diskTree, diskCurrent, tree, current, opened>> /\ pc = "clearmark"
    BY <1>7 DEF ResetMark, memory
  <2>2. CASE broken' = broken \ {suffix}
    <3>1. \A ch \in Channels : current[suffix][ch] = NoCase /\ diskCurrent[suffix][ch] = NoCase
      BY <1>1, <2>1, EmptyOnes DEF Clearing
    <3>2. QED
      BY <1>1, <2>1, <2>2, <3>1 DEF PointersKnown
  <2>3. QED
    BY <1>2, <1>7, <2>1, <2>2 DEF ResetMark
<1>8. CASE Apply
  <2>1. /\ UNCHANGED <<diskTree, diskCurrent, opened, broken>> /\ pc = "append"
        /\ DOMAIN tree' = DOMAIN tree \cup Created
        /\ current' = [current EXCEPT ![suffix][channel] = place[LastOf(DOMAIN place)]]
    BY <1>8 DEF Apply, disk, history
  <2>2. suffix \in Suffixes /\ channel \in Channels /\ LastOf(DOMAIN place) \in DOMAIN place
    BY <2>1, ApplyParts
  <2>3. place[LastOf(DOMAIN place)] \in Created \cup {current[suffix][channel]}
    BY <2>2 DEF Created
  <2>4. \A s \in Suffixes, ch \in Channels :
          current'[s][ch] = IF s = suffix /\ ch = channel THEN place[LastOf(DOMAIN place)]
                            ELSE current[s][ch]
    BY <1>1, <2>1, <2>2 DEF Pointers
  <2>5. QED
    BY <1>1, <2>1, <2>3, <2>4 DEF PointersKnown
<1>9. CASE SaveTree
  <2>1. UNCHANGED <<tree, current, diskCurrent, opened, broken>> /\ opened /\ diskTree' = tree
    BY <1>9, SuffixType DEF SaveTree, memory, history
  <2>2. QED
    BY <1>1, <2>1 DEF PointersKnown
<1>10. CASE SaveCurrent
  <2>1. /\ UNCHANGED <<tree, current, diskTree, opened, broken>> /\ diskTree = tree
        /\ suffix \in Suffixes
        /\ diskCurrent' = [diskCurrent EXCEPT ![suffix] = current[suffix]]
    BY <1>10, <1>1, SuffixType DEF SaveCurrent, memory, history, Clearing
  <2>2. \A s \in Suffixes : diskCurrent'[s] \in {diskCurrent[s], current[s]}
    BY <1>1, <2>1
  <2>3. QED
    BY <1>1, <2>1, <2>2 DEF PointersKnown
<1>11. CASE Crash
  <2>1. /\ UNCHANGED <<diskTree, diskCurrent, broken>> /\ opened' = FALSE
        /\ current' = [s \in Suffixes |-> NoCurrent]
    BY <1>11 DEF Crash, disk, history
  <2>2. \A s \in Suffixes, ch \in Channels : current'[s][ch] = NoCase
    BY <2>1, EmptyOnes
  <2>3. QED
    BY <1>1, <2>1, <2>2 DEF PointersKnown
<1>12. QED
  BY <1>2, <1>3, <1>4, <1>5, <1>6, <1>7, <1>8, <1>9, <1>10, <1>11
  DEF Next, Write, EnsureKnown, ReadChannelFile, ReadThinkFile, NextChannel, Finish,
      Decide, DecideFails, AppendCopies, AppendFails, SaveMark, SaveFails,
      disk, memory, history

LEMMA PointingStay ==
    ASSUME TypeOK, Stages, OwnParts, Numbering, RestIsPending, Carried, Pointing, Next
    PROVE  Pointing'
  BY PointersKnownStay, ClearingStay, PointingSplit, PointingJoin

--------------------------------------------------------------------------------
(* The copies in the files, counted.                                            *)

LEMMA HeldFacts == \A c, t : t \in Held(c) <=> \E r \in Records : \E i \in 1..copies[c][r] : t = <<r, i>>
<1> SUFFICES ASSUME NEW c, NEW t
             PROVE  t \in Held(c) <=> \E r \in Records : \E i \in 1..copies[c][r] : t = <<r, i>>
  OBVIOUS
<1>1. t \in Held(c) <=> \E r \in Records : t \in {r} \X (1..copies[c][r])
  BY DEF Held
<1>2. \A r : t \in {r} \X (1..copies[c][r]) <=> \E i \in 1..copies[c][r] : t = <<r, i>>
  OBVIOUS
<1>3. QED
  BY <1>1, <1>2

LEMMA HeldNext ==
    (\A c, t : t \in Held(c) <=> \E r \in Records : \E i \in 1..copies[c][r] : t = <<r, i>>)'
  BY HeldFacts, PTL

LEMMA HeldStays == ASSUME NEW c, copies'[c] = copies[c] PROVE Held(c)' = Held(c)
  BY DEF Held

LEMMA NothingHeld ==
    ASSUME TypeOK, NEW c \in Cases
    PROVE  Held(c) = {} <=> \A r \in Records : copies[c][r] = 0
<1>1. \A r \in Records : copies[c][r] \in Nat
  BY DEF TypeOK, DiskTypes
<1>2. ASSUME NEW r \in Records, copies[c][r] # 0 PROVE Held(c) # {}
  <2>1. 1 \in 1..copies[c][r]
    BY <1>1, <1>2
  <2>2. QED
    BY <2>1, HeldFacts
<1>3. ASSUME \A r \in Records : copies[c][r] = 0 PROVE Held(c) = {}
  BY <1>3, HeldFacts
<1>4. QED
  BY <1>2, <1>3

\* One copy more of each record of a group.
LEMMA HeldGrows ==
    ASSUME TypeOK, TypeOK', NEW c \in Cases, NEW G \in SUBSET Records, IsFiniteSet(Held(c)),
           \A r \in Records : copies'[c][r] = copies[c][r] + IF r \in G THEN 1 ELSE 0
    PROVE  /\ IsFiniteSet(Held(c)')
           /\ Cardinality(Held(c)') = Cardinality(Held(c)) + Cardinality(G)
<1> DEFINE E == {<<r, copies[c][r] + 1>> : r \in G}
<1>1. \A r \in Records : copies[c][r] \in Nat
  BY DEF TypeOK, DiskTypes
<1>2. IsFiniteSet(G) /\ Cardinality(G) \in Nat
  BY SomeRecords DEF Items
<1>3. IsFiniteSet(E) /\ Cardinality(E) = Cardinality(G)
  <2> DEFINE f == [r \in G |-> <<r, copies[c][r] + 1>>]
  <2>1. f \in [G -> E] /\ \A x, z \in G : f[x] = f[z] => x = z
    OBVIOUS
  <2>2. \A t \in E : \E x \in G : f[x] = t
    OBVIOUS
  <2>3. f \in Bijection(G, E)
    <3> HIDE DEF E, f
    <3>1. QED
      BY <2>1, <2>2 DEF Bijection, Injection, Surjection, IsInjective
  <2>4. ExistsBijection(G, E)
    BY <2>3 DEF ExistsBijection
  <2> HIDE DEF E
  <2>5. QED
    BY <1>2, <2>4, FS_Bijection
<1>4. \A t : t \in Held(c)' <=> \E r \in Records : \E i \in 1..copies'[c][r] : t = <<r, i>>
  BY HeldNext
<1>5. Held(c)' = Held(c) \cup E
  <2>1. ASSUME NEW t, t \in Held(c)' PROVE t \in Held(c) \cup E
    <3>1. PICK r, i : r \in Records /\ i \in 1..copies'[c][r] /\ t = <<r, i>>
      BY <1>4, <2>1
    <3>2. CASE i \in 1..copies[c][r]
      BY <3>1, <3>2, HeldFacts
    <3>3. CASE i \notin 1..copies[c][r]
      <4>1. r \in G /\ i = copies[c][r] + 1
        BY <1>1, <3>1, <3>3
      <4>2. QED
        BY <3>1, <4>1
    <3>4. QED
      BY <3>2, <3>3
  <2>2. ASSUME NEW t, t \in Held(c) PROVE t \in Held(c)'
    <3>1. PICK r, i : r \in Records /\ i \in 1..copies[c][r] /\ t = <<r, i>>
      BY <2>2, HeldFacts
    <3>2. i \in 1..copies'[c][r]
      BY <1>1, <3>1
    <3>3. QED
      BY <1>4, <3>1, <3>2
  <2>3. ASSUME NEW t, t \in E PROVE t \in Held(c)'
    <3>1. PICK r \in G : t = <<r, copies[c][r] + 1>>
      BY <2>3
    <3>2. r \in Records /\ copies[c][r] + 1 \in 1..copies'[c][r]
      BY <1>1, <3>1
    <3>3. QED
      BY <1>4, <3>1, <3>2
  <2>4. QED
    BY <2>1, <2>2, <2>3
<1>6. Held(c) \cap E = {}
  <2> SUFFICES ASSUME NEW t, t \in Held(c), t \in E PROVE FALSE
    OBVIOUS
  <2>1. PICK r, i : r \in Records /\ i \in 1..copies[c][r] /\ t = <<r, i>>
    BY HeldFacts
  <2>2. PICK x \in G : t = <<x, copies[c][x] + 1>>
    OBVIOUS
  <2>3. QED
    BY <1>1, <2>1, <2>2
<1> HIDE DEF E
<1>7. /\ IsFiniteSet(Held(c) \cup E)
      /\ Cardinality(Held(c) \cup E) = Cardinality(Held(c)) + Cardinality(E) - Cardinality(Held(c) \cap E)
  BY <1>3, FS_Union
<1>8. Cardinality(Held(c) \cap E) = 0 /\ Cardinality(Held(c)) \in Nat
  BY <1>6, FS_EmptySet, FS_CardinalityType
<1>9. QED
  BY <1>2, <1>3, <1>5, <1>7, <1>8

--------------------------------------------------------------------------------
(* Records written on time keep their positions.                                *)

LEMMA LateStays ==
    ASSUME TypeOK, Numbering, NEW y \in Records, Write(y), NEW r \in Records, OnTime(r)'
    PROVE  OnTime(r)
<1> SUFFICES ASSUME NEW x \in Records, SameFile(r, x), Late(x) PROVE Late(x)'
  BY DEF OnTime, SameFile
<1>1. PICK z \in Records : SameFile(x, z) /\ at[z] # 0 /\ at[z] < at[x] /\ Before(x, z)
  BY DEF Late
<1>2. at[x] \in Nat /\ at[z] \in Nat
  BY WriteFacts
<1>3. at'[x] = at[x] /\ at'[z] = at[z]
  <2>1. x # y /\ z # y
    BY <1>1, <1>2, WriteFacts
  <2>2. QED
    BY <2>1, WriteFacts
<1>4. Before(x, z)'
  BY <1>1, <1>3 DEF Before
<1>5. QED
  BY <1>1, <1>3, <1>4 DEF Late

LEMMA OnTimePosition ==
    ASSUME at \in [Records -> Nat], Numbering, NEW r \in Records, OnTime(r),
           NEW n \in Nat, NEW m \in Nat, n <= m, at[r] \in 1..n
    PROVE  Position(r, n) = Position(r, m)
<1>1. ASSUME NEW x \in Records, SameFile(r, x), at[x] \in 1..m, x = r \/ Before(x, r)
      PROVE  at[x] \in 1..n
  <2>1. CASE x = r
    BY <2>1
  <2>2. CASE Before(x, r) /\ at[x] \notin 1..n
    <3>1. at[r] # 0 /\ at[r] < at[x]
      BY <1>1, <2>2
    <3>2. SameFile(x, r)
      BY <1>1 DEF SameFile
    <3>3. Late(x)
      BY <2>2, <3>1, <3>2 DEF Late
    <3>4. QED
      BY <1>1, <3>3 DEF OnTime
  <2>3. QED
    BY <1>1, <2>1, <2>2
<1>2. 1..n \subseteq 1..m
  OBVIOUS
<1>3. UpTo(r, n) = UpTo(r, m)
  BY <1>1, <1>2 DEF UpTo
<1>4. QED
  BY <1>3, SnIsACount DEF Position

OnTimeLaw ==
    at \in [Records -> Nat] /\ Numbering =>
        \A r \in Records : OnTime(r) =>
            \A n, m \in Nat : n <= m /\ at[r] \in 1..n => Position(r, n) = Position(r, m)

LEMMA OnTimeLawHolds == OnTimeLaw
  BY OnTimePosition DEF OnTimeLaw

LEMMA OnTimeLawNext == OnTimeLaw'
  BY OnTimeLawHolds, PTL

LEMMA WriteKeepsOnTime ==
    ASSUME TypeOK, Numbering, NEW y \in Records, Write(y), NEW r \in Records, at[r] # 0,
           OnTime(r)'
    PROVE  Position(r, Written)' = Position(r, Written)
<1>1. /\ Written \in Nat /\ Written' = Written + 1 /\ at[r] \in 1..Written
      /\ at \in [Records -> Nat] /\ at' \in [Records -> Nat] /\ at'[y] = Written + 1
      /\ r # y /\ at'[r] = at[r]
  BY WriteFacts
<1>2. \A n : n = Written => Position(r, n)' = Position(r, n) /\ Position(r, n) = Position(r, Written)
  BY <1>1, WriteKeepsPositions
<1>3. Numbering'
  BY WriteNumbering
<1>4. \A n, m \in Nat : n <= m /\ at'[r] \in 1..n => Position(r, n)' = Position(r, m)'
  BY <1>1, <1>3, OnTimeLawNext DEF OnTimeLaw
<1>5. \A n, m : n = Written /\ m = Written' =>
         Position(r, m)' = Position(r, Written)' /\ Position(r, n)' = Position(r, m)'
  BY <1>1, <1>4
<1>6. QED
  BY <1>2, <1>5

--------------------------------------------------------------------------------
(* Runs without failures.                                                       *)

LEMMA NoFailure ==
    ASSUME TypeOK, Next, failures' = 0
    PROVE  /\ failures = 0
           /\ ~Fail /\ ~EnsureFails /\ ~AppendFails /\ ~SaveFails /\ ~Crash
<1>1. failures \in Nat
  BY DEF TypeOK, OtherTypes
<1>2. ~Fail
  BY <1>1 DEF Fail
<1>3. UNCHANGED failures
  BY <1>2 DEF Next, Write, Begin, EnsureKnown, EnsureRead, EnsureFails, ClearCopies, ResetCurrent,
      ResetMark, ReadChannelFile, ReadThinkFile, NextChannel, Finish, Decide, DecideFails,
      AppendCopies, AppendFails, Apply, SaveTree, SaveCurrent, SaveMark, SaveFails, Crash, bounds
<1>4. QED
  BY <1>2, <1>3 DEF EnsureFails, AppendFails, SaveFails, Crash

LEMMA IntactStay ==
    ASSUME TypeOK, Stages, Intact, Next, failures' = 0 PROVE Intact'
<1>1. job \in Jobs /\ ~Fail
  BY JobTypes, NoFailure
<1> USE DEF suffix
<1>2. CASE broken' = {}
  BY <1>2 DEF Intact
<1>3. ASSUME NEW c \in Cases, ClearCopies(c) PROVE Intact'
  <2>1. /\ pc = "clear" /\ pc' = "clear" /\ broken' = broken \cup {suffix}
        /\ job' = [job EXCEPT !.doomed = @ \ {c}]
    BY <1>3, <1>1 DEF ClearCopies
  <2>2. job'.suffix = job.suffix
    BY <1>1, <2>1 DEF Jobs
  <2>3. QED
    BY <2>1, <2>2 DEF Intact
<1>4. CASE ResetCurrent
  <2>1. pc' = "clearmark" /\ UNCHANGED <<job, broken>>
    BY <1>4, <1>1 DEF ResetCurrent, history
  <2>2. QED
    BY <2>1 DEF Intact
<1>5. CASE ResetMark
  <2>1. broken' = broken \ {suffix}
    BY <1>5, <1>1 DEF ResetMark
  <2>2. QED
    BY <1>2, <2>1 DEF Intact
<1>6. CASE pc \notin {"clear", "clearmark"} /\ broken' = broken
  BY <1>2, <1>6 DEF Intact
<1>7. QED
  BY <1>3, <1>4, <1>5, <1>6, NoFailure
  DEF Next, Write, Begin, EnsureKnown, EnsureRead, ReadChannelFile, ReadThinkFile, NextChannel, Finish,
      Decide, DecideFails, AppendCopies, Apply, SaveTree, SaveCurrent, SaveMark, history

\* The tree that a request finds.
LEMMA SameTree ==
    ASSUME Stages, ~opened => diskTree = NoTree, NEW o, NEW s, NEW m, Begin(o, s, m)
    PROVE  tree' = tree
  BY DEF Stages, Begin

LEMMA SameCounts == ASSUME tree' = tree PROVE \A c : CountOf(c)' = CountOf(c)
  BY DEF CountOf

LEMMA AddedFacts ==
    ASSUME TypeOK, NEW c
    PROVE  /\ Added(c) \in SUBSET Records /\ IsFiniteSet(Added(c)) /\ Cardinality(Added(c)) \in Nat
           /\ \A r : r \in Added(c) <=> /\ r \in DOMAIN place /\ r # Msg /\ place[r] = c
                                        /\ <<c, KindOf(r)>> \notin job.appends
           /\ DOMAIN place = {} => Added(c) = {}
<1>1. DOMAIN place \in SUBSET Items
  BY JobTypes, TreesAndPlaces
<1>2. \A r : r \in Added(c) <=> /\ r \in DOMAIN place /\ r # Msg /\ place[r] = c
                                /\ <<c, KindOf(r)>> \notin job.appends
  BY DEF Added, Stored
<1>3. Added(c) \in SUBSET Records /\ Added(c) \in SUBSET Items
  BY <1>1, <1>2 DEF Items
<1>4. IsFiniteSet(Added(c)) /\ Cardinality(Added(c)) \in Nat
  BY <1>3, SomeRecords
<1>5. QED
  BY <1>2, <1>3, <1>4

AddedLaw ==
    \A c, r : r \in Added(c) <=> /\ r \in DOMAIN place /\ r # Msg /\ place[r] = c
                                 /\ <<c, KindOf(r)>> \notin job.appends

LEMMA AddedNext == AddedLaw'
<1>1. AddedLaw
  BY DEF AddedLaw, Added, Stored
<1>2. QED
  BY <1>1, PTL

LEMMA CountedJoin ==
    ASSUME \A c \in Cases :
              /\ IsFiniteSet(Held(c)')
              /\ pc' \notin {"append", "clear"} => Cardinality(Held(c)') = CountOf(c)'
              /\ pc' = "append" => Cardinality(Held(c)') = CountOf(c)' + Cardinality(Added(c)')
              /\ pc' = "clear" => IF c \in CasesToClear' \ job'.doomed THEN Held(c)' = {}
                                  ELSE Cardinality(Held(c)') = CountOf(c)'
    PROVE  Counted'
  BY DEF Counted

LEMMA ClearCounts ==
    ASSUME TypeOK, Stages, Pointing, Counted, NEW c \in Cases, ClearCopies(c), ~Fail
    PROVE  Counted'
<1>1. /\ pc = "clear" /\ pc' = "clear" /\ c \in job.doomed /\ tree' = tree
      /\ job' = [job EXCEPT !.doomed = @ \ {c}]
      /\ copies' = [copies EXCEPT ![c] = [r \in Records |-> IF KindOf(r) \in Kinds THEN 0 ELSE @[r]]]
  BY DEF ClearCopies, memory
<1>2. job'.doomed = job.doomed \ {c} /\ suffix' = suffix
  BY <1>1, JobTypes DEF Jobs, suffix
<1>3. CasesToClear' = CasesToClear
  BY <1>1, <1>2 DEF CasesToClear
<1>4. copies \in [Cases -> [Records -> Nat]]
  BY DEF TypeOK, DiskTypes
<1>5. \A r \in Records : copies'[c][r] = 0
  BY <1>1, <1>4, KindOfRecords
<1>6. \A d \in Cases : d # c => copies'[d] = copies[d]
  BY <1>1, <1>4
<1>7. Held(c)' = {}
  <2>1. \A t : t \in Held(c)' => \E r \in Records : \E i \in 1..copies'[c][r] : t = <<r, i>>
    BY HeldNext
  <2>2. QED
    BY <1>5, <2>1
<1>8. \A d \in Cases : d # c => Held(d)' = Held(d)
  BY <1>6, HeldStays
<1>9. c \in CasesToClear
  BY <1>1 DEF Pointing
<1>10. \A d : CountOf(d)' = CountOf(d)
  BY <1>1, SameCounts
<1>11. \A d \in Cases : /\ IsFiniteSet(Held(d))
                        /\ IF d \in CasesToClear \ job.doomed THEN Held(d) = {}
                           ELSE Cardinality(Held(d)) = CountOf(d)
  BY <1>1 DEF Counted
<1>12. ASSUME NEW d \in Cases
       PROVE  /\ IsFiniteSet(Held(d)')
              /\ IF d \in CasesToClear' \ job'.doomed THEN Held(d)' = {}
                 ELSE Cardinality(Held(d)') = CountOf(d)'
  <2>1. CASE d = c
    BY <1>2, <1>3, <1>7, <1>9, <2>1, FS_EmptySet
  <2>2. CASE d # c
    BY <1>2, <1>3, <1>8, <1>10, <1>11, <2>2
  <2>3. QED
    BY <2>1, <2>2
<1>13. QED
  BY <1>1, <1>12, CountedJoin

LEMMA ResetCounts ==
    ASSUME TypeOK, Stages, Counted, ResetCurrent, ~Fail
    PROVE  Counted'
<1>1. /\ pc = "clear" /\ pc' = "clearmark" /\ job.doomed = {} /\ UNCHANGED copies
      /\ tree' = [c \in DOMAIN tree \ CasesToClear |-> tree[c]]
  BY DEF ResetCurrent
<1>2. ASSUME NEW d \in Cases
      PROVE  IsFiniteSet(Held(d)') /\ Cardinality(Held(d)') = CountOf(d)'
  <2>1. Held(d)' = Held(d) /\ IsFiniteSet(Held(d))
    BY <1>1, HeldStays DEF Counted
  <2>2. CASE d \in CasesToClear
    <3>1. Held(d) = {} /\ d \notin DOMAIN tree'
      BY <1>1, <2>2 DEF Counted
    <3>2. CountOf(d)' = 0
      BY <3>1 DEF CountOf
    <3>3. QED
      BY <2>1, <3>1, <3>2, FS_EmptySet
  <2>3. CASE d \notin CasesToClear
    <3>1. Cardinality(Held(d)) = CountOf(d)
      BY <1>1, <2>3 DEF Counted
    <3>2. d \in DOMAIN tree' <=> d \in DOMAIN tree
      BY <1>1, <2>3
    <3>3. d \in DOMAIN tree => tree'[d] = tree[d]
      BY <1>1, <2>3
    <3>4. CountOf(d)' = CountOf(d)
      BY <3>2, <3>3 DEF CountOf
    <3>5. QED
      BY <2>1, <3>1, <3>4
  <2>4. QED
    BY <2>2, <2>3
<1>3. QED
  BY <1>1, <1>2, CountedJoin

LEMMA DecideCounts ==
    ASSUME TypeOK, TypeOK', Stages, Numbering, RestIsPending, Counted, Decide
    PROVE  Counted'
<1>1. pc = "next" /\ pc' = "append" /\ UNCHANGED <<copies, tree>>
  BY DEF Decide, disk, memory
<1>2. PICK f \in PlacesOf(suffix, Chunk) :
           job' = [job EXCEPT !.place = f, !.appends = UNION {Targets(f, k) : k \in Kinds}]
  BY DEF Decide
<1>3. place' = f /\ job'.appends = UNION {Targets(f, k) : k \in Kinds}
  BY <1>2, JobTypes DEF Jobs, place
<1>4. DOMAIN f \in SUBSET Chunk /\ Chunk \in SUBSET Items
  BY <1>1, ChunkType, SuffixType, PlacesFacts
<1>5. ASSUME NEW d \in Cases PROVE Added(d)' = {}
  <2> SUFFICES ASSUME NEW r, r \in Added(d)' PROVE FALSE
    OBVIOUS
  <2>1. r \in DOMAIN f /\ r # Msg /\ f[r] = d /\ <<d, KindOf(r)>> \notin job'.appends
    BY <1>3, AddedNext DEF AddedLaw, KindOf
  <2>2. r \in Records
    BY <1>4, <2>1 DEF Items
  <2>3. <<d, KindOf(r)>> \in Targets(f, KindOf(r)) /\ KindOf(r) \in Kinds
    BY <2>1, <2>2, TargetsFacts, KindOfRecords
  <2>4. QED
    BY <1>3, <2>1, <2>3
<1>6. ASSUME NEW d \in Cases
      PROVE  IsFiniteSet(Held(d)') /\ Cardinality(Held(d)') = CountOf(d)' + Cardinality(Added(d)')
  <2>1. Held(d)' = Held(d) /\ CountOf(d)' = CountOf(d)
    BY <1>1, HeldStays, SameCounts
  <2>2. IsFiniteSet(Held(d)) /\ Cardinality(Held(d)) = CountOf(d)
    BY <1>1 DEF Counted
  <2>3. Cardinality(Added(d)') = 0 /\ Cardinality(Held(d)) \in Nat
    BY <1>5, <2>2, FS_EmptySet, FS_CardinalityType
  <2>4. QED
    BY <2>1, <2>2, <2>3
<1>7. QED
  BY <1>1, <1>6, CountedJoin

LEMMA GroupFacts ==
    ASSUME TypeOK, NEW c, NEW k
    PROVE  /\ Group(c, k) \in SUBSET Records /\ Group(c, k) \in SUBSET Items
           /\ \A r : r \in Group(c, k) <=> r \in DOMAIN place /\ r # Msg /\ place[r] = c /\ KindOf(r) = k
<1>1. DOMAIN place \in SUBSET Items
  BY JobTypes, TreesAndPlaces
<1>2. \A r : r \in Group(c, k) <=> r \in DOMAIN place /\ r # Msg /\ place[r] = c /\ KindOf(r) = k
  BY DEF Group
<1>3. QED
  BY <1>1, <1>2 DEF Items

LEMMA AppendCounts ==
    ASSUME TypeOK, TypeOK', Counted, NEW c \in Cases, NEW k \in Kinds, AppendCopies(c, k)
    PROVE  Counted'
<1>1. /\ pc = "append" /\ pc' = "append" /\ tree' = tree /\ <<c, k>> \in job.appends
      /\ copies' = [copies EXCEPT ![c] = [r \in Records |-> @[r] + IF r \in Group(c, k) THEN 1 ELSE 0]]
  BY DEF AppendCopies, memory
<1>2. place' = place /\ job'.appends = job.appends \ {<<c, k>>}
  BY JobTypes DEF AppendCopies, Jobs, place
<1>3. copies \in [Cases -> [Records -> Nat]]
  BY DEF TypeOK, DiskTypes
<1>4. \A r \in Records : copies'[c][r] = copies[c][r] + IF r \in Group(c, k) THEN 1 ELSE 0
  BY <1>1, <1>3
<1>5. \A d \in Cases : d # c => copies'[d] = copies[d]
  BY <1>1, <1>3
<1>6. \A d \in Cases : IsFiniteSet(Held(d)) /\ Cardinality(Held(d)) = CountOf(d) + Cardinality(Added(d))
  BY <1>1 DEF Counted
<1>7. \A d, r : r \in Added(d)' <=> /\ r \in DOMAIN place /\ r # Msg /\ place[r] = d
                                    /\ <<d, KindOf(r)>> \notin job.appends \ {<<c, k>>}
  BY <1>2, AddedNext DEF AddedLaw, KindOf
<1>8. \A d : CountOf(d)' = CountOf(d)
  BY <1>1, SameCounts
<1>9. ASSUME NEW d \in Cases
      PROVE  IsFiniteSet(Held(d)') /\ Cardinality(Held(d)') = CountOf(d)' + Cardinality(Added(d)')
  <2>1. CASE d # c
    <3>1. Added(d)' = Added(d)
      <4>1. \A r : r \in Added(d)' <=> r \in Added(d)
        <5>1. \A r : <<d, KindOf(r)>> # <<c, k>>
          BY <2>1
        <5>2. \A r : r \in Added(d) <=> /\ r \in DOMAIN place /\ r # Msg /\ place[r] = d
                                         /\ <<d, KindOf(r)>> \notin job.appends
          BY AddedFacts
        <5>3. QED
          BY <1>7, <5>1, <5>2
      <4>2. QED
        BY <4>1
    <3>2. Held(d)' = Held(d)
      BY <1>5, <2>1, HeldStays
    <3>3. QED
      BY <1>6, <1>8, <3>1, <3>2
  <2>2. CASE d = c
    <3>1. Added(c)' = Added(c) \cup Group(c, k) /\ Added(c) \cap Group(c, k) = {}
      <4>1. \A r : r \in Added(c)' <=> r \in Added(c) \/ r \in Group(c, k)
        BY <1>7, AddedFacts, GroupFacts
      <4>2. \A r : ~(r \in Added(c) /\ r \in Group(c, k))
        BY <1>1, AddedFacts, GroupFacts
      <4>3. QED
        BY <4>1, <4>2
    <3>2. /\ IsFiniteSet(Held(c)')
          /\ Cardinality(Held(c)') = Cardinality(Held(c)) + Cardinality(Group(c, k))
      BY <1>4, <1>6, GroupFacts, HeldGrows
    <3>3. /\ IsFiniteSet(Added(c)) /\ Cardinality(Added(c)) \in Nat
          /\ IsFiniteSet(Group(c, k)) /\ Cardinality(Group(c, k)) \in Nat
      BY AddedFacts, GroupFacts, SomeRecords
    <3>4. Cardinality(Added(c) \cup Group(c, k)) = Cardinality(Added(c)) + Cardinality(Group(c, k))
      <4>1. Cardinality(Added(c) \cup Group(c, k)) =
               Cardinality(Added(c)) + Cardinality(Group(c, k)) - Cardinality(Added(c) \cap Group(c, k))
        BY <3>3, FS_Union
      <4>2. QED
        BY <3>1, <3>3, <4>1, FS_EmptySet
    <3>5. CountOf(c) \in Nat
      BY TreesAndPlaces DEF CountOf, TypeOK, MemoryTypes
    <3>6. QED
      BY <1>6, <1>8, <2>2, <3>1, <3>2, <3>3, <3>4, <3>5
  <2>3. QED
    BY <2>1, <2>2
<1>10. QED
  BY <1>1, <1>9, CountedJoin

LEMMA ApplyCounts ==
    ASSUME TypeOK, Stages, Numbering, RestIsPending, Carried, Pointing, Intact, Counted, Apply
    PROVE  Counted'
<1>1. /\ pc = "append" /\ job.appends = {} /\ UNCHANGED copies /\ pc' \in {"next", "savetree"}
      /\ tree' = [c \in DOMAIN tree \cup Created |->
                     CountOf(c) + Cardinality(UNION {Group(c, k) : k \in Kinds})]
  BY DEF Apply, disk
<1>2. /\ suffix \in Suffixes /\ channel \in Channels
      /\ current[suffix][channel] \in DOMAIN tree \cup {NoCase}
  BY <1>1, ApplyParts DEF Pointing, Intact
<1>3. ASSUME NEW d \in Cases
      PROVE  Cardinality(Held(d)') = CountOf(d)' /\ IsFiniteSet(Held(d)')
  <2>1. /\ Held(d)' = Held(d) /\ IsFiniteSet(Held(d))
        /\ Cardinality(Held(d)) = CountOf(d) + Cardinality(Added(d))
    BY <1>1, HeldStays DEF Counted
  <2>2. Added(d) = UNION {Group(d, k) : k \in Kinds}
    <3>1. \A r : r \in Added(d) <=> r \in DOMAIN place /\ r # Msg /\ place[r] = d
      BY <1>1, AddedFacts
    <3>2. \A r : r \in UNION {Group(d, k) : k \in Kinds} <=> \E k \in Kinds : r \in Group(d, k)
      OBVIOUS
    <3>3. \A r : r \in DOMAIN place /\ r # Msg => KindOf(r) \in Kinds
      BY JobTypes, TreesAndPlaces, KindOfRecords DEF Items
    <3>4. \A r : r \in Added(d) <=> \E k \in Kinds : r \in Group(d, k)
      BY <3>1, <3>3, GroupFacts
    <3>5. QED
      BY <3>2, <3>4
  <2>3. CASE d \in DOMAIN tree \cup Created
    <3>1. tree'[d] = CountOf(d) + Cardinality(Added(d)) /\ d \in DOMAIN tree'
      BY <1>1, <2>2, <2>3
    <3>2. QED
      BY <2>1, <3>1 DEF CountOf
  <2>4. CASE d \notin DOMAIN tree \cup Created
    <3>1. d # NoCase
      BY CasesApart
    <3>2. ASSUME NEW x \in DOMAIN place, place[x] = d PROVE FALSE
      BY <1>2, <2>4, <3>1, <3>2 DEF Created
    <3>3. Added(d) = {}
      BY <3>2, AddedFacts
    <3>4. CountOf(d) = 0 /\ CountOf(d)' = 0
      BY <1>1, <2>4 DEF CountOf
    <3>5. QED
      BY <2>1, <3>3, <3>4, FS_EmptySet
  <2>5. QED
    BY <2>3, <2>4, <2>1
<1>4. QED
  BY <1>1, <1>3, CountedJoin

LEMMA CountedStay ==
    ASSUME TypeOK, TypeOK', Stages, Numbering, RestIsPending, Carried, Pointing, Intact, Counted,
           ~opened => diskTree = NoTree, Next, failures' = 0
    PROVE  Counted'
<1>1. ~Fail /\ ~EnsureFails /\ ~AppendFails /\ ~SaveFails /\ ~Crash
  BY NoFailure
<1>2. ASSUME copies' = copies, tree' = tree,
             pc \notin {"append", "clear"}, pc' \notin {"append", "clear"}
      PROVE  Counted'
  <2>1. \A d \in Cases : Held(d)' = Held(d) /\ IsFiniteSet(Held(d)) /\ Cardinality(Held(d)) = CountOf(d)
    BY <1>2, HeldStays DEF Counted
  <2>2. \A d : CountOf(d)' = CountOf(d)
    BY <1>2, SameCounts
  <2>3. QED
    BY <1>2, <2>1, <2>2, CountedJoin
<1>3. ASSUME NEW o \in {"trigger", "rebuild", "locate"}, NEW s \in Suffixes,
             NEW m \in Channels \cup {NoChannel}, Begin(o, s, m)
      PROVE  Counted'
  <2>1. tree' = tree
    BY <1>3, SameTree
  <2>2. copies' = copies /\ pc = "idle" /\ pc' = "ensure"
    BY <1>3 DEF Begin, disk
  <2>3. QED
    BY <1>2, <2>1, <2>2
<1>4. CASE EnsureKnown \/ EnsureRead
  <2>1. AfterEnsure /\ copies' = copies /\ tree' = tree /\ pc = "ensure"
    BY <1>4 DEF EnsureKnown, EnsureRead, disk, memory
  <2>2. CASE pc' = "view"
    BY <1>2, <2>1, <2>2
  <2>3. CASE pc' = "clear" /\ job' = [job EXCEPT !.doomed = CasesToClear]
    <3>1. suffix' = suffix /\ job'.doomed = CasesToClear
      BY <2>3, JobTypes DEF Jobs, suffix
    <3>2. CasesToClear' = CasesToClear
      BY <2>1, <3>1 DEF CasesToClear
    <3>3. \A d \in Cases : Held(d)' = Held(d) /\ IsFiniteSet(Held(d)) /\ Cardinality(Held(d)) = CountOf(d)
      BY <2>1, HeldStays DEF Counted
    <3>4. \A d : CountOf(d)' = CountOf(d)
      BY <2>1, SameCounts
    <3>5. QED
      BY <2>3, <3>1, <3>2, <3>3, <3>4, CountedJoin
  <2>4. QED
    BY <2>1, <2>2, <2>3 DEF AfterEnsure
<1>5. ASSUME NEW c \in Cases, ClearCopies(c) PROVE Counted'
  BY <1>5, <1>1, ClearCounts
<1>6. CASE ResetCurrent
  BY <1>6, <1>1, ResetCounts
<1>7. CASE Decide
  BY <1>7, DecideCounts
<1>8. ASSUME NEW c \in Cases, NEW k \in Kinds, AppendCopies(c, k) PROVE Counted'
  BY <1>8, AppendCounts
<1>9. CASE Apply
  BY <1>9, ApplyCounts
<1>10. ASSUME NEW y \in Records, Write(y) PROVE Counted'
  BY <1>2, <1>10 DEF Write, disk, memory
<1>11. CASE \/ ResetMark \/ ReadChannelFile \/ ReadThinkFile \/ NextChannel \/ Finish \/ DecideFails
            \/ SaveTree \/ SaveCurrent \/ SaveMark
  BY <1>2, <1>11, <1>1 DEF ResetMark, ReadChannelFile, ReadThinkFile, NextChannel, Finish, DecideFails,
           SaveTree, SaveCurrent, SaveMark, Idle, disk, memory
<1>12. QED
  BY <1>3, <1>4, <1>5, <1>6, <1>7, <1>8, <1>9, <1>10, <1>11, <1>1 DEF Next

--------------------------------------------------------------------------------
(* What has a copy lies behind the watermark or is on its way there.            *)

Placed(c) == \E x \in DOMAIN place : place[x] = c

LEMMA CopiedJoin ==
    ASSUME \A c \in Cases, r \in Records : copies'[c][r] > 0 =>
              /\ at'[r] # 0
              /\ SuffixOf[r] \in loaded'
              /\ c \in DOMAIN tree' \/ Placed(c)'
              /\ OnTime(r)' => /\ copies'[c][r] = 1
                               /\ \A d \in Cases : copies'[d][r] > 0 => d = c
                               /\ \/ ~Beyond(Position(r, Written)',
                                             mark'[SuffixOf[r]][ChannelOf[r]][KindOf(r)])
                                  \/ r \in Added(c)'
    PROVE  Copied'
  BY DEF Copied, Behind, Placed, Beyond, KindOf

LEMMA CopiedFacts ==
    ASSUME Copied, NEW c \in Cases, NEW r \in Records, copies[c][r] > 0
    PROVE  /\ at[r] # 0
           /\ SuffixOf[r] \in loaded
           /\ c \in DOMAIN tree \/ Placed(c)
           /\ OnTime(r) => /\ copies[c][r] = 1
                           /\ \A d \in Cases : copies[d][r] > 0 => d = c
                           /\ \/ ~Beyond(Position(r, Written),
                                         mark[SuffixOf[r]][ChannelOf[r]][KindOf(r)])
                              \/ r \in Added(c)
  BY DEF Copied, Behind, Placed

LEMMA NothingPlaced ==
    ASSUME TypeOK, Stages, pc # "append" PROVE \A c : ~Placed(c) /\ Added(c) = {}
<1>1. DOMAIN place = {}
  BY EmptyOnes DEF Stages
<1>2. QED
  BY <1>1, AddedFacts DEF Placed

LEMMA SamePositions ==
    ASSUME UNCHANGED at PROVE \A r : Position(r, Written)' = Position(r, Written)
<1>1. Written' = Written
  BY SameStore
<1>2. \A r, n : Position(r, n)' = Position(r, n)
  BY SameStore
<1>3. \A r, n : n = Written' => Position(r, n)' = Position(r, Written)'
  OBVIOUS
<1>4. QED
  BY <1>1, <1>2, <1>3

\* No chunk is under way: the copies there are lie behind the watermark.
LEMMA CopiedFollows ==
    ASSUME TypeOK, Stages, Copied, UNCHANGED at, pc # "append", loaded \subseteq loaded',
           \A c \in Cases, r \in Records : copies'[c][r] > 0 =>
              /\ copies'[c][r] = copies[c][r]
              /\ c \in DOMAIN tree => c \in DOMAIN tree'
              /\ mark'[SuffixOf[r]] = mark[SuffixOf[r]]
    PROVE  Copied'
<1>1. \A r : OnTime(r)' <=> OnTime(r)
  BY SameStore
<1>2. \A r : Position(r, Written)' = Position(r, Written)
  BY SamePositions
<1>3. \A c : ~Placed(c) /\ Added(c) = {}
  BY NothingPlaced
<1>4. ASSUME NEW c \in Cases, NEW r \in Records, copies'[c][r] > 0
      PROVE  /\ at'[r] # 0
             /\ SuffixOf[r] \in loaded'
             /\ c \in DOMAIN tree'
             /\ OnTime(r)' => /\ copies'[c][r] = 1
                              /\ \A d \in Cases : copies'[d][r] > 0 => d = c
                              /\ ~Beyond(Position(r, Written)',
                                         mark'[SuffixOf[r]][ChannelOf[r]][KindOf(r)])
  <2>1. copies[c][r] > 0
    BY <1>4
  <2>2. at[r] # 0 /\ SuffixOf[r] \in loaded /\ c \in DOMAIN tree
    BY <1>3, <2>1, CopiedFacts
  <2>3. ASSUME OnTime(r)'
        PROVE  /\ copies'[c][r] = 1
               /\ \A d \in Cases : copies'[d][r] > 0 => d = c
               /\ ~Beyond(Position(r, Written)', mark'[SuffixOf[r]][ChannelOf[r]][KindOf(r)])
    <3>1. /\ copies[c][r] = 1 /\ \A d \in Cases : copies[d][r] > 0 => d = c
          /\ ~Beyond(Position(r, Written), mark[SuffixOf[r]][ChannelOf[r]][KindOf(r)])
      BY <1>1, <1>3, <2>1, <2>3, CopiedFacts
    <3>2. \A d \in Cases : copies'[d][r] > 0 => copies[d][r] > 0
      OBVIOUS
    <3>3. QED
      BY <1>2, <1>4, <3>1, <3>2
  <2>4. QED
    BY <1>4, <2>2, <2>3
<1>5. QED
  BY <1>4, CopiedJoin

LEMMA WriteCopied ==
    ASSUME TypeOK, Stages, Numbering, Copied, NEW y \in Records, Write(y) PROVE Copied'
<1>1. UNCHANGED <<copies, loaded, tree, mark, job>> /\ pc # "append"
  BY DEF Write, disk, memory
<1>2. \A c : ~Placed(c) /\ Added(c) = {}
  BY <1>1, NothingPlaced
<1>3. ASSUME NEW c \in Cases, NEW r \in Records, copies[c][r] > 0
      PROVE  /\ at'[r] # 0
             /\ SuffixOf[r] \in loaded
             /\ c \in DOMAIN tree
             /\ OnTime(r)' => /\ copies[c][r] = 1
                              /\ \A d \in Cases : copies[d][r] > 0 => d = c
                              /\ ~Beyond(Position(r, Written)',
                                         mark[SuffixOf[r]][ChannelOf[r]][KindOf(r)])
  <2>1. at[r] # 0 /\ SuffixOf[r] \in loaded /\ c \in DOMAIN tree
    BY <1>2, <1>3, CopiedFacts
  <2>2. at'[r] # 0
    BY <2>1, WriteFacts
  <2>3. ASSUME OnTime(r)'
        PROVE  /\ copies[c][r] = 1
               /\ \A d \in Cases : copies[d][r] > 0 => d = c
               /\ ~Beyond(Position(r, Written)', mark[SuffixOf[r]][ChannelOf[r]][KindOf(r)])
    <3>1. OnTime(r)
      BY <2>3, LateStays
    <3>2. Position(r, Written)' = Position(r, Written)
      BY <2>1, <2>3, WriteKeepsOnTime
    <3>3. QED
      BY <1>2, <1>3, <3>1, <3>2, CopiedFacts
  <2>4. QED
    BY <2>1, <2>2, <2>3
<1>4. QED
  BY <1>1, <1>3, CopiedJoin

\* A record of a chunk: it was read behind the watermark.
LEMMA ChunkRecord ==
    ASSUME TypeOK, Stages, Numbering, RestIsPending, Carried, pc = "append",
           NEW r \in DOMAIN place, r # Msg
    PROVE  /\ r \in Records /\ at[r] # 0 /\ SuffixOf[r] = suffix /\ ChannelOf[r] = channel
           /\ r \in Stored(Chunk) /\ suffix \in loaded
           /\ KindOf(r) \in Kinds
           /\ Beyond(Position(r, view[KindOf(r)]), mark[suffix][channel][KindOf(r)])
           /\ OnTime(r) => Position(r, view[KindOf(r)]) = Position(r, Written)
<1>1. r \in Stored(Chunk) /\ r \in Stored(rest) /\ rest # {}
  BY ChunkType DEF Carried, Stored
<1>2. r \in PendingFor(suffix, channel, view, mark[suffix][channel])
  BY <1>1 DEF RestIsPending
<1>3. /\ r \in Records /\ SuffixOf[r] = suffix /\ ChannelOf[r] = channel
      /\ Claimed(r, view)
      /\ Beyond(Position(r, view[KindOf(r)]), mark[suffix][channel][KindOf(r)])
  BY <1>2 DEF PendingFor
<1>4. KindOf(r) \in Kinds /\ at[r] # 0 /\ at[r] <= view[KindOf(r)]
  BY <1>3, KindOfRecords DEF Claimed, Seen
<1>5. suffix \in loaded
  BY DEF Stages
<1>6. /\ at \in [Records -> Nat] /\ Written \in Nat /\ view[KindOf(r)] \in Nat
      /\ view[KindOf(r)] <= Written
  <2>1. at \in [Records -> Nat] /\ Written \in Nat /\ view \in [Kinds -> Nat]
    BY WrittenType, JobTypes DEF TypeOK, OtherTypes
  <2>2. view["channel"] <= Written /\ view["think"] = Written
    BY DEF Numbering, Working
  <2>3. QED
    BY <1>4, <2>1, <2>2 DEF Kinds
<1>7. at[r] \in 1..view[KindOf(r)]
  BY <1>3, <1>4, <1>6
<1>8. OnTime(r) => Position(r, view[KindOf(r)]) = Position(r, Written)
  BY <1>3, <1>6, <1>7, OnTimePosition
<1>9. QED
  BY <1>1, <1>3, <1>4, <1>5, <1>8

LEMMA AppendCopied ==
    ASSUME TypeOK, TypeOK', Stages, Numbering, RestIsPending, Carried, Copied,
           NEW c \in Cases, NEW k \in Kinds, AppendCopies(c, k)
    PROVE  Copied'
<1>1. /\ pc = "append" /\ <<c, k>> \in job.appends /\ UNCHANGED <<at, loaded, tree, mark>>
      /\ copies' = [copies EXCEPT ![c] = [r \in Records |-> @[r] + IF r \in Group(c, k) THEN 1 ELSE 0]]
  BY DEF AppendCopies, memory
<1>2. place' = place /\ job'.appends = job.appends \ {<<c, k>>}
  BY JobTypes DEF AppendCopies, Jobs, place
<1>3. copies \in [Cases -> [Records -> Nat]]
  BY DEF TypeOK, DiskTypes
<1>4. \A d \in Cases, r \in Records :
         copies'[d][r] = copies[d][r] + IF d = c /\ r \in Group(c, k) THEN 1 ELSE 0
  BY <1>1, <1>3
<1>5. \A d \in Cases, r \in Records : copies[d][r] \in Nat
  BY <1>3
<1>6. \A d : Placed(d)' <=> Placed(d)
  BY <1>2 DEF Placed
<1>7. \A d, r : r \in Added(d)' <=> r \in Added(d) \/ (d = c /\ r \in Group(c, k))
  <2>1. \A d, r : r \in Added(d)' <=> /\ r \in DOMAIN place /\ r # Msg /\ place[r] = d
                                      /\ <<d, KindOf(r)>> \notin job.appends \ {<<c, k>>}
    BY <1>2, AddedNext DEF AddedLaw, KindOf
  <2>2. \A d, r : <<d, KindOf(r)>> = <<c, k>> <=> d = c /\ KindOf(r) = k
    OBVIOUS
  <2>3. QED
    BY <1>1, <2>1, <2>2, AddedFacts, GroupFacts
<1>8. (\A r : OnTime(r)' <=> OnTime(r)) /\ (\A r : Position(r, Written)' = Position(r, Written))
  BY <1>1, SameStore, SamePositions
\* What the file gets is not in any file yet.
<1>9. ASSUME NEW r \in Group(c, k), OnTime(r), NEW d \in Cases, copies[d][r] > 0
      PROVE  FALSE
  <2>1. r \in DOMAIN place /\ r # Msg /\ place[r] = c /\ KindOf(r) = k
    BY GroupFacts
  <2>2. /\ r \in Records /\ SuffixOf[r] = suffix /\ ChannelOf[r] = channel
        /\ Beyond(Position(r, Written), mark[suffix][channel][k])
    BY <1>1, <1>9, <2>1, ChunkRecord
  <2>3. r \in Added(d)
    BY <1>9, <2>1, <2>2, CopiedFacts
  <2>4. QED
    BY <1>1, <2>1, <2>3, AddedFacts
<1>10. ASSUME NEW d \in Cases, NEW r \in Records, copies'[d][r] > 0
       PROVE  /\ at'[r] # 0
              /\ SuffixOf[r] \in loaded'
              /\ d \in DOMAIN tree' \/ Placed(d)'
              /\ OnTime(r)' => /\ copies'[d][r] = 1
                               /\ \A z \in Cases : copies'[z][r] > 0 => z = d
                               /\ \/ ~Beyond(Position(r, Written)',
                                             mark'[SuffixOf[r]][ChannelOf[r]][KindOf(r)])
                                  \/ r \in Added(d)'
  <2>1. CASE r \in Group(c, k)
    <3>1. r \in DOMAIN place /\ r # Msg /\ place[r] = c /\ KindOf(r) = k
      BY <2>1, GroupFacts
    <3>2. at[r] # 0 /\ SuffixOf[r] \in loaded /\ SuffixOf[r] = suffix
      BY <1>1, <3>1, ChunkRecord
    <3>3. d \in DOMAIN tree' \/ Placed(d)'
      <4>1. CASE d = c
        BY <1>6, <3>1, <4>1 DEF Placed
      <4>2. CASE d # c
        <5>1. copies[d][r] > 0
          BY <1>4, <1>10, <1>5, <4>2
        <5>2. QED
          BY <1>1, <1>6, <5>1, CopiedFacts
      <4>3. QED
        BY <4>1, <4>2
    <3>4. ASSUME OnTime(r)'
          PROVE  d = c /\ copies'[c][r] = 1 /\ \A z \in Cases : copies'[z][r] > 0 => z = c
      <4>1. \A z \in Cases : copies[z][r] = 0
        BY <1>8, <1>9, <1>5, <2>1, <3>4
      <4>2. QED
        BY <1>4, <1>10, <2>1, <4>1
    <3>5. r \in Added(c)'
      BY <1>7, <2>1
    <3>6. QED
      BY <1>1, <3>2, <3>3, <3>4, <3>5
  <2>2. CASE r \notin Group(c, k)
    <3>1. \A z \in Cases : copies'[z][r] = copies[z][r]
      BY <1>4, <1>5, <2>2
    <3>2. /\ at[r] # 0 /\ SuffixOf[r] \in loaded /\ (d \in DOMAIN tree \/ Placed(d))
          /\ OnTime(r) => /\ copies[d][r] = 1
                          /\ \A z \in Cases : copies[z][r] > 0 => z = d
                          /\ \/ ~Beyond(Position(r, Written),
                                        mark[SuffixOf[r]][ChannelOf[r]][KindOf(r)])
                             \/ r \in Added(d)
      BY <1>10, <3>1, CopiedFacts
    <3>3. QED
      BY <1>1, <1>6, <1>7, <1>8, <3>1, <3>2
  <2>3. QED
    BY <2>1, <2>2
<1>11. QED
  BY <1>10, CopiedJoin

LEMMA ApplyCopied ==
    ASSUME TypeOK, Stages, Numbering, RestIsPending, Carried, Pointing, Intact, Copied, Apply
    PROVE  Copied'
<1>1. /\ pc = "append" /\ UNCHANGED <<at, copies, loaded>>
      /\ DOMAIN tree' = DOMAIN tree \cup Created
  BY DEF Apply, disk
<1>2. /\ suffix \in Suffixes /\ channel \in Channels
      /\ current[suffix][channel] \in DOMAIN tree \cup {NoCase}
      /\ Stored(Chunk) \in SUBSET Records
  BY <1>1, ApplyParts, ChunkType DEF Pointing, Intact
<1>3. \A c \in Cases : Placed(c) => c \in DOMAIN tree'
  <2> SUFFICES ASSUME NEW c \in Cases, Placed(c), c \notin Created PROVE c \in DOMAIN tree
    BY <1>1
  <2>1. c = current[suffix][channel]
    BY DEF Placed, Created
  <2>2. QED
    BY <1>2, <2>1, CasesApart
<1>4. (\A r : OnTime(r)' <=> OnTime(r)) /\ (\A r : Position(r, Written)' = Position(r, Written))
  BY <1>1, SameStore, SamePositions
<1>5. ASSUME NEW c \in Cases, NEW r \in Records, copies[c][r] > 0, OnTime(r)
      PROVE  ~Beyond(Position(r, Written), mark'[SuffixOf[r]][ChannelOf[r]][KindOf(r)])
  <2> DEFINE s == SuffixOf[r]
             ch == ChannelOf[r]
             k == KindOf(r)
             p == mark[suffix][channel][k]
             v == Advanced(p, k, Stored(Chunk))
  <2>1. s \in Suffixes /\ ch \in Channels /\ k \in Kinds
    BY SuffixOfRecords, KindOfRecords
  <2>2. p \in Points /\ Position(r, Written) \in Points
    BY <1>2, <2>1, PositionType DEF TypeOK, MemoryTypes, Marks
  <2>3. v \in Points /\ ~Beyond(p, v)
        /\ \A x \in Stored(Chunk) : KindOf(x) = k => ~Beyond(Position(x, view[k]), v)
    BY <1>2, <2>2, AdvancedFacts
  <2>4. mark'[s][ch][k] = IF s = suffix /\ ch = channel THEN v ELSE mark[s][ch][k]
    BY <2>1, ApplyMarks
  <2>5. ~Beyond(Position(r, Written), mark[s][ch][k]) \/ r \in Added(c)
    BY <1>5, CopiedFacts
  <2>6. CASE r \in Added(c)
    <3>1. r \in DOMAIN place /\ r # Msg
      BY <2>6, AddedFacts
    <3>2. s = suffix /\ ch = channel /\ r \in Stored(Chunk)
          /\ Position(r, view[k]) = Position(r, Written)
      BY <1>1, <1>5, <3>1, ChunkRecord
    <3>3. ~Beyond(Position(r, view[k]), v)
      BY <2>3, <3>2
    <3>4. QED
      BY <2>4, <3>2, <3>3
  <2>7. CASE ~Beyond(Position(r, Written), mark[s][ch][k])
    <3>1. CASE s = suffix /\ ch = channel
      <4>1. ~Beyond(Position(r, Written), p)
        BY <2>7, <3>1
      <4> HIDE DEF v, p, k, s, ch
      <4>2. ~Beyond(Position(r, Written), v)
        BY <2>2, <2>3, <4>1, BeyondOrder
      <4>3. QED
        BY <2>4, <3>1, <4>2 DEF k, s, ch
    <3>2. CASE ~(s = suffix /\ ch = channel)
      BY <2>4, <2>7, <3>2
    <3>3. QED
      BY <3>1, <3>2
  <2>8. QED
    BY <2>5, <2>6, <2>7
<1>6. QED
  <2>1. ASSUME NEW c \in Cases, NEW r \in Records, copies'[c][r] > 0
        PROVE  /\ at'[r] # 0 /\ SuffixOf[r] \in loaded' /\ c \in DOMAIN tree'
               /\ OnTime(r)' => /\ copies'[c][r] = 1
                                /\ \A d \in Cases : copies'[d][r] > 0 => d = c
                                /\ ~Beyond(Position(r, Written)',
                                           mark'[SuffixOf[r]][ChannelOf[r]][KindOf(r)])
    <3>1. copies[c][r] > 0
      BY <1>1, <2>1
    <3>2. /\ at[r] # 0 /\ SuffixOf[r] \in loaded /\ (c \in DOMAIN tree \/ Placed(c))
          /\ OnTime(r) => copies[c][r] = 1 /\ \A d \in Cases : copies[d][r] > 0 => d = c
      BY <3>1, CopiedFacts
    <3>3. QED
      BY <1>1, <1>3, <1>4, <1>5, <3>1, <3>2
  <2>2. QED
    BY <2>1, CopiedJoin

LEMMA CopiedStay ==
    ASSUME TypeOK, TypeOK', Stages, OwnParts, Numbering, RestIsPending, Carried, Pointing,
           Intact, Counted, Copied, ~opened => diskTree = NoTree, Next, failures' = 0
    PROVE  Copied'
<1>1. ~Fail /\ ~EnsureFails /\ ~AppendFails /\ ~SaveFails /\ ~Crash
  BY NoFailure
<1>2. /\ copies \in [Cases -> [Records -> Nat]] /\ mark \in [Suffixes -> Marks]
      /\ \A r \in Records : SuffixOf[r] \in Suffixes
  BY SuffixOfRecords DEF TypeOK, DiskTypes, MemoryTypes
<1>3. ASSUME UNCHANGED <<at, copies, tree, mark>>, pc # "append", loaded \subseteq loaded'
      PROVE  Copied'
  BY <1>3, CopiedFollows
<1>4. ASSUME NEW o \in {"trigger", "rebuild", "locate"}, NEW s \in Suffixes,
             NEW m \in Channels \cup {NoChannel}, Begin(o, s, m)
      PROVE  Copied'
  <2>1. tree' = tree
    BY <1>4, SameTree
  <2>2. UNCHANGED <<at, copies, mark, loaded>> /\ pc = "idle"
    BY <1>4 DEF Begin, disk
  <2>3. QED
    BY <1>3, <2>1, <2>2
<1>5. CASE EnsureRead
  <2>1. /\ UNCHANGED <<at, copies, tree>> /\ pc = "ensure" /\ loaded' = loaded \cup {suffix}
        /\ mark' = [mark EXCEPT ![suffix] = diskMark[suffix]] /\ suffix \notin loaded
    BY <1>5 DEF EnsureRead, disk
  <2>2. ASSUME NEW c \in Cases, NEW r \in Records, copies[c][r] > 0
        PROVE  mark'[SuffixOf[r]] = mark[SuffixOf[r]]
    <3>1. SuffixOf[r] # suffix
      BY <2>1, <2>2, CopiedFacts
    <3>2. QED
      BY <1>2, <2>1, <3>1
  <2>3. QED
    BY <2>1, <2>2, CopiedFollows
<1>6. ASSUME NEW c \in Cases, ClearCopies(c) PROVE Copied'
  <2>1. UNCHANGED <<at, tree, mark, loaded>> /\ pc = "clear"
    BY <1>6 DEF ClearCopies, memory
  <2>2. PICK K \in SUBSET Kinds : copies' = [copies EXCEPT ![c] =
            [r \in Records |-> IF KindOf(r) \in K THEN 0 ELSE @[r]]]
    BY <1>6 DEF ClearCopies
  <2>3. \A d \in Cases, r \in Records : copies'[d][r] = copies[d][r] \/ copies'[d][r] = 0
    BY <1>2, <2>2
  <2>4. \A d \in Cases, r \in Records : copies'[d][r] > 0 => copies'[d][r] = copies[d][r]
    BY <2>3
  <2>5. QED
    BY <2>1, <2>4, CopiedFollows
<1>7. CASE ResetCurrent
  <2>1. /\ UNCHANGED <<at, copies, loaded>> /\ pc = "clear" /\ job.doomed = {}
        /\ DOMAIN tree' = DOMAIN tree \ CasesToClear
        /\ mark' = [mark EXCEPT ![suffix] = NoMarks]
    BY <1>7 DEF ResetCurrent
  <2>2. ASSUME NEW c \in Cases, NEW r \in Records, copies[c][r] > 0
        PROVE  c \in DOMAIN tree' /\ mark'[SuffixOf[r]] = mark[SuffixOf[r]]
    <3>1. c \in DOMAIN tree
      BY <2>1, <2>2, CopiedFacts, NothingPlaced
    <3>2. c \notin CasesToClear
      <4>1. copies[c][r] # 0
        BY <1>2, <2>2
      <4>2. Held(c) # {}
        BY <4>1, NothingHeld
      <4>3. QED
        BY <2>1, <4>2 DEF Counted
    <3>3. c \in OwnCases(SuffixOf[r])
      BY <2>2 DEF OwnParts
    <3>4. SuffixOf[r] # suffix
      BY <3>1, <3>2, <3>3 DEF CasesToClear, OwnCases
    <3>5. QED
      BY <1>2, <2>1, <3>1, <3>2, <3>4
  <2>3. QED
    BY <2>1, <2>2, CopiedFollows
<1>8. ASSUME NEW c \in Cases, NEW k \in Kinds, AppendCopies(c, k) PROVE Copied'
  BY <1>8, AppendCopied
<1>9. CASE Apply
  BY <1>9, ApplyCopied
<1>10. ASSUME NEW y \in Records, Write(y) PROVE Copied'
  BY <1>10, WriteCopied
<1>11. CASE \/ EnsureKnown \/ ResetMark \/ ReadChannelFile \/ ReadThinkFile \/ NextChannel \/ Finish
            \/ Decide \/ DecideFails \/ SaveTree \/ SaveCurrent \/ SaveMark
  BY <1>3, <1>11 DEF EnsureKnown, ResetMark, ReadChannelFile, ReadThinkFile, NextChannel, Finish,
           Decide, DecideFails, SaveTree, SaveCurrent, SaveMark, Idle, disk, memory
<1>12. QED
  BY <1>4, <1>5, <1>6, <1>7, <1>8, <1>9, <1>10, <1>11, <1>1 DEF Next

--------------------------------------------------------------------------------
(* The invariant holds in every state.                                          *)

LEMMA TypesStay ==
    ASSUME TypeOK, Stages, Numbering, RestIsPending, Carried, Next PROVE TypeOK'
<1>1. CASE Finish
  BY <1>1, EndTypes DEF Finish, Idle, bounds, TypeOK, OtherTypes
<1>2. CASE DecideFails
  BY <1>2, EndTypes DEF DecideFails, Idle, bounds, TypeOK, OtherTypes
<1>3. CASE AppendFails \/ SaveFails
  <2>1. Fail /\ UNCHANGED <<at, disk, memory, history>>
    BY <1>3 DEF AppendFails, SaveFails
  <2>2. QED
    BY <2>1, FailTypes, EndTypes
<1>4. ASSUME NEW s \in Suffixes, NEW m \in Channels \cup {NoChannel},
             NEW o \in {"trigger", "rebuild", "locate"}, Begin(o, s, m)
      PROVE  TypeOK'
  BY <1>4, BeginTypes
<1>5. QED
  BY <1>1, <1>2, <1>3, <1>4, WriteTypes, EnsureKnownTypes, EnsureReadTypes, EnsureFailsTypes,
     ClearCopiesTypes, ResetCurrentTypes, ResetMarkTypes, ReadChannelTypes, ReadThinkTypes,
     NextChannelTypes, DecideTypes, AppendCopiesTypes, ApplyTypes, SaveTreeTypes, SaveCurrentTypes,
     SaveMarkTypes, CrashTypes
  DEF Next

LEMMA InvStays == ASSUME ArchiveInv, Next PROVE ArchiveInv'
<1>1. /\ TypeOK /\ Stages /\ OwnParts /\ Numbering
      /\ Sound(diskMark) /\ Sound(mark) /\ SoundInView
      /\ RestIsPending /\ Carried /\ Pointing
  BY DEF ArchiveInv
<1>2. TypeOK' /\ Stages' /\ OwnParts' /\ Numbering'
  BY <1>1, TypesStay, StagesStay, OwnPartsStay, NumberingStay
<1>3. Sound(diskMark)' /\ Sound(mark)'
  BY <1>1, SoundStay
<1>4. SoundInView'
  BY <1>1, SoundInViewStay
<1>5. RestIsPending' /\ Carried' /\ Pointing'
  BY <1>1, RestIsPendingStay, CarriedStay, PointingStay
<1>6. QED
  BY <1>2, <1>3, <1>4, <1>5 DEF ArchiveInv

LEMMA InitWritten == Init => Written = 0
<1> SUFFICES ASSUME Init PROVE Written = 0
  OBVIOUS
<1>1. {r \in Records : at[r] # 0} = {}
  BY DEF Init
<1>2. QED
  BY <1>1, FS_EmptySet DEF Written

LEMMA InitInv == Init => ArchiveInv
<1> SUFFICES ASSUME Init PROVE ArchiveInv
  OBVIOUS
<1>1. TypeOK
  BY InitTypes
<1>2. /\ rest = {} /\ place = NoPlace /\ job.appends = {} /\ job.doomed = {} /\ DOMAIN place = {}
      /\ pc = "idle"
  BY NoJobFacts, EmptyOnes DEF Init, rest, place
<1>3. Stages
  BY <1>2 DEF Stages, Init, Working, Saving
<1>4. \A s \in Suffixes, ch \in Channels : diskCurrent[s][ch] = NoCase /\ current[s][ch] = NoCase
  BY EmptyOnes DEF Init
<1>5. OwnParts
  <2>1. \A c \in Cases, r \in Records : copies[c][r] = 0
    BY DEF Init
  <2>2. QED
    BY <1>2, <1>4, <2>1 DEF OwnParts
<1>6. Numbering
  BY <1>2, InitWritten DEF Init, Numbering, Working, Saving
<1>7. Sound(diskMark) /\ Sound(mark)
  <2>1. at \in [Records -> Nat]
    BY <1>1 DEF TypeOK, OtherTypes
  <2>2. \A s \in Suffixes, ch \in Channels, k \in Kinds : diskMark[s][ch][k] = Zero /\ mark[s][ch][k] = Zero
    BY EmptyOnes DEF Init
  <2>3. QED
    BY <1>6, <2>1, <2>2, ZeroIsSound DEF Sound
<1>8. SoundInView /\ RestIsPending /\ Carried
  BY <1>2 DEF SoundInView, RestIsPending, Carried, Working, Saving
<1>9. Pointing
  BY <1>2, <1>4 DEF Pointing
<1>10. QED
  BY <1>1, <1>3, <1>5, <1>6, <1>7, <1>8, <1>9 DEF ArchiveInv

LEMMA StutterInv == ASSUME ArchiveInv, UNCHANGED vars PROVE ArchiveInv'
<1>1. /\ TypeOK /\ Stages /\ OwnParts /\ Numbering
      /\ Sound(diskMark) /\ Sound(mark) /\ SoundInView
      /\ RestIsPending /\ Carried /\ Pointing
  BY DEF ArchiveInv
<1>2. /\ UNCHANGED <<at, copies, diskTree, diskCurrent, diskMark, opened, loaded, tree, current, mark>>
      /\ UNCHANGED <<pc, job, dropped, broken>>
      /\ suffix' = suffix /\ view' = view /\ channel' = channel /\ rest' = rest /\ place' = place
  BY DEF vars, disk, memory, history, suffix, view, channel, rest, place
<1>3. TypeOK'
  BY <1>1, StutterTypes
<1>4. Stages' /\ OwnParts' /\ Pointing'
  <2>1. CasesToClear' = CasesToClear
    BY <1>2 DEF CasesToClear
  <2>2. QED
    BY <1>1, <1>2, <2>1 DEF Stages, OwnParts, Pointing
<1>5. Numbering'
  <2>1. Written' = Written
    BY <1>2, SameStore
  <2>2. QED
    BY <1>1, <1>2, <2>1 DEF Numbering
<1>6. \A r \in Records : Lost(r)' => Lost(r)
  <2>1. \A r : OutOfOrder(r)' <=> OutOfOrder(r)
    BY <1>2, SameStore
  <2>2. QED
    BY <1>2, <2>1 DEF Lost, HasCopy
<1>7. Sound(diskMark)' /\ Sound(mark)'
  BY <1>1, <1>2, <1>6, SoundFollows
<1>8. SoundInView'
  <2>1. ASSUME suffix \notin broken, NEW ch \in Channels, NEW k \in Kinds,
               pc \in Working \/ (pc = "view2" /\ k = "channel"),
               NEW r \in Of(suffix, ch, k),
               NEW v, v = view, Claimed(r, v)', Lost(r)', NEW n, n = v[k]
        PROVE  Beyond(Position(r, n)', mark[suffix][ch][k])
    <3>1. Claimed(r, view) /\ Position(r, n)' = Position(r, n)
      BY <1>2, <2>1, SameStore
    <3>2. Lost(r)
      BY <1>6, <2>1, OfFacts
    <3>3. Beyond(Position(r, view[k]), mark[suffix][ch][k])
      BY <1>1, <2>1, <3>1, <3>2, SoundOfView
    <3>4. QED
      BY <2>1, <3>1, <3>3
  <2>2. QED
    BY <1>2, <2>1, SoundOfView
<1>9. RestIsPending'
  <2>1. \A s, ch, v, w : PendingFor(s, ch, v, w)' = PendingFor(s, ch, v, w)
    BY <1>2, SameStore
  <2>2. rest # {} => /\ channel \in Channels
                     /\ \A s, v, c, w : s = suffix' /\ v = view' /\ c = channel' /\ w = mark'[s][c] =>
                           Stored(rest') = PendingFor(s, c, v, w)'
    BY <1>1, <1>2, <2>1 DEF RestIsPending
  <2>3. QED
    BY <1>2, <2>2 DEF RestIsPending, Stored
<1>10. Carried'
  <2>1. Chunk' = Chunk
    BY <1>2, SameChunk
  <2>2. UNION {Targets(place, k) : k \in Kinds}' = UNION {Targets(place, k) : k \in Kinds}
    BY <1>2 DEF Targets
  <2>3. QED
    BY <1>1, <1>2, <2>1, <2>2 DEF Carried, Stored, KindOf
<1>11. QED
  BY <1>3, <1>4, <1>5, <1>7, <1>8, <1>9, <1>10 DEF ArchiveInv

LEMMA ExactStays == ASSUME ArchiveInv, ArchiveInv', Exact, Next PROVE Exact'
<1> SUFFICES ASSUME failures' = 0
             PROVE  Counted' /\ Intact' /\ Copied' /\ (~opened' => diskTree' = NoTree)
  BY DEF Exact
<1>1. /\ TypeOK /\ TypeOK' /\ Stages /\ OwnParts /\ Numbering /\ RestIsPending /\ Carried /\ Pointing
  BY DEF ArchiveInv
<1>2. /\ failures = 0 /\ ~Fail /\ ~EnsureFails /\ ~AppendFails /\ ~SaveFails /\ ~Crash
  BY <1>1, NoFailure
<1>3. Counted /\ Intact /\ Copied /\ (~opened => diskTree = NoTree)
  BY <1>2 DEF Exact
<1>4. Counted' /\ Intact' /\ Copied'
  BY <1>1, <1>3, CountedStay, IntactStay, CopiedStay
<1>5. ~opened' => diskTree' = NoTree
  <2>1. CASE opened' = opened /\ diskTree' = diskTree
    BY <1>3, <2>1
  <2>2. CASE SaveTree
    BY <1>1, <2>2, SuffixType DEF SaveTree, memory
  <2>3. ASSUME NEW o, NEW s, NEW m, Begin(o, s, m) PROVE opened'
    BY <2>3 DEF Begin
  <2>4. QED
    BY <1>2, <2>1, <2>2, <2>3
    DEF Next, Write, EnsureKnown, EnsureRead, ClearCopies, ResetCurrent, ResetMark, ReadChannelFile,
        ReadThinkFile, NextChannel, Finish, Decide, DecideFails, AppendCopies, Apply, SaveCurrent,
        SaveMark, disk, memory
<1>6. QED
  BY <1>4, <1>5

LEMMA InitExact == Init => Exact
<1> SUFFICES ASSUME Init PROVE Counted /\ Intact /\ Copied /\ (~opened => diskTree = NoTree)
  BY DEF Exact
<1>1. \A c \in Cases, r \in Records : copies[c][r] = 0
  BY DEF Init
<1>2. \A c \in Cases : Held(c) = {} /\ CountOf(c) = 0
  <2>1. TypeOK
    BY InitTypes
  <2>2. DOMAIN tree = {}
    BY EmptyOnes DEF Init
  <2>3. QED
    BY <1>1, <2>1, <2>2, NothingHeld DEF CountOf
<1>3. pc = "idle" /\ broken = {} /\ diskTree = NoTree
  BY DEF Init
<1>4. Counted
  BY <1>2, <1>3, FS_EmptySet DEF Counted
<1>5. Copied
  BY <1>1 DEF Copied
<1>6. QED
  BY <1>3, <1>4, <1>5 DEF Intact

LEMMA StutterExact == ASSUME ArchiveInv, Exact, UNCHANGED vars PROVE Exact'
<1> SUFFICES ASSUME failures' = 0
             PROVE  Counted' /\ Intact' /\ Copied' /\ (~opened' => diskTree' = NoTree)
  BY DEF Exact
<1>1. /\ UNCHANGED <<at, copies, diskTree, diskCurrent, diskMark, opened, loaded, tree, current, mark>>
      /\ UNCHANGED <<pc, job, dropped, broken, failures>>
      /\ suffix' = suffix /\ place' = place
  BY DEF vars, disk, memory, history, bounds, suffix, place
<1>2. Counted /\ Intact /\ Copied /\ (~opened => diskTree = NoTree)
  BY <1>1 DEF Exact
<1>3. \A c : CountOf(c)' = CountOf(c) /\ Held(c)' = Held(c) /\ Added(c)' = Added(c)
  BY <1>1 DEF CountOf, Held, Added, Stored, KindOf
<1>4. CasesToClear' = CasesToClear
  BY <1>1 DEF CasesToClear
<1>5. Counted'
  BY <1>1, <1>2, <1>3, <1>4 DEF Counted
<1>6. Copied'
  <2>1. (\A r : OnTime(r)' <=> OnTime(r)) /\ (\A r : Position(r, Written)' = Position(r, Written))
    BY <1>1, SameStore, SamePositions
  <2>2. \A c : Placed(c)' <=> Placed(c)
    BY <1>1 DEF Placed
  <2>3. \A c \in Cases, r \in Records : copies[c][r] > 0 =>
              /\ at[r] # 0
              /\ SuffixOf[r] \in loaded
              /\ c \in DOMAIN tree \/ Placed(c)
              /\ OnTime(r) => /\ copies[c][r] = 1
                              /\ \A d \in Cases : copies[d][r] > 0 => d = c
                              /\ \/ ~Beyond(Position(r, Written),
                                            mark[SuffixOf[r]][ChannelOf[r]][KindOf(r)])
                                 \/ r \in Added(c)
    BY <1>2, CopiedFacts
  <2>4. QED
    BY <1>1, <1>3, <2>1, <2>2, <2>3, CopiedJoin
<1>7. QED
  BY <1>1, <1>2, <1>5, <1>6 DEF Intact

\* The inductive invariant holds in every reachable state.
THEOREM ArchiveInvHolds == Spec => [](ArchiveInv /\ Exact)
<1>1. Init => ArchiveInv /\ Exact
  BY InitInv, InitExact
<1>2. ArchiveInv /\ Exact /\ [Next]_vars => (ArchiveInv /\ Exact)'
  <2>1. CASE Next
    BY <2>1, InvStays, ExactStays
  <2>2. CASE UNCHANGED vars
    BY <2>2, StutterInv, StutterExact
  <2>3. QED
    BY <2>1, <2>2
<1>3. QED
  BY <1>1, <1>2, PTL DEF Spec

--------------------------------------------------------------------------------
(* What it implies.                                                             *)

LEMMA InvCovers == ArchiveInv => InOrderRecordsCovered
<1> SUFFICES ASSUME ArchiveInv, NEW r \in Records,
                    Covered(r, diskMark) \/ (SuffixOf[r] \in loaded /\ Covered(r, mark)),
                    ~OutOfOrder(r), r \notin dropped, SuffixOf[r] \notin broken, ~HasCopy(r)
             PROVE  FALSE
  BY DEF InOrderRecordsCovered
<1>1. /\ SuffixOf[r] \in Suffixes /\ ChannelOf[r] \in Channels /\ KindOf(r) \in Kinds
      /\ r \in Of(SuffixOf[r], ChannelOf[r], KindOf(r)) /\ Lost(r)
  BY SuffixOfRecords, KindOfRecords DEF Of, Lost
<1>2. ASSUME NEW m, Covered(r, m) PROVE
        /\ IsClaimed(r)
        /\ ~Beyond(Position(r, Written), m[SuffixOf[r]][ChannelOf[r]][KindOf(r)])
  BY <1>2 DEF Covered, IsClaimed
<1>3. CASE Covered(r, diskMark)
  <2>1. Passed(diskMark[SuffixOf[r]][ChannelOf[r]][KindOf(r)], SuffixOf[r], ChannelOf[r], KindOf(r))
    BY <1>1 DEF ArchiveInv, Sound
  <2>2. QED
    BY <1>1, <1>2, <1>3, <2>1 DEF Passed
<1>4. CASE Covered(r, mark)
  <2>1. Passed(mark[SuffixOf[r]][ChannelOf[r]][KindOf(r)], SuffixOf[r], ChannelOf[r], KindOf(r))
    BY <1>1 DEF ArchiveInv, Sound
  <2>2. QED
    BY <1>1, <1>2, <1>4, <2>1 DEF Passed
<1>5. QED
  BY <1>3, <1>4

LEMMA InvCopiesOnce == ArchiveInv /\ Exact => CopiedOnce
<1> SUFFICES ASSUME ArchiveInv, Exact, failures = 0, NEW r \in Records, OnTime(r),
                    NEW c \in Cases, NEW d \in Cases
             PROVE  copies[c][r] <= 1 /\ (copies[c][r] > 0 /\ copies[d][r] > 0 => c = d)
  BY DEF CopiedOnce, OnTime
<1>1. copies[c][r] \in Nat
  BY DEF ArchiveInv, TypeOK, DiskTypes
<1>2. Copied
  BY DEF Exact
<1>3. CASE copies[c][r] > 0
  <2>1. copies[c][r] = 1 /\ \A z \in Cases : copies[z][r] > 0 => z = c
    BY <1>2, <1>3, CopiedFacts
  <2>2. QED
    BY <2>1
<1>4. QED
  BY <1>1, <1>3

LEMMA InvFilesAgree == ArchiveInv /\ Exact => StateFilesAgree
<1> SUFFICES ASSUME ArchiveInv, Exact PROVE StateFilesAgree
  OBVIOUS
<1>1. Pointing
  BY DEF ArchiveInv
<1>2. pc = "idle" /\ failures = 0 => \A c \in Cases : Cardinality(Held(c)) = CountOf(c)
  BY DEF Exact, Counted
<1>3. QED
  BY <1>1, <1>2 DEF StateFilesAgree, Pointing

\* Nothing is lost at the watermark: archive_chunk_inner advances it only past
\* records that it copied, whatever crashes or fails (advance_watermark and
\* save_state of the case archive).
THEOREM NothingLost == Spec => []InOrderRecordsCovered
  BY ArchiveInvHolds, InvCovers, PTL

\* Without failures and late records no record is copied twice: the records behind
\* the watermark are not pending again (pending records of process_pending).
THEOREM NothingTwice == Spec => []CopiedOnce
  BY ArchiveInvHolds, InvCopiesOnce, PTL

\* The state files agree with each other whatever crashes, and the counts of the
\* tree with the files of the cases as long as nothing failed.
THEOREM FilesAgree == Spec => []StateFilesAgree
  BY ArchiveInvHolds, InvFilesAgree, PTL

LEMMA StepIsolated ==
    ASSUME ArchiveInv, Next, pc # "idle"
    PROVE  /\ \A c \in Cases \ OwnCases(suffix) : copies'[c] = copies[c]
           /\ \A s \in Suffixes \ {suffix} :
                 diskCurrent'[s] = diskCurrent[s] /\ diskMark'[s] = diskMark[s]
<1>1. /\ copies \in [Cases -> [Records -> Nat]]
      /\ diskCurrent \in [Suffixes -> Pointers] /\ diskMark \in [Suffixes -> Marks]
      /\ job.doomed \subseteq OwnCases(suffix)
      /\ \A t \in job.appends : t[1] \in OwnCases(suffix)
  BY DEF ArchiveInv, TypeOK, DiskTypes, OwnParts
<1>2. ASSUME NEW z \in Cases, ClearCopies(z)
      PROVE  \A c \in Cases \ OwnCases(suffix) : copies'[c] = copies[c]
  <2>1. z \in OwnCases(suffix)
    BY <1>1, <1>2 DEF ClearCopies
  <2>2. PICK K \in SUBSET Kinds : copies' = [copies EXCEPT ![z] =
            [r \in Records |-> IF KindOf(r) \in K THEN 0 ELSE @[r]]]
    BY <1>2 DEF ClearCopies
  <2>3. QED
    BY <1>1, <2>1, <2>2
<1>3. ASSUME NEW z \in Cases, NEW k \in Kinds, AppendCopies(z, k)
      PROVE  \A c \in Cases \ OwnCases(suffix) : copies'[c] = copies[c]
  <2>1. z \in OwnCases(suffix)
    BY <1>1, <1>3 DEF AppendCopies
  <2>2. QED
    BY <1>1, <1>3, <2>1 DEF AppendCopies
<1>4. \A c \in Cases \ OwnCases(suffix) : copies'[c] = copies[c]
  BY <1>2, <1>3 DEF Next, Write, Begin, EnsureKnown, EnsureRead, EnsureFails, ResetCurrent,
         ResetMark, ReadChannelFile, ReadThinkFile, NextChannel, Finish, Decide, DecideFails,
         AppendFails, Apply, SaveTree, SaveCurrent, SaveMark, SaveFails, Crash, disk
<1>5. /\ diskCurrent' = diskCurrent \/ (\E v : diskCurrent' = [diskCurrent EXCEPT ![suffix] = v])
      /\ diskMark' = diskMark \/ (\E v : diskMark' = [diskMark EXCEPT ![suffix] = v])
  BY DEF Next, Write, Begin, EnsureKnown, EnsureRead, EnsureFails, ClearCopies, ResetCurrent,
         ResetMark, ReadChannelFile, ReadThinkFile, NextChannel, Finish, Decide, DecideFails,
         AppendCopies, AppendFails, Apply, SaveTree, SaveCurrent, SaveMark, SaveFails, Crash, disk
<1>6. \A s \in Suffixes \ {suffix} :
         diskCurrent'[s] = diskCurrent[s] /\ diskMark'[s] = diskMark[s]
  BY <1>1, <1>5
<1>7. QED
  BY <1>4, <1>6

\* A request, its rebuild included, leaves the files of the other suffixes alone.
THEOREM Isolation == Spec => SuffixesIsolated
<1>1. ArchiveInv /\ [Next]_vars =>
        [pc # "idle" =>
           /\ \A c \in Cases \ OwnCases(suffix) : copies'[c] = copies[c]
           /\ \A s \in Suffixes \ {suffix} :
                 /\ diskCurrent'[s] = diskCurrent[s]
                 /\ diskMark'[s] = diskMark[s]]_vars
  BY StepIsolated
<1>2. QED
  BY <1>1, ArchiveInvHolds, PTL DEF Spec, SuffixesIsolated

================================================================================
