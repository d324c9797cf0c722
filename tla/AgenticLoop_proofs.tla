-------------------------- MODULE AgenticLoop_proofs ---------------------------
(***************************************************************************)
(* Proofs about AgenticLoop, for any number of turns, rounds, tools and    *)
(* failures: the types, every request to the model is well-formed unless   *)
(* one of the named causes happened, the first request of a turn carries   *)
(* its batch, and what is said of a tool call is said once.                *)
(***************************************************************************)
EXTENDS AgenticLoop, FiniteSetTheorems, NaturalsInduction, WellFoundedInduction, TLAPS

-------------------------------------------------------------------------------
(* Sequences of messages                                                      *)

LEMMA MessageTypes ==
    /\ \A t \in Nat : User(t) \in Messages
    /\ \A r \in Nat, n \in 0..MaxCalls : Assistant(r, n) \in Messages
    /\ \A r \in Nat, k \in 0..MaxCalls : Tool(r, k) \in Messages
  BY LoopAssumption DEF User, Assistant, Tool, Messages

LEMMA EmptyWellFormed == <<>> \in Seq(Messages) /\ WellFormed(<<>>)
  BY DEF WellFormed, CallsAnswered, ToolsCalled

LEMMA ConcatFacts ==
    ASSUME NEW S, NEW s \in Seq(S), NEW t \in Seq(S)
    PROVE  /\ s \o t \in Seq(S)
           /\ Len(s \o t) = Len(s) + Len(t)
           /\ \A i \in 1..Len(s) : (s \o t)[i] = s[i]
           /\ \A i \in 1..Len(t) : (s \o t)[Len(s) + i] = t[i]
           /\ \A i \in 1..Len(s \o t) : i \notin 1..Len(s) =>
                 i - Len(s) \in 1..Len(t) /\ (s \o t)[i] = t[i - Len(s)]
  OBVIOUS

LEMMA ConcatOne ==
    ASSUME NEW S, NEW s \in Seq(S), NEW x \in S
    PROVE  s \o <<x>> = Append(s, x)
  OBVIOUS

LEMMA AppendConcatFacts ==
    ASSUME NEW S, NEW s \in Seq(S), NEW a \in S, NEW t \in Seq(S)
    PROVE  /\ Append(s, a) \o t \in Seq(S)
           /\ Len(Append(s, a) \o t) = Len(s) + 1 + Len(t)
           /\ \A i \in 1..(Len(s) + 1) : (Append(s, a) \o t)[i] = Append(s, a)[i]
           /\ \A i \in 1..Len(t) : (Append(s, a) \o t)[Len(s) + 1 + i] = t[i]
<1>. Append(s, a) \in Seq(S)
  OBVIOUS
<1>1. PICK r \in Seq(S) : r = Append(s, a)
  OBVIOUS
<1>2. Len(r) = Len(s) + 1 /\ Len(s) \in Nat
  BY <1>1
<1>3. QED
  BY <1>1, <1>2, ConcatFacts

(* Messages of the user can always be appended.                               *)
LEMMA UsersAppended ==
    ASSUME NEW c \in Seq(Messages), NEW t \in Seq(Messages), WellFormed(c),
           \A i \in 1..Len(t) : t[i].kind = "user"
    PROVE  c \o t \in Seq(Messages) /\ WellFormed(c \o t)
<1> DEFINE d == c \o t
<1>1. /\ d \in Seq(Messages)
      /\ Len(c) \in Nat /\ Len(t) \in Nat
      /\ Len(d) = Len(c) + Len(t)
      /\ \A i \in 1..Len(c) : d[i] = c[i]
      /\ \A i \in 1..Len(d) : i \notin 1..Len(c) => d[i].kind = "user"
  BY ConcatFacts
<1> HIDE DEF d
<1>2. \A i \in 1..Len(d) : d[i].kind # "user" => i \in 1..Len(c) /\ d[i] = c[i]
  BY <1>1
<1>3. ASSUME NEW i \in 1..Len(d), d[i].kind = "assistant", NEW k \in 1..d[i].n
      PROVE  i + k <= Len(d) /\ d[i + k] = Tool(d[i].id, k)
  <2>1. i \in 1..Len(c) /\ d[i] = c[i]
    BY <1>2, <1>3
  <2>2. i + k <= Len(c) /\ c[i + k] = Tool(c[i].id, k)
    BY <2>1, <1>3 DEF WellFormed, CallsAnswered
  <2>3. k \in Nat \ {0}
    BY <2>1 DEF Messages
  <2>4. i + k \in 1..Len(c)
    BY <1>1, <2>1, <2>2, <2>3
  <2>5. QED
    BY <1>1, <2>1, <2>2, <2>4
<1>4. ASSUME NEW j \in 1..Len(d), d[j].kind = "tool"
      PROVE  d[j].n < j /\ LET i == j - d[j].n
                           IN  d[i].kind = "assistant" /\ d[i].id = d[j].id /\ d[j].n <= d[i].n
  <2>1. j \in 1..Len(c) /\ d[j] = c[j] /\ c[j] \in Messages
    BY <1>2, <1>4
  <2>2. c[j].n \in Nat
    BY <2>1, LoopAssumption DEF Messages
  <2>3. c[j].n < j /\ LET i == j - c[j].n
                      IN  c[i].kind = "assistant" /\ c[i].id = c[j].id /\ c[j].n <= c[i].n
    BY <2>1, <1>4 DEF WellFormed, ToolsCalled
  <2>4. j - c[j].n \in 1..Len(c)
    BY <1>1, <2>1, <2>2, <2>3
  <2>5. d[j - c[j].n] = c[j - c[j].n]
    BY <1>1, <2>4
  <2>6. QED
    BY <2>1, <2>3, <2>5
<1>5. WellFormed(d)
  BY <1>3, <1>4 DEF WellFormed, CallsAnswered, ToolsCalled
<1>6. QED
  BY <1>1, <1>5 DEF d

(* An assistant message can be appended with the messages that answer its     *)
(* calls, one for each and in order.                                          *)
LEMMA ExchangeAppended ==
    ASSUME NEW c \in Seq(Messages), WellFormed(c), NEW r \in Nat, NEW n \in 0..MaxCalls
    PROVE  LET all == [k \in 1..n |-> Tool(r, k)]
           IN  /\ Append(c, Assistant(r, n)) \o all \in Seq(Messages)
               /\ WellFormed(Append(c, Assistant(r, n)) \o all)
<1> DEFINE all == [k \in 1..n |-> Tool(r, k)]
           a == Assistant(r, n)
           d == Append(c, a) \o all
<1>1. n \in Nat /\ n <= MaxCalls /\ Len(c) \in Nat
  BY LoopAssumption
<1>2. /\ a \in Messages /\ a.kind = "assistant" /\ a.id = r /\ a.n = n
      /\ \A k \in 1..n : /\ Tool(r, k) \in Messages
                         /\ Tool(r, k).kind = "tool" /\ Tool(r, k).id = r /\ Tool(r, k).n = k
  BY <1>1, MessageTypes, LoopAssumption DEF Assistant, Tool
<1>3. all \in Seq(Messages) /\ Len(all) = n
  BY <1>1, <1>2
<1>4. /\ Append(c, a) \in Seq(Messages)
      /\ Len(Append(c, a)) = Len(c) + 1
      /\ Append(c, a)[Len(c) + 1] = a
      /\ \A i \in 1..Len(c) : Append(c, a)[i] = c[i]
  BY <1>2
<1>5. /\ d \in Seq(Messages)
      /\ Len(d) = Len(c) + 1 + n
      /\ \A i \in 1..Len(c) : d[i] = c[i]
      /\ d[Len(c) + 1] = a
      /\ \A k \in 1..n : d[Len(c) + 1 + k] = Tool(r, k)
  <2>1. /\ d \in Seq(Messages)
        /\ Len(d) = Len(c) + 1 + n
        /\ \A i \in 1..(Len(c) + 1) : d[i] = Append(c, a)[i]
        /\ \A k \in 1..n : d[Len(c) + 1 + k] = all[k]
    <3> HIDE DEF all, a
    <3>1. QED
      <4>1. a \in Messages /\ all \in Seq(Messages)
        BY <1>2, <1>3
      <4>2. /\ Append(c, a) \o all \in Seq(Messages)
            /\ Len(Append(c, a) \o all) = Len(c) + 1 + Len(all)
            /\ \A i \in 1..(Len(c) + 1) : (Append(c, a) \o all)[i] = Append(c, a)[i]
            /\ \A i \in 1..Len(all) : (Append(c, a) \o all)[Len(c) + 1 + i] = all[i]
        BY <4>1, AppendConcatFacts
      <4>3. QED
        BY <1>3, <4>2
  <2>2. QED
    BY <1>1, <1>4, <2>1
<1> HIDE DEF d, a, all
<1>6. \A i \in 1..Len(d) : \/ i \in 1..Len(c)
                           \/ i = Len(c) + 1
                           \/ \E k \in 1..n : i = Len(c) + 1 + k
  <2>1. SUFFICES ASSUME NEW i \in 1..Len(d), i \notin 1..Len(c), i # Len(c) + 1
                 PROVE  \E k \in 1..n : i = Len(c) + 1 + k
    OBVIOUS
  <2>2. i - (Len(c) + 1) \in 1..n /\ i = Len(c) + 1 + (i - (Len(c) + 1))
    BY <1>1, <1>5, <2>1
  <2>3. QED
    BY <2>2
<1>7. ASSUME NEW i \in 1..Len(d), d[i].kind = "assistant", NEW k \in 1..d[i].n
      PROVE  i + k <= Len(d) /\ d[i + k] = Tool(d[i].id, k)
  <2>1. CASE i \in 1..Len(c)
    <3>1. d[i] = c[i] /\ c[i] \in Messages
      BY <1>5, <2>1
    <3>2. i + k <= Len(c) /\ c[i + k] = Tool(c[i].id, k)
      BY <2>1, <3>1, <1>7 DEF WellFormed, CallsAnswered
    <3>3. k \in Nat \ {0}
      BY <3>1 DEF Messages
    <3>4. i + k \in 1..Len(c)
      BY <1>1, <2>1, <3>2, <3>3
    <3>5. QED
      BY <1>1, <1>5, <3>1, <3>2, <3>4
  <2>2. CASE i = Len(c) + 1
    <3>1. d[i] = a /\ k \in 1..n
      BY <1>2, <1>5, <2>2
    <3>2. i + k <= Len(d)
      BY <1>1, <1>5, <2>2, <3>1
    <3>3. QED
      BY <1>2, <1>5, <2>2, <3>1, <3>2
  <2>3. ~ \E l \in 1..n : i = Len(c) + 1 + l
    <3>1. SUFFICES ASSUME NEW l \in 1..n, i = Len(c) + 1 + l PROVE FALSE
      OBVIOUS
    <3>2. d[i] = Tool(r, l) /\ Tool(r, l).kind = "tool"
      BY <1>2, <1>5, <3>1
    <3>3. QED
      BY <1>7, <3>2
  <2>4. QED
    BY <1>6, <2>1, <2>2, <2>3
<1>8. ASSUME NEW j \in 1..Len(d), d[j].kind = "tool"
      PROVE  d[j].n < j /\ LET i == j - d[j].n
                           IN  d[i].kind = "assistant" /\ d[i].id = d[j].id /\ d[j].n <= d[i].n
  <2>1. CASE j \in 1..Len(c)
    <3>1. d[j] = c[j] /\ c[j] \in Messages
      BY <1>5, <2>1
    <3>2. c[j].n \in Nat
      BY <3>1, LoopAssumption DEF Messages
    <3>3. c[j].n < j /\ LET i == j - c[j].n
                        IN  c[i].kind = "assistant" /\ c[i].id = c[j].id /\ c[j].n <= c[i].n
      BY <2>1, <3>1, <1>8 DEF WellFormed, ToolsCalled
    <3>4. j - c[j].n \in 1..Len(c)
      BY <1>1, <2>1, <3>2, <3>3
    <3>5. d[j - c[j].n] = c[j - c[j].n]
      BY <1>5, <3>4
    <3>6. QED
      BY <3>1, <3>3, <3>5
  <2>2. CASE j = Len(c) + 1
    BY <1>2, <1>5, <2>2, <1>8
  <2>3. ASSUME NEW k \in 1..n, j = Len(c) + 1 + k
        PROVE  d[j].n < j /\ LET i == j - d[j].n
                             IN  d[i].kind = "assistant" /\ d[i].id = d[j].id /\ d[j].n <= d[i].n
    <3>0. d[j] = Tool(r, k)
      BY <1>5, <2>3
    <3>1. d[j] = Tool(r, k) /\ d[j].n = k /\ d[j].id = r
      BY <3>0 DEF Tool
    <3>2. j - k = Len(c) + 1 /\ k < j /\ k <= n
      BY <1>1, <2>3
    <3>3. d[j - k] = a
      BY <1>5, <3>2
    <3>4. QED
      BY <1>2, <3>1, <3>2, <3>3
  <2>4. QED
    BY <1>6, <2>1, <2>2, <2>3
<1>9. WellFormed(d)
  BY <1>7, <1>8 DEF WellFormed, CallsAnswered, ToolsCalled
<1>10. QED
  BY <1>5, <1>9 DEF d, a, all

(* Without calls nothing has to follow.                                       *)
LEMMA AnswerAppended ==
    ASSUME NEW c \in Seq(Messages), WellFormed(c), NEW r \in Nat
    PROVE  Append(c, Assistant(r, 0)) \in Seq(Messages) /\ WellFormed(Append(c, Assistant(r, 0)))
<1> DEFINE none == [k \in 1..0 |-> Tool(r, k)]
<1>1. 0 \in 0..MaxCalls
  BY LoopAssumption
<1>2. Append(c, Assistant(r, 0)) \in Seq(Messages)
  BY <1>1, MessageTypes
<1>3. none = <<>>
  OBVIOUS
<1>4. Append(c, Assistant(r, 0)) \o none = Append(c, Assistant(r, 0))
  <2> HIDE DEF none
  <2>1. QED
    BY <1>2, <1>3
<1>5. QED
  BY <1>1, <1>4, ExchangeAppended

(* The context up to its last assistant message is well-formed when what      *)
(* follows holds no tool message: the last one calls no tool.                 *)
LEMMA PrefixWellFormed ==
    ASSUME NEW i \in 0..Len(context), context \in Seq(Messages), WellFormed(context),
           LastAssistant(i), ~ToolsAmong(TakenBack(i))
    PROVE  /\ SubSeq(context, 1, i) \in Seq(Messages)
           /\ WellFormed(SubSeq(context, 1, i))
           /\ TakenBack(i) \in Seq(Messages)
           /\ \A j \in 1..Len(TakenBack(i)) : TakenBack(i)[j].kind = "user"
<1> DEFINE d == SubSeq(context, 1, i)
           t == TakenBack(i)
<1>1. /\ Len(context) \in Nat /\ i \in Nat /\ i <= Len(context)
      /\ d \in Seq(Messages) /\ Len(d) = i
      /\ \A j \in 1..i : d[j] = context[j]
      /\ t \in Seq(Messages) /\ Len(t) = Len(context) - i
      /\ \A j \in 1..Len(t) : t[j] = context[i + j] /\ i + j \in (i + 1)..Len(context)
  BY DEF TakenBack
<1>2. \A j \in 1..Len(t) : t[j].kind = "user"
  <2>1. SUFFICES ASSUME NEW j \in 1..Len(t) PROVE t[j].kind = "user"
    OBVIOUS
  <2>2. t[j].kind # "assistant"
    BY <1>1 DEF LastAssistant
  <2>3. t[j].kind # "tool"
    BY DEF ToolsAmong
  <2>4. t[j] \in Messages
    BY <1>1
  <2>5. QED
    BY <2>2, <2>3, <2>4 DEF Messages
<1>3. \A j \in 1..Len(context) : context[j].kind = "tool" => j <= i
  <2>1. SUFFICES ASSUME NEW j \in 1..Len(context), j > i PROVE context[j].kind # "tool"
    BY <1>1
  <2>2. j - i \in 1..Len(t) /\ t[j - i] = context[j]
    BY <1>1, <2>1
  <2>3. QED
    BY <1>2, <2>2
<1> HIDE DEF d, t
<1>4. ASSUME NEW j \in 1..Len(d), d[j].kind = "assistant", NEW k \in 1..d[j].n
      PROVE  j + k <= Len(d) /\ d[j + k] = Tool(d[j].id, k)
  <2>1. d[j] = context[j] /\ j \in 1..Len(context) /\ context[j] \in Messages
    BY <1>1
  <2>2. k \in Nat \ {0}
    BY <2>1 DEF Messages
  <2>3. j + k <= Len(context) /\ context[j + k] = Tool(context[j].id, k)
    BY <2>1, <1>4 DEF WellFormed, CallsAnswered
  <2>4. context[j + k].kind = "tool" /\ j + k \in 1..Len(context)
    BY <1>1, <2>1, <2>2, <2>3 DEF Tool
  <2>5. j + k \in 1..i
    BY <1>1, <1>3, <2>2, <2>4
  <2>6. QED
    BY <1>1, <2>1, <2>3, <2>5
<1>5. ASSUME NEW j \in 1..Len(d), d[j].kind = "tool"
      PROVE  d[j].n < j /\ LET l == j - d[j].n
                           IN  d[l].kind = "assistant" /\ d[l].id = d[j].id /\ d[j].n <= d[l].n
  <2>1. d[j] = context[j] /\ j \in 1..Len(context) /\ context[j] \in Messages
    BY <1>1
  <2>2. context[j].n \in Nat
    BY <2>1, LoopAssumption DEF Messages
  <2>3. context[j].n < j /\ LET l == j - context[j].n
          IN  context[l].kind = "assistant" /\ context[l].id = context[j].id /\ context[j].n <= context[l].n
    BY <2>1, <1>5 DEF WellFormed, ToolsCalled
  <2>4. j - context[j].n \in 1..i
    BY <1>1, <2>1, <2>2, <2>3
  <2>5. d[j - context[j].n] = context[j - context[j].n]
    BY <1>1, <2>4
  <2>6. QED
    BY <2>1, <2>3, <2>5
<1>6. WellFormed(d)
  BY <1>4, <1>5 DEF WellFormed, CallsAnswered, ToolsCalled
<1>7. QED
  BY <1>1, <1>2, <1>6 DEF d, t

LEMMA SummaryWellFormed == Summary \in Seq(Messages) /\ WellFormed(Summary)
<1>1. 0 \in Nat /\ 0 \in 0..MaxCalls
  BY LoopAssumption
<1>2. User(0) \in Messages /\ User(0).kind = "user"
  BY <1>1, MessageTypes DEF User
<1>3. <<User(0)>> \in Seq(Messages) /\ \A i \in 1..Len(<<User(0)>>) : <<User(0)>>[i].kind = "user"
  BY <1>2
<1>4. <<>> \o <<User(0)>> = <<User(0)>>
  BY <1>2
<1>5. WellFormed(<<User(0)>>)
  BY <1>3, <1>4, EmptyWellFormed, UsersAppended
<1>6. Summary = Append(<<User(0)>>, Assistant(0, 0))
  BY DEF Summary
<1>7. QED
  BY <1>1, <1>3, <1>5, <1>6, AnswerAppended

-------------------------------------------------------------------------------
(* The calls that are answered, in their order                                *)

(* There is a least number among some: what stands for induction here.        *)
LEMMA Smallest ==
    ASSUME NEW T \in SUBSET Nat, T # {}
    PROVE  \E x \in T : \A y \in T : x <= y
<1>1. PICK x \in T : \A y \in T : ~ (<<y, x>> \in OpToRel(<, Nat))
  BY NatLessThanWellFounded, WFMin
<1>2. ASSUME NEW y \in T PROVE x <= y
  <2>1. x \in Nat /\ y \in Nat
    BY <1>1, <1>2
  <2>2. ~(y < x)
    BY <1>1, <1>2, <2>1 DEF OpToRel
  <2>3. QED
    BY <2>1, <2>2
<1>3. QED
  BY <1>2

(* The calls of a set can be counted in their order.                          *)
LEMMA InOrderFacts ==
    ASSUME NEW n \in Nat, NEW S \in SUBSET (1..n), NEW i \in 1..Cardinality(S)
    PROVE  InOrder(S, i) \in S /\ Cardinality({j \in S : j <= InOrder(S, i)}) = i
<1>0. \A j \in S : j \in Nat /\ 1 <= j /\ j <= n
  OBVIOUS
<1>1. IsFiniteSet(S) /\ Cardinality(S) \in Nat
  <2>1. IsFiniteSet(1..n)
    BY FS_Interval
  <2>2. QED
    BY <2>1, FS_Subset, FS_CardinalityType
<1>a. i \in Nat /\ 1 <= i /\ i <= Cardinality(S)
  BY <1>1
<1> DEFINE UpTo(k) == {j \in S : j <= k}
           C(k) == Cardinality(UpTo(k))
<1>2. ASSUME NEW k \in Nat
      PROVE  IsFiniteSet(UpTo(k)) /\ C(k) \in Nat
  BY <1>1, FS_Subset, FS_CardinalityType
<1>3. n \in Nat /\ C(n) >= i /\ C(0) = 0
  <2>1. UpTo(n) = S
    BY <1>0
  <2>2. UpTo(0) = {}
    <3>1. \A j \in S : ~(j <= 0)
      BY <1>0
    <3>2. QED
      BY <3>1
  <2>3. QED
    BY <1>a, <2>1, <2>2, FS_EmptySet
<1>4. ASSUME NEW k \in Nat, k # 0
      PROVE  /\ k - 1 \in Nat
             /\ k \in S => C(k) = C(k - 1) + 1
             /\ k \notin S => C(k) = C(k - 1)
  <2>1. k - 1 \in Nat
    BY <1>4
  <2>a. \A j \in S : j <= k - 1 <=> j <= k /\ j # k
    BY <1>0, <1>4
  <2>b. k <= k /\ ~(k <= k - 1)
    BY <1>4
  <2>2. ASSUME k \in S PROVE C(k) = C(k - 1) + 1
    <3>1. UpTo(k) = UpTo(k - 1) \cup {k} /\ k \notin UpTo(k - 1)
      BY <2>a, <2>b, <2>2
    <3>2. IsFiniteSet(UpTo(k - 1))
      BY <1>2, <2>1
    <3>. HIDE DEF UpTo
    <3>3. QED
      BY <3>1, <3>2, FS_AddElement
  <2>3. ASSUME k \notin S PROVE C(k) = C(k - 1)
    <3>1. UpTo(k) = UpTo(k - 1)
      BY <2>a, <2>3
    <3>. HIDE DEF UpTo
    <3>2. QED
      BY <3>1
  <2>4. QED
    BY <2>1, <2>2, <2>3
<1>. HIDE DEF C
<1> DEFINE Enough == {k \in Nat : C(k) >= i}
<1>5. PICK k \in Enough : \A y \in Enough : k <= y
  <2>1. Enough \in SUBSET Nat /\ Enough # {}
    BY <1>3
  <2>. HIDE DEF Enough
  <2>2. QED
    BY <2>1, Smallest
<1>6. k \in Nat /\ k # 0 /\ C(k) >= i /\ k - 1 \notin Enough
  BY <1>a, <1>3, <1>5
<1>7. k - 1 \in Nat /\ C(k - 1) < i
  <2>1. k - 1 \in Nat
    BY <1>6
  <2>2. C(k - 1) \in Nat
    BY <1>2, <2>1 DEF C
  <2>3. QED
    BY <1>a, <1>6, <2>1, <2>2
<1>8. k \in S /\ C(k) = i
  <2>1. C(k) \in Nat /\ C(k - 1) \in Nat
    BY <1>2, <1>6, <1>7 DEF C
  <2>2. QED
    BY <1>a, <1>4, <1>6, <1>7, <2>1
<1>9. \E x \in S : Cardinality({j \in S : j <= x}) = i
  BY <1>8 DEF C
<1>10. QED
  BY <1>9 DEF InOrder

(* When none is left out, the i-th is i.                                      *)
LEMMA InOrderAll ==
    ASSUME NEW n \in Nat
    PROVE  Cardinality(1..n) = n /\ \A i \in 1..n : InOrder(1..n, i) = i
<1>1. Cardinality(1..n) = n
  BY FS_Interval
<1>2. ASSUME NEW i \in 1..n
      PROVE  InOrder(1..n, i) = i
  <2> DEFINE k == InOrder(1..n, i)
  <2>1. k \in 1..n /\ Cardinality({j \in 1..n : j <= k}) = i
    BY <1>1, InOrderFacts
  <2>2. {j \in 1..n : j <= k} = 1..k
    BY <2>1
  <2>3. Cardinality(1..k) = k
    BY <2>1, FS_Interval
  <2>4. QED
    BY <2>1, <2>2, <2>3
<1>3. QED
  BY <1>1, <1>2

-------------------------------------------------------------------------------
(* The types of what the invariants speak of                                  *)

LoopTypes ==
    /\ turn \in Nat
    /\ pc \in Steps
    /\ answers \in Nat
    /\ calls \in 0..MaxCalls
    /\ running \in SUBSET (1..calls)
    /\ failed \in SUBSET (1..calls)

LEMMA InitLoopTypes == Init => LoopTypes
  BY LoopAssumption DEF Init, LoopTypes, Steps

LEMMA EndTurnTypes ==
    ASSUME LoopTypes, \E ok \in BOOLEAN : EndTurn(ok), answers' = answers
    PROVE  LoopTypes'
  BY LoopAssumption DEF LoopTypes, EndTurn, Steps

LEMMA LoopTypesStep ==
    ASSUME LoopTypes, [Next]_vars
    PROVE  LoopTypes'
<1> USE DEF LoopTypes
<1> USE DEF turnVars, tokenVars, toolVars, outVars, faultVars
<1>1. CASE TakeBatch
  BY <1>1 DEF TakeBatch, Steps
<1>2. CASE CheckLimit
  BY <1>2 DEF CheckLimit, Steps
<1>3. CASE Unconfigured
  BY <1>3, EndTurnTypes DEF Unconfigured
<1>4. CASE Revert
  <2>1. PICK i \in 0..Len(context) : RevertTo(i)
    BY <1>4 DEF Revert
  <2>2. answers' = answers
    BY <2>1 DEF RevertTo
  <2>3. CASE EndTurn(FALSE)
    BY <2>2, <2>3, EndTurnTypes
  <2>4. CASE pc' = "summarise" /\ UNCHANGED <<turn, toolVars>>
    BY <2>2, <2>4 DEF Steps
  <2>5. QED
    BY <2>1, <2>3, <2>4 DEF RevertTo
<1>5. CASE Remember
  BY <1>5 DEF Remember, AfterReduction, Steps
<1>6. CASE AskSummary
  BY <1>6 DEF AskSummary, Steps
<1>7. CASE TakeSummary
  BY <1>7 DEF TakeSummary, AfterReduction, Steps
<1>8. CASE AppendToSend
  BY <1>8 DEF AppendToSend, Steps
<1>9. ASSUME NEW n \in 0..MaxCalls, NEW over \in BOOLEAN, ModelAnswers(n, over)
      PROVE  LoopTypes'
  BY <1>9, LoopAssumption DEF ModelAnswers, Steps
<1>10. CASE ModelFails
  BY <1>10, EndTurnTypes DEF ModelFails
<1>11. ASSUME NEW k \in 1..MaxCalls, NEW ok \in BOOLEAN, ToolReturns(k, ok)
       PROVE  LoopTypes'
  BY <1>11 DEF ToolReturns
<1>12. CASE ToolsJoined
  <2>1. answers' = answers
    BY <1>12 DEF ToolsJoined
  <2>2. CASE EndTurn(FALSE)
    BY <2>1, <2>2, EndTurnTypes
  <2>3. CASE pc' = "output" /\ UNCHANGED <<turn, toolVars>>
    BY <2>1, <2>3 DEF Steps
  <2>4. QED
    BY <1>12, <2>2, <2>3 DEF ToolsJoined
<1>13. CASE Output
  <2>1. answers' = answers
    BY <1>13 DEF Output
  <2>2. CASE NextRound
    BY <1>13, <2>1, <2>2 DEF Output, Steps
  <2>3. CASE ~NextRound
    <3>1. EndTurn(failed = {}) /\ (failed = {}) \in BOOLEAN
      BY <1>13, <2>3 DEF Output
    <3>2. QED
      BY <2>1, <3>1, EndTurnTypes
  <2>4. QED
    BY <2>2, <2>3
<1>14. CASE ChangeOutChannel
  BY <1>14 DEF ChangeOutChannel
<1>15. CASE Crash
  BY <1>15, LoopAssumption DEF Crash, Steps
<1>16. CASE UNCHANGED vars
  BY <1>16 DEF vars
<1>17. QED
  BY <1>1, <1>2, <1>3, <1>4, <1>5, <1>6, <1>7, <1>8, <1>9, <1>10, <1>11, <1>12, <1>13,
     <1>14, <1>15, <1>16 DEF Next, LoopStep

(* Each call that is to be answered has a message, in the order of the calls. *)
LEMMA ToolMessagesFacts ==
    ASSUME LoopTypes
    PROVE  /\ ToolMessages \in Seq(Messages)
           /\ ~(pipeline = "default" /\ failed # {}) =>
                 ToolMessages = [k \in 1..calls |-> Tool(answers, k)]
<1> DEFINE kept == IF pipeline = "default" THEN (1..calls) \ failed ELSE 1..calls
<1>1. /\ calls \in Nat /\ calls <= MaxCalls /\ answers \in Nat /\ MaxCalls \in Nat
      /\ kept \in SUBSET (1..calls)
  BY LoopAssumption DEF LoopTypes
<1>2. ToolMessages = [i \in 1..Cardinality(kept) |-> Tool(answers, InOrder(kept, i))]
  BY DEF ToolMessages
<1>3. ~(pipeline = "default" /\ failed # {}) => kept = 1..calls
  OBVIOUS
<1>. HIDE DEF kept
<1>4. Cardinality(kept) \in Nat
  <2>1. IsFiniteSet(1..calls)
    BY <1>1, FS_Interval
  <2>2. QED
    BY <1>1, <2>1, FS_Subset, FS_CardinalityType
<1>5. ASSUME NEW i \in 1..Cardinality(kept)
      PROVE  Tool(answers, InOrder(kept, i)) \in Messages
  <2>1. InOrder(kept, i) \in kept
    BY <1>1, <1>5, InOrderFacts
  <2>2. \A k \in kept : k \in 0..MaxCalls
    BY <1>1
  <2>3. QED
    BY <1>1, <2>1, <2>2, MessageTypes
<1>6. ToolMessages \in Seq(Messages)
  BY <1>2, <1>4, <1>5
<1>7. ASSUME kept = 1..calls
      PROVE  ToolMessages = [k \in 1..calls |-> Tool(answers, k)]
  BY <1>1, <1>2, <1>7, InOrderAll
<1>8. QED
  BY <1>3, <1>6, <1>7

-------------------------------------------------------------------------------
(* The types of the rest of the state.                                        *)
Flags == last \in BOOLEAN /\ usage \in BOOLEAN /\ bound \in BOOLEAN
Counts ==
    /\ pipeline \in Pipelines
    /\ round \in 0..MaxRounds
    /\ failures \in 0..MaxFailures
    /\ damage \in SUBSET {"reduced", "append", "tool", "crash"}
Texts == toSend \in Seq(Messages) /\ context \in Seq(Messages)
Talks ==
    /\ contents \in SUBSET (Nat \X Nat \X {"call", "result"})
    /\ sent \in SUBSET (Nat \X Nat \X {"call", "result"})

LEMMA FlagsStep ==
    ASSUME Flags, [Next]_vars
    PROVE  Flags'
<1> USE DEF Flags, turnVars, tokenVars, toolVars, outVars, faultVars
<1>1. \A ok : EndTurn(ok) => last' \in BOOLEAN /\ usage' \in BOOLEAN
  BY ZenonT(30) DEF EndTurn
<1>2. ASSUME NEW n \in 0..MaxCalls, NEW over \in BOOLEAN, ModelAnswers(n, over)
      PROVE  Flags'
  BY <1>2 DEF ModelAnswers
<1>3. ASSUME NEW k \in 1..MaxCalls, NEW ok \in BOOLEAN, ToolReturns(k, ok)
      PROVE  Flags'
  BY <1>3 DEF ToolReturns
<1>4. CASE TakeBatch
  BY <1>4 DEF TakeBatch
<1>5. CASE CheckLimit \/ AppendToSend
  BY <1>5 DEF CheckLimit, AppendToSend
<1>6. CASE Remember \/ AskSummary \/ TakeSummary
  BY <1>6 DEF Remember, AskSummary, TakeSummary
<1>7. CASE Unconfigured \/ ModelFails
  BY <1>1, <1>7 DEF Unconfigured, ModelFails
<1>8. CASE Revert
  BY <1>1, <1>8 DEF Revert, RevertTo
<1>9. CASE ToolsJoined
  BY <1>1, <1>9 DEF ToolsJoined
<1>10. CASE Output
  <2>1. bound' = bound
    BY <1>10 DEF Output
  <2>2. CASE NextRound
    BY <1>10, <2>1, <2>2 DEF Output
  <2>3. CASE ~NextRound
    BY <1>1, <1>10, <2>1, <2>3 DEF Output
  <2>4. QED
    BY <2>2, <2>3
<1>11. CASE ChangeOutChannel \/ Crash
  BY <1>11 DEF ChangeOutChannel, Crash
<1>12. CASE UNCHANGED vars
  BY <1>12 DEF vars
<1>13. QED
  BY <1>2, <1>3, <1>4, <1>5, <1>6, <1>7, <1>8, <1>9, <1>10, <1>11, <1>12 DEF Next, LoopStep

LEMMA CountsStep ==
    ASSUME Counts, [Next]_vars
    PROVE  Counts'
<1> USE LoopAssumption DEF Counts, turnVars, tokenVars, toolVars, outVars, faultVars
<1>1. ASSUME Failing PROVE failures' \in 0..MaxFailures
  BY <1>1 DEF Failing
<1>2. \A ok : EndTurn(ok) => round' \in 0..MaxRounds
  BY DEF EndTurn
<1>3. ASSUME NEW new, AppendTo(new)
      PROVE  failures' \in 0..MaxFailures /\ damage' \in SUBSET {"reduced", "append", "tool", "crash"}
  BY <1>1, <1>3 DEF AppendTo
<1>4. ASSUME NEW new, ResetTo(new)
      PROVE  failures' \in 0..MaxFailures
  BY <1>1, <1>4 DEF ResetTo
<1>5. ASSUME NEW n \in 0..MaxCalls, NEW over \in BOOLEAN, ModelAnswers(n, over)
      PROVE  Counts'
  BY <1>3, <1>5 DEF ModelAnswers
<1>6. ASSUME NEW k \in 1..MaxCalls, NEW ok \in BOOLEAN, ToolReturns(k, ok)
      PROVE  Counts'
  BY <1>6 DEF ToolReturns
<1>7. CASE TakeBatch
  BY <1>7 DEF TakeBatch
<1>8. CASE CheckLimit
  BY <1>8 DEF CheckLimit
<1>9. CASE AppendToSend
  BY <1>3, <1>9 DEF AppendToSend
<1>10. CASE Remember \/ AskSummary \/ TakeSummary
  BY <1>1, <1>4, <1>10 DEF Remember, AskSummary, TakeSummary
<1>11. CASE Unconfigured \/ ModelFails
  BY <1>2, <1>11 DEF Unconfigured, ModelFails
<1>12. CASE Revert
  <2>1. PICK i \in 0..Len(context) : RevertTo(i)
    BY <1>12 DEF Revert
  <2>2. pipeline' = pipeline /\ damage' \in SUBSET {"reduced", "append", "tool", "crash"}
    BY <2>1 DEF RevertTo
  <2>3. round' \in 0..MaxRounds /\ failures' \in 0..MaxFailures
    BY <1>1, <1>2, <2>1 DEF RevertTo
  <2>4. QED
    BY <2>2, <2>3
<1>13. CASE ToolsJoined
  BY <1>1, <1>2, <1>13 DEF ToolsJoined
<1>14. CASE Output
  <2>1. UNCHANGED <<pipeline, failures, damage>>
    BY <1>14 DEF Output
  <2>2. round' \in 0..MaxRounds
    BY <1>2, <1>14 DEF Output, NextRound
  <2>3. QED
    BY <2>1, <2>2
<1>15. CASE ChangeOutChannel
  BY <1>15 DEF ChangeOutChannel
<1>16. CASE Crash
  BY <1>16 DEF Crash
<1>17. CASE UNCHANGED vars
  BY <1>17 DEF vars
<1>18. QED
  BY <1>5, <1>6, <1>7, <1>8, <1>9, <1>10, <1>11, <1>12, <1>13, <1>14, <1>15, <1>16, <1>17
     DEF Next, LoopStep

LEMMA TextsStep ==
    ASSUME LoopTypes, Texts, [Next]_vars
    PROVE  Texts'
<1> USE DEF Texts, turnVars, tokenVars, toolVars, outVars, faultVars
<1>1. <<>> \in Seq(Messages) /\ Summary \in Seq(Messages) /\ User(0) \in Messages
  <2>1. User(0) \in Messages /\ Assistant(0, 0) \in Messages
    BY MessageTypes, LoopAssumption
  <2>2. QED
    BY <2>1 DEF Summary
<1>2. \A ok : EndTurn(ok) => toSend' = <<>>
  BY DEF EndTurn
<1>3. ASSUME NEW new \in Seq(Messages), AppendTo(new)
      PROVE  context' \in Seq(Messages)
  <2>1. context' = context \o new \/ context' = context
    BY <1>3 DEF AppendTo
  <2>2. context \o new \in Seq(Messages)
    BY <1>3, ConcatFacts
  <2>3. QED
    BY <2>1, <2>2
<1>4. ASSUME NEW new \in Seq(Messages), ResetTo(new)
      PROVE  context' \in Seq(Messages)
  BY <1>1, <1>4 DEF ResetTo
<1>5. ASSUME NEW n \in 0..MaxCalls, NEW over \in BOOLEAN, ModelAnswers(n, over)
      PROVE  Texts'
  <2>1. Assistant(answers + 1, n) \in Messages
    BY <1>5, MessageTypes DEF LoopTypes
  <2>2. <<Assistant(answers + 1, n)>> \in Seq(Messages)
    BY <2>1
  <2>3. AppendTo(<<Assistant(answers + 1, n)>>) /\ toSend' = toSend
    BY <1>5 DEF ModelAnswers
  <2>4. QED
    BY <1>3, <2>2, <2>3
<1>6. ASSUME NEW k \in 1..MaxCalls, NEW ok \in BOOLEAN, ToolReturns(k, ok)
      PROVE  Texts'
  BY <1>6 DEF ToolReturns
<1>7. CASE TakeBatch
  <2>1. User(turn + 1) \in Messages
    BY MessageTypes DEF LoopTypes
  <2>2. QED
    BY <1>7, <2>1 DEF TakeBatch
<1>8. CASE CheckLimit
  BY <1>8 DEF CheckLimit
<1>9. CASE AppendToSend
  BY <1>1, <1>3, <1>9 DEF AppendToSend
<1>10. CASE Remember \/ TakeSummary
  BY <1>1, <1>4, <1>10 DEF Remember, TakeSummary
<1>11. CASE AskSummary
  BY <1>1, <1>11 DEF AskSummary
<1>12. CASE Unconfigured \/ ModelFails
  BY <1>1, <1>2, <1>12 DEF Unconfigured, ModelFails
<1>13. CASE Revert
  <2>1. PICK i \in 0..Len(context) : RevertTo(i)
    BY <1>13 DEF Revert
  <2>2. TakenBack(i) \in Seq(Messages) /\ SubSeq(context, 1, i) \in Seq(Messages)
    BY DEF TakenBack
  <2>3. Pending(i) \in Seq(Messages)
    BY <2>2 DEF Pending
  <2>4. QED
    BY <1>1, <1>2, <2>1, <2>2, <2>3 DEF RevertTo
<1>14. CASE ToolsJoined
  <2>1. context \o ToolMessages \in Seq(Messages)
    BY ToolMessagesFacts
  <2>2. QED
    BY <1>1, <1>2, <1>14, <2>1 DEF ToolsJoined
<1>15. CASE Output
  BY <1>1, <1>2, <1>15 DEF Output
<1>16. CASE ChangeOutChannel \/ Crash
  BY <1>1, <1>16 DEF ChangeOutChannel, Crash
<1>17. CASE UNCHANGED vars
  BY <1>17 DEF vars
<1>18. QED
  BY <1>5, <1>6, <1>7, <1>8, <1>9, <1>10, <1>11, <1>12, <1>13, <1>14, <1>15, <1>16, <1>17
     DEF Next, LoopStep

LEMMA TalksStep ==
    ASSUME LoopTypes, Talks, [Next]_vars
    PROVE  Talks'
<1> USE DEF Talks, turnVars, tokenVars, toolVars, outVars, faultVars
<1>1. ASSUME NEW k \in 1..MaxCalls, NEW ok \in BOOLEAN, ToolReturns(k, ok)
      PROVE  Talks'
  <2>1. k \in Nat /\ answers \in Nat /\ sent' = sent
    BY <1>1 DEF LoopTypes, ToolReturns
  <2>2. contents' \subseteq contents \cup {<<answers, k, "call">>, <<answers, k, "result">>}
    BY <1>1 DEF ToolReturns
  <2>3. QED
    BY <2>1, <2>2
<1>2. CASE Output
  BY <1>2 DEF Output, SendContents
<1>3. CASE Crash
  BY <1>3 DEF Crash
<1>4. ASSUME NEW n \in 0..MaxCalls, NEW over \in BOOLEAN, ModelAnswers(n, over)
      PROVE  Talks'
  BY <1>4 DEF ModelAnswers
<1>5. CASE Revert
  <2>1. PICK i \in 0..Len(context) : RevertTo(i)
    BY <1>5 DEF Revert
  <2>2. QED
    BY <2>1 DEF RevertTo
<1>6. CASE UNCHANGED vars
  BY <1>6 DEF vars
<1>7. CASE TakeBatch \/ ChangeOutChannel \/ CheckLimit \/ Unconfigured \/ ModelFails
  BY <1>7 DEF TakeBatch, ChangeOutChannel, CheckLimit, Unconfigured, ModelFails
<1>8. CASE Remember \/ AskSummary \/ TakeSummary \/ AppendToSend \/ ToolsJoined
  BY <1>8 DEF Remember, AskSummary, TakeSummary, AppendToSend, ToolsJoined
<1>9. QED
  BY <1>1, <1>2, <1>3, <1>4, <1>5, <1>6, <1>7, <1>8 DEF Next, LoopStep

LEMMA RestInit == Init => Flags /\ Counts /\ Texts /\ Talks
<1> SUFFICES ASSUME Init PROVE Flags /\ Counts /\ Texts /\ Talks
  OBVIOUS
<1>1. Flags
  BY DEF Init, Flags
<1>2. Counts /\ Texts /\ Talks
  BY LoopAssumption DEF Init, Counts, Texts, Talks
<1>3. QED
  BY <1>1, <1>2

LEMMA TypesTogether == LoopTypes /\ Flags /\ Counts /\ Texts /\ Talks => TypeOK
  BY DEF LoopTypes, Flags, Counts, Texts, Talks, TypeOK

(* Types, for any number of turns, rounds and tools: above all, what is kept  *)
(* as the context and what waits to be appended stays a sequence of messages. *)
THEOREM LoopTypesHold == Spec => []TypeOK
<1>1. Init => LoopTypes /\ Flags /\ Counts /\ Texts /\ Talks
  BY InitLoopTypes, RestInit
<1>2. LoopTypes /\ Flags /\ Counts /\ Texts /\ Talks /\ [Next]_vars =>
        LoopTypes' /\ Flags' /\ Counts' /\ Texts' /\ Talks'
  BY LoopTypesStep, FlagsStep, CountsStep, TextsStep, TalksStep
<1>3. QED
  BY <1>1, <1>2, TypesTogether, PTL DEF Spec

-------------------------------------------------------------------------------
(* Without a cause of damage the context is well-formed at every moment but   *)
(* while the tools run, when only their answers are missing; what waits to be *)
(* appended are messages of the user.                                         *)

AnswersMissing ==
    \E c \in Seq(Messages) : WellFormed(c) /\ context = Append(c, Assistant(answers, calls))

CleanInv ==
    damage = {} =>
        /\ context \in Seq(Messages)
        /\ toSend \in Seq(Messages)
        /\ \A i \in 1..Len(toSend) : toSend[i].kind = "user"
        /\ pc = "tools" => AnswersMissing
        /\ pc # "tools" => WellFormed(context)

LEMMA InitCleanInv == Init => CleanInv
  BY EmptyWellFormed DEF Init, CleanInv

(* A step that leaves the messages alone, between steps other than "tools".   *)
LEMMA SameContextClean ==
    ASSUME CleanInv, pc # "tools", pc' # "tools", context' = context,
           damage' = {} => damage = {},
           toSend' = toSend \/ toSend' = <<>>
    PROVE  CleanInv'
<1>1. CASE toSend' = toSend
  BY <1>1 DEF CleanInv
<1>2. CASE toSend' = <<>>
  BY <1>2, EmptyWellFormed DEF CleanInv
<1>3. QED
  BY <1>1, <1>2

LEMMA ResetClean ==
    ASSUME CleanInv, NEW new, new \in {Summary, <<>>}, ResetTo(new),
           pc # "tools", pc' # "tools", toSend' = toSend, damage' = damage
    PROVE  CleanInv'
<1>1. context' \in {context, Summary, <<>>}
  BY DEF ResetTo
<1>2. damage = {} => context' \in Seq(Messages) /\ WellFormed(context')
  BY <1>1, SummaryWellFormed, EmptyWellFormed DEF CleanInv
<1>3. QED
  BY <1>2 DEF CleanInv

LEMMA RevertClean ==
    ASSUME CleanInv, Revert
    PROVE  CleanInv'
<1>1. PICK i \in 0..Len(context) : LastAssistant(i) /\ RevertTo(i)
  BY DEF Revert
<1>2. pc = "revert" /\ pc' \in {"summarise", "idle"}
  BY <1>1 DEF Revert, RevertTo, EndTurn
<1>3. damage' = {} => damage = {} /\ (context' = context \/ ~ToolsAmong(TakenBack(i)))
  BY <1>1 DEF RevertTo
<1>4. context' \in {context, SubSeq(context, 1, i)}
  BY <1>1 DEF RevertTo
<1>5. CASE damage' # {}
  BY <1>5 DEF CleanInv
<1>6. CASE damage' = {} /\ toSend' = <<>>
  <2>1. context \in Seq(Messages) /\ WellFormed(context)
    BY <1>2, <1>3, <1>6 DEF CleanInv
  <2>2. context' \in Seq(Messages) /\ WellFormed(context')
    BY <1>1, <1>3, <1>4, <1>6, <2>1, PrefixWellFormed
  <2>3. QED
    BY <1>2, <1>6, <2>2, EmptyWellFormed DEF CleanInv
<1>7. CASE damage' = {} /\ toSend' # <<>>
  <2>1. /\ context' = SubSeq(context, 1, i)
        /\ toSend' = TakenBack(i) \o toSend
    BY <1>1, <1>7 DEF RevertTo, EndTurn, Pending
  <2>2. /\ context \in Seq(Messages) /\ WellFormed(context)
        /\ toSend \in Seq(Messages)
        /\ \A j \in 1..Len(toSend) : toSend[j].kind = "user"
    BY <1>2, <1>3, <1>7 DEF CleanInv
  <2>3. ~ToolsAmong(TakenBack(i))
    <3>1. CASE context' = context
      <4>1. TakenBack(i) = <<>>
        BY <2>1, <2>2, <3>1 DEF TakenBack
      <4>2. QED
        BY <4>1 DEF ToolsAmong
    <3>2. QED
      BY <1>3, <1>7, <3>1
  <2>4. /\ context' \in Seq(Messages) /\ WellFormed(context')
        /\ TakenBack(i) \in Seq(Messages)
        /\ \A j \in 1..Len(TakenBack(i)) : TakenBack(i)[j].kind = "user"
    BY <1>1, <2>1, <2>2, <2>3, PrefixWellFormed
  <2>5. /\ toSend' \in Seq(Messages)
        /\ \A j \in 1..Len(toSend') : toSend'[j].kind = "user"
    <3> DEFINE t == TakenBack(i)
    <3> HIDE DEF t
    <3>1. t \in Seq(Messages) /\ (\A j \in 1..Len(t) : t[j].kind = "user") /\ toSend' = t \o toSend
      BY <2>1, <2>4 DEF t
    <3>2. QED
      BY <2>2, <3>1, ConcatFacts
  <2>6. QED
    BY <1>2, <2>4, <2>5 DEF CleanInv
<1>8. QED
  BY <1>5, <1>6, <1>7

LEMMA UserAppended ==
    ASSUME NEW c \in Seq(Messages), WellFormed(c), NEW t \in Nat
    PROVE  /\ Append(c, User(t)) \in Seq(Messages) /\ WellFormed(Append(c, User(t)))
           /\ <<User(t)>> \in Seq(Messages)
           /\ \A i \in 1..Len(<<User(t)>>) : <<User(t)>>[i].kind = "user"
<1>1. User(t) \in Messages /\ User(t).kind = "user"
  BY MessageTypes DEF User
<1>2. <<User(t)>> \in Seq(Messages) /\ \A i \in 1..Len(<<User(t)>>) : <<User(t)>>[i].kind = "user"
  BY <1>1
<1>3. c \o <<User(t)>> = Append(c, User(t))
  BY <1>1, ConcatOne
<1>4. QED
  BY <1>2, <1>3, UsersAppended

LEMMA AppendToSendClean ==
    ASSUME CleanInv, AppendToSend
    PROVE  CleanInv'
<1>1. /\ pc = "append" /\ pc' = "calling" /\ toSend' = <<>>
      /\ damage' = {} => damage = {} /\ context' = context \o toSend
  BY DEF AppendToSend, AppendTo, faultVars
<1>2. damage' = {} => context' \in Seq(Messages) /\ WellFormed(context')
  BY <1>1, UsersAppended DEF CleanInv
<1>3. QED
  BY <1>1, <1>2, EmptyWellFormed DEF CleanInv

LEMMA AskSummaryClean ==
    ASSUME CleanInv, AskSummary
    PROVE  CleanInv'
<1>1. /\ pc = "summarise" /\ pc' = "summarising" /\ toSend' = toSend /\ damage' = damage
      /\ context' = Append(context, User(0)) \/ context' = context
  BY DEF AskSummary, turnVars
<1>2. damage = {} => context' \in Seq(Messages) /\ WellFormed(context')
  BY <1>1, UserAppended DEF CleanInv
<1>3. QED
  BY <1>1, <1>2 DEF CleanInv

LEMMA ModelAnswersClean ==
    ASSUME LoopTypes, CleanInv, NEW n \in 0..MaxCalls, NEW over, ModelAnswers(n, over)
    PROVE  CleanInv'
<1>1. /\ pc = "calling" /\ toSend' = toSend
      /\ answers' = answers + 1 /\ answers' \in Nat /\ calls' = n
      /\ pc' = IF n = 0 THEN "output" ELSE "tools"
      /\ damage' = {} => damage = {} /\ context' = context \o <<Assistant(answers', n)>>
  BY DEF ModelAnswers, AppendTo, turnVars, faultVars, LoopTypes
<1>2. CASE damage' # {}
  BY <1>2 DEF CleanInv
<1>3. CASE damage' = {}
  <2>1. context \in Seq(Messages) /\ WellFormed(context)
    BY <1>1, <1>3 DEF CleanInv
  <2>2. Assistant(answers', n) \in Messages
    BY <1>1, MessageTypes
  <2>3. context' = Append(context, Assistant(answers', n)) /\ context' \in Seq(Messages)
    BY <1>1, <1>3, <2>1, <2>2, ConcatOne
  <2>4. CASE n = 0
    <3>1. WellFormed(context')
      BY <1>1, <2>1, <2>3, <2>4, AnswerAppended
    <3>2. QED
      BY <1>1, <1>3, <2>3, <2>4, <3>1 DEF CleanInv
  <2>5. CASE n # 0
    <3>1. AnswersMissing'
      BY <1>1, <2>1, <2>3 DEF AnswersMissing
    <3>2. QED
      BY <1>1, <1>3, <2>3, <2>5, <3>1 DEF CleanInv
  <2>6. QED
    BY <2>4, <2>5
<1>4. QED
  BY <1>2, <1>3

LEMMA ToolsJoinedClean ==
    ASSUME LoopTypes, CleanInv, ToolsJoined
    PROVE  CleanInv'
<1>1. pc = "tools" /\ pc' \in {"output", "idle"} /\ (toSend' = toSend \/ toSend' = <<>>)
  BY DEF ToolsJoined, EndTurn, turnVars
<1>2. damage' = {} =>
        /\ damage = {}
        /\ context' = context \o [k \in 1..calls |-> Tool(answers, k)]
  BY ToolMessagesFacts DEF ToolsJoined
<1>3. CASE damage' # {}
  BY <1>3 DEF CleanInv
<1>4. CASE damage' = {}
  <2>1. PICK c \in Seq(Messages) : WellFormed(c) /\ context = Append(c, Assistant(answers, calls))
    BY <1>1, <1>2, <1>4 DEF CleanInv, AnswersMissing
  <2>2. answers \in Nat /\ calls \in 0..MaxCalls
    BY DEF LoopTypes
  <2>3. context' \in Seq(Messages) /\ WellFormed(context')
    BY <1>2, <1>4, <2>1, <2>2, ExchangeAppended
  <2>4. CASE toSend' = toSend
    BY <1>1, <1>2, <1>4, <2>3, <2>4 DEF CleanInv
  <2>5. CASE toSend' = <<>>
    BY <1>1, <1>4, <2>3, <2>5, EmptyWellFormed DEF CleanInv
  <2>6. QED
    BY <1>1, <2>4, <2>5
<1>5. QED
  BY <1>3, <1>4

LEMMA CleanStep ==
    ASSUME LoopTypes, CleanInv, [Next]_vars
    PROVE  CleanInv'
<1> USE DEF turnVars, tokenVars, toolVars, outVars, faultVars
<1>1. CASE TakeBatch
  <2>1. /\ pc = "idle" /\ pc' = "send" /\ UNCHANGED <<context, damage>>
        /\ toSend' = <<User(turn + 1)>> /\ turn + 1 \in Nat
    BY <1>1 DEF TakeBatch, LoopTypes
  <2>2. QED
    BY <2>1, EmptyWellFormed, UserAppended DEF CleanInv
<1>2. CASE CheckLimit
  BY <1>2, SameContextClean DEF CheckLimit
<1>3. CASE Unconfigured
  BY <1>3, SameContextClean DEF Unconfigured, EndTurn
<1>4. CASE Revert
  BY <1>4, RevertClean
<1>5. CASE Remember
  <2>1. pc = "summarise" /\ pc' = "append" /\ toSend' = toSend /\ damage' = damage
    BY <1>5 DEF Remember, AfterReduction
  <2>2. ResetTo(Summary) \/ ResetTo(<<>>)
    BY <1>5 DEF Remember
  <2>3. QED
    BY <2>1, <2>2, ResetClean
<1>6. CASE AskSummary
  BY <1>6, AskSummaryClean
<1>7. CASE TakeSummary
  <2>1. pc = "summarising" /\ pc' = "append" /\ toSend' = toSend /\ damage' = damage
    BY <1>7 DEF TakeSummary, AfterReduction
  <2>2. ResetTo(Summary) \/ context' = context
    BY <1>7 DEF TakeSummary
  <2>3. QED
    BY <2>1, <2>2, ResetClean, SameContextClean
<1>8. CASE AppendToSend
  BY <1>8, AppendToSendClean
<1>9. ASSUME NEW n \in 0..MaxCalls, NEW over \in BOOLEAN, ModelAnswers(n, over)
      PROVE  CleanInv'
  BY <1>9, ModelAnswersClean
<1>10. CASE ModelFails
  BY <1>10, SameContextClean DEF ModelFails, EndTurn
<1>11. ASSUME NEW k \in 1..MaxCalls, NEW ok \in BOOLEAN, ToolReturns(k, ok)
       PROVE  CleanInv'
  BY <1>11 DEF ToolReturns, CleanInv, AnswersMissing
<1>12. CASE ToolsJoined
  BY <1>12, ToolsJoinedClean
<1>13. CASE Output
  BY <1>13, SameContextClean DEF Output, EndTurn
<1>14. CASE ChangeOutChannel
  BY <1>14 DEF ChangeOutChannel, CleanInv, AnswersMissing
<1>15. CASE Crash
  <2>1. pc' = "idle" /\ toSend' = <<>> /\ context' = context /\ (damage' = {} => damage = {} /\ pc # "tools")
    BY <1>15 DEF Crash
  <2>2. QED
    BY <2>1, EmptyWellFormed DEF CleanInv
<1>16. CASE UNCHANGED vars
  BY <1>16 DEF vars, CleanInv, AnswersMissing
<1>17. QED
  BY <1>1, <1>2, <1>3, <1>4, <1>5, <1>6, <1>7, <1>8, <1>9, <1>10, <1>11, <1>12, <1>13,
     <1>14, <1>15, <1>16 DEF Next, LoopStep

(* Every request to the model is well-formed, for any number of turns, rounds *)
(* and tools, unless an append failed, a crash met running tools, a reduction *)
(* took tool messages back, or a tool of "default" failed.                    *)
THEOREM RequestsWellFormed == Spec => []EveryRequestWellFormed
<1>1. Init => LoopTypes /\ CleanInv
  BY InitLoopTypes, InitCleanInv
<1>2. LoopTypes /\ CleanInv /\ [Next]_vars => LoopTypes' /\ CleanInv'
  BY LoopTypesStep, CleanStep
<1>3. CleanInv => EveryRequestWellFormed
  BY DEF CleanInv, EveryRequestWellFormed, Requesting
<1>4. QED
  BY <1>1, <1>2, <1>3, PTL DEF Spec

-------------------------------------------------------------------------------
(* What is said of a tool call: it names a response that has come and a call  *)
(* that has returned.                                                         *)

TalkTypes ==
    \A e \in contents \union sent :
        /\ e[1] \in Nat /\ e[1] <= answers
        /\ e[1] = answers => e[2] \notin running

TalkInv == TalkTypes /\ ToolTalkSentOnce

LEMMA InitTalkInv == Init => TalkInv
  BY DEF Init, TalkInv, TalkTypes, ToolTalkSentOnce

(* Steps that say nothing and start no tool.                                  *)
LEMMA SilentTalk ==
    ASSUME TalkInv, UNCHANGED <<pipeline, answers, contents, sent>>,
           \/ running' = {} /\ pc' \notin {"tools", "output"}
           \/ UNCHANGED <<calls, running>> /\ (pc' \in {"tools", "output"} => pc \in {"tools", "output"})
    PROVE  TalkInv'
<1>1. TalkTypes'
  BY DEF TalkInv, TalkTypes
<1>2. ToolTalkSentOnce'
  BY DEF TalkInv, ToolTalkSentOnce
<1>3. QED
  BY <1>1, <1>2 DEF TalkInv

LEMMA TalkStep ==
    ASSUME LoopTypes, TalkInv, [Next]_vars
    PROVE  TalkInv'
<1> USE DEF turnVars, tokenVars, toolVars, outVars, faultVars
<1>1. CASE TakeBatch
  BY <1>1, SilentTalk DEF TakeBatch
<1>2. CASE CheckLimit
  BY <1>2, SilentTalk DEF CheckLimit
<1>3. CASE Unconfigured
  BY <1>3, SilentTalk DEF Unconfigured, EndTurn
<1>4. CASE Revert
  BY <1>4, SilentTalk DEF Revert, RevertTo, EndTurn
<1>5. CASE Remember
  BY <1>5, SilentTalk DEF Remember, AfterReduction
<1>6. CASE AskSummary
  BY <1>6, SilentTalk DEF AskSummary
<1>7. CASE TakeSummary
  BY <1>7, SilentTalk DEF TakeSummary, AfterReduction
<1>8. CASE AppendToSend
  BY <1>8, SilentTalk DEF AppendToSend
<1>9. ASSUME NEW n \in 0..MaxCalls, NEW over \in BOOLEAN, ModelAnswers(n, over)
      PROVE  TalkInv'
  <2>1. /\ answers' = answers + 1 /\ answers \in Nat
        /\ calls' = n /\ running' = 1..n
        /\ UNCHANGED <<contents, sent>>
    BY <1>9 DEF ModelAnswers, LoopTypes
  <2>2. TalkTypes'
    BY <2>1 DEF TalkInv, TalkTypes
  <2>3. ToolTalkSentOnce'
    BY <2>1 DEF TalkInv, ToolTalkSentOnce
  <2>4. QED
    BY <2>2, <2>3 DEF TalkInv
<1>10. CASE ModelFails
  BY <1>10, SilentTalk DEF ModelFails, EndTurn
<1>11. ASSUME NEW k \in 1..MaxCalls, NEW ok \in BOOLEAN, ToolReturns(k, ok)
       PROVE  TalkInv'
  <2>1. PICK new \in SUBSET {<<answers, k, "call">>, <<answers, k, "result">>} :
            /\ contents' = contents \union new
            /\ pipeline = "default_memory" => <<answers, k, "call">> \in new
    <3>1. CASE pipeline = "default"
      <4>1. contents' = contents \union {} /\ pipeline # "default_memory"
        BY <1>11, <3>1 DEF ToolReturns
      <4>2. QED
        BY <4>1
    <3>2. CASE pipeline # "default"
      <4>1. contents' = contents \union ({<<answers, k, "call">>}
                                \union (IF ok THEN {<<answers, k, "result">>} ELSE {}))
        BY <1>11, <3>2 DEF ToolReturns
      <4>2. QED
        BY <4>1
    <3>3. QED
      BY <3>1, <3>2
  <2>2. /\ k \in running /\ running' = running \ {k} /\ answers \in Nat
        /\ UNCHANGED <<pipeline, pc, answers, calls, sent>>
    BY <1>11 DEF ToolReturns, LoopTypes
  <2>3. \A e \in new : e[1] = answers /\ e[2] = k
    BY <2>1
  <2>4. TalkTypes'
    BY <2>1, <2>2, <2>3 DEF TalkInv, TalkTypes
  <2>5. new \intersect sent = {}
    BY <2>2, <2>3 DEF TalkInv, TalkTypes
  <2>6. ToolTalkSentOnce'
    BY <2>1, <2>2, <2>5 DEF TalkInv, ToolTalkSentOnce
  <2>7. QED
    BY <2>4, <2>6 DEF TalkInv
<1>12. CASE ToolsJoined
  BY <1>12, SilentTalk DEF ToolsJoined, EndTurn
<1>13. CASE Output
  <2>1. /\ contents' \union sent' = contents \union sent
        /\ contents' \intersect sent' = {}
    BY <1>13 DEF Output, SendContents, TalkInv, ToolTalkSentOnce
  <2>2. UNCHANGED <<pipeline, answers>> /\ pc' \notin {"tools", "output"}
        /\ (running' = {} \/ running' = running)
    BY <1>13 DEF Output, EndTurn
  <2>3. QED
    BY <2>1, <2>2 DEF TalkInv, TalkTypes, ToolTalkSentOnce
<1>14. CASE ChangeOutChannel
  BY <1>14, SilentTalk DEF ChangeOutChannel
<1>15. CASE Crash
  BY <1>15 DEF Crash, TalkInv, TalkTypes, ToolTalkSentOnce
<1>16. CASE UNCHANGED vars
  BY <1>16, SilentTalk DEF vars
<1>17. QED
  BY <1>1, <1>2, <1>3, <1>4, <1>5, <1>6, <1>7, <1>8, <1>9, <1>10, <1>11, <1>12, <1>13,
     <1>14, <1>15, <1>16 DEF Next, LoopStep

(* What is to be said of a tool call that returned is said once or waits to   *)
(* be said, for any number of tools at once, until a crash.                   *)
THEOREM ToolTalkOnce == Spec => []ToolTalkSentOnce
<1>1. Init => LoopTypes /\ TalkInv
  BY InitLoopTypes, InitTalkInv
<1>2. LoopTypes /\ TalkInv /\ [Next]_vars => LoopTypes' /\ TalkInv'
  BY LoopTypesStep, TalkStep
<1>3. TalkInv => ToolTalkSentOnce
  BY DEF TalkInv
<1>4. QED
  BY <1>1, <1>2, <1>3, PTL DEF Spec

-------------------------------------------------------------------------------
(* The batch of a turn waits, last, until it is appended.                     *)
BatchInv ==
    /\ pc # "idle" => round # 0
    /\ round = 1 /\ pc \in {"send", "revert", "summarise", "summarising", "append"} =>
          toSend # <<>> /\ toSend[Len(toSend)] = User(turn)
    /\ FirstRequestCarriesBatch

LEMMA EndsWith ==
    ASSUME NEW s \in Seq(Messages), NEW t \in Seq(Messages), t # <<>>
    PROVE  s \o t # <<>> /\ (s \o t)[Len(s \o t)] = t[Len(t)]
  OBVIOUS

LEMMA BatchStep ==
    ASSUME LoopTypes, Counts, Texts, BatchInv, [Next]_vars
    PROVE  BatchInv'
<1> USE DEF BatchInv, FirstRequestCarriesBatch, turnVars, tokenVars, toolVars, outVars, faultVars
<1>1. \A ok : EndTurn(ok) => BatchInv'
  BY DEF EndTurn
<1>2. ASSUME NEW n \in 0..MaxCalls, NEW over \in BOOLEAN, ModelAnswers(n, over)
      PROVE  BatchInv'
  BY <1>2 DEF ModelAnswers
<1>3. ASSUME NEW k \in 1..MaxCalls, NEW ok \in BOOLEAN, ToolReturns(k, ok)
      PROVE  BatchInv'
  BY <1>3 DEF ToolReturns
<1>4. CASE TakeBatch
  BY <1>4 DEF TakeBatch
<1>5. CASE CheckLimit
  BY <1>5 DEF CheckLimit
<1>6. CASE AppendToSend
  <2>1. /\ pc = "append" /\ pc' = "calling" /\ UNCHANGED <<turn, round>>
        /\ "append" \notin damage' => context' = context \o toSend
    BY <1>6 DEF AppendToSend, AppendTo
  <2>2. round = 1 => toSend # <<>> /\ toSend[Len(toSend)] = User(turn)
    BY <2>1
  <2>3. round = 1 => context \o toSend # <<>> /\ (context \o toSend)[Len(context \o toSend)] = User(turn)
    BY <2>2, EndsWith DEF Texts
  <2>4. QED
    BY <2>1, <2>3
<1>7. CASE Remember \/ AskSummary \/ TakeSummary
  BY <1>7 DEF Remember, AskSummary, TakeSummary, AfterReduction
<1>8. CASE Unconfigured \/ ModelFails
  BY <1>1, <1>8 DEF Unconfigured, ModelFails
<1>9. CASE Revert
  <2>1. PICK i \in 0..Len(context) : RevertTo(i)
    BY <1>9 DEF Revert
  <2>2. CASE EndTurn(FALSE)
    BY <1>1, <2>2
  <2>3. CASE toSend' = Pending(i) /\ pc' = "summarise" /\ UNCHANGED <<turn, round>>
    <3>1. pc = "revert"
      BY <1>9 DEF Revert
    <3>2. TakenBack(i) \in Seq(Messages)
      BY DEF TakenBack, Texts
    <3>3. round = 1 => toSend' # <<>> /\ toSend'[Len(toSend')] = User(turn)
      BY <2>3, <3>1, <3>2, EndsWith DEF Pending, Texts
    <3>4. QED
      BY <2>3, <3>1, <3>3
  <2>4. QED
    BY <2>1, <2>2, <2>3 DEF RevertTo
<1>10. CASE ToolsJoined
  <2>1. CASE pc' = "output" /\ UNCHANGED <<turn, round>>
    BY <1>10, <2>1 DEF ToolsJoined
  <2>2. QED
    BY <1>1, <1>10, <2>1 DEF ToolsJoined
<1>11. CASE Output
  <2>1. pc = "output" /\ round \in Nat /\ round # 0
    BY <1>11 DEF Output, Counts
  <2>2. CASE NextRound
    BY <1>11, <2>1, <2>2 DEF Output
  <2>3. CASE ~NextRound
    BY <1>1, <1>11, <2>3 DEF Output
  <2>4. QED
    BY <2>2, <2>3
<1>12. CASE ChangeOutChannel \/ Crash
  BY <1>12 DEF ChangeOutChannel, Crash
<1>13. CASE UNCHANGED vars
  BY <1>13 DEF vars
<1>14. QED
  BY <1>2, <1>3, <1>4, <1>5, <1>6, <1>7, <1>8, <1>9, <1>10, <1>11, <1>12, <1>13 DEF Next, LoopStep

(* The first request of a turn ends with the batch that started it, also when *)
(* the context was reduced before, unless an append failed.                   *)
THEOREM FirstRequestHasBatch == Spec => []FirstRequestCarriesBatch
<1>1. Init => LoopTypes /\ Counts /\ Texts /\ BatchInv
  BY InitLoopTypes, RestInit DEF Init, BatchInv, FirstRequestCarriesBatch
<1>2. LoopTypes /\ Counts /\ Texts /\ BatchInv /\ [Next]_vars =>
        LoopTypes' /\ Counts' /\ Texts' /\ BatchInv'
  BY LoopTypesStep, CountsStep, TextsStep, BatchStep
<1>3. BatchInv => FirstRequestCarriesBatch
  BY DEF BatchInv
<1>4. QED
  BY <1>1, <1>2, <1>3, PTL DEF Spec
===============================================================================
