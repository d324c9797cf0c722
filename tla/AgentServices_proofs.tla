--------------------------- MODULE AgentServices_proofs ---------------------------
(* Proofs about what the agent talks to.  EchoFilter: what the agent said itself *)
(* is kept out, for any replies, other messages, identities and faults.          *)
(* ModelCalls: requests go where and are as the configuration says, for any      *)
(* providers, calls of tools, rounds and changes.  AgentConfig: the configuration *)
(* stays what commands have made it, for any sets of commands that meet.         *)
(* StationRouting: a listing is complete, and what it shows can be called, for   *)
(* any stations, topologies and names.                                           *)
(*                                                                               *)
(* The property of EchoFilter is not inductive.  That an echo is filtered out    *)
(* needs the id to be waiting when it comes (Ids), and that in turn needs to     *)
(* know where agent and channel are with a reply at the same time (Together) and *)
(* that an echo is one of a message that was sent on (Echoes).  That what the    *)
(* agent answers or remembers was heard first (Heard) brings all cases down to   *)
(* hearing.                                                                      *)
(*                                                                               *)
(* Those of StationRouting rest on what the stack of each listing holds: a frame *)
(* has what the sub-stations asked so far give (ListIs), and its table leads to  *)
(* the tools of its list (Leads), which is said of all calls that may follow by  *)
(* a set of <<host, stations passed, name, tool>> closed under the routes.       *)
EXTENDS EchoFilter, ModelCalls, AgentConfig, StationRouting, FiniteSetTheorems, SequenceTheorems,
        WellFoundedInduction, TLAPS

\* A reply with one of the four causes; one remembered as said; one the channel has.
Known(m) == m \in early \cup expired \cup unheard \cup copied
Mine(m) == <<m, "self">> \in memory
AtChannel(m) == stage[m] \in {"stored", "pushed"}

Tasks == {"idle", "waiting", "answered", "registered", "done", "failed"}
Stages == {"none", "asked", "stored", "pushed", "refused"}

EchoTypes ==
    /\ stage \in [Messages -> Stages]
    /\ task \in [Replies -> Tasks]
    /\ answers \in [Replies -> {Nothing} \cup (Messages \X Identities)]
    /\ boundAs \subseteq Identities
    /\ events \subseteq Messages \X Identities
    /\ toAnswer \subseteq Messages \X Identities
    /\ memory \subseteq Messages \X (Identities \cup {"self"})
    /\ pending \subseteq Replies
    /\ old \subseteq pending

\* Where the agent is with a reply, and where the channel is.
Together == \A m \in Replies :
    /\ task[m] = "idle" <=> stage[m] = "none"
    /\ stage[m] = "asked" => task[m] \in {"waiting", "failed"}
    /\ task[m] \in {"answered", "registered", "done"} => AtChannel(m)
    /\ task[m] = "failed" /\ AtChannel(m) => m \in unheard
    /\ stage[m] = "asked" /\ task[m] = "failed" => m \in unheard
    /\ stage[m] = "refused" => task[m] = "failed"
    /\ m \in unheard => task[m] = "failed"

\* An echo comes of what was sent on, and only of that.
Echoes == \A m \in Messages, i \in Identities :
    <<m, i>> \in events => stage[m] = "pushed"

\* An id that was registered waits, was evicted or has filtered an echo out.
Ids == \A m \in Replies :
    task[m] \in {"registered", "done"} => m \in pending \cup expired \cup copied

\* What was heard of the agent's own words has one of the causes; everything it
\* remembers of others, is to answer or has answered was heard.
Heard ==
    /\ \A m \in Replies : m \in heard => Known(m)
    /\ \A m \in Messages, i \in Identities :
          <<m, i>> \in toAnswer \cup memory => m \in heard
    /\ \A r \in Replies : answers[r] # Nothing => answers[r][1] \in heard

\* What it remembers as its own.
Own == \A m \in Replies :
    /\ Mine(m) => task[m] = "done"
    /\ task[m] = "done" => Mine(m) \/ Is(answers[m][1], "command")

\* The inductive invariant.
EchoInv == EchoTypes /\ Together /\ Echoes /\ Ids /\ Heard /\ Own

\* It holds when the program starts.
LEMMA InitEcho == EchoInit => EchoInv
  BY EchoAssumption
     DEF EchoInit, EchoInv, EchoTypes, Together, Echoes, Ids, Heard, Own, Known, Mine, AtChannel,
         Messages, Stages, Tasks

\* It implies the property.
LEMMA EchoOwn == EchoInv => OwnWordsKeptOut
  BY EchoAssumption, ZenonT(60) DEF EchoInv, EchoTypes, Together, Heard, Own, Known, Mine, AtChannel, OwnWordsKeptOut, Messages

\* Every step of the channel and of the agent keeps it.
LEMMA EchoStep ==
    ASSUME EchoInv, [EchoNext]_echoVars
    PROVE  EchoInv'
<1> USE EchoAssumption DEF ghosts, Messages, Is, Known, Mine, AtChannel
<1> USE DEF EchoInv, EchoTypes, Together, Echoes, Ids, Heard, Own, Tasks, Stages
<1>1. ASSUME NEW m \in Messages, Post(m)
      PROVE  EchoInv'
  <2>1. EchoTypes'
    BY <1>1 DEF Post
  <2>2. Together'
    BY <1>1 DEF Post
  <2>3. Echoes'
    BY <1>1 DEF Post
  <2>4. Ids'
    BY <1>1 DEF Post
  <2>5. Heard'
    BY <1>1 DEF Post
  <2>6. Own'
    BY <1>1 DEF Post
  <2>7. QED
    BY <2>1, <2>2, <2>3, <2>4, <2>5, <2>6
<1>2. ASSUME NEW m \in Messages, SendOn(m)
      PROVE  EchoInv'
  <2>1. EchoTypes'
    BY <1>2 DEF SendOn
  <2>2. Together'
    BY <1>2 DEF SendOn
  <2>3. Echoes'
    BY <1>2 DEF SendOn
  <2>4. Ids'
    BY <1>2 DEF SendOn
  <2>5. Heard'
    BY <1>2 DEF SendOn
  <2>6. Own'
    BY <1>2 DEF SendOn
  <2>7. QED
    BY <2>1, <2>2, <2>3, <2>4, <2>5, <2>6
<1>3. ASSUME NEW m \in Replies, Accept(m)
      PROVE  EchoInv'
  <2>1. EchoTypes'
    BY <1>3 DEF Accept, SpeakerOf
  <2>2. Together'
    BY <1>3 DEF Accept, SpeakerOf
  <2>3. Echoes'
    BY <1>3 DEF Accept, SpeakerOf
  <2>4. Ids'
    BY <1>3 DEF Accept, SpeakerOf
  <2>5. Heard'
    BY <1>3 DEF Accept, SpeakerOf
  <2>6. Own'
    BY <1>3, ZenonT(60) DEF Accept, SpeakerOf
  <2>7. QED
    BY <2>1, <2>2, <2>3, <2>4, <2>5, <2>6
<1>4. ASSUME NEW m \in Replies, TimeOut(m)
      PROVE  EchoInv'
  <2>1. EchoTypes'
    BY <1>4 DEF TimeOut, MayFail
  <2>2. Together'
    BY <1>4 DEF TimeOut, MayFail
  <2>3. Echoes'
    BY <1>4 DEF TimeOut, MayFail
  <2>4. Ids'
    BY <1>4 DEF TimeOut, MayFail
  <2>5. Heard'
    BY <1>4 DEF TimeOut, MayFail
  <2>6. Own'
    BY <1>4 DEF TimeOut, MayFail
  <2>7. QED
    BY <2>1, <2>2, <2>3, <2>4, <2>5, <2>6
<1>5. ASSUME NEW m \in Replies, Register(m)
      PROVE  EchoInv'
  <2>1. EchoTypes'
    BY <1>5 DEF Register, Kept
  <2>2. Together'
    BY <1>5 DEF Register, Kept
  <2>3. Echoes'
    BY <1>5 DEF Register, Kept
  <2>4. Ids'
    BY <1>5 DEF Register, Kept
  <2>5. Heard'
    BY <1>5 DEF Register, Kept
  <2>6. Own'
    BY <1>5 DEF Register, Kept
  <2>7. QED
    BY <2>1, <2>2, <2>3, <2>4, <2>5, <2>6
<1>6. ASSUME NEW m \in Replies, Remember(m)
      PROVE  EchoInv'
  <2>1. EchoTypes'
    BY <1>6 DEF Remember
  <2>2. Together'
    BY <1>6 DEF Remember
  <2>3. Echoes'
    BY <1>6 DEF Remember
  <2>4. Ids'
    BY <1>6 DEF Remember
  <2>5. Heard'
    BY <1>6 DEF Remember
  <2>6. Own'
    BY <1>6 DEF Remember
  <2>7. QED
    BY <2>1, <2>2, <2>3, <2>4, <2>5, <2>6
<1>7. ASSUME NEW m \in Replies, Age(m)
      PROVE  EchoInv'
  <2>1. EchoTypes'
    BY <1>7 DEF Age
  <2>2. Together'
    BY <1>7 DEF Age
  <2>3. Echoes'
    BY <1>7 DEF Age
  <2>4. Ids'
    BY <1>7 DEF Age
  <2>5. Heard'
    BY <1>7 DEF Age
  <2>6. Own'
    BY <1>7 DEF Age
  <2>7. QED
    BY <2>1, <2>2, <2>3, <2>4, <2>5, <2>6
<1>8. ASSUME NEW m \in Replies, NEW e \in toAnswer, Speak(m, e)
      PROVE  EchoInv'
  <2>1. EchoTypes'
    BY <1>8 DEF Speak
  <2>2. Together'
    BY <1>8 DEF Speak
  <2>3. Echoes'
    BY <1>8 DEF Speak
  <2>4. Ids'
    BY <1>8 DEF Speak
  <2>5. Heard'
    BY <1>8 DEF Speak
  <2>6. Own'
    BY <1>8 DEF Speak
  <2>7. QED
    BY <2>1, <2>2, <2>3, <2>4, <2>5, <2>6
<1>9. ASSUME NEW m \in Messages, NEW i \in Identities, FilterOut(m, i)
      PROVE  EchoInv'
  <2>1. EchoTypes'
    BY <1>9 DEF FilterOut
  <2>2. Together'
    BY <1>9 DEF FilterOut
  <2>3. Echoes'
    BY <1>9 DEF FilterOut
  <2>4. Ids'
    BY <1>9 DEF FilterOut
  <2>5. Heard'
    BY <1>9 DEF FilterOut
  <2>6. Own'
    BY <1>9 DEF FilterOut
  <2>7. QED
    BY <2>1, <2>2, <2>3, <2>4, <2>5, <2>6
<1>10. ASSUME NEW m \in Messages, NEW i \in Identities, Hear(m, i)
      PROVE  EchoInv'
  <2>1. EchoTypes'
    BY <1>10 DEF Hear, Kept
  <2>2. Together'
    BY <1>10 DEF Hear, Kept
  <2>3. Echoes'
    BY <1>10 DEF Hear, Kept
  <2>4. Ids'
    BY <1>10 DEF Hear, Kept
  <2>5. Heard'
    BY <1>10 DEF Hear, Kept
  <2>6. Own'
    BY <1>10 DEF Hear, Kept
  <2>7. QED
    BY <2>1, <2>2, <2>3, <2>4, <2>5, <2>6
<1>11. ASSUME NEW i \in Identities, BindAs(i)
      PROVE  EchoInv'
  <2>1. EchoTypes'
    BY <1>11 DEF BindAs
  <2>2. Together'
    BY <1>11 DEF BindAs
  <2>3. Echoes'
    BY <1>11 DEF BindAs
  <2>4. Ids'
    BY <1>11 DEF BindAs
  <2>5. Heard'
    BY <1>11 DEF BindAs
  <2>6. Own'
    BY <1>11 DEF BindAs
  <2>7. QED
    BY <2>1, <2>2, <2>3, <2>4, <2>5, <2>6
<1>12. CASE LoseLink
  <2>1. EchoTypes'
    BY <1>12 DEF LoseLink, MayFail
  <2>2. Together'
    BY <1>12 DEF LoseLink, MayFail
  <2>3. Echoes'
    BY <1>12 DEF LoseLink, MayFail
  <2>4. Ids'
    BY <1>12 DEF LoseLink, MayFail
  <2>5. Heard'
    BY <1>12 DEF LoseLink, MayFail
  <2>6. Own'
    BY <1>12 DEF LoseLink, MayFail
  <2>7. QED
    BY <2>1, <2>2, <2>3, <2>4, <2>5, <2>6
<1>13. CASE UNCHANGED echoVars
  BY <1>13 DEF echoVars
<1>14. QED
  BY <1>1, <1>2, <1>3, <1>4, <1>5, <1>6, <1>7, <1>8, <1>9, <1>10, <1>11, <1>12, <1>13 DEF EchoNext

\* Nexus hears, remembers and answers none of the agent's own words but for the
\* four causes, and the agent remembers as its own what the channel has
\* (channel_manager.rs:71-103, 357-373; nexus.rs:313-330).
THEOREM OwnWords == EchoSpec => []OwnWordsKeptOut
<1>1. EchoInv /\ [EchoNext]_echoVars => EchoInv'
  BY EchoStep
<1>2. QED
  BY InitEcho, <1>1, EchoOwn, PTL DEF EchoSpec

--------------------------------------------------------------------------------
(* The invariant of the calls of models.                                        *)

ContextMessages == [role : {"system", "user", "assistant", "tool"},
                    form : Protocols \cup {"text", "hollow"},
                    calls : SUBSET (CallIds \cup {Unnamed})]
Requests == [step : {"idle", "ask", "named", "configured", "sending", "tools"},
             name : Providers \cup {"none"}, config : Settings \cup {NotConfigured},
             at : Urls \cup {"none"}, messages : Seq(ContextMessages), left : Nat, round : Nat,
             calls : SUBSET CallIds]

CallsTypes ==
    /\ registered \in [Providers -> Settings \cup {NotConfigured}]
    /\ model \in Providers
    /\ DOMAIN instances \subseteq Protocols \X Providers
    /\ \A k \in DOMAIN instances : instances[k] \in Urls
    /\ context \in Seq(ContextMessages) /\ context # <<>>
    /\ request \in Requests
    /\ toolFailed \in BOOLEAN

\* The instance of a provider is where the provider is.
Placed ==
    /\ request.step \in {"named", "configured", "sending", "tools"} =>
          request.name \in Providers
    /\ request.step \in {"configured", "sending", "tools"} =>
          request.config \in Settings /\ request.config.type \in Protocols
    /\ request.step = "configured" =>
          request.config = registered[request.name] \/ request.name \in replaced
    /\ \A t \in Protocols, n \in Providers :
          <<t, n>> \in DOMAIN instances =>
              instances[<<t, n>>] = registered[n].url \/ n \in replaced
    /\ request.step = "sending" =>
          /\ request.at = request.config.url \/ request.name \in replaced
          /\ request.messages = Body(request.config.type)

\* The tools that one message of a context asks for have answered.
AnsweredAt(s, i) ==
    LET n == Cardinality(s[i].calls) IN
    /\ i + n <= Len(s)
    /\ s[i].calls = UNION {s[j].calls : j \in (i + 1)..(i + n)}
    /\ \A j \in (i + 1)..(i + n) : s[j].role = "tool"

Tooled(s) == \E m \in Assistants(s) : m.form = "openai"
Excepted == toolFailed \/ \E m \in Assistants(context) : Unnamed \in m.calls

\* What is in a context, and what is still to be added.
Spoken ==
    /\ \A i \in DOMAIN context :
          /\ context[i].role = "tool" => Tooled(context)
          /\ context[i].role = "assistant" /\ context[i].calls # {} => context[i].form = "openai"
    /\ request.step \in {"ask", "named", "configured", "sending"} =>
          context[Len(context)].role \in {"user", "tool"}
    /\ request.step = "tools" =>
          /\ context[Len(context)].role = "assistant"
          /\ context[Len(context)].calls \ {Unnamed} = request.calls /\ request.calls # {}
          /\ context[Len(context)].form = "openai"
    /\ ~Excepted => \A i \in DOMAIN context :
          context[i].role = "assistant" =>
              AnsweredAt(context, i) \/ (request.step = "tools" /\ i = Len(context))

CallsInv == CallsTypes /\ Placed /\ Spoken

--------------------------------------------------------------------------------
(* Counting.                                                                    *)

\* There is a least number among some: what stands for induction here.
LEMMA Smallest ==
    ASSUME NEW T \in SUBSET Nat, T # {}
    PROVE  \E x \in T : \A y \in T : x <= y
<1>1. PICK x \in T : \A y \in T : ~ (<<y, x>> \in OpToRel(<, Nat))
  BY NatLessThanWellFounded, WFMin
<1>2. ASSUME NEW y \in T PROVE x <= y
  <2>1. x \in Nat /\ y \in Nat
    BY <1>1, <1>2
  <2>2. ~(y < x)
    BY <1>1, <1>2, <2>1 DEF OpToRel
  <2>3. QED
    BY <2>1, <2>2
<1>3. QED
  BY <1>2

\* The members of a set of numbers are counted.
LEMMA NthFacts ==
    ASSUME NEW n \in Nat, NEW S \in SUBSET (1..n), NEW i \in 1..Cardinality(S)
    PROVE  Nth(S, i) \in S /\ Cardinality({j \in S : j <= Nth(S, i)}) = i
<1>0. \A j \in S : j \in Nat /\ 1 <= j /\ j <= n
  OBVIOUS
<1>1. IsFiniteSet(S) /\ Cardinality(S) \in Nat
  <2>1. IsFiniteSet(1..n)
    BY FS_Interval
  <2>2. QED
    BY <2>1, FS_Subset, FS_CardinalityType
<1>a. i \in Nat /\ 1 <= i /\ i <= Cardinality(S)
  BY <1>1
<1> DEFINE UpTo(k) == {j \in S : j <= k}
           C(k) == Cardinality(UpTo(k))
<1>2. ASSUME NEW k \in Nat
      PROVE  IsFiniteSet(UpTo(k)) /\ C(k) \in Nat
  BY <1>1, FS_Subset, FS_CardinalityType
<1>3. n \in Nat /\ C(n) >= i /\ C(0) = 0
  <2>1. UpTo(n) = S
    BY <1>0
  <2>2. UpTo(0) = {}
    <3>1. \A j \in S : ~(j <= 0)
      BY <1>0
    <3>2. QED
      BY <3>1
  <2>3. QED
    BY <1>a, <2>1, <2>2, FS_EmptySet
<1>4. ASSUME NEW k \in Nat, k # 0
      PROVE  /\ k - 1 \in Nat
             /\ k \in S => C(k) = C(k - 1) + 1
             /\ k \notin S => C(k) = C(k - 1)
  <2>1. k - 1 \in Nat
    BY <1>4
  <2>a. \A j \in S : j <= k - 1 <=> j <= k /\ j # k
    BY <1>0, <1>4
  <2>b. k <= k /\ ~(k <= k - 1)
    BY <1>4
  <2>2. ASSUME k \in S PROVE C(k) = C(k - 1) + 1
    <3>1. UpTo(k) = UpTo(k - 1) \cup {k} /\ k \notin UpTo(k - 1)
      BY <2>a, <2>b, <2>2
    <3>2. IsFiniteSet(UpTo(k - 1))
      BY <1>2, <2>1
    <3>. HIDE DEF UpTo
    <3>3. QED
      BY <3>1, <3>2, FS_AddElement
  <2>3. ASSUME k \notin S PROVE C(k) = C(k - 1)
    <3>1. UpTo(k) = UpTo(k - 1)
      BY <2>a, <2>3
    <3>. HIDE DEF UpTo
    <3>2. QED
      BY <3>1
  <2>4. QED
    BY <2>1, <2>2, <2>3
<1>. HIDE DEF C
<1> DEFINE Enough == {k \in Nat : C(k) >= i}
<1>5. PICK k \in Enough : \A y \in Enough : k <= y
  <2>1. Enough \in SUBSET Nat /\ Enough # {}
    BY <1>3
  <2>. HIDE DEF Enough
  <2>2. QED
    BY <2>1, Smallest
<1>6. k \in Nat /\ k # 0 /\ C(k) >= i /\ k - 1 \notin Enough
  BY <1>a, <1>3, <1>5
<1>7. k - 1 \in Nat /\ C(k - 1) < i
  <2>1. k - 1 \in Nat
    BY <1>6
  <2>2. C(k - 1) \in Nat
    BY <1>2, <2>1 DEF C
  <2>3. QED
    BY <1>a, <1>6, <2>1, <2>2
<1>8. k \in S /\ C(k) = i
  <2>1. C(k) \in Nat /\ C(k - 1) \in Nat
    BY <1>2, <1>6, <1>7 DEF C
  <2>2. QED
    BY <1>a, <1>4, <1>6, <1>7, <2>1
<1>9. \E x \in S : Cardinality({j \in S : j <= x}) = i
  BY <1>8 DEF C
<1>10. QED
  BY <1>9 DEF Nth

\* The greatest is the last.
LEMMA NthLast ==
    ASSUME NEW m \in Nat, NEW S \in SUBSET (1..m), m \in S
    PROVE  /\ Cardinality(S) \in Nat /\ Cardinality(S) >= 1
           /\ Nth(S, Cardinality(S)) = m
<1>1. IsFiniteSet(S) /\ Cardinality(S) \in Nat
  <2>1. IsFiniteSet(1..m)
    BY FS_Interval
  <2>2. QED
    BY <2>1, FS_Subset, FS_CardinalityType
<1>2. Cardinality(S) >= 1
  BY <1>1, FS_EmptySet
<1> DEFINE n == Nth(S, Cardinality(S))
<1>3. n \in S /\ Cardinality({j \in S : j <= n}) = Cardinality(S)
  <2>1. Cardinality(S) \in 1..Cardinality(S)
    BY <1>1, <1>2
  <2>2. QED
    BY <2>1, NthFacts
<1> HIDE DEF n
<1>4. {j \in S : j <= n} = S
  BY <1>1, <1>3, FS_Subset
<1>5. m <= n /\ n <= m
  BY <1>3, <1>4
<1>6. n = m
  BY <1>3, <1>5
<1>7. QED
  BY <1>1, <1>2, <1>6 DEF n

\* The members of a finite set in a sequence.
LEMMA SequenceOfSet ==
    ASSUME NEW S, IsFiniteSet(S)
    PROVE  /\ SetToSeq(S) \in [1..Cardinality(S) -> S] /\ Cardinality(S) \in Nat
           /\ \A x \in S : \E i \in 1..Cardinality(S) : SetToSeq(S)[i] = x
<1> DEFINE D == 1..Cardinality(S)
<1>1. Cardinality(S) \in Nat
  BY FS_CardinalityType
<1>2. IsFiniteSet(D) /\ Cardinality(D) = Cardinality(S)
  BY <1>1, FS_Interval
<1>3. ExistsBijection(D, S)
  BY <1>2, FS_SameCardinalityBij
<1>4. \E f \in [D -> S] : IsInjective(f)
  BY <1>3 DEF ExistsBijection, Bijection, Injection
<1>5. SetToSeq(S) \in [D -> S] /\ IsInjective(SetToSeq(S))
  BY <1>4 DEF SetToSeq
<1>6. SetToSeq(S) \in Injection(D, S)
  BY <1>5 DEF Injection
<1>7. SetToSeq(S) \in Surjection(D, S)
  BY <1>2, <1>6, FS_Injection
<1>8. QED
  BY <1>1, <1>5, <1>7 DEF Surjection

--------------------------------------------------------------------------------
(* Contexts.                                                                    *)

LEMMA CallsFinite ==
    ASSUME NEW m \in ContextMessages
    PROVE  IsFiniteSet(m.calls) /\ Cardinality(m.calls) \in Nat
<1>1. IsFiniteSet(CallIds \cup {Unnamed})
  BY CallsAssumption, FS_AddElement
<1>2. m.calls \subseteq CallIds \cup {Unnamed}
  BY DEF ContextMessages
<1>3. QED
  BY <1>1, <1>2, FS_Subset, FS_CardinalityType

LEMMA AnsweredKept ==
    ASSUME NEW s \in Seq(ContextMessages), NEW t \in Seq(ContextMessages), NEW i \in 1..Len(s),
           AnsweredAt(s, i)
    PROVE  AnsweredAt(s \o t, i)
<1>1. Cardinality(s[i].calls) \in Nat
  BY CallsFinite
<1>2. PICK n \in Nat : n = Cardinality(s[i].calls)
  BY <1>1
<1>3. (s \o t)[i] = s[i] /\ i + n <= Len(s) /\ Len(s) <= Len(s \o t)
  BY <1>2 DEF AnsweredAt
<1>4. \A j \in (i + 1)..(i + n) : (s \o t)[j] = s[j]
  BY <1>3
<1>5. UNION {(s \o t)[j].calls : j \in (i + 1)..(i + n)}
        = UNION {s[j].calls : j \in (i + 1)..(i + n)}
  BY <1>4
<1>6. s[i].calls = UNION {s[j].calls : j \in (i + 1)..(i + n)}
      /\ \A j \in (i + 1)..(i + n) : s[j].role = "tool"
  BY <1>2 DEF AnsweredAt
<1>7. i + n <= Len(s \o t)
  BY <1>3
<1>8. \A j \in (i + 1)..(i + n) : (s \o t)[j].role = "tool"
  BY <1>4, <1>6
<1>9. Cardinality((s \o t)[i].calls) = n
  BY <1>2, <1>3
<1> DEFINE w == s \o t
<1>10. /\ Cardinality(w[i].calls) = n /\ i + n <= Len(w) /\ w[i] = s[i]
       /\ UNION {w[j].calls : j \in (i + 1)..(i + n)}
             = UNION {s[j].calls : j \in (i + 1)..(i + n)}
       /\ \A j \in (i + 1)..(i + n) : w[j].role = "tool"
  BY <1>3, <1>5, <1>7, <1>8, <1>9
<1> HIDE DEF w
<1>11. AnsweredAt(w, i)
  BY <1>6, <1>10 DEF AnsweredAt
<1>12. QED
  BY <1>11 DEF w

LEMMA Grown ==
    ASSUME context \in Seq(ContextMessages), NEW t \in Seq(ContextMessages), context' = context \o t
    PROVE  /\ context' \in Seq(ContextMessages) /\ Len(context') = Len(context) + Len(t)
           /\ DOMAIN context = 1..Len(context) /\ DOMAIN context' = 1..Len(context')
           /\ \A i \in 1..Len(context) : context'[i] = context[i]
           /\ \A i \in 1..Len(t) : context'[Len(context) + i] = t[i]
           /\ \A i \in 1..Len(context') :
                 i \in 1..Len(context) \/ (i > Len(context) /\ i - Len(context) \in 1..Len(t))
           /\ Assistants(context) \subseteq Assistants(context')
           /\ Tooled(context) => Tooled(context')
<1>1. /\ context' \in Seq(ContextMessages) /\ Len(context') = Len(context) + Len(t)
      /\ DOMAIN context = 1..Len(context) /\ DOMAIN context' = 1..Len(context')
      /\ \A i \in 1..Len(context) : context'[i] = context[i]
      /\ \A i \in 1..Len(t) : context'[Len(context) + i] = t[i]
      /\ \A i \in 1..Len(context') :
            i \in 1..Len(context) \/ (i > Len(context) /\ i - Len(context) \in 1..Len(t))
  OBVIOUS
<1>2. Assistants(context) \subseteq Assistants(context')
  <2>1. 1..Len(context) \subseteq 1..Len(context')
    BY <1>1
  <2>2. QED
    BY <2>1, <1>1 DEF Assistants
<1>3. QED
  BY <1>1, <1>2 DEF Tooled

--------------------------------------------------------------------------------
(* Steps.                                                                       *)

LEMMA CallsStart == CallsInit => CallsInv
<1> SUFFICES ASSUME CallsInit PROVE CallsInv
  OBVIOUS
<1>1. /\ registered \in [Providers -> Settings] /\ model \in Providers
      /\ DOMAIN instances = {} /\ toolFailed = FALSE /\ replaced = {}
      /\ context = <<Said("system", "text", {})>> /\ request = NoRequest
  BY DEF CallsInit
<1>2. Said("system", "text", {}) \in ContextMessages /\ Said("system", "text", {}).role = "system"
  BY DEF Said, ContextMessages
<1>3. context \in Seq(ContextMessages) /\ context # <<>> /\ \A i \in DOMAIN context : context[i].role = "system"
  BY <1>1, <1>2
<1>4. request \in Requests /\ request.step = "idle"
  BY <1>1, <1>3, CallsAssumption DEF NoRequest, Requests, Settings
<1>5. CallsTypes
  BY <1>1, <1>3, <1>4 DEF CallsTypes
<1>6. Placed
  BY <1>1, <1>4 DEF Placed
<1>7. Spoken
  BY <1>3, <1>4 DEF Spoken
<1>8. QED
  BY <1>5, <1>6, <1>7 DEF CallsInv

\* The instance for a configuration is the one that is there, or a new one.
LEMMA InstanceFacts ==
    ASSUME CallsTypes, NEW c \in Settings, c.type \in Protocols, NEW n \in Providers,
           instances' = Instance(c, n)
    PROVE  /\ DOMAIN instances' = DOMAIN instances \cup {<<c.type, n>>}
           /\ \A k \in DOMAIN instances : instances'[k] = instances[k]
           /\ <<c.type, n>> \notin DOMAIN instances => instances'[<<c.type, n>>] = c.url
           /\ DOMAIN instances' \subseteq Protocols \X Providers
           /\ \A k \in DOMAIN instances' : instances'[k] \in Urls
<1>1. DOMAIN instances \subseteq Protocols \X Providers
      /\ \A k \in DOMAIN instances : instances[k] \in Urls
  BY DEF CallsTypes
<1>2. c.url \in Urls
  BY DEF Settings
<1>3. /\ DOMAIN instances' = DOMAIN instances \cup {<<c.type, n>>}
      /\ \A k \in DOMAIN instances : instances'[k] = instances[k]
      /\ <<c.type, n>> \notin DOMAIN instances => instances'[<<c.type, n>>] = c.url
  BY DEF Instance, Key
<1>4. QED
  BY <1>1, <1>2, <1>3

\* Only the context, the tools that failed and the step of the request matter to
\* what is in the context.
LEMMA SpokenStays ==
    ASSUME Spoken, UNCHANGED <<context, toolFailed>>,
           \/ UNCHANGED request
           \/ /\ request.step # "tools" /\ request'.step # "tools"
              /\ request'.step \in {"ask", "named", "configured", "sending"} =>
                    request.step \in {"ask", "named", "configured", "sending"}
    PROVE  Spoken'
<1>1. CASE UNCHANGED request
  BY <1>1 DEF Spoken, Tooled, Excepted, Assistants, AnsweredAt
<1>2. CASE /\ request.step # "tools" /\ request'.step # "tools"
           /\ request'.step \in {"ask", "named", "configured", "sending"} =>
                 request.step \in {"ask", "named", "configured", "sending"}
  BY <1>2 DEF Spoken, Tooled, Excepted, Assistants, AnsweredAt
<1>3. QED
  BY <1>1, <1>2

LEMMA SetModelStep ==
    ASSUME CallsInv, NEW n \in Providers, SetModel(n)
    PROVE  CallsInv'
<1>1. UNCHANGED <<registered, instances, context, request, replaced, toolFailed>> /\ model' \in Providers
  BY DEF SetModel
<1>2. CallsTypes'
  BY <1>1 DEF CallsInv, CallsTypes
<1>3. Placed'
  BY <1>1 DEF CallsInv, Placed, Body
<1>4. QED
  BY <1>1, <1>2, <1>3, SpokenStays DEF CallsInv

LEMMA SetProviderStep ==
    ASSUME CallsInv, NEW n \in Providers, NEW c \in Settings \cup {NotConfigured}, SetProvider(n, c)
    PROVE  CallsInv'
<1>0. CallsTypes /\ Placed /\ Spoken
  BY DEF CallsInv
<1>1. /\ UNCHANGED <<instances, model, context, request, toolFailed>>
      /\ registered' = [registered EXCEPT ![n] = c]
      /\ replaced \subseteq replaced'
      /\ (\E t \in Protocols : <<t, n>> \in DOMAIN instances) => n \in replaced'
      /\ request.step = "configured" /\ request.name = n => n \in replaced'
  BY DEF SetProvider, Key
<1>2. registered' \in [Providers -> Settings \cup {NotConfigured}]
      /\ \A m \in Providers : m # n => registered'[m] = registered[m]
  BY <1>0, <1>1 DEF CallsTypes
<1>3. CallsTypes'
  BY <1>0, <1>1, <1>2 DEF CallsTypes
<1>4. Placed'
  <2>1. \A t \in Protocols, m \in Providers :
          <<t, m>> \in DOMAIN instances =>
              instances[<<t, m>>] = registered'[m].url \/ m \in replaced'
    BY <1>0, <1>1, <1>2 DEF Placed
  <2>2. QED
    BY <2>1, <1>0, <1>1, <1>2 DEF Placed, Body
<1>5. QED
  BY <1>0, <1>1, <1>3, <1>4, SpokenStays DEF CallsInv

LEMMA ListModelsStep ==
    ASSUME CallsInv, NEW n \in Providers, ListModels(n)
    PROVE  CallsInv'
<1>0. CallsTypes /\ Placed /\ Spoken
  BY DEF CallsInv
<1>1. /\ UNCHANGED <<registered, model, context, request, replaced, toolFailed>>
      /\ instances' = Instance(registered[n], n) /\ registered[n].type \in Protocols
  BY DEF ListModels
<1>2. registered[n] \in Settings
  BY <1>0, <1>1 DEF CallsTypes, NotConfigured, Protocols
<1>3. CallsTypes'
  BY <1>0, <1>1, <1>2, InstanceFacts DEF CallsTypes
<1>4. \A t \in Protocols, m \in Providers :
          <<t, m>> \in DOMAIN instances' =>
              instances'[<<t, m>>] = registered[m].url \/ m \in replaced
  <2>0. PICK c : c = registered[n]
    OBVIOUS
  <2>1. /\ DOMAIN instances' = DOMAIN instances \cup {<<c.type, n>>}
        /\ \A k \in DOMAIN instances : instances'[k] = instances[k]
        /\ <<c.type, n>> \notin DOMAIN instances => instances'[<<c.type, n>>] = c.url
    BY <2>0, <1>0, <1>1, <1>2, InstanceFacts
  <2> SUFFICES ASSUME NEW t \in Protocols, NEW m \in Providers, <<t, m>> \in DOMAIN instances'
               PROVE  instances'[<<t, m>>] = registered[m].url \/ m \in replaced
    OBVIOUS
  <2>2. CASE <<t, m>> \in DOMAIN instances
    BY <2>1, <2>2, <1>0 DEF Placed
  <2>3. CASE <<t, m>> \notin DOMAIN instances
    <3>1. <<t, m>> = <<c.type, n>>
      BY <2>1, <2>3
    <3>2. t = c.type /\ m = n
      BY <3>1
    <3>3. QED
      BY <2>0, <2>1, <2>3, <3>2
  <2>4. QED
    BY <2>2, <2>3
<1>5. Placed'
  BY <1>0, <1>1, <1>4 DEF Placed, Body
<1>6. QED
  BY <1>0, <1>1, <1>3, <1>5, SpokenStays DEF CallsInv

LEMMA NoRequestType == NoRequest \in Requests /\ NoRequest.step = "idle"
<1>1. <<>> \in Seq(ContextMessages)
  OBVIOUS
<1>2. QED
  BY <1>1 DEF NoRequest, Requests

\* What is sent is of the context.
LEMMA BodyType ==
    ASSUME CallsTypes, NEW type \in Protocols
    PROVE  Body(type) \in Seq(ContextMessages)
<1>1. context \in Seq(ContextMessages) /\ DOMAIN context = 1..Len(context) /\ Len(context) \in Nat
  BY DEF CallsTypes
<1>2. CASE type = "openai"
  BY <1>1, <1>2 DEF Body
<1>3. CASE type # "openai"
  <2> DEFINE spoken == {i \in DOMAIN context : context[i].role \in {"user", "assistant"}}
  <2>1. spoken \in SUBSET (1..Len(context))
    BY <1>1
  <2>2. Body(type) = [i \in 1..Cardinality(spoken) |-> context[Nth(spoken, i)]]
    BY <1>3 DEF Body
  <2>3. Cardinality(spoken) \in Nat
    <3>1. IsFiniteSet(1..Len(context))
      BY <1>1, FS_Interval
    <3>2. QED
      BY <2>1, <3>1, FS_Subset, FS_CardinalityType
  <2> HIDE DEF spoken
  <2>4. \A i \in 1..Cardinality(spoken) : Nth(spoken, i) \in 1..Len(context)
    BY <1>1, <2>1, NthFacts
  <2>5. \A i \in 1..Cardinality(spoken) : context[Nth(spoken, i)] \in ContextMessages
    BY <1>1, <2>4
  <2>6. QED
    BY <2>2, <2>3, <2>5
<1>4. QED
  BY <1>2, <1>3

LEMMA ChooseStep ==
    ASSUME CallsInv, Choose
    PROVE  CallsInv'
<1>0. CallsTypes /\ Placed /\ Spoken /\ request \in Requests
  BY DEF CallsInv, CallsTypes
<1>1. /\ UNCHANGED <<registered, instances, model, context, replaced, toolFailed>>
      /\ request.step = "ask" /\ request' = [request EXCEPT !.step = "named", !.name = model]
  BY DEF Choose
<1>2. request' \in Requests /\ request'.step = "named" /\ request'.name \in Providers
  BY <1>0, <1>1 DEF Requests, CallsTypes
<1>3. CallsTypes'
  BY <1>0, <1>1, <1>2 DEF CallsTypes
<1>4. Placed'
  BY <1>0, <1>1, <1>2 DEF Placed
<1>5. Spoken'
  BY <1>0, <1>1, <1>2, SpokenStays
<1>6. QED
  BY <1>3, <1>4, <1>5 DEF CallsInv

LEMMA ConfigureStep ==
    ASSUME CallsInv, Configure
    PROVE  CallsInv'
<1>0. CallsTypes /\ Placed /\ Spoken /\ request \in Requests
  BY DEF CallsInv, CallsTypes
<1>1. PICK c : c = registered[request.name]
  OBVIOUS
<1>2. /\ UNCHANGED <<registered, instances, model, context, replaced, toolFailed>>
      /\ request.step = "named" /\ request.name \in Providers
      /\ request' = IF c.type \in Protocols
                    THEN [request EXCEPT !.step = "configured", !.config = c] ELSE NoRequest
  BY <1>0, <1>1 DEF Configure, Placed
<1>3. c \in Settings \cup {NotConfigured}
  BY <1>0, <1>1, <1>2 DEF CallsTypes
<1>4. CASE c.type \in Protocols
  <2>1. c \in Settings
    BY <1>3, <1>4 DEF NotConfigured, Protocols
  <2>2. /\ request' \in Requests /\ request'.step = "configured" /\ request'.config = c
        /\ request'.name = request.name
    BY <1>0, <1>2, <1>4, <2>1 DEF Requests
  <2>3. CallsTypes'
    BY <1>0, <1>2, <2>2 DEF CallsTypes
  <2>4. Placed'
    BY <1>0, <1>1, <1>2, <1>4, <2>1, <2>2 DEF Placed
  <2>5. Spoken'
    BY <1>0, <1>2, <2>2, SpokenStays
  <2>6. QED
    BY <2>3, <2>4, <2>5 DEF CallsInv
<1>5. CASE c.type \notin Protocols
  <2>1. request' \in Requests /\ request'.step = "idle"
    BY <1>2, <1>5, NoRequestType
  <2>2. CallsTypes'
    BY <1>0, <1>2, <2>1 DEF CallsTypes
  <2>3. Placed'
    BY <1>0, <1>2, <2>1 DEF Placed
  <2>4. Spoken'
    BY <1>0, <1>2, <2>1, SpokenStays
  <2>5. QED
    BY <2>2, <2>3, <2>4 DEF CallsInv
<1>6. QED
  BY <1>4, <1>5

LEMMA BuildRequestStep ==
    ASSUME CallsInv, BuildRequest
    PROVE  CallsInv'
<1>0. CallsTypes /\ Placed /\ Spoken /\ request \in Requests
  BY DEF CallsInv, CallsTypes
<1>1. PICK c, n : c = request.config /\ n = request.name
  OBVIOUS
<1>2. /\ UNCHANGED <<registered, model, context, replaced, toolFailed>>
      /\ request.step = "configured" /\ instances' = Instance(c, n)
      /\ request' = [request EXCEPT !.step = "sending", !.left = RetryCount,
                            !.at = instances'[<<c.type, n>>], !.messages = Body(c.type)]
      /\ n \in Providers /\ c \in Settings /\ c.type \in Protocols
      /\ c = registered[n] \/ n \in replaced
  BY <1>0, <1>1 DEF BuildRequest, Key, Placed
<1>3. /\ DOMAIN instances' = DOMAIN instances \cup {<<c.type, n>>}
      /\ \A k \in DOMAIN instances : instances'[k] = instances[k]
      /\ <<c.type, n>> \notin DOMAIN instances => instances'[<<c.type, n>>] = c.url
      /\ DOMAIN instances' \subseteq Protocols \X Providers
      /\ \A k \in DOMAIN instances' : instances'[k] \in Urls
  BY <1>0, <1>2, InstanceFacts
<1>4. PICK i : i = instances'[<<c.type, n>>]
  OBVIOUS
<1>5. i \in Urls /\ (i = c.url \/ n \in replaced)
  BY <1>0, <1>2, <1>3, <1>4 DEF Placed
<1>6. Body(c.type) \in Seq(ContextMessages) /\ RetryCount \in Nat
  BY <1>0, <1>2, BodyType, CallsAssumption
<1>7. /\ request' \in Requests /\ request'.step = "sending" /\ request'.at = i
      /\ request'.messages = Body(c.type) /\ request'.config = c /\ request'.name = n
  <2>1. PICK b : b = Body(c.type)
    OBVIOUS
  <2>2. request' = [request EXCEPT !.step = "sending", !.left = RetryCount, !.at = i, !.messages = b]
    BY <1>2, <1>4, <2>1
  <2>3. QED
    BY <1>0, <1>1, <1>5, <1>6, <2>1, <2>2 DEF Requests
<1>8. CallsTypes'
  BY <1>0, <1>2, <1>3, <1>7 DEF CallsTypes
<1>9. \A t \in Protocols, m \in Providers :
          <<t, m>> \in DOMAIN instances' =>
              instances'[<<t, m>>] = registered[m].url \/ m \in replaced
  <2> SUFFICES ASSUME NEW t \in Protocols, NEW m \in Providers, <<t, m>> \in DOMAIN instances'
               PROVE  instances'[<<t, m>>] = registered[m].url \/ m \in replaced
    OBVIOUS
  <2>2. CASE <<t, m>> \in DOMAIN instances
    BY <1>3, <2>2, <1>0 DEF Placed
  <2>3. CASE <<t, m>> \notin DOMAIN instances
    <3>1. <<t, m>> = <<c.type, n>>
      BY <1>3, <2>3
    <3>2. t = c.type /\ m = n
      BY <3>1
    <3>3. QED
      BY <1>2, <1>3, <2>3, <3>2
  <2>4. QED
    BY <2>2, <2>3
<1>10. Body(c.type)' = Body(c.type)
  BY <1>2 DEF Body
<1>11. Placed'
  BY <1>2, <1>5, <1>7, <1>9, <1>10 DEF Placed
<1>12. Spoken'
  BY <1>0, <1>2, <1>7, SpokenStays
<1>13. QED
  BY <1>8, <1>11, <1>12 DEF CallsInv

LEMMA AttemptFailsStep ==
    ASSUME CallsInv, AttemptFails
    PROVE  CallsInv'
<1>0. CallsTypes /\ Placed /\ Spoken /\ request \in Requests
  BY DEF CallsInv, CallsTypes
<1>1. /\ UNCHANGED <<registered, instances, model, context, replaced, toolFailed>>
      /\ request.step = "sending"
      /\ request' = IF request.left = 0 THEN NoRequest ELSE [request EXCEPT !.left = request.left - 1]
  BY <1>0 DEF AttemptFails
<1>2. CASE request.left = 0
  <2>1. request' \in Requests /\ request'.step = "idle"
    BY <1>1, <1>2, NoRequestType
  <2>2. CallsTypes'
    BY <1>0, <1>1, <2>1 DEF CallsTypes
  <2>3. Placed'
    BY <1>0, <1>1, <2>1 DEF Placed
  <2>4. Spoken'
    BY <1>0, <1>1, <2>1, SpokenStays
  <2>5. QED
    BY <2>2, <2>3, <2>4 DEF CallsInv
<1>3. CASE request.left # 0
  <2>1. request.left - 1 \in Nat
    BY <1>0, <1>3 DEF Requests
  <2>2. /\ request' \in Requests /\ request'.step = "sending" /\ request'.at = request.at
        /\ request'.messages = request.messages /\ request'.config = request.config
        /\ request'.name = request.name
    BY <1>0, <1>1, <1>3, <2>1 DEF Requests
  <2>3. CallsTypes'
    BY <1>0, <1>1, <2>2 DEF CallsTypes
  <2>4. Placed'
    BY <1>0, <1>1, <2>2 DEF Placed, Body
  <2>5. Spoken'
    BY <1>0, <1>1, <2>2, SpokenStays
  <2>6. QED
    BY <2>3, <2>4, <2>5 DEF CallsInv
<1>4. QED
  BY <1>2, <1>3

LEMMA GrownByOne ==
    ASSUME context \in Seq(ContextMessages), NEW m \in ContextMessages, context' = context \o <<m>>
    PROVE  /\ context' \in Seq(ContextMessages) /\ Len(context') = Len(context) + 1 /\ Len(context) \in Nat
           /\ DOMAIN context = 1..Len(context) /\ DOMAIN context' = 1..Len(context')
           /\ \A i \in 1..Len(context) : context'[i] = context[i]
           /\ context'[Len(context')] = m
           /\ \A i \in 1..Len(context') : i \in 1..Len(context) \/ i = Len(context')
           /\ Assistants(context) \subseteq Assistants(context')
           /\ Tooled(context) => Tooled(context')
<1>0. <<m>> \in Seq(ContextMessages)
  OBVIOUS
<1>1. PICK t \in Seq(ContextMessages) : t = <<m>>
  BY <1>0, Zenon
<1>2. Len(t) = 1 /\ t[1] = m /\ context' = context \o t
  BY <1>1
<1>3. /\ Assistants(context) \subseteq Assistants(context')
      /\ Tooled(context) => Tooled(context')
  BY <1>2, Grown
<1>4. /\ context' \in Seq(ContextMessages) /\ Len(context') = Len(context) + 1 /\ Len(context) \in Nat
      /\ DOMAIN context = 1..Len(context) /\ DOMAIN context' = 1..Len(context')
      /\ \A i \in 1..Len(context) : context'[i] = context[i]
      /\ context'[Len(context')] = m
      /\ \A i \in 1..Len(context') : i \in 1..Len(context) \/ i = Len(context')
  BY <1>2
<1>5. QED
  BY <1>3, <1>4

LEMMA SayStep ==
    ASSUME CallsInv, Say
    PROVE  CallsInv'
<1>0. CallsTypes /\ Placed /\ Spoken /\ request \in Requests
  BY DEF CallsInv, CallsTypes
<1>1. PICK m : m = Said("user", "text", {})
  OBVIOUS
<1>2. m \in ContextMessages /\ m.role = "user" /\ <<m>> \in Seq(ContextMessages)
  BY <1>1 DEF Said, ContextMessages
<1>3. /\ UNCHANGED <<registered, instances, model, replaced, toolFailed>>
      /\ request.step = "idle" /\ context' = context \o <<m>>
      /\ request' = [NoRequest EXCEPT !.step = "ask"]
  BY <1>0, <1>1 DEF Say, CallsTypes
<1>4. request' \in Requests /\ request'.step = "ask"
  BY <1>3, NoRequestType DEF Requests
<1>5. /\ context' \in Seq(ContextMessages) /\ Len(context') = Len(context) + 1 /\ Len(context) \in Nat
      /\ DOMAIN context = 1..Len(context) /\ DOMAIN context' = 1..Len(context')
      /\ \A i \in 1..Len(context) : context'[i] = context[i]
      /\ context'[Len(context')] = m
      /\ \A i \in 1..Len(context') : i \in 1..Len(context) \/ i = Len(context')
      /\ Assistants(context) \subseteq Assistants(context')
      /\ Tooled(context) => Tooled(context')
  BY <1>0, <1>2, <1>3, GrownByOne DEF CallsTypes
<1>6. CallsTypes'
  BY <1>0, <1>3, <1>4, <1>5 DEF CallsTypes
<1>7. Placed'
  BY <1>0, <1>3, <1>4 DEF Placed
<1>8. Spoken'
  <2>1. \A i \in DOMAIN context' :
            /\ context'[i].role = "tool" => Tooled(context')
            /\ context'[i].role = "assistant" /\ context'[i].calls # {} => context'[i].form = "openai"
    BY <1>0, <1>2, <1>5 DEF Spoken
  <2>2. ASSUME ~Excepted', NEW i \in DOMAIN context', context'[i].role = "assistant"
        PROVE  AnsweredAt(context', i)
    <3>1. ~Excepted
      BY <2>2, <1>3, <1>5 DEF Excepted
    <3>2. i \in 1..Len(context) /\ context[i].role = "assistant"
      BY <2>2, <1>2, <1>5
    <3>3. AnsweredAt(context, i)
      BY <3>1, <3>2, <1>0, <1>3, <1>5 DEF Spoken
    <3>4. QED
      BY <3>2, <3>3, <1>0, <1>2, <1>3, AnsweredKept DEF CallsTypes
  <2>3. context'[Len(context')].role = "user"
    BY <1>2, <1>5
  <2>4. QED
    BY <2>1, <2>2, <2>3, <1>4 DEF Spoken
<1>9. QED
  BY <1>6, <1>7, <1>8 DEF CallsInv

LEMMA ModelAnswersStep ==
    ASSUME CallsInv, NEW form \in Protocols \cup {"hollow"},
           NEW calls \in SUBSET (CallIds \cup {Unnamed}), ModelAnswers(form, calls)
    PROVE  CallsInv'
<1>0. CallsTypes /\ Placed /\ Spoken /\ request \in Requests
  BY DEF CallsInv, CallsTypes
<1>1. PICK m : m = Said("assistant", form, calls)
  OBVIOUS
<1>2. /\ m \in ContextMessages /\ m.role = "assistant" /\ m.form = form /\ m.calls = calls
      /\ <<m>> \in Seq(ContextMessages)
  BY <1>1 DEF Said, ContextMessages
<1>3. /\ UNCHANGED <<registered, instances, model, replaced, toolFailed>>
      /\ request.step = "sending" /\ context' = context \o <<m>>
      /\ calls # {} => form = "openai"
      /\ request' = IF calls \ {Unnamed} = {} THEN NoRequest
                    ELSE [request EXCEPT !.step = "tools", !.calls = calls \ {Unnamed}]
  BY <1>0, <1>1 DEF ModelAnswers, CallsTypes
<1>4. /\ request' \in Requests /\ request'.step \in {"idle", "tools"}
      /\ request'.step = "tools" =>
            /\ request'.calls = calls \ {Unnamed} /\ calls \ {Unnamed} # {}
            /\ request'.name = request.name /\ request'.config = request.config
      /\ request'.step = "idle" => calls \ {Unnamed} = {}
  <2>1. CASE calls \ {Unnamed} = {}
    BY <2>1, <1>3, NoRequestType
  <2>2. CASE calls \ {Unnamed} # {}
    <3>1. calls \ {Unnamed} \in SUBSET CallIds
      OBVIOUS
    <3>2. QED
      BY <2>2, <3>1, <1>0, <1>3 DEF Requests
  <2>3. QED
    BY <2>1, <2>2
<1>5. /\ context' \in Seq(ContextMessages) /\ Len(context') = Len(context) + 1 /\ Len(context) \in Nat
      /\ DOMAIN context = 1..Len(context) /\ DOMAIN context' = 1..Len(context')
      /\ \A i \in 1..Len(context) : context'[i] = context[i]
      /\ context'[Len(context')] = m
      /\ \A i \in 1..Len(context') : i \in 1..Len(context) \/ i = Len(context')
      /\ Assistants(context) \subseteq Assistants(context')
      /\ Tooled(context) => Tooled(context')
  BY <1>0, <1>2, <1>3, GrownByOne DEF CallsTypes
<1>6. CallsTypes'
  BY <1>0, <1>3, <1>4, <1>5 DEF CallsTypes
<1>7. Placed'
  BY <1>0, <1>3, <1>4 DEF Placed
<1>8. m \in Assistants(context')
  BY <1>2, <1>5 DEF Assistants
<1>9. Spoken'
  <2>1. \A i \in DOMAIN context' :
            /\ context'[i].role = "tool" => Tooled(context')
            /\ context'[i].role = "assistant" /\ context'[i].calls # {} => context'[i].form = "openai"
    BY <1>0, <1>2, <1>3, <1>5 DEF Spoken
  <2>2. ASSUME ~Excepted', NEW i \in DOMAIN context', context'[i].role = "assistant"
        PROVE  AnsweredAt(context', i) \/ (request'.step = "tools" /\ i = Len(context'))
    <3>1. ~Excepted /\ Unnamed \notin calls
      BY <2>2, <1>2, <1>3, <1>5, <1>8 DEF Excepted
    <3>2. CASE i \in 1..Len(context)
      <4>1. AnsweredAt(context, i)
        BY <3>1, <3>2, <2>2, <1>0, <1>3, <1>5 DEF Spoken
      <4>2. QED
        BY <3>2, <4>1, <1>0, <1>2, <1>3, AnsweredKept DEF CallsTypes
    <3>3. CASE i = Len(context') /\ request'.step = "idle"
      <4>1. context'[i].calls = {}
        BY <3>1, <3>3, <1>2, <1>4, <1>5
      <4>2. Cardinality(context'[i].calls) = 0
        BY <4>1, FS_EmptySet
      <4>3. (i + 1)..(i + 0) = {} /\ i + 0 <= Len(context')
        BY <3>3, <1>5
      <4>4. QED
        BY <4>1, <4>2, <4>3 DEF AnsweredAt
    <3>4. QED
      BY <3>2, <3>3, <2>2, <1>4, <1>5
  <2>3. request'.step = "tools" =>
          /\ context'[Len(context')].role = "assistant"
          /\ context'[Len(context')].calls \ {Unnamed} = request'.calls /\ request'.calls # {}
          /\ context'[Len(context')].form = "openai"
    BY <1>2, <1>3, <1>4, <1>5
  <2>4. QED
    BY <2>1, <2>2, <2>3, <1>4 DEF Spoken
<1>10. QED
  BY <1>6, <1>7, <1>9 DEF CallsInv

\* When each of its calls has an answer, a message is answered.
LEMMA AllAnswered ==
    ASSUME NEW s \in Seq(ContextMessages), Len(s) >= 1, NEW C, IsFiniteSet(C), s[Len(s)].calls = C,
           NEW t \in Seq(ContextMessages), Len(t) = Cardinality(C), NEW ran \in [1..Len(t) -> C],
           \A c \in C : \E i \in 1..Len(t) : ran[i] = c,
           \A i \in 1..Len(t) : t[i].role = "tool" /\ t[i].calls = {ran[i]}
    PROVE  AnsweredAt(s \o t, Len(s))
<1> DEFINE w == s \o t
           l == Len(s)
           n == Len(t)
<1>1. /\ w[l] = s[l] /\ l + n = Len(w) /\ l \in Nat /\ n \in Nat
      /\ \A j \in 1..n : w[l + j] = t[j]
  OBVIOUS
<1> HIDE DEF w, l, n
<1>2. \A j \in (l + 1)..(l + n) : j - l \in 1..n /\ l + (j - l) = j
  BY <1>1
<1>3. \A j \in (l + 1)..(l + n) : w[j] = t[j - l]
  BY <1>1, <1>2
<1>4. \A j \in (l + 1)..(l + n) : w[j].role = "tool" /\ w[j].calls = {ran[j - l]}
  BY <1>2, <1>3 DEF n
<1>5. UNION {w[j].calls : j \in (l + 1)..(l + n)} = C
  <2>1. \A j \in (l + 1)..(l + n) : w[j].calls \subseteq C
    BY <1>2, <1>4 DEF n
  <2>2. ASSUME NEW c \in C PROVE \E j \in (l + 1)..(l + n) : c \in w[j].calls
    <3>1. PICK i \in 1..n : ran[i] = c
      BY DEF n
    <3>2. l + i \in (l + 1)..(l + n) /\ (l + i) - l = i
      BY <3>1, <1>1
    <3>3. w[l + i].calls = {ran[(l + i) - l]}
      BY <3>2, <1>4
    <3>4. QED
      BY <3>1, <3>2, <3>3
  <2>3. QED
    BY <2>1, <2>2
<1>6. w[l].calls = C /\ Cardinality(C) = n /\ l + n <= Len(w)
  BY <1>1 DEF l, n
<1>7. AnsweredAt(w, l)
  BY <1>4, <1>5, <1>6 DEF AnsweredAt
<1>8. QED
  BY <1>7 DEF w, l

LEMMA ReturnToolsStep ==
    ASSUME CallsInv, NEW failed \in SUBSET request.calls, ReturnTools(failed)
    PROVE  CallsInv'
<1>0. CallsTypes /\ Placed /\ Spoken /\ request \in Requests
      /\ context \in Seq(ContextMessages) /\ context # <<>> /\ Len(context) >= 1
  BY DEF CallsInv, CallsTypes
<1> DEFINE C == request.calls \ failed
           n == Cardinality(C)
           t == [i \in 1..n |-> Said("tool", "text", {SetToSeq(C)[i]})]
<1>1. IsFiniteSet(C) /\ C \subseteq CallIds
  <2>1. request.calls \subseteq CallIds
    BY <1>0 DEF Requests
  <2>2. QED
    BY <2>1, CallsAssumption, FS_Subset
<1>2. /\ n \in Nat /\ SetToSeq(C) \in [1..n -> C]
      /\ \A c \in C : \E i \in 1..n : SetToSeq(C)[i] = c
  <2> HIDE DEF C
  <2>1. QED
    BY <1>1, SequenceOfSet
<1>3. /\ UNCHANGED <<registered, instances, model, replaced>>
      /\ request.step = "tools" /\ context' = context \o t
      /\ request' = IF failed # {} \/ request.round >= MaxToolRounds THEN NoRequest
                    ELSE [NoRequest EXCEPT !.step = "ask", !.round = request.round + 1]
      /\ toolFailed' = (toolFailed \/ failed # {})
  BY <1>2 DEF ReturnTools
<1> HIDE DEF C
<1>4. \A i \in 1..n : t[i] \in ContextMessages /\ t[i].role = "tool" /\ t[i].calls = {SetToSeq(C)[i]}
  BY <1>1, <1>2 DEF Said, ContextMessages
<1> HIDE DEF n
<1>a. t = [i \in 1..n |-> t[i]]
  OBVIOUS
<1> HIDE DEF t
<1>5. t \in Seq(ContextMessages) /\ Len(t) = n
  BY <1>a, <1>2, <1>4
<1>6. /\ request' \in Requests /\ request'.step \in {"idle", "ask"}
      /\ request'.step = "ask" => failed = {}
  <2>1. CASE failed # {} \/ request.round >= MaxToolRounds
    BY <2>1, <1>3, NoRequestType
  <2>2. CASE ~(failed # {} \/ request.round >= MaxToolRounds)
    <3>1. request.round + 1 \in Nat
      BY <1>0 DEF Requests
    <3>2. QED
      BY <2>2, <3>1, <1>3, NoRequestType DEF Requests
  <2>3. QED
    BY <2>1, <2>2
<1>7. /\ context' \in Seq(ContextMessages) /\ Len(context') = Len(context) + n /\ Len(context) \in Nat
      /\ DOMAIN context = 1..Len(context) /\ DOMAIN context' = 1..Len(context')
      /\ \A i \in 1..Len(context) : context'[i] = context[i]
      /\ \A i \in 1..n : context'[Len(context) + i] = t[i]
      /\ \A i \in 1..Len(context') :
            i \in 1..Len(context) \/ (i > Len(context) /\ i - Len(context) \in 1..n)
      /\ Assistants(context) \subseteq Assistants(context')
      /\ Tooled(context) => Tooled(context')
  <2>1. context \in Seq(ContextMessages) /\ context' = context \o t /\ Len(context) \in Nat
    BY <1>0, <1>3
  <2>2. QED
    BY <2>1, <1>5, Grown
<1>8. \A i \in 1..Len(context') :
         \/ i \in 1..Len(context) /\ context'[i] = context[i]
         \/ i > Len(context) /\ context'[i].role = "tool"
  <2> SUFFICES ASSUME NEW i \in 1..Len(context'), i \notin 1..Len(context)
               PROVE  i > Len(context) /\ context'[i].role = "tool"
    BY <1>7
  <2>1. i > Len(context) /\ i - Len(context) \in 1..n /\ Len(context) + (i - Len(context)) = i
    BY <1>7
  <2>2. context'[i] = t[i - Len(context)]
    BY <2>1, <1>7
  <2>3. QED
    BY <2>1, <2>2, <1>4
<1>9. /\ context[Len(context)].role = "assistant"
      /\ context[Len(context)].calls \ {Unnamed} = request.calls /\ request.calls # {}
      /\ context[Len(context)].form = "openai" /\ Len(context) \in 1..Len(context)
  BY <1>0, <1>3, <1>7 DEF Spoken
<1>10. context[Len(context)] \in Assistants(context) /\ Tooled(context)
  BY <1>7, <1>9 DEF Assistants, Tooled
<1>11. CallsTypes'
  <2>1. toolFailed' \in BOOLEAN
    BY <1>3, <1>0 DEF CallsTypes
  <2>2. QED
    BY <2>1, <1>0, <1>3, <1>6, <1>7 DEF CallsTypes
<1>12. Placed'
  BY <1>0, <1>3, <1>6 DEF Placed
<1>13. Spoken'
  <2>1. \A i \in DOMAIN context' :
            /\ context'[i].role = "tool" => Tooled(context')
            /\ context'[i].role = "assistant" /\ context'[i].calls # {} => context'[i].form = "openai"
    BY <1>0, <1>7, <1>8, <1>10 DEF Spoken
  <2>2. request'.step = "ask" => context'[Len(context')].role = "tool"
    <3> SUFFICES ASSUME failed = {} PROVE context'[Len(context')].role = "tool"
      BY <1>6
    <3>1. C # {}
      BY <1>9 DEF C
    <3>2. n >= 1
      BY <3>1, <1>1, <1>2, FS_EmptySet DEF n
    <3>3. Len(context') \in 1..Len(context') /\ Len(context') > Len(context)
      BY <3>2, <1>2, <1>7
    <3>4. QED
      BY <3>3, <1>8
  <2>3. ASSUME ~Excepted', NEW i \in DOMAIN context', context'[i].role = "assistant"
        PROVE  AnsweredAt(context', i)
    <3>1. ~Excepted /\ failed = {}
      BY <2>3, <1>3, <1>7 DEF Excepted
    <3>2. i \in 1..Len(context) /\ context[i].role = "assistant"
      BY <2>3, <1>7, <1>8
    <3>3. CASE i # Len(context)
      <4>1. AnsweredAt(context, i)
        BY <3>1, <3>2, <3>3, <1>0, <1>7 DEF Spoken
      <4>2. QED
        BY <3>2, <4>1, <1>0, <1>3, <1>5, AnsweredKept
    <3>4. CASE i = Len(context)
      <4>1. Unnamed \notin context[Len(context)].calls
        BY <3>1, <1>10 DEF Excepted
      <4>2. context[Len(context)].calls = C
        BY <3>1, <4>1, <1>9 DEF C
      <4>3. Len(t) = Cardinality(C) /\ SetToSeq(C) \in [1..Len(t) -> C]
            /\ (\A c \in C : \E k \in 1..Len(t) : SetToSeq(C)[k] = c)
            /\ \A k \in 1..Len(t) : t[k].role = "tool" /\ t[k].calls = {SetToSeq(C)[k]}
        BY <1>2, <1>4, <1>5 DEF n
      <4>4. AnsweredAt(context \o t, Len(context))
        <5>1. PICK ran : ran = SetToSeq(C)
          OBVIOUS
        <5>2. /\ ran \in [1..Len(t) -> C] /\ \A c \in C : \E k \in 1..Len(t) : ran[k] = c
              /\ \A k \in 1..Len(t) : t[k].role = "tool" /\ t[k].calls = {ran[k]}
              /\ IsFiniteSet(C) /\ Len(t) = Cardinality(C) /\ t \in Seq(ContextMessages)
              /\ context \in Seq(ContextMessages) /\ Len(context) >= 1
              /\ context[Len(context)].calls = C
          BY <5>1, <4>2, <4>3, <1>0, <1>1, <1>5
        <5>3. QED
          BY <5>2, AllAnswered
      <4>5. QED
        BY <3>4, <4>4, <1>3
    <3>5. QED
      BY <3>3, <3>4
  <2>4. QED
    BY <2>1, <2>2, <2>3, <1>6 DEF Spoken
<1>14. QED
  BY <1>11, <1>12, <1>13 DEF CallsInv

LEMMA CallsStep == CallsInv /\ [CallsNext]_callsVars => CallsInv'
<1> SUFFICES ASSUME CallsInv, [CallsNext]_callsVars PROVE CallsInv'
  OBVIOUS
<1>1. ASSUME NEW n \in Providers, SetModel(n) \/ ListModels(n) PROVE CallsInv'
  BY <1>1, SetModelStep, ListModelsStep
<1>2. ASSUME NEW n \in Providers, NEW c \in Settings \cup {NotConfigured}, SetProvider(n, c)
      PROVE  CallsInv'
  BY <1>2, SetProviderStep
<1>3. CASE Say \/ Choose \/ Configure \/ BuildRequest \/ AttemptFails
  BY <1>3, SayStep, ChooseStep, ConfigureStep, BuildRequestStep, AttemptFailsStep
<1>4. ASSUME NEW form \in Protocols \cup {"hollow"}, NEW calls \in SUBSET (CallIds \cup {Unnamed}),
             ModelAnswers(form, calls)
      PROVE  CallsInv'
  BY <1>4, ModelAnswersStep
<1>5. ASSUME NEW failed \in SUBSET request.calls, ReturnTools(failed)
      PROVE  CallsInv'
  BY <1>5, ReturnToolsStep
<1>6. CASE UNCHANGED callsVars
  <2>1. CallsTypes'
    BY <1>6 DEF callsVars, CallsInv, CallsTypes
  <2>2. Placed'
    BY <1>6 DEF callsVars, CallsInv, Placed, Body
  <2>3. Spoken'
    BY <1>6, SpokenStays DEF callsVars, CallsInv
  <2>4. QED
    BY <2>1, <2>2, <2>3 DEF CallsInv
<1>7. QED
  BY <1>1, <1>2, <1>3, <1>4, <1>5, <1>6 DEF CallsNext

LEMMA CallsInvHolds == CallsSpec => []CallsInv
  BY CallsStart, CallsStep, PTL DEF CallsSpec

\* What is sent when nothing has gone wrong is what the protocol takes.
LEMMA RequestFits ==
    ASSUME CallsTypes, Spoken, NEW type \in Protocols, request.step = "sending", ~toolFailed,
           \A m \in Assistants(context) : m.form = type /\ Unnamed \notin m.calls
    PROVE  Fits(type, Body(type))
<1>1. /\ context \in Seq(ContextMessages) /\ Len(context) \in Nat /\ Len(context) >= 1
      /\ DOMAIN context = 1..Len(context)
  BY DEF CallsTypes
<1>2. context[Len(context)].role \in {"user", "tool"} /\ Len(context) \in 1..Len(context)
  BY <1>1 DEF Spoken
<1>3. CASE type = "openai"
  <2>1. ~Excepted
    BY DEF Excepted
  <2>2. Answered(context)
    <3> SUFFICES ASSUME NEW i \in DOMAIN context, context[i].role = "assistant"
                 PROVE  AnsweredAt(context, i)
      BY DEF Answered, AnsweredAt
    <3>1. QED
      BY <2>1 DEF Spoken
  <2>3. QED
    BY <1>1, <1>2, <1>3, <2>2 DEF Fits, Body, Last
<1>4. CASE type = "anthropic"
  <2> DEFINE spoken == {i \in DOMAIN context : context[i].role \in {"user", "assistant"}}
             n == Cardinality(spoken)
             s == [i \in 1..n |-> context[Nth(spoken, i)]]
  <2>1. ~Tooled(context)
    BY <1>4 DEF Tooled
  <2>2. context[Len(context)].role = "user"
    BY <1>1, <1>2, <2>1 DEF Spoken
  <2>3. spoken \in SUBSET (1..Len(context)) /\ Len(context) \in spoken
    BY <1>1, <1>2, <2>2
  <2>4. \A i \in spoken : context[i].role \in {"user", "assistant"}
    OBVIOUS
  <2>5. Body(type) = s
    BY <1>4 DEF Body
  <2> HIDE DEF spoken
  <2>6. n \in Nat /\ n >= 1 /\ Nth(spoken, n) = Len(context)
    BY <1>1, <2>3, NthLast
  <2>7. \A i \in 1..n : Nth(spoken, i) \in spoken
    BY <1>1, <2>3, NthFacts
  <2> HIDE DEF n
  <2>8. \A i \in 1..n : context[Nth(spoken, i)] \in ContextMessages
    <3>1. \A i \in 1..n : Nth(spoken, i) \in 1..Len(context)
      BY <2>3, <2>7
    <3>2. QED
      BY <1>1, <3>1
  <2>9. s \in Seq(ContextMessages) /\ Len(s) = n /\ \A i \in 1..n : s[i] = context[Nth(spoken, i)]
    BY <2>6, <2>8
  <2> HIDE DEF s
  <2>10. s # <<>> /\ Last(s).role = "user"
    BY <2>2, <2>6, <2>9 DEF Last
  <2>11. \A i \in DOMAIN s : s[i].role \in {"user", "assistant"}
    BY <2>4, <2>7, <2>9
  <2>12. Assistants(s) \subseteq Assistants(context)
    <3> SUFFICES ASSUME NEW i \in 1..n, s[i].role = "assistant" PROVE s[i] \in Assistants(context)
      BY <2>9 DEF Assistants
    <3>1. Nth(spoken, i) \in DOMAIN context /\ s[i] = context[Nth(spoken, i)]
      BY <1>1, <2>3, <2>7, <2>9
    <3>2. QED
      BY <3>1 DEF Assistants
  <2>13. QED
    BY <1>4, <2>5, <2>10, <2>11, <2>12 DEF Fits
<1>5. QED
  BY <1>3, <1>4 DEF Protocols

\* Types of every variable, for any providers, call ids and bounds.
THEOREM CallTypesHold == CallsSpec => []CallsTypes
  BY CallsInvHolds, PTL DEF CallsInv

\* Every request goes where the provider it was configured with is, and is what
\* that provider's protocol takes, for any changes of the configuration, failed
\* attempts, rounds and tools, but for the causes the property names.
THEOREM RequestsAsConfigured == CallsSpec => []CallsAsConfigured
<1>1. CallsInv => CallsAsConfigured
  <2> SUFFICES ASSUME CallsTypes, Placed, Spoken, request.step = "sending"
               PROVE  /\ request.at = request.config.url \/ request.name \in replaced
                      /\ \/ Fits(request.config.type, request.messages)
                         \/ toolFailed
                         \/ \E m \in Assistants(context) :
                               m.form # request.config.type \/ Unnamed \in m.calls
    BY DEF CallsInv, CallsAsConfigured
  <2>1. /\ request.at = request.config.url \/ request.name \in replaced
        /\ request.messages = Body(request.config.type) /\ request.config.type \in Protocols
    BY DEF Placed
  <2>2. QED
    BY <2>1, RequestFits
<1>2. QED
  BY <1>1, CallsInvHolds, PTL

--------------------------------------------------------------------------------
(* The configuration.  Where each command is (CommandSteps) tells who may write, *)
(* and what a command has verified; what memory and file hold for themselves     *)
(* (KeysHold, CopiesHold, OutsHold) is stated of both, since a restart takes the *)
(* file for the memory.                                                          *)

\* Who writes; who has begun.
Writes(c) == pc[c] \in {"changed", "filling"}
Begun(c) == pc[c] \in {"accepted", "asking", "found", "missed", "ready", "changed", "filling"}

\* Where each command is, what sort it is then, and what it has verified.
CommandSteps ==
    /\ Work \in Workloads
    /\ DOMAIN got = Work
    /\ \A c \in Work :
        /\ Begun(c) => up
        /\ Writes(c) => writer = c
        /\ pc[c] = "accepted" => c.op \in {"role", "bindOut", "unbindOut", "model"}
        /\ pc[c] = "asking" => c.op = "model"
        /\ pc[c] = "found" => c.op = "send"
        /\ pc[c] = "ready" => c.op \in Commands \cup FromApi \cup {"send"}
        /\ pc[c] = "ready" /\ c.op = "agent" => c.key \in Ego
        /\ pc[c] = "ready" /\ c.op = "role" => <<got[c][1], c.role>> \in Ego
        /\ (pc[c] = "ready" \/ Writes(c)) /\ c.op = "bindOut" => got[c] = <<got[c][1], got[c][2]>>

\* The configuration and its file.
ConfigsWhole == IsConfig(mem) /\ (file = Torn \/ IsConfig(file))

\* Memory and file differ by copies of settings only.
SameButCopies ==
    /\ file # Torn
    /\ file.channels = mem.channels /\ file.providers = mem.providers /\ file.levels = mem.levels
    /\ \A k \in DOMAIN mem.sessions : \A sort \in DOMAIN mem.sessions[k] :
          InForce(file, k, sort) = mem.sessions[k][sort]
    /\ \A k \in DOMAIN file.sessions : \A sort \in DOMAIN file.sessions[k] :
          HasSnapshot(mem, k, sort)
FileFollows == up /\ writer = Nobody /\ ~unsaved => SameButCopies

\* The keys of the channels, in memory and in the file.
Verified(repo) == \A ch \in DOMAIN repo.channels :
    <<repo.channels[ch].agent, repo.channels[ch].role>> \in Ego \/ ch \in unverified
KeysHold == Verified(mem) /\ (file # Torn => Verified(file))

\* The copy of a session's model is the model chosen, or what the levels said.
ModelKept(repo, k) ==
    IF k \in DOMAIN chosen THEN HasSnapshot(repo, k, "llm") /\ repo.sessions[k]["llm"] = chosen[k]
    ELSE HasSnapshot(repo, k, "llm") => repo.sessions[k]["llm"] = Build(repo, k, "llm")
Switching(k) == writer # Nobody /\ writer.op = "model" /\ k = got[writer]
CopiesHold ==
    /\ up => \A k \in Ego \ unsure : ModelKept(mem, k) \/ Switching(k)
    /\ file # Torn => \A k \in Ego \ unsure : ModelKept(file, k)
    /\ \A c \in Work : Writes(c) /\ c.op = "model" => HasSnapshot(mem, got[c], "llm")

\* The reply channels asked for are set, and bound, unless a late reply erased them.
Outs(repo) == \A k \in DOMAIN wanted :
    /\ Sets(repo, k, "out")
    /\ Get(repo, k, "out") = wanted[k] \/ (k \in erased /\ Get(repo, k, "out") = Unset)
    /\ Bound(repo, wanted[k])
OutsHold ==
    /\ \A k \in DOMAIN wanted : k = <<k[1], k[2]>>
    /\ up => Outs(mem)
    /\ file # Torn => Outs(file)
    /\ \A c \in Work \ late : c.op = "send" /\ c.key \in DOMAIN wanted =>
          pc[c] # "ready" /\ (pc[c] = "found" => got[c] = wanted[c.key])
    /\ \A c \in Work : Writes(c) /\ c.op = "bindOut" =>
          /\ Sets(mem, got[c], "out") /\ Get(mem, got[c], "out") = <<c.ch, c.user>>
          /\ \A r \in Work : r.op = "send" /\ pc[r] \in {"found", "ready"} /\ r.key = got[c] => r \in late

--------------------------------------------------------------------------------
\* What putting a reply channel at a level changes.
LEMMA SetOut ==
    ASSUME NEW repo, IsConfig(repo), NEW level, NEW v, NEW after, after = SetLevel(repo, level, "out", v)
    PROVE  /\ IsConfig(after)
           /\ after.channels = repo.channels /\ after.providers = repo.providers /\ after.sessions = repo.sessions
           /\ \A l, sort : l # level \/ sort # "out" =>
                 /\ Sets(after, l, sort) <=> Sets(repo, l, sort)
                 /\ Sets(repo, l, sort) => Get(after, l, sort) = Get(repo, l, sort)
           /\ Sets(after, level, "out") /\ Get(after, level, "out") = v
<1> DEFINE inner == Put(Inner(repo.levels, level), "out",
               IF Sets(repo, level, "out") THEN Merge("out", Get(repo, level, "out"), v) ELSE v)
<1>1. after = [repo EXCEPT !.levels = Put(repo.levels, level, inner)]
  BY DEF SetLevel
<1>2. /\ DOMAIN repo = {"channels", "providers", "levels", "sessions"}
      /\ \A ch \in DOMAIN repo.channels : DOMAIN repo.channels[ch] = {"bound", "admins", "agent", "role"}
  BY DEF IsConfig
<1>3. /\ after.levels = Put(repo.levels, level, inner)
      /\ after.channels = repo.channels /\ after.providers = repo.providers /\ after.sessions = repo.sessions
      /\ after = [f \in {"channels", "providers", "levels", "sessions"} |-> after[f]]
  BY <1>1, <1>2
<1>4. inner["out"] = v /\ "out" \in DOMAIN inner
  BY DEF Put, Merge
<1>5. \A sort : sort # "out" =>
         /\ sort \in DOMAIN inner <=> Sets(repo, level, sort)
         /\ Sets(repo, level, sort) => inner[sort] = Get(repo, level, sort)
  BY DEF Put, Inner, Sets, Has, Get
<1>6. /\ DOMAIN after.levels = DOMAIN repo.levels \cup {level}
      /\ after.levels[level] = inner
      /\ \A l \in DOMAIN repo.levels : l # level => after.levels[l] = repo.levels[l]
  BY <1>3 DEF Put
<1> HIDE DEF inner
<1>7. \A l, sort : l # level \/ sort # "out" =>
         /\ Sets(after, l, sort) <=> Sets(repo, l, sort)
         /\ Sets(repo, l, sort) => Get(after, l, sort) = Get(repo, l, sort)
  BY <1>5, <1>6 DEF Sets, Has, Get
<1>8. Sets(after, level, "out") /\ Get(after, level, "out") = v
  BY <1>4, <1>6 DEF Sets, Has, Get
<1> QED BY <1>2, <1>3, <1>7, <1>8 DEF IsConfig

\* What a copy for a session changes.
LEMMA TakeCopy ==
    ASSUME NEW repo, IsConfig(repo), NEW key, NEW sort, NEW v, NEW after, after = Snapshot(repo, key, sort, v)
    PROVE  /\ IsConfig(after)
           /\ after.channels = repo.channels /\ after.providers = repo.providers /\ after.levels = repo.levels
           /\ HasSnapshot(after, key, sort) /\ after.sessions[key][sort] = v
           /\ \A k, x : k # key \/ x # sort =>
                 /\ HasSnapshot(after, k, x) <=> HasSnapshot(repo, k, x)
                 /\ HasSnapshot(repo, k, x) => after.sessions[k][x] = repo.sessions[k][x]
<1> DEFINE inner == Put(Inner(repo.sessions, key), sort, v)
<1>1. after = [repo EXCEPT !.sessions = Put(repo.sessions, key, inner)]
  BY DEF Snapshot
<1>2. /\ DOMAIN repo = {"channels", "providers", "levels", "sessions"}
      /\ \A ch \in DOMAIN repo.channels : DOMAIN repo.channels[ch] = {"bound", "admins", "agent", "role"}
  BY DEF IsConfig
<1>3. /\ after.sessions = Put(repo.sessions, key, inner)
      /\ after.channels = repo.channels /\ after.providers = repo.providers /\ after.levels = repo.levels
      /\ after = [f \in {"channels", "providers", "levels", "sessions"} |-> after[f]]
  BY <1>1, <1>2
<1>4. inner[sort] = v /\ sort \in DOMAIN inner
  BY DEF Put
<1>5. \A x : x # sort =>
         /\ x \in DOMAIN inner <=> HasSnapshot(repo, key, x)
         /\ HasSnapshot(repo, key, x) => inner[x] = repo.sessions[key][x]
  BY DEF Put, Inner, HasSnapshot, Has
<1>6. /\ DOMAIN after.sessions = DOMAIN repo.sessions \cup {key}
      /\ after.sessions[key] = inner
      /\ \A k \in DOMAIN repo.sessions : k # key => after.sessions[k] = repo.sessions[k]
  BY <1>3 DEF Put
<1> HIDE DEF inner
<1>7. \A k, x : k # key \/ x # sort =>
         /\ HasSnapshot(after, k, x) <=> HasSnapshot(repo, k, x)
         /\ HasSnapshot(repo, k, x) => after.sessions[k][x] = repo.sessions[k][x]
  BY <1>5, <1>6 DEF HasSnapshot, Has
<1>8. HasSnapshot(after, key, sort) /\ after.sessions[key][sort] = v
  BY <1>4, <1>6 DEF HasSnapshot, Has
<1> QED BY <1>2, <1>3, <1>7, <1>8 DEF IsConfig

ChannelOps == {"bind", "unbind", "addAdmin", "removeAdmin", "apiAddAdmin", "apiRemoveAdmin"}
OutOps == {"bindOut", "unbindOut", "send"}

\* What a change leaves as it was, and what it puts.
LEMMA ChangedParts ==
    ASSUME ConfigAssumption, CommandSteps, ConfigsWhole,
           NEW c \in Work, pc[c] = "ready", writer = Nobody, ~Refuses(c),
           NEW after, after = Changed(c)
    PROVE  /\ IsConfig(after)
           /\ c.op # "model" => after.sessions = mem.sessions
           /\ c.op = "model" => after = Snapshot(mem, got[c], "llm", Merge("llm", InForce(mem, got[c], "llm"),
                                         [provider |-> c.provider, model |-> AskedModel(c)]))
           /\ c.op \notin OutOps => after.levels = mem.levels
           /\ c.op \in {"bindOut", "unbindOut"} => \E v : after = SetLevel(mem, got[c], "out", v)
           /\ c.op = "bindOut" => after = SetLevel(mem, got[c], "out", <<c.ch, c.user>>)
           /\ c.op = "send" => after = SetLevel(mem, c.key, "out", Unset)
           /\ \A ch \in DOMAIN after.channels :
                 \/ /\ ch \in DOMAIN mem.channels
                    /\ after.channels[ch].agent = mem.channels[ch].agent
                    /\ after.channels[ch].role = mem.channels[ch].role
                 \/ c.op = "agent" /\ after.channels[ch].agent = c.key[1] /\ after.channels[ch].role = c.key[2]
                 \/ /\ c.op = "role" /\ ch = c.ch /\ ch \in DOMAIN mem.channels
                    /\ after.channels[ch].agent = mem.channels[ch].agent /\ after.channels[ch].role = c.role
                 \/ c.op = "addChannel" /\ ch = c.ch /\ after.channels[ch] = c.config
<1>0. /\ c.op \in Commands \cup FromApi \cup {"send"}
      /\ IsConfig(mem)
      /\ c \in UNION Workloads
  BY DEF CommandSteps, ConfigsWhole
<1>1. /\ DOMAIN mem = {"channels", "providers", "levels", "sessions"}
      /\ \A ch \in DOMAIN mem.channels : DOMAIN mem.channels[ch] = {"bound", "admins", "agent", "role"}
  BY <1>0 DEF IsConfig
<1>2. CASE c.op \in ChannelOps
  <2>1. c.ch \in DOMAIN mem.channels
    BY <1>2 DEF Refuses, Configured, Has, ChannelOps
  <2>2. \/ after = [mem EXCEPT !.channels[c.ch].bound = @ \cup {c.user}]
        \/ after = [mem EXCEPT !.channels[c.ch].bound = @ \ {c.user}]
        \/ after = [mem EXCEPT !.channels[c.ch].admins = @ \cup {c.user}]
        \/ after = [mem EXCEPT !.channels[c.ch].admins = @ \ {c.user}]
    BY <1>2 DEF Changed, ChannelOps
  <2>3. /\ IsConfig(after)
        /\ after.sessions = mem.sessions /\ after.levels = mem.levels
        /\ \A ch \in DOMAIN after.channels :
              /\ ch \in DOMAIN mem.channels
              /\ after.channels[ch].agent = mem.channels[ch].agent
              /\ after.channels[ch].role = mem.channels[ch].role
    BY <1>1, <2>1, <2>2 DEF IsConfig
  <2> QED BY <1>2, <2>3 DEF ChannelOps, OutOps
<1>3. CASE c.op \in {"agent", "role"}
  <2>1. c.ch \in DOMAIN mem.channels
    BY <1>3 DEF Refuses, Configured, Has
  <2>2. \E r : /\ after = [mem EXCEPT !.channels[c.ch] = r]
               /\ DOMAIN r = {"bound", "admins", "agent", "role"}
               /\ c.op = "agent" => r.agent = c.key[1] /\ r.role = c.key[2]
               /\ c.op = "role" => r.agent = mem.channels[c.ch].agent /\ r.role = c.role
    <3> DEFINE before == mem.channels[c.ch]
               r == IF c.op = "agent" THEN [before EXCEPT !.agent = c.key[1], !.role = c.key[2]]
                                      ELSE [before EXCEPT !.role = c.role]
    <3>1. after = [mem EXCEPT !.channels[c.ch] = r]
      BY <1>3 DEF Changed
    <3>2. DOMAIN before = {"bound", "admins", "agent", "role"}
      BY <1>1, <2>1
    <3>3. /\ DOMAIN r = {"bound", "admins", "agent", "role"}
          /\ c.op = "agent" => r.agent = c.key[1] /\ r.role = c.key[2]
          /\ c.op = "role" => r.agent = before.agent /\ r.role = c.role
      BY <3>2, <1>3
    <3> HIDE DEF r
    <3> QED BY <3>1, <3>3
  <2>3. /\ IsConfig(after)
        /\ after.sessions = mem.sessions /\ after.levels = mem.levels
        /\ DOMAIN after.channels = DOMAIN mem.channels
        /\ \A ch \in DOMAIN after.channels : ch # c.ch => after.channels[ch] = mem.channels[ch]
    BY <1>1, <2>1, <2>2 DEF IsConfig
  <2>4. /\ c.op = "agent" => after.channels[c.ch].agent = c.key[1] /\ after.channels[c.ch].role = c.key[2]
        /\ c.op = "role" => after.channels[c.ch].agent = mem.channels[c.ch].agent /\ after.channels[c.ch].role = c.role
    BY <1>1, <2>1, <2>2
  <2> QED BY <1>3, <2>1, <2>3, <2>4 DEF OutOps
<1>4. CASE c.op \in {"addChannel", "removeChannel", "addProvider", "removeProvider"}
  <2>1. \/ c.op = "addChannel" /\ after = [mem EXCEPT !.channels = Put(mem.channels, c.ch, c.config)]
        \/ after = [mem EXCEPT !.channels = Without(mem.channels, c.ch)]
        \/ after = [mem EXCEPT !.providers = Put(mem.providers, c.provider, c.config)]
        \/ after = [mem EXCEPT !.providers = Without(mem.providers, c.provider)]
    BY <1>4 DEF Changed
  <2>2. c.op = "addChannel" => DOMAIN c.config = {"bound", "admins", "agent", "role"}
    BY <1>0 DEF ConfigAssumption
  <2>3. /\ IsConfig(after)
        /\ after.sessions = mem.sessions /\ after.levels = mem.levels
        /\ \A ch \in DOMAIN after.channels :
              \/ ch \in DOMAIN mem.channels /\ after.channels[ch] = mem.channels[ch]
              \/ c.op = "addChannel" /\ ch = c.ch /\ after.channels[ch] = c.config
    BY <1>1, <2>1, <2>2 DEF IsConfig, Put, Without, Restrict
  <2> QED BY <1>4, <2>3 DEF OutOps
<1>5. CASE c.op \in OutOps
  <2>1. /\ c.op = "bindOut" => after = SetLevel(mem, got[c], "out", <<c.ch, c.user>>)
        /\ c.op = "unbindOut" => after = SetLevel(mem, got[c], "out", Unset)
        /\ c.op = "send" => after = SetLevel(mem, c.key, "out", Unset)
    BY <1>5 DEF Changed, OutOps
  <2>2. IsConfig(after) /\ after.channels = mem.channels /\ after.sessions = mem.sessions
    BY <1>0, <1>5, <2>1, SetOut DEF OutOps
  <2> QED BY <1>5, <2>1, <2>2 DEF OutOps
<1>6. CASE c.op = "model"
  <2>1. after = Snapshot(mem, got[c], "llm", Merge("llm", InForce(mem, got[c], "llm"),
                 [provider |-> c.provider, model |-> AskedModel(c)]))
    BY <1>6 DEF Changed
  <2>2. IsConfig(after) /\ after.channels = mem.channels /\ after.levels = mem.levels
    BY <1>0, <2>1, TakeCopy
  <2> QED BY <1>6, <2>1, <2>2 DEF OutOps
<1> QED BY <1>0, <1>2, <1>3, <1>4, <1>5, <1>6 DEF Commands, FromApi, ChannelOps, OutOps

Looks(c) == \/ AcceptCommand(c) \/ Receive(c) \/ LookUp(c) \/ FindSession(c) \/ AskModels(c)
            \/ FindOut(c) \/ CheckOut(c) \/ ReadSetting(c)
ConfigStep(c) == \/ Looks(c) \/ TakeSnapshot(c) \/ Refuse(c)
                 \/ Apply(c) \/ Truncate(c) \/ Fill(c) \/ WriteFails(c)

LEMMA NextIsStep == Next => Restart \/ \E c \in Work : ConfigStep(c)
BY DEF Next, ConfigStep, Looks

LEMMA GoesOnly ==
    ASSUME NEW c \in Work, NEW step, Goes(c, step)
    PROVE  /\ Work' = Work /\ pc'[c] = step
           /\ \A d \in Work : d # c => pc'[d] = pc[d]
BY DEF Goes, Work

\* Reading changes nothing but where the command is and what it has read.
LEMMA LooksOnly ==
    ASSUME CommandSteps, NEW c \in Work, Looks(c)
    PROVE  /\ UNCHANGED <<mem, file, up, writer, history>>
           /\ writer = Nobody /\ up
           /\ Work' = Work /\ DOMAIN got' = Work
           /\ \A d \in Work : d # c => pc'[d] = pc[d] /\ got'[d] = got[d]
           /\ pc'[c] \notin {"changed", "filling"}
<1>1. \E step : Goes(c, step) /\ step \notin {"changed", "filling"}
  BY DEF Looks, AcceptCommand, Receive, LookUp, FindSession, AskModels, FindOut, CheckOut, ReadSetting
<1>2. /\ UNCHANGED <<mem, file, up, writer, history>>
      /\ writer = Nobody
      /\ pc[c] \in {"accepted", "asking", "found"} \/ up
  BY DEF Looks, AcceptCommand, Receive, LookUp, FindSession, AskModels, FindOut, CheckOut, ReadSetting, Reads, At
<1>3. up
  BY <1>2 DEF CommandSteps, Begun
<1>4. got' = got \/ \E x : got' = [got EXCEPT ![c] = x]
  BY DEF Looks, AcceptCommand, Receive, LookUp, FindSession, AskModels, FindOut, CheckOut, ReadSetting
<1>5. DOMAIN got' = Work /\ \A d \in Work : d # c => got'[d] = got[d]
  BY <1>4 DEF CommandSteps
<1> QED BY <1>1, <1>2, <1>3, <1>5, GoesOnly

\* What is known of one command.
StepOf(c) ==
    /\ Begun(c) => up
    /\ Writes(c) => writer = c
    /\ pc[c] = "accepted" => c.op \in {"role", "bindOut", "unbindOut", "model"}
    /\ pc[c] = "asking" => c.op = "model"
    /\ pc[c] = "found" => c.op = "send"
    /\ pc[c] = "ready" => c.op \in Commands \cup FromApi \cup {"send"}
    /\ pc[c] = "ready" /\ c.op = "agent" => c.key \in Ego
    /\ pc[c] = "ready" /\ c.op = "role" => <<got[c][1], c.role>> \in Ego
    /\ (pc[c] = "ready" \/ Writes(c)) /\ c.op = "bindOut" => got[c] = <<got[c][1], got[c][2]>>

LEMMA CommandStepsNext == ConfigAssumption /\ CommandSteps /\ [Next]_vars => CommandSteps'
<1> SUFFICES ASSUME ConfigAssumption, CommandSteps, [Next]_vars PROVE CommandSteps'
  OBVIOUS
<1>0. /\ Work \in Workloads /\ DOMAIN got = Work
      /\ \A c \in Work : StepOf(c)
      /\ \A c \in Work : c # Nobody
  BY DEF CommandSteps, StepOf, ConfigAssumption
<1>1. ASSUME NEW c \in Work, Looks(c) PROVE CommandSteps'
  <2>1. /\ UNCHANGED <<up, writer>> /\ writer = Nobody /\ up
        /\ Work' = Work /\ DOMAIN got' = Work
        /\ \A d \in Work : d # c => pc'[d] = pc[d] /\ got'[d] = got[d]
        /\ pc'[c] \notin {"changed", "filling"}
    BY <1>1, LooksOnly
  <2>2. ASSUME NEW d \in Work, d # c PROVE StepOf(d)'
    <3>1. pc'[d] = pc[d] /\ got'[d] = got[d] /\ up' = up /\ writer' = writer /\ StepOf(d)
      BY <1>0, <2>1, <2>2
    <3> QED BY <3>1 DEF StepOf, Begun, Writes
  <2>3. /\ pc'[c] = "accepted" => c.op \in {"role", "bindOut", "unbindOut", "model"}
        /\ pc'[c] = "asking" => c.op = "model"
        /\ pc'[c] = "found" => c.op = "send"
        /\ pc'[c] = "ready" => c.op \in Commands \cup FromApi \cup {"send"}
        /\ pc'[c] = "ready" /\ c.op = "agent" => c.key \in Ego
        /\ pc'[c] = "ready" /\ c.op = "role" => <<got'[c][1], c.role>> \in Ego
        /\ pc'[c] = "ready" /\ c.op = "bindOut" => got'[c] = <<got'[c][1], got'[c][2]>>
    <3>1. CASE AcceptCommand(c)
      <4>1. pc[c] = "idle" /\ c.op \in Commands
        BY <3>1 DEF AcceptCommand, Reads, At
      <4>2. \E step : /\ Goes(c, step) /\ step \in {"ignored", "accepted", "refused", "ready"}
                      /\ step = "accepted" => c.op \in {"role", "bindOut", "unbindOut", "model"}
                      /\ step = "ready" => /\ c.op \notin {"role", "bindOut", "unbindOut", "model"}
                                           /\ c.op = "agent" => c.key \in Ego
        BY <3>1 DEF AcceptCommand
      <4> QED BY <4>1, <4>2, GoesOnly
    <3>2. CASE Receive(c)
      BY <3>2, GoesOnly DEF Receive, Reads, FromApi
    <3>3. CASE LookUp(c)
      <4>1. pc[c] = "accepted" /\ c.op \in {"role", "bindOut", "unbindOut"}
        BY <3>3, <1>0 DEF LookUp, Reads, At, StepOf
      <4>2. \/ Goes(c, "refused")
            \/ /\ Goes(c, "ready") /\ got' = [got EXCEPT ![c] = KeyOf(c.ch)]
               /\ c.op = "role" => RoleKnown(c)
        BY <3>3 DEF LookUp
      <4>3. CASE Goes(c, "refused")
        BY <4>3, GoesOnly
      <4>4. CASE /\ Goes(c, "ready") /\ got' = [got EXCEPT ![c] = KeyOf(c.ch)]
                 /\ c.op = "role" => RoleKnown(c)
        <5>1. got'[c] = <<mem.channels[c.ch].agent, mem.channels[c.ch].role>>
          BY <4>4, <1>0 DEF KeyOf
        <5>2. pc'[c] = "ready"
          BY <4>4, GoesOnly
        <5> QED BY <4>1, <4>4, <5>1, <5>2 DEF RoleKnown, Channel, Commands
      <4> QED BY <4>2, <4>3, <4>4
    <3>4. CASE FindSession(c)
      <4>1. c.op = "model" /\ (Goes(c, "asking") \/ Goes(c, "refused"))
        BY <3>4 DEF FindSession
      <4> QED BY <4>1, GoesOnly
    <3>5. CASE AskModels(c)
      <4>1. c.op = "model" /\ (Goes(c, "ready") \/ Goes(c, "refused"))
        BY <3>5, <1>0 DEF AskModels, Reads, At, StepOf
      <4> QED BY <4>1, GoesOnly DEF Commands
    <3>6. CASE FindOut(c)
      <4>1. c.op = "send" /\ (Goes(c, "done") \/ Goes(c, "found"))
        BY <3>6 DEF FindOut
      <4> QED BY <4>1, GoesOnly
    <3>7. CASE CheckOut(c)
      <4>1. c.op = "send" /\ (Goes(c, "ready") \/ Goes(c, "done"))
        BY <3>7, <1>0 DEF CheckOut, Reads, At, StepOf
      <4> QED BY <4>1, GoesOnly
    <3>8. CASE ReadSetting(c)
      <4>1. Goes(c, "done") \/ Goes(c, "missed")
        BY <3>8 DEF ReadSetting
      <4> QED BY <4>1, GoesOnly
    <3> QED BY <1>1, <3>1, <3>2, <3>3, <3>4, <3>5, <3>6, <3>7, <3>8 DEF Looks
  <2>4. StepOf(c)'
    BY <2>1, <2>3 DEF StepOf, Writes
  <2> QED BY <1>0, <2>1, <2>2, <2>4 DEF CommandSteps, StepOf
<1>2. ASSUME NEW c \in Work, TakeSnapshot(c) \/ Refuse(c) \/ Apply(c) \/ Truncate(c) \/ Fill(c) \/ WriteFails(c)
      PROVE  CommandSteps'
  <2>1. /\ up' = up /\ got' = got /\ Begun(c)
        /\ \E step \in {"done", "refused", "changed", "filling", "failed"} : Goes(c, step)
    BY <1>2 DEF TakeSnapshot, Refuse, Apply, Truncate, Fill, WriteFails, At, Begun
  <2>2. /\ up /\ Work' = Work
        /\ \A d \in Work : d # c => pc'[d] = pc[d]
        /\ pc'[c] \in {"done", "refused", "changed", "filling", "failed"}
    BY <1>0, <2>1, GoesOnly DEF StepOf
  <2>3. /\ pc'[c] \in {"changed", "filling"} => writer' = c /\ (pc[c] = "ready" \/ Writes(c))
        /\ writer = c \/ writer = Nobody
    <3>1. \/ Goes(c, "done") /\ (writer = Nobody \/ Writes(c))
          \/ Goes(c, "refused") /\ writer = Nobody
          \/ Goes(c, "changed") /\ writer = Nobody /\ writer' = c /\ pc[c] = "ready"
          \/ Goes(c, "filling") /\ writer' = writer /\ Writes(c)
          \/ Goes(c, "failed") /\ Writes(c)
      BY <1>2 DEF TakeSnapshot, Refuse, Apply, Truncate, Fill, WriteFails, At, Writes
    <3>2. Writes(c) => writer = c
      BY <1>0 DEF StepOf
    <3> QED BY <3>1, <3>2, GoesOnly
  <2>4. ASSUME NEW d \in Work, d # c PROVE StepOf(d)'
    <3>1. pc'[d] = pc[d] /\ got'[d] = got[d] /\ up' = up /\ ~Writes(d) /\ StepOf(d)
      BY <1>0, <2>1, <2>2, <2>3, <2>4 DEF StepOf
    <3> QED BY <3>1 DEF StepOf, Begun, Writes
  <2>5. StepOf(c)'
    BY <1>0, <2>1, <2>2, <2>3 DEF StepOf, Writes
  <2> QED BY <1>0, <2>1, <2>2, <2>4, <2>5 DEF CommandSteps, StepOf
<1>3. CASE Restart
  <2>1. Work' = Work /\ got' = got /\ \A c \in Work : ~Begun(c)'
    BY <1>3 DEF Restart, Work, Begun
  <2> QED BY <1>0, <2>1 DEF CommandSteps, Begun, Writes
<1>4. CASE UNCHANGED vars
  BY <1>4 DEF vars, CommandSteps, Begun, Writes, Work
<1> QED BY <1>1, <1>2, <1>3, <1>4, NextIsStep DEF ConfigStep

\* A configuration is not what is left of a cut file.
LEMMA NeverTorn == ASSUME NEW repo, IsConfig(repo) PROVE repo # Torn
<1>1. DOMAIN repo = {"channels", "providers", "levels", "sessions"} /\ DOMAIN Torn = {"torn"}
  BY DEF IsConfig, Torn
<1> QED BY <1>1

\* Settings come of the levels that have this sort.
LEMMA BuildAlike ==
    ASSUME NEW before, NEW after, NEW sort,
           \A l : /\ Sets(after, l, sort) <=> Sets(before, l, sort)
                  /\ Sets(before, l, sort) => Get(after, l, sort) = Get(before, l, sort)
    PROVE  \A k : Build(after, k, sort) = Build(before, k, sort)
<1> SUFFICES ASSUME NEW k PROVE Build(after, k, sort) = Build(before, k, sort)
  OBVIOUS
<1> DEFINE agent == <<k[1], NoRole>>
<1>1. /\ Sets(after, k, sort) <=> Sets(before, k, sort)
      /\ Sets(before, k, sort) => Get(after, k, sort) = Get(before, k, sort)
      /\ Sets(after, agent, sort) <=> Sets(before, agent, sort)
      /\ Sets(before, agent, sort) => Get(after, agent, sort) = Get(before, agent, sort)
  OBVIOUS
<1> QED BY <1>1 DEF Build

LEMMA SameLevels ==
    ASSUME NEW before, NEW after, after.levels = before.levels
    PROVE  \A k, sort : Build(after, k, sort) = Build(before, k, sort)
BY DEF Build, Sets, Get

\* Who holds the lock.
LEMMA Holders ==
    ASSUME ConfigAssumption, CommandSteps, NEW c \in Work
    PROVE  c # Nobody /\ (c \in At("changed") \cup At("filling") => Writes(c) /\ writer = c /\ up)
BY DEF ConfigAssumption, CommandSteps, At, Writes, Begun

LEMMA ConfigsWholeNext == ConfigAssumption /\ CommandSteps /\ ConfigsWhole /\ [Next]_vars => ConfigsWhole'
<1> SUFFICES ASSUME ConfigAssumption, CommandSteps, ConfigsWhole, [Next]_vars PROVE ConfigsWhole'
  OBVIOUS
<1>1. ASSUME NEW c \in Work, Looks(c) \/ Refuse(c) \/ WriteFails(c) PROVE ConfigsWhole'
  <2>1. mem' = mem /\ file' = file
    BY <1>1, LooksOnly DEF Refuse, WriteFails
  <2> QED BY <2>1 DEF ConfigsWhole
<1>2. ASSUME NEW c \in Work, TakeSnapshot(c) PROVE ConfigsWhole'
  <2>1. file' = file /\ mem' = Snapshot(mem, c.key, c.kind, InForce(mem, c.key, c.kind))
    BY <1>2 DEF TakeSnapshot
  <2> QED BY <2>1, TakeCopy DEF ConfigsWhole
<1>3. ASSUME NEW c \in Work, Apply(c) PROVE ConfigsWhole'
  <2>1. file' = file /\ mem' = Changed(c) /\ pc[c] = "ready" /\ writer = Nobody /\ ~Refuses(c)
    BY <1>3 DEF Apply, At
  <2> QED BY <2>1, ChangedParts DEF ConfigsWhole
<1>4. ASSUME NEW c \in Work, Truncate(c) \/ Fill(c) PROVE ConfigsWhole'
  BY <1>4 DEF Truncate, Fill, ConfigsWhole
<1>5. CASE Restart
  BY <1>5 DEF Restart, ConfigsWhole
<1>6. CASE UNCHANGED vars
  BY <1>6 DEF vars, ConfigsWhole
<1> QED BY <1>1, <1>2, <1>3, <1>4, <1>5, <1>6, NextIsStep DEF ConfigStep

LEMMA FileFollowsNext ==
    ConfigAssumption /\ CommandSteps /\ ConfigsWhole /\ FileFollows /\ [Next]_vars => FileFollows'
<1> SUFFICES ASSUME ConfigAssumption, CommandSteps, ConfigsWhole, FileFollows, [Next]_vars PROVE FileFollows'
  OBVIOUS
<1>1. ASSUME NEW c \in Work, Looks(c) \/ Refuse(c) PROVE FileFollows'
  <2>1. UNCHANGED <<mem, file, up, writer, unsaved>>
    BY <1>1, LooksOnly DEF Refuse, history
  <2> QED BY <2>1 DEF FileFollows, SameButCopies, HasSnapshot
<1>2. ASSUME NEW c \in Work, TakeSnapshot(c) PROVE FileFollows'
  <2> DEFINE k == c.key  sort == c.kind
  <2>1. /\ UNCHANGED <<file, up, writer, unsaved>>
        /\ mem' = Snapshot(mem, k, sort, InForce(mem, k, sort))
    BY <1>2 DEF TakeSnapshot, history
  <2>2. /\ mem'.channels = mem.channels /\ mem'.providers = mem.providers /\ mem'.levels = mem.levels
        /\ HasSnapshot(mem', k, sort) /\ mem'.sessions[k][sort] = InForce(mem, k, sort)
        /\ \A j, x : j # k \/ x # sort =>
              /\ HasSnapshot(mem', j, x) <=> HasSnapshot(mem, j, x)
              /\ HasSnapshot(mem, j, x) => mem'.sessions[j][x] = mem.sessions[j][x]
    BY <2>1, TakeCopy DEF ConfigsWhole
  <2>3. ASSUME SameButCopies PROVE SameButCopies'
    <3>1. /\ \A j, x : HasSnapshot(mem, j, x) => InForce(file, j, x) = mem.sessions[j][x]
          /\ \A j, x : HasSnapshot(file, j, x) => HasSnapshot(mem, j, x)
      BY <2>3 DEF SameButCopies, HasSnapshot, Has
    <3>2. InForce(file, k, sort) = InForce(mem, k, sort)
      <4>1. CASE HasSnapshot(mem, k, sort)
        BY <3>1, <4>1 DEF InForce
      <4>2. CASE ~HasSnapshot(mem, k, sort)
        BY <2>3, <3>1, <4>2, SameLevels DEF InForce, SameButCopies
      <4> QED BY <4>1, <4>2
    <3>3. /\ \A j, x : HasSnapshot(mem', j, x) => InForce(file, j, x) = mem'.sessions[j][x]
          /\ \A j, x : HasSnapshot(file, j, x) => HasSnapshot(mem', j, x)
      BY <2>2, <3>1, <3>2
    <3>4. /\ \A j \in DOMAIN mem'.sessions : \A x \in DOMAIN mem'.sessions[j] :
                InForce(file, j, x) = mem'.sessions[j][x]
          /\ \A j \in DOMAIN file.sessions : \A x \in DOMAIN file.sessions[j] :
                HasSnapshot(mem', j, x)
      BY <3>3 DEF HasSnapshot, Has
    <3>5. /\ file' # Torn /\ file' = file
          /\ file'.channels = mem'.channels /\ file'.providers = mem'.providers
          /\ file'.levels = mem'.levels
      BY <2>1, <2>2, <2>3 DEF SameButCopies
    <3>6. /\ \A j \in DOMAIN mem'.sessions : \A x \in DOMAIN mem'.sessions[j] :
                InForce(file', j, x) = mem'.sessions[j][x]
          /\ \A j \in DOMAIN file'.sessions : \A x \in DOMAIN file'.sessions[j] :
                HasSnapshot(mem', j, x)
      BY <3>4, <3>5
    <3> QED BY <3>5, <3>6 DEF SameButCopies
  <2> QED BY <2>1, <2>3 DEF FileFollows
<1>3. ASSUME NEW c \in Work, Apply(c) \/ Truncate(c) \/ WriteFails(c) PROVE FileFollows'
  <2>1. writer' = c \/ unsaved' = TRUE
    BY <1>3, Holders DEF Apply, Truncate, WriteFails
  <2> QED BY <2>1, Holders DEF FileFollows
<1>4. ASSUME NEW c \in Work, Fill(c) PROVE FileFollows'
  <2>1. file' = mem /\ mem' = mem /\ mem # Torn
    BY <1>4, NeverTorn DEF Fill, ConfigsWhole
  <2> QED BY <2>1 DEF FileFollows, SameButCopies, InForce, HasSnapshot, Has
<1>5. CASE Restart
  <2>1. up' => mem' = file /\ file' = file /\ file # Torn
    BY <1>5 DEF Restart
  <2> QED BY <2>1 DEF FileFollows, SameButCopies, InForce, HasSnapshot, Has
<1>6. CASE UNCHANGED vars
  BY <1>6 DEF vars, history, FileFollows, SameButCopies, HasSnapshot
<1> QED BY <1>1, <1>2, <1>3, <1>4, <1>5, <1>6, NextIsStep DEF ConfigStep

LEMMA KeysHoldNext ==
    ConfigAssumption /\ CommandSteps /\ ConfigsWhole /\ KeysHold /\ [Next]_vars => KeysHold'
<1> SUFFICES ASSUME ConfigAssumption, CommandSteps, ConfigsWhole, KeysHold, [Next]_vars PROVE KeysHold'
  OBVIOUS
<1>1. ASSUME NEW c \in Work, Looks(c) \/ Refuse(c) \/ WriteFails(c) PROVE KeysHold'
  <2>1. UNCHANGED <<mem, file, unverified>>
    BY <1>1, LooksOnly DEF Refuse, WriteFails, history
  <2> QED BY <2>1 DEF KeysHold, Verified
<1>2. ASSUME NEW c \in Work, TakeSnapshot(c) PROVE KeysHold'
  <2>1. /\ file' = file /\ unverified' = unverified
        /\ mem' = Snapshot(mem, c.key, c.kind, InForce(mem, c.key, c.kind))
    BY <1>2 DEF TakeSnapshot, history
  <2>2. mem'.channels = mem.channels
    BY <2>1, TakeCopy DEF ConfigsWhole
  <2> QED BY <2>1, <2>2 DEF KeysHold, Verified
<1>3. ASSUME NEW c \in Work, Apply(c) PROVE KeysHold'
  <2>1. file' = file /\ mem' = Changed(c) /\ pc[c] = "ready" /\ writer = Nobody /\ ~Refuses(c)
    BY <1>3 DEF Apply, At
  <2>2. /\ unverified \subseteq unverified'
        /\ c.op = "role" /\ got[c][1] # mem.channels[c.ch].agent => c.ch \in unverified'
        /\ c.op = "addChannel" /\ <<c.config.agent, c.config.role>> \notin Ego => c.ch \in unverified'
    BY <1>3 DEF Apply, Channel
  <2>3. /\ c.op = "agent" => c.key \in Ego
        /\ c.op = "role" => <<got[c][1], c.role>> \in Ego
        /\ \A k \in Ego : k = <<k[1], k[2]>>
    BY <2>1 DEF CommandSteps, ConfigAssumption
  <2>4. ASSUME NEW ch \in DOMAIN mem'.channels
        PROVE  <<mem'.channels[ch].agent, mem'.channels[ch].role>> \in Ego \/ ch \in unverified'
    <3>1. \/ /\ ch \in DOMAIN mem.channels
             /\ mem'.channels[ch].agent = mem.channels[ch].agent
             /\ mem'.channels[ch].role = mem.channels[ch].role
          \/ c.op = "agent" /\ mem'.channels[ch].agent = c.key[1] /\ mem'.channels[ch].role = c.key[2]
          \/ /\ c.op = "role" /\ ch = c.ch /\ ch \in DOMAIN mem.channels
             /\ mem'.channels[ch].agent = mem.channels[ch].agent /\ mem'.channels[ch].role = c.role
          \/ c.op = "addChannel" /\ ch = c.ch /\ mem'.channels[ch] = c.config
      BY <2>1, ChangedParts, ZenonT(60)
    <3> QED BY <3>1, <2>2, <2>3 DEF KeysHold, Verified
  <2>5. Verified(mem)'
    BY <2>4 DEF Verified
  <2>6. file' # Torn => Verified(file)'
    BY <2>1, <2>2 DEF KeysHold, Verified
  <2> QED BY <2>5, <2>6 DEF KeysHold
<1>4. ASSUME NEW c \in Work, Truncate(c) \/ Fill(c) PROVE KeysHold'
  <2>1. mem' = mem /\ unverified' = unverified /\ (file' = Torn \/ file' = mem)
    BY <1>4 DEF Truncate, Fill, history
  <2> QED BY <2>1 DEF KeysHold, Verified
<1>5. CASE Restart
  <2>1. file' = file /\ unverified' = unverified /\ (mem' = mem \/ (file # Torn /\ mem' = file))
    BY <1>5 DEF Restart
  <2> QED BY <2>1 DEF KeysHold, Verified
<1>6. CASE UNCHANGED vars
  BY <1>6 DEF vars, history, KeysHold, Verified
<1> QED BY <1>1, <1>2, <1>3, <1>4, <1>5, <1>6, NextIsStep DEF ConfigStep

\* CommandSteps that leave a configuration and the choices alone keep the copies.
LEMMA SameCopies ==
    ASSUME NEW before, NEW after, after.sessions = before.sessions,
           NEW k, Build(after, k, "llm") = Build(before, k, "llm"),
           ModelKept(before, k)
    PROVE  ModelKept(after, k)
BY DEF ModelKept, HasSnapshot

\* While nobody holds the lock, nothing is being written.
LEMMA NoWriters ==
    ASSUME ConfigAssumption, CommandSteps, writer = Nobody
    PROVE  \A c \in Work : ~Writes(c)
BY DEF CommandSteps, ConfigAssumption

LEMMA CopiesHoldNext ==
    ConfigAssumption /\ CommandSteps /\ ConfigsWhole /\ CopiesHold /\ [Next]_vars => CopiesHold'
<1> SUFFICES ASSUME ConfigAssumption, CommandSteps, ConfigsWhole, CopiesHold, [Next]_vars PROVE CopiesHold'
  OBVIOUS
<1>1. ASSUME NEW c \in Work, Looks(c) \/ Refuse(c) PROVE CopiesHold'
  <2>1. /\ UNCHANGED <<mem, file, up, writer, unsure, chosen>> /\ writer = Nobody
        /\ Work' = Work /\ pc'[c] \notin {"changed", "filling"}
        /\ \A d \in Work : d # c => pc'[d] = pc[d]
    BY <1>1, LooksOnly, GoesOnly DEF Refuse, history
  <2>2. \A d \in Work' : ~Writes(d)'
    BY <2>1, NoWriters DEF Writes
  <2>3. up => \A k \in Ego \ unsure : ModelKept(mem, k)
    BY <2>1 DEF CopiesHold, Switching
  <2> QED BY <2>1, <2>2, <2>3 DEF CopiesHold, ModelKept
<1>2. ASSUME NEW c \in Work, TakeSnapshot(c) PROVE CopiesHold'
  <2> DEFINE j == c.key  sort == c.kind
  <2>1. /\ UNCHANGED <<file, up, writer, unsure, chosen>> /\ writer = Nobody
        /\ mem' = Snapshot(mem, j, sort, InForce(mem, j, sort))
        /\ Goes(c, "done")
    BY <1>2 DEF TakeSnapshot, history
  <2>2. \A d \in Work' : ~Writes(d)'
    BY <2>1, NoWriters, GoesOnly DEF Writes
  <2>3. up => \A k \in Ego \ unsure : ModelKept(mem, k)
    BY <2>1 DEF CopiesHold, Switching
  <2>4. /\ mem'.levels = mem.levels
        /\ HasSnapshot(mem', j, sort) /\ mem'.sessions[j][sort] = InForce(mem, j, sort)
        /\ \A k, x : k # j \/ x # sort =>
              /\ HasSnapshot(mem', k, x) <=> HasSnapshot(mem, k, x)
              /\ HasSnapshot(mem, k, x) => mem'.sessions[k][x] = mem.sessions[k][x]
    BY <2>1, TakeCopy DEF ConfigsWhole
  <2>5. \A k : Build(mem', k, "llm") = Build(mem, k, "llm")
    BY <2>4, SameLevels
  <2>6. ASSUME NEW k \in Ego \ unsure, ModelKept(mem, k) PROVE ModelKept(mem', k)
    <3>1. CASE k = j /\ sort = "llm"
      BY <2>4, <2>5, <2>6, <3>1 DEF ModelKept, InForce
    <3>2. CASE ~(k = j /\ sort = "llm")
      BY <2>4, <2>5, <2>6, <3>2 DEF ModelKept
    <3> QED BY <3>1, <3>2
  <2>7. \A k \in Ego \ unsure : ModelKept(mem', k) => ModelKept(mem, k)'
    BY <2>1 DEF ModelKept
  <2>8. \A k : ModelKept(file, k) => ModelKept(file, k)'
    BY <2>1 DEF ModelKept
  <2> QED BY <2>1, <2>2, <2>3, <2>6, <2>7, <2>8 DEF CopiesHold
<1>3. ASSUME NEW c \in Work, Apply(c) PROVE CopiesHold'
  <2>1. /\ file' = file /\ mem' = Changed(c) /\ pc[c] = "ready" /\ writer = Nobody /\ ~Refuses(c)
        /\ UNCHANGED <<up, got, unsure, chosen>> /\ writer' = c /\ Goes(c, "changed")
    BY <1>3 DEF Apply, At
  <2>2. \A d \in Work' : Writes(d)' => d = c
    BY <2>1, NoWriters, GoesOnly DEF Writes
  <2>3. up => \A k \in Ego \ unsure : ModelKept(mem, k)
    BY <2>1 DEF CopiesHold, Switching
  <2>4. \A k : (ModelKept(file, k) => ModelKept(file, k)') /\ (ModelKept(mem', k) => ModelKept(mem, k)')
    BY <2>1 DEF ModelKept
  <2>5. CASE c.op = "model"
    <3>1. /\ mem'.levels = mem.levels
          /\ HasSnapshot(mem', got[c], "llm")
          /\ \A k : k # got[c] =>
                /\ HasSnapshot(mem', k, "llm") <=> HasSnapshot(mem, k, "llm")
                /\ HasSnapshot(mem, k, "llm") => mem'.sessions[k]["llm"] = mem.sessions[k]["llm"]
      <4>1. \E v : mem' = Snapshot(mem, got[c], "llm", v)
        BY <2>1, <2>5, ChangedParts
      <4> QED BY <4>1, TakeCopy DEF ConfigsWhole
    <3>2. \A k : Build(mem', k, "llm") = Build(mem, k, "llm")
      BY <3>1, SameLevels
    <3>3. \A k : k # got[c] /\ ModelKept(mem, k) => ModelKept(mem', k)
      BY <3>1, <3>2 DEF ModelKept
    <3>4. Switching(got[c])'
      BY <2>1, <2>5, Holders DEF Switching
    <3>5. \A k \in Ego \ unsure : up => ModelKept(mem, k)' \/ Switching(k)'
      BY <2>1, <2>3, <2>4, <3>3, <3>4 DEF Switching
    <3> QED BY <2>1, <2>2, <2>4, <3>1, <3>5 DEF CopiesHold
  <2>6. CASE c.op # "model"
    <3>1. mem'.sessions = mem.sessions
      BY <2>1, <2>6, ChangedParts
    <3>2. \A k : Build(mem', k, "llm") = Build(mem, k, "llm")
      <4>1. CASE c.op \in OutOps
        <5>1. \E level, v : mem' = SetLevel(mem, level, "out", v)
          <6>1. /\ c.op \in {"bindOut", "unbindOut"} => \E v : mem' = SetLevel(mem, got[c], "out", v)
                /\ c.op = "send" => mem' = SetLevel(mem, c.key, "out", Unset)
            BY <2>1, ChangedParts, ZenonT(60)
          <6> QED BY <4>1, <6>1 DEF OutOps
        <5>2. \A l : /\ Sets(mem', l, "llm") <=> Sets(mem, l, "llm")
                     /\ Sets(mem, l, "llm") => Get(mem', l, "llm") = Get(mem, l, "llm")
          BY <5>1, SetOut DEF ConfigsWhole
        <5> QED BY <5>2, BuildAlike
      <4>2. CASE c.op \notin OutOps
        <5>1. mem'.levels = mem.levels
          BY <2>1, <4>2, ChangedParts
        <5> QED BY <5>1, SameLevels
      <4> QED BY <4>1, <4>2
    <3>3. \A k : ModelKept(mem, k) => ModelKept(mem', k)
      BY <3>1, <3>2, SameCopies
    <3>4. \A k \in Ego \ unsure : up => ModelKept(mem, k)'
      BY <2>3, <2>4, <3>3
    <3> QED BY <2>1, <2>2, <2>4, <2>6, <3>4 DEF CopiesHold
  <2> QED BY <2>5, <2>6
<1>4. ASSUME NEW c \in Work, Truncate(c) PROVE CopiesHold'
  <2>1. /\ file' = Torn /\ UNCHANGED <<mem, up, writer, got, unsure, chosen>> /\ Goes(c, "filling") /\ Writes(c)
    BY <1>4, Holders DEF Truncate, history
  <2>2. Work' = Work /\ \A d \in Work : Writes(d)' => Writes(d)
    BY <2>1, GoesOnly DEF Writes
  <2>3. \A k : (ModelKept(mem, k) => ModelKept(mem, k)') /\ (Switching(k) => Switching(k)')
    BY <2>1 DEF ModelKept, Switching
  <2> QED BY <2>1, <2>2, <2>3 DEF CopiesHold
<1>5. ASSUME NEW c \in Work, Fill(c) PROVE CopiesHold'
  <2>1. /\ file' = mem /\ UNCHANGED <<mem, up, got>> /\ writer' = Nobody /\ Goes(c, "done")
        /\ writer = c /\ Writes(c) /\ up
        /\ c.op # "model" => chosen' = chosen /\ unsure' = unsure
        /\ c.op = "model" => /\ chosen' = Put(chosen, got[c], mem.sessions[got[c]]["llm"])
                             /\ unsure' = unsure \ {got[c]}
    BY <1>5, Holders DEF Fill
  <2>2. \A d \in Work' : ~Writes(d)'
    <3>1. \A d \in Work : Writes(d) => d = c
      BY <2>1 DEF CommandSteps
    <3> QED BY <2>1, <3>1, GoesOnly DEF Writes
  <2>3. ASSUME NEW k \in Ego, k \notin unsure' PROVE ModelKept(mem, k)'
    <3>1. CASE c.op = "model" /\ k = got[c]
      <4>1. HasSnapshot(mem, k, "llm")
        BY <2>1, <3>1 DEF CopiesHold
      <4>2. k \in DOMAIN chosen' /\ chosen'[k] = mem.sessions[k]["llm"]
        BY <2>1, <3>1 DEF Put
      <4> QED BY <2>1, <4>1, <4>2 DEF ModelKept
    <3>2. CASE ~(c.op = "model" /\ k = got[c])
      <4>1. k \notin unsure /\ ~Switching(k)
        BY <2>1, <2>3, <3>2 DEF Switching
      <4>2. ModelKept(mem, k)
        BY <2>1, <4>1 DEF CopiesHold
      <4>3. (k \in DOMAIN chosen' <=> k \in DOMAIN chosen) /\ (k \in DOMAIN chosen => chosen'[k] = chosen[k])
        BY <2>1, <3>2 DEF Put
      <4> QED BY <2>1, <4>2, <4>3 DEF ModelKept
    <3> QED BY <3>1, <3>2
  <2>4. \A k : ModelKept(mem, k)' => ModelKept(file, k)'
    BY <2>1 DEF ModelKept
  <2> QED BY <2>2, <2>3, <2>4 DEF CopiesHold
<1>6. ASSUME NEW c \in Work, WriteFails(c) PROVE CopiesHold'
  <2>1. /\ UNCHANGED <<mem, file, up, got, chosen>> /\ writer' = Nobody /\ Goes(c, "failed")
        /\ writer = c /\ Writes(c) /\ up
        /\ unsure' = IF c.op = "model" THEN unsure \cup {got[c]} ELSE unsure
    BY <1>6, Holders DEF WriteFails
  <2>2. \A d \in Work' : ~Writes(d)'
    <3>1. \A d \in Work : Writes(d) => d = c
      BY <2>1 DEF CommandSteps
    <3> QED BY <2>1, <3>1, GoesOnly DEF Writes
  <2>3. \A k \in Ego \ unsure' : ModelKept(mem, k)
    BY <2>1 DEF CopiesHold, Switching
  <2>4. file # Torn => \A k \in Ego \ unsure' : ModelKept(file, k)
    BY <2>1 DEF CopiesHold
  <2>5. \A k : (ModelKept(mem, k) => ModelKept(mem, k)') /\ (ModelKept(file, k) => ModelKept(file, k)')
    BY <2>1 DEF ModelKept
  <2> QED BY <2>1, <2>2, <2>3, <2>4, <2>5 DEF CopiesHold
<1>7. CASE Restart
  <2>1. /\ UNCHANGED <<file, chosen, unsure>> /\ (up' => mem' = file /\ file # Torn)
        /\ \A d \in Work' : ~Writes(d)'
    BY <1>7 DEF Restart, Work, Writes
  <2>2. \A k : ModelKept(file, k) => ModelKept(file, k)' /\ (up' => ModelKept(mem, k)')
    BY <2>1 DEF ModelKept
  <2> QED BY <2>1, <2>2 DEF CopiesHold
<1>8. CASE UNCHANGED vars
  BY <1>8 DEF vars, history, CopiesHold, ModelKept, Switching, Writes, Work
<1> QED BY <1>1, <1>2, <1>3, <1>4, <1>5, <1>6, <1>7, <1>8, NextIsStep DEF ConfigStep

\* Where a reply goes is read from the settings of its agent and role.
LEMMA OutBuilt ==
    ASSUME NEW repo, NEW k, k = <<k[1], k[2]>>, Sets(repo, k, "out")
    PROVE  Build(repo, k, "out") = Get(repo, k, "out")
<1>1. \A x, y : Merge("out", x, y) = y
  BY DEF Merge
<1>2. CASE k[2] = NoRole
  BY <1>1, <1>2 DEF Build
<1>3. CASE k[2] # NoRole
  BY <1>1, <1>3 DEF Build
<1> QED BY <1>2, <1>3

LEMMA SenderLooks ==
    ASSUME CommandSteps, NEW c \in Work, Looks(c), c.op = "send"
    PROVE  \/ pc'[c] \notin {"found", "ready"}
           \/ pc'[c] = "found" /\ got'[c] = Build(mem, c.key, "out") /\ got'[c] # Unset
           \/ pc[c] = "found" /\ pc'[c] = "ready" /\ got' = got /\ ~Bound(mem, got[c])
<1>1. CASE FindOut(c)
  <2>1. /\ got' = [got EXCEPT ![c] = Build(mem, c.key, "out")]
        /\ Goes(c, "done") \/ (Goes(c, "found") /\ Build(mem, c.key, "out") # Unset)
    BY <1>1 DEF FindOut
  <2> QED BY <2>1, GoesOnly DEF CommandSteps
<1>2. CASE CheckOut(c)
  <2>1. got' = got /\ pc[c] = "found" /\ (Goes(c, "done") \/ (Goes(c, "ready") /\ ~Bound(mem, got[c])))
    BY <1>2 DEF CheckOut, StillBound, Reads, At
  <2> QED BY <2>1, GoesOnly
<1>3. CASE ReadSetting(c)
  BY <1>3 DEF ReadSetting
<1>4. CASE AcceptCommand(c) \/ Receive(c) \/ LookUp(c) \/ FindSession(c) \/ AskModels(c)
  <2>1. c.op \in Commands \cup FromApi \/ pc[c] \in {"accepted", "asking"}
    BY <1>4 DEF AcceptCommand, Receive, LookUp, FindSession, AskModels, Reads, At
  <2> QED BY <2>1 DEF CommandSteps, Commands, FromApi
<1> QED BY <1>1, <1>2, <1>3, <1>4 DEF Looks

\* What was asked for stays set while the levels and the channels stay.
LEMMA SameOuts ==
    ASSUME NEW before, NEW after, after.channels = before.channels, after.levels = before.levels, Outs(before)
    PROVE  Outs(after)
BY DEF Outs, Sets, Get, Bound

LEMMA OutsHoldNext ==
    ConfigAssumption /\ CommandSteps /\ ConfigsWhole /\ OutsHold /\ [Next]_vars => OutsHold'
<1> SUFFICES ASSUME ConfigAssumption, CommandSteps, ConfigsWhole, OutsHold, [Next]_vars PROVE OutsHold'
  OBVIOUS
<1>0. \A k \in DOMAIN wanted : k = <<k[1], k[2]>>
  BY DEF OutsHold
<1>1. ASSUME NEW c \in Work, Looks(c) PROVE OutsHold'
  <2>1. /\ UNCHANGED <<mem, file, up, writer, wanted, late, erased>> /\ writer = Nobody /\ up
        /\ Work' = Work /\ pc'[c] \notin {"changed", "filling"}
        /\ \A d \in Work : d # c => pc'[d] = pc[d] /\ got'[d] = got[d]
    BY <1>1, LooksOnly DEF history
  <2>2. \A d \in Work' : ~Writes(d)'
    BY <2>1, NoWriters DEF Writes
  <2>3. ASSUME NEW d \in Work \ late, d.op = "send", d.key \in DOMAIN wanted
        PROVE  pc'[d] # "ready" /\ (pc'[d] = "found" => got'[d] = wanted[d.key])
    <3>1. pc[d] # "ready" /\ (pc[d] = "found" => got[d] = wanted[d.key])
      BY <2>3 DEF OutsHold
    <3>2. /\ Sets(mem, d.key, "out") /\ Bound(mem, wanted[d.key])
          /\ Get(mem, d.key, "out") \in {wanted[d.key], Unset}
      BY <2>1, <2>3 DEF OutsHold, Outs
    <3>3. Build(mem, d.key, "out") \in {wanted[d.key], Unset}
      BY <1>0, <2>3, <3>2, OutBuilt
    <3>4. CASE d = c
      BY <1>1, <2>3, <3>1, <3>2, <3>3, <3>4, SenderLooks
    <3>5. CASE d # c
      BY <2>1, <3>1, <3>5
    <3> QED BY <3>4, <3>5
  <2>4. Outs(mem)' /\ (file # Torn => Outs(file)')
    BY <2>1 DEF OutsHold, Outs
  <2> QED BY <1>0, <2>1, <2>2, <2>3, <2>4 DEF OutsHold
<1>2. ASSUME NEW c \in Work, TakeSnapshot(c) \/ Refuse(c) PROVE OutsHold'
  <2>1. /\ UNCHANGED <<file, up, got, wanted, late, erased>> /\ writer = Nobody
        /\ \E step \in {"done", "refused"} : Goes(c, step)
        /\ mem' = mem \/ mem' = Snapshot(mem, c.key, c.kind, InForce(mem, c.key, c.kind))
    BY <1>2 DEF TakeSnapshot, Refuse, history
  <2>2. \A d \in Work' : ~Writes(d)'
    BY <2>1, NoWriters, GoesOnly DEF Writes
  <2>3. mem'.channels = mem.channels /\ mem'.levels = mem.levels
    BY <2>1, TakeCopy DEF ConfigsWhole
  <2>4. (Outs(mem) => Outs(mem')) /\ (Outs(mem') => Outs(mem)') /\ (Outs(file) => Outs(file)')
    BY <2>1, <2>3, SameOuts DEF Outs
  <2>5. \A d \in Work' : pc'[d] \in {"found", "ready"} => d \in Work /\ pc[d] = pc'[d]
    BY <2>1, GoesOnly
  <2> QED BY <1>0, <2>1, <2>2, <2>4, <2>5, GoesOnly DEF OutsHold
<1>3. ASSUME NEW c \in Work, Apply(c) PROVE OutsHold'
  <2>1. /\ file' = file /\ mem' = Changed(c) /\ pc[c] = "ready" /\ writer = Nobody /\ ~Refuses(c)
        /\ UNCHANGED <<up, got>> /\ writer' = c /\ Goes(c, "changed")
    BY <1>3 DEF Apply, At
  <2>2. /\ late \subseteq late'
        /\ c.op = "bindOut" => \A r \in Work :
              pc[r] \in {"found", "ready"} /\ r.op = "send" /\ r.key = got[c] => r \in late'
    BY <1>3 DEF Apply, At
  <2>3. /\ DOMAIN wanted' \subseteq DOMAIN wanted
        /\ \A k \in DOMAIN wanted' :
              /\ wanted'[k] = wanted[k] /\ Bound(mem', wanted[k])
              /\ ~(c.op \in {"bindOut", "unbindOut"} /\ k = got[c])
    BY <1>3 DEF Apply, Restrict
  <2>4. /\ \A k \in erased : (c.op = "bindOut" /\ k = got[c]) \/ k \in erased'
        /\ c.op = "send" /\ c \in late => c.key \in erased'
    BY <1>3 DEF Apply
  <2>5. \A d \in Work' : Writes(d)' => d = c
    BY <2>1, NoWriters, GoesOnly DEF Writes
  <2>6. ASSUME NEW k \in DOMAIN wanted', up
        PROVE  /\ Sets(mem', k, "out")
               /\ Get(mem', k, "out") = wanted[k] \/ (k \in erased' /\ Get(mem', k, "out") = Unset)
    <3>1. /\ Sets(mem, k, "out")
          /\ Get(mem, k, "out") = wanted[k] \/ (k \in erased' /\ Get(mem, k, "out") = Unset)
      BY <2>3, <2>4, <2>6 DEF OutsHold, Outs
    <3>2. CASE c.op \notin OutOps
      <4>1. mem'.levels = mem.levels
        BY <2>1, <3>2, ChangedParts
      <4> QED BY <3>1, <4>1 DEF Sets, Get
    <3>3. CASE c.op \in {"bindOut", "unbindOut"}
      <4>1. \E v : mem' = SetLevel(mem, got[c], "out", v)
        BY <2>1, <3>3, ChangedParts, ZenonT(60)
      <4>2. /\ Sets(mem', k, "out") <=> Sets(mem, k, "out")
            /\ Sets(mem, k, "out") => Get(mem', k, "out") = Get(mem, k, "out")
        BY <2>3, <3>3, <4>1, SetOut DEF ConfigsWhole
      <4> QED BY <3>1, <4>2
    <3>4. CASE c.op = "send" /\ c.key # k
      <4>1. mem' = SetLevel(mem, c.key, "out", Unset)
        BY <2>1, <3>4, ChangedParts
      <4>2. /\ Sets(mem', k, "out") <=> Sets(mem, k, "out")
            /\ Sets(mem, k, "out") => Get(mem', k, "out") = Get(mem, k, "out")
        BY <3>4, <4>1, SetOut DEF ConfigsWhole
      <4> QED BY <3>1, <4>2
    <3>5. CASE c.op = "send" /\ c.key = k
      <4>1. mem' = SetLevel(mem, c.key, "out", Unset)
        BY <2>1, <3>5, ChangedParts
      <4>2. Sets(mem', k, "out") /\ Get(mem', k, "out") = Unset
        BY <3>5, <4>1, SetOut DEF ConfigsWhole
      <4>3. c \in late
        BY <2>1, <2>3, <3>5 DEF OutsHold
      <4> QED BY <2>4, <3>5, <4>2, <4>3
    <3> QED BY <3>2, <3>3, <3>4, <3>5 DEF OutOps
  <2>7. (up => Outs(mem)') /\ (file # Torn => Outs(file)')
    <3>1. up => Outs(mem)'
      BY <2>3, <2>6 DEF Outs
    <3>2. ASSUME file # Torn, NEW k \in DOMAIN wanted'
          PROVE  /\ Sets(file, k, "out") /\ Bound(file, wanted[k])
                 /\ Get(file, k, "out") = wanted[k] \/ (k \in erased' /\ Get(file, k, "out") = Unset)
      BY <2>3, <2>4, <3>2 DEF OutsHold, Outs
    <3>3. file # Torn => Outs(file)'
      BY <2>1, <2>3, <3>2 DEF Outs
    <3> QED BY <3>1, <3>3
  <2>8. ASSUME NEW d \in Work \ late', d.op = "send", d.key \in DOMAIN wanted'
        PROVE  pc'[d] # "ready" /\ (pc'[d] = "found" => got[d] = wanted'[d.key])
    <3>1. pc[d] # "ready" /\ (pc[d] = "found" => got[d] = wanted'[d.key])
      BY <2>2, <2>3, <2>8 DEF OutsHold
    <3> QED BY <2>1, <3>1, GoesOnly
  <2>9. ASSUME c.op = "bindOut"
        PROVE  /\ Sets(mem', got[c], "out") /\ Get(mem', got[c], "out") = <<c.ch, c.user>>
               /\ \A r \in Work : r.op = "send" /\ pc'[r] \in {"found", "ready"} /\ r.key = got[c] => r \in late'
    <3>1. mem' = SetLevel(mem, got[c], "out", <<c.ch, c.user>>)
      BY <2>1, <2>9, ChangedParts
    <3>2. Sets(mem', got[c], "out") /\ Get(mem', got[c], "out") = <<c.ch, c.user>>
      BY <3>1, SetOut DEF ConfigsWhole
    <3>3. \A r \in Work : pc'[r] \in {"found", "ready"} => pc[r] = pc'[r]
      BY <2>1, GoesOnly
    <3> QED BY <2>2, <2>9, <3>2, <3>3
  <2>10. Work' = Work
    BY <2>1, GoesOnly
  <2> QED BY <1>0, <2>1, <2>3, <2>5, <2>7, <2>8, <2>9, <2>10 DEF OutsHold
<1>4. ASSUME NEW c \in Work, Truncate(c) \/ WriteFails(c) PROVE OutsHold'
  <2>1. /\ UNCHANGED <<mem, up, got, wanted, late, erased>> /\ (file' = file \/ file' = Torn)
        /\ \E step \in {"filling", "failed"} : Goes(c, step)
        /\ Writes(c)
    BY <1>4, Holders DEF Truncate, WriteFails, history
  <2>2. /\ Work' = Work /\ \A d \in Work : Writes(d)' => Writes(d)
        /\ \A d \in Work : pc'[d] \in {"found", "ready"} => pc[d] = pc'[d]
    BY <2>1, GoesOnly DEF Writes
  <2>3. (Outs(mem) => Outs(mem)') /\ (file' # Torn /\ Outs(file) => Outs(file)')
    BY <2>1 DEF Outs
  <2> QED BY <1>0, <2>1, <2>2, <2>3 DEF OutsHold
<1>5. ASSUME NEW c \in Work, Fill(c) PROVE OutsHold'
  <2>1. /\ file' = mem /\ UNCHANGED <<mem, up, got, late, erased>> /\ Goes(c, "done")
        /\ writer = c /\ Writes(c) /\ up
        /\ \/ wanted' = wanted
           \/ /\ c.op = "bindOut" /\ Bound(mem, <<c.ch, c.user>>)
              /\ wanted' = Put(wanted, got[c], <<c.ch, c.user>>)
    BY <1>5, Holders DEF Fill
  <2>2. /\ Work' = Work /\ \A d \in Work : ~Writes(d)'
        /\ \A d \in Work : pc'[d] \in {"found", "ready"} => pc[d] = pc'[d]
    <3>1. \A d \in Work : Writes(d) => d = c
      BY <2>1 DEF CommandSteps
    <3> QED BY <2>1, <3>1, GoesOnly DEF Writes
  <2>3. Outs(mem)' /\ (\A k \in DOMAIN wanted' : k = <<k[1], k[2]>>)
        /\ \A d \in Work \ late : d.op = "send" /\ d.key \in DOMAIN wanted' =>
              pc[d] # "ready" /\ (pc[d] = "found" => got[d] = wanted'[d.key])
    <3>1. CASE wanted' = wanted
      BY <1>0, <2>1, <3>1 DEF OutsHold, Outs
    <3>2. CASE /\ c.op = "bindOut" /\ Bound(mem, <<c.ch, c.user>>)
               /\ wanted' = Put(wanted, got[c], <<c.ch, c.user>>)
      <4>1. /\ Sets(mem, got[c], "out") /\ Get(mem, got[c], "out") = <<c.ch, c.user>>
            /\ \A r \in Work : r.op = "send" /\ pc[r] \in {"found", "ready"} /\ r.key = got[c] => r \in late
        BY <2>1, <3>2 DEF OutsHold
      <4>2. got[c] = <<got[c][1], got[c][2]>>
        BY <2>1, <3>2 DEF CommandSteps
      <4>3. /\ DOMAIN wanted' = DOMAIN wanted \cup {got[c]}
            /\ wanted'[got[c]] = <<c.ch, c.user>>
            /\ \A k \in DOMAIN wanted : k # got[c] => wanted'[k] = wanted[k]
        BY <3>2 DEF Put
      <4>4. Outs(mem)
        BY <2>1 DEF OutsHold
      <4>5. Outs(mem)'
        BY <2>1, <3>2, <4>1, <4>3, <4>4 DEF Outs
      <4>6. \A d \in Work \ late : d.op = "send" /\ d.key \in DOMAIN wanted' =>
              pc[d] # "ready" /\ (pc[d] = "found" => got[d] = wanted'[d.key])
        BY <4>1, <4>3 DEF OutsHold
      <4>7. \A k \in DOMAIN wanted' : k = <<k[1], k[2]>>
        BY <1>0, <4>2, <4>3
      <4> QED BY <4>5, <4>6, <4>7
    <3> QED BY <2>1, <3>1, <3>2
  <2>4. Outs(mem)' => Outs(file)'
    BY <2>1 DEF Outs
  <2> QED BY <2>1, <2>2, <2>3, <2>4 DEF OutsHold
<1>6. CASE Restart
  <2>1. /\ UNCHANGED <<file, wanted, late, erased>> /\ (up' => mem' = file /\ file # Torn)
        /\ \A d \in Work' : ~Writes(d)' /\ pc'[d] \notin {"found", "ready"}
    BY <1>6 DEF Restart, Work, Writes
  <2>2. Outs(file) => Outs(file)' /\ (up' => Outs(mem)')
    BY <2>1 DEF Outs
  <2> QED BY <1>0, <2>1, <2>2 DEF OutsHold
<1>7. CASE UNCHANGED vars
  BY <1>7 DEF vars, history, OutsHold, Outs, Writes, Work
<1> QED BY <1>1, <1>2, <1>3, <1>4, <1>5, <1>6, <1>7, NextIsStep DEF ConfigStep

ConfigHolds == CommandSteps /\ ConfigsWhole /\ FileFollows /\ KeysHold /\ CopiesHold /\ OutsHold

LEMMA ConfigInit == ConfigAssumption /\ Init => ConfigHolds
<1> SUFFICES ASSUME ConfigAssumption, Init PROVE ConfigHolds
  OBVIOUS
<1>1. /\ IsConfig(mem) /\ file = mem /\ mem # Torn
      /\ writer = Nobody /\ wanted = << >> /\ chosen = << >>
      /\ unverified = {ch \in DOMAIN mem.channels : KeyOf(ch) \notin Ego}
      /\ DOMAIN got = Work
  BY NeverTorn DEF Init
<1>2. Work \in Workloads /\ \A c \in Work : pc[c] = "idle"
  BY DEF Init, Work
<1>3. mem.sessions = << >>
  BY DEF Init
<1>4. CommandSteps
  BY <1>1, <1>2 DEF CommandSteps, Begun, Writes
<1>5. ConfigsWhole
  BY <1>1 DEF ConfigsWhole
<1>6. FileFollows
  BY <1>1, <1>3 DEF FileFollows, SameButCopies
<1>7. KeysHold
  BY <1>1 DEF KeysHold, Verified, KeyOf
<1>8. CopiesHold
  BY <1>1, <1>2, <1>3 DEF CopiesHold, ModelKept, HasSnapshot, Has, Writes
<1>9. OutsHold
  BY <1>1, <1>2 DEF OutsHold, Outs, Writes
<1> QED BY <1>4, <1>5, <1>6, <1>7, <1>8, <1>9 DEF ConfigHolds

LEMMA ConfigNext == ConfigAssumption /\ ConfigHolds /\ [Next]_vars => ConfigHolds'
BY CommandStepsNext, ConfigsWholeNext, FileFollowsNext, KeysHoldNext, CopiesHoldNext, OutsHoldNext DEF ConfigHolds

LEMMA ConfigAlways == Spec => []ConfigHolds
<1>1. Init => ConfigHolds
  BY ConfigInit, ConfigAssumption
<1>2. ConfigHolds /\ [Next]_vars => ConfigHolds'
  BY ConfigNext, ConfigAssumption
<1> QED BY <1>1, <1>2, PTL DEF Spec

\* A restart changes nothing (config_manager.rs).
THEOREM RestartsAreHarmless == Spec => []RestartChangesNothing
<1>1. ConfigHolds => RestartChangesNothing
  <2> SUFFICES ASSUME ConfigsWhole, SameButCopies PROVE
        /\ file # Torn
        /\ [file EXCEPT !.sessions = mem.sessions] = mem
        /\ \A k \in DOMAIN mem.sessions : \A sort \in DOMAIN mem.sessions[k] :
              InForce(file, k, sort) = mem.sessions[k][sort]
        /\ \A k \in DOMAIN file.sessions : \A sort \in DOMAIN file.sessions[k] :
              HasSnapshot(mem, k, sort)
    BY DEF ConfigHolds, FileFollows, RestartChangesNothing
  <2>1. /\ file = [f \in {"channels", "providers", "levels", "sessions"} |-> file[f]]
        /\ mem = [f \in {"channels", "providers", "levels", "sessions"} |-> mem[f]]
    BY DEF ConfigsWhole, SameButCopies, IsConfig
  <2>2. [file EXCEPT !.sessions = mem.sessions] = mem
    BY <2>1 DEF SameButCopies
  <2> QED BY <2>2 DEF SameButCopies
<1> QED BY <1>1, ConfigAlways, PTL

\* What the levels give a session, field by field.
LEMMA ModelBuilt ==
    ASSUME NEW k, k = <<k[1], k[2]>>
    PROVE  \A f \in DOMAIN Build(mem, k, "llm") : Build(mem, k, "llm")[f] = LevelsSay(k, f)
<1> DEFINE agent == <<k[1], NoRole>>
           none == [provider |-> Unset, model |-> Unset]
           role == k[2] # NoRole /\ Sets(mem, k, "llm")
           base == IF Sets(mem, agent, "llm") THEN Merge("llm", none, Get(mem, agent, "llm")) ELSE none
<1>1. \A x, y : Merge("llm", x, y) = [f \in DOMAIN x |-> IF y[f] = Unset THEN x[f] ELSE y[f]]
  BY DEF Merge
<1>2. Build(mem, k, "llm") = IF role THEN Merge("llm", base, Get(mem, k, "llm")) ELSE base
  BY DEF Build, Empty
<1>3. /\ DOMAIN base = {"provider", "model"}
      /\ \A f \in {"provider", "model"} : base[f] =
            IF Sets(mem, agent, "llm") /\ Get(mem, agent, "llm")[f] # Unset
            THEN Get(mem, agent, "llm")[f] ELSE Unset
  BY <1>1
<1> HIDE DEF base
<1>4. \A f \in DOMAIN Build(mem, k, "llm") : /\ f \in {"provider", "model"}
                                            /\ Build(mem, k, "llm")[f] =
           IF role /\ Get(mem, k, "llm")[f] # Unset THEN Get(mem, k, "llm")[f] ELSE base[f]
  BY <1>1, <1>2, <1>3
<1>5. ASSUME NEW f \in {"provider", "model"}
      PROVE  LevelsSay(k, f) = IF role /\ Get(mem, k, "llm")[f] # Unset THEN Get(mem, k, "llm")[f] ELSE base[f]
  <2>1. CASE k[2] = NoRole
    BY <1>3, <2>1 DEF LevelsSay
  <2>2. CASE k[2] # NoRole
    BY <1>3, <2>2 DEF LevelsSay
  <2> QED BY <2>1, <2>2
<1> QED BY <1>4, <1>5

\* Sessions work with the model set for them (nexus.rs set_session_model).
THEOREM SessionsKeepModels == Spec => []ModelInForce
<1>1. ConfigHolds => ModelInForce
  <2> SUFFICES ASSUME ConfigHolds, up, writer = Nobody, NEW k \in Ego \ unsure
               PROVE  IF k \in DOMAIN chosen THEN InForce(mem, k, "llm") = chosen[k]
                      ELSE \A f \in DOMAIN InForce(mem, k, "llm") : InForce(mem, k, "llm")[f] = LevelsSay(k, f)
    BY DEF ModelInForce
  <2>1. ModelKept(mem, k)
    BY DEF ConfigHolds, CopiesHold, Switching
  <2>2. k \notin DOMAIN chosen => InForce(mem, k, "llm") = Build(mem, k, "llm")
    BY <2>1 DEF ModelKept, InForce
  <2>3. k \in DOMAIN chosen => InForce(mem, k, "llm") = chosen[k]
    BY <2>1 DEF ModelKept, InForce
  <2>4. k = <<k[1], k[2]>>
    BY ConfigAssumption DEF ConfigAssumption
  <2> QED BY <2>2, <2>3, <2>4, ModelBuilt
<1> QED BY <1>1, ConfigAlways, PTL

\* Reply channels and keys of channels stay as they were set and verified.
THEOREM ChoicesAreKept == Spec => []ChoicesKept
<1>1. ConfigHolds => ReplyChannelKept
  <2> SUFFICES ASSUME ConfigHolds, up, NEW k \in DOMAIN wanted \ erased PROVE Build(mem, k, "out") = wanted[k]
    BY DEF ReplyChannelKept
  <2>1. k = <<k[1], k[2]>> /\ Sets(mem, k, "out") /\ Get(mem, k, "out") = wanted[k]
    BY DEF ConfigHolds, OutsHold, Outs
  <2> QED BY <2>1, OutBuilt
<1>2. ConfigHolds => KeysVerified
  BY DEF ConfigHolds, KeysHold, Verified, KeysVerified, KeyOf
<1> QED BY <1>1, <1>2, ConfigAlways, PTL DEF ChoicesKept

--------------------------------------------------------------------------------
(* StationRouting: names.                                                       *)

\* A name is a sequence of parts, its prefixes among them.
LabelParts == (UNION {Range(n) : n \in UNION {Native[h] : h \in Hosts}})
              \cup {Prefix[<<e[1], e[2]>>] : e \in Hosts \X Hosts}
Labels == Seq(LabelParts)

\* What tools are called where they are is a name.
LEMMA NativeAreLabels ==
    ASSUME NEW h \in Hosts, NEW n \in Native[h]
    PROVE  n \in Labels
<1>1. n \in Seq(Range(n))
  BY StationAssumption
<1>2. Range(n) \subseteq LabelParts
  BY DEF LabelParts
<1> QED
  BY <1>1, <1>2 DEF Labels

\* A name that a sub-station's tool is given is a name.
LEMMA GlobalIsLabel ==
    ASSUME NEW s \in Hosts, NEW c \in Hosts, NEW n \in Labels
    PROVE  GlobalName(s, c, n) \in Labels
<1>1. <<s, c>> \in Hosts \X Hosts
  OBVIOUS
<1>2. Prefix[<<s, c>>] \in LabelParts
  BY <1>1 DEF LabelParts
<1> QED
  BY <1>2 DEF GlobalName, Labels

\* Different names of a sub-station stay different.
LEMMA GlobalTells ==
    ASSUME NEW s, NEW c, NEW n \in Labels, NEW m \in Labels,
           GlobalName(s, c, n) = GlobalName(s, c, m)
    PROVE  n = m
<1>1. CASE Prefix[<<s, c>>] = NoPrefix
  BY <1>1 DEF GlobalName
<1>2. CASE Prefix[<<s, c>>] # NoPrefix
  <2> DEFINE P == Prefix[<<s, c>>]
  <2>1. <<P>> \o n = <<P>> \o m
    BY <1>2 DEF GlobalName
  <2>2. n \in Seq(LabelParts \cup {P}) /\ m \in Seq(LabelParts \cup {P}) /\ <<P>> \in Seq(LabelParts \cup {P})
    BY DEF Labels
  <2> QED
    BY <2>1, <2>2, ConcatSimplifications
<1> QED
  BY <1>1, <1>2

\* What is called n at the end of the way, at each of its beginnings.
OneBack(n, v, f) == IF Len(v) < 2 THEN n ELSE GlobalName(v[1], v[2], f[Tail(v)])
IsNames(n, f) == f = [v \in Seq(Hosts) |-> OneBack(n, v, f)]
NamesUpTo(n, k, f) ==
    /\ f \in [Seq(Hosts) -> Labels]
    /\ \A v \in Seq(Hosts) : Len(v) <= k => f[v] = OneBack(n, v, f)

\* What is true of 0 and of each number after one it is true of holds for all.
LEMMA CountUp ==
    ASSUME NEW T, 0 \in T, \A k \in Nat : k \in T => k + 1 \in T
    PROVE  Nat \subseteq T
<1> SUFFICES ASSUME Nat \ T # {} PROVE FALSE
  OBVIOUS
<1>1. PICK x \in Nat \ T : \A y \in Nat \ T : x <= y
  BY Smallest
<1>2. x \in Nat /\ x # 0
  BY <1>1
<1>3. x - 1 \in Nat /\ (x - 1) + 1 = x /\ ~(x <= x - 1)
  BY <1>2
<1>4. x - 1 \in T
  BY <1>1, <1>3
<1> QED
  BY <1>1, <1>3, <1>4

\* There are such names for ways up to each length.
LEMMA NamesExist ==
    ASSUME NEW n \in Labels, NEW k \in Nat
    PROVE  \E f : NamesUpTo(n, k, f)
<1> DEFINE T == {i \in Nat : \E f : NamesUpTo(n, i, f)}
<1>1. 0 \in T
  <2>1. NamesUpTo(n, 0, [v \in Seq(Hosts) |-> n])
    BY DEF NamesUpTo, OneBack
  <2> QED
    BY <2>1
<1>2. ASSUME NEW i \in Nat, i \in T PROVE i + 1 \in T
  <2>1. PICK f : NamesUpTo(n, i, f)
    BY <1>2
  <2> DEFINE g == [v \in Seq(Hosts) |-> OneBack(n, v, f)]
  <2>2. ASSUME NEW v \in Seq(Hosts) PROVE OneBack(n, v, f) \in Labels
    <3>1. CASE Len(v) < 2
      BY <3>1 DEF OneBack
    <3>2. CASE ~(Len(v) < 2)
      <4>1. v[1] \in Hosts /\ v[2] \in Hosts /\ Tail(v) \in Seq(Hosts)
        BY <3>2
      <4>2. f[Tail(v)] \in Labels
        BY <2>1, <4>1 DEF NamesUpTo
      <4> QED
        BY <3>2, <4>1, <4>2, GlobalIsLabel DEF OneBack
    <3> QED
      BY <3>1, <3>2
  <2>3. g \in [Seq(Hosts) -> Labels]
    BY <2>2
  <2>4. ASSUME NEW v \in Seq(Hosts), Len(v) <= i + 1 PROVE g[v] = OneBack(n, v, g)
    <3>1. g[v] = OneBack(n, v, f)
      OBVIOUS
    <3>2. CASE Len(v) < 2
      BY <3>1, <3>2 DEF OneBack
    <3>3. CASE ~(Len(v) < 2)
      <4>1. Tail(v) \in Seq(Hosts) /\ Len(Tail(v)) <= i
        BY <3>3, <2>4
      <4>2. f[Tail(v)] = OneBack(n, Tail(v), f)
        BY <2>1, <4>1 DEF NamesUpTo
      <4>3. g[Tail(v)] = f[Tail(v)]
        BY <4>1, <4>2
      <4> QED
        BY <3>1, <4>3 DEF OneBack
    <3> QED
      BY <3>2, <3>3
  <2>5. NamesUpTo(n, i + 1, g)
    BY <2>3, <2>4 DEF NamesUpTo
  <2> QED
    BY <2>5
<1>3. Nat \subseteq T
  <2> HIDE DEF T
  <2> QED
    BY <1>1, <1>2, CountUp
<1> QED
  BY <1>3

\* Two that reach a way's length agree on it.
LEMMA NamesAgree ==
    ASSUME NEW n, NEW k \in Nat, NEW j \in Nat, NEW f, NEW g,
           NamesUpTo(n, k, f), NamesUpTo(n, j, g)
    PROVE  \A v \in Seq(Hosts) : Len(v) <= k /\ Len(v) <= j => f[v] = g[v]
<1> DEFINE T == {i \in Nat : \A v \in Seq(Hosts) :
                    Len(v) <= i /\ Len(v) <= k /\ Len(v) <= j => f[v] = g[v]}
<1>1. ASSUME NEW v \in Seq(Hosts), Len(v) < 2, Len(v) <= k, Len(v) <= j PROVE f[v] = g[v]
  BY <1>1 DEF NamesUpTo, OneBack
<1>2. 0 \in T
  BY <1>1
<1>3. ASSUME NEW i \in Nat, i \in T PROVE i + 1 \in T
  <2> SUFFICES ASSUME NEW v \in Seq(Hosts), Len(v) <= i + 1, Len(v) <= k, Len(v) <= j, ~(Len(v) < 2)
               PROVE  f[v] = g[v]
    BY <1>1
  <2>1. Tail(v) \in Seq(Hosts) /\ Len(Tail(v)) <= i /\ Len(Tail(v)) <= k /\ Len(Tail(v)) <= j
    OBVIOUS
  <2>2. f[Tail(v)] = g[Tail(v)]
    BY <1>3, <2>1
  <2> QED
    BY <2>2 DEF NamesUpTo, OneBack
<1>4. Nat \subseteq T
  <2> HIDE DEF T
  <2> QED
    BY <1>2, <1>3, CountUp
<1> QED
  <2> TAKE v \in Seq(Hosts)
  <2>1. Len(v) \in T
    BY <1>4
  <2> QED
    BY <2>1

\* What a tool is called along a way, from the end of the way to its start.
LEMMA NameAlongIs ==
    ASSUME NEW n \in Labels, NEW w \in Seq(Hosts)
    PROVE  /\ Len(w) < 2 => NameAlong(w, n) = n
           /\ ~(Len(w) < 2) => NameAlong(w, n) = GlobalName(w[1], w[2], NameAlong(Tail(w), n))
<1> DEFINE G(k) == CHOOSE f : NamesUpTo(n, k, f)
           h == [v \in Seq(Hosts) |-> G(Len(v))[v]]
           A == CHOOSE f : IsNames(n, f)
<1>1. \A k \in Nat : NamesUpTo(n, k, G(k))
  BY NamesExist
<1> HIDE DEF G
<1>2. ASSUME NEW v \in Seq(Hosts) PROVE h[v] = OneBack(n, v, h)
  <2>1. Len(v) \in Nat
    OBVIOUS
  <2>2. h[v] = OneBack(n, v, G(Len(v)))
    BY <1>1, <2>1 DEF NamesUpTo
  <2>3. CASE Len(v) < 2
    BY <2>2, <2>3 DEF OneBack
  <2>4. CASE ~(Len(v) < 2)
    <3>1. Tail(v) \in Seq(Hosts) /\ Len(Tail(v)) \in Nat /\ Len(Tail(v)) <= Len(v) /\ Len(Tail(v)) <= Len(Tail(v))
      BY <2>4
    <3>4. NamesUpTo(n, Len(v), G(Len(v))) /\ NamesUpTo(n, Len(Tail(v)), G(Len(Tail(v))))
      BY <1>1, <2>1, <3>1
    <3>2. G(Len(v))[Tail(v)] = G(Len(Tail(v)))[Tail(v)]
      <4> DEFINE k == Len(v)
                 j == Len(Tail(v))
                 f == G(k)
                 g == G(j)
                 u == Tail(v)
      <4>1. k \in Nat /\ j \in Nat /\ NamesUpTo(n, k, f) /\ NamesUpTo(n, j, g)
        BY <2>1, <3>1, <3>4
      <4>2. u \in Seq(Hosts) /\ Len(u) <= k /\ Len(u) <= j
        BY <3>1
      <4> HIDE DEF h, A, k, j, f, g, u
      <4>3. f[u] = g[u]
        BY <4>1, <4>2, NamesAgree
      <4> QED
        BY <4>3 DEF k, j, f, g, u
    <3>3. h[Tail(v)] = G(Len(Tail(v)))[Tail(v)]
      BY <3>1
    <3> QED
      BY <2>2, <3>2, <3>3 DEF OneBack
  <2> QED
    BY <2>3, <2>4
<1>3. IsNames(n, h)
  BY <1>2 DEF IsNames
<1>4. IsNames(n, A)
  BY <1>3
<1>5. \A v : NameAlong(v, n) = A[v]
  BY DEF NameAlong, IsNames, OneBack
<1> HIDE DEF A
<1>6. A[w] = OneBack(n, w, A)
  BY <1>4 DEF IsNames
<1> QED
  BY <1>5, <1>6 DEF OneBack

--------------------------------------------------------------------------------
(* StationRouting: ways.                                                        *)

\* The sub-stations of each station, in whatever order.
Below(S) == [s \in Stations |-> Range(S[s])]

\* A way from s by sub-stations B, none of it in A.
WayFrom(B, s, A, w) ==
    /\ w \in Seq(Hosts) /\ Len(w) > 0 /\ w[1] = s
    /\ IsInjective(w)
    /\ \A i \in 1..(Len(w) - 1) : w[i] \in Stations /\ w[i + 1] \in B[w[i]]
    /\ \A i \in 1..Len(w) : w[i] \notin A

\* A host by itself is a way.
LEMMA WayOfOne ==
    ASSUME NEW B, NEW s \in Hosts, NEW A, s \notin A
    PROVE  WayFrom(B, s, A, <<s>>) /\ Host(<<s>>) = s /\ Len(<<s>>) < 2 /\ <<s>> \in Seq(Hosts)
BY DEF WayFrom, IsInjective, Host, Last

\* A way is one on which nothing is to be done, or a step and a way.
LEMMA WayEmpty ==
    ASSUME NEW B, NEW s, NEW A, NEW w, WayFrom(B, s, A, w), Len(w) < 2
    PROVE  w \in Seq(Hosts) /\ s \in Hosts /\ s \notin A /\ Host(w) = s
BY DEF WayFrom, Host, Last

LEMMA WayTail ==
    ASSUME NEW B, NEW s, NEW A, NEW w, WayFrom(B, s, A, w), ~(Len(w) < 2)
    PROVE  /\ s \in Stations /\ s \notin A /\ w[2] \in B[s] /\ w[2] \in Hosts
           /\ WayFrom(B, w[2], A \cup {s}, Tail(w))
           /\ Host(Tail(w)) = Host(w) /\ w[1] = s /\ w \in Seq(Hosts) /\ Tail(w) \in Seq(Hosts)
<1> DEFINE v == Tail(w)
<1>1. w \in Seq(Hosts) /\ Len(w) \in Nat /\ Len(w) >= 2 /\ w[1] = s
  BY DEF WayFrom
<1>2. v \in Seq(Hosts) /\ Len(v) = Len(w) - 1 /\ \A i \in 1..Len(v) : v[i] = w[i + 1]
  BY <1>1
<1>3. 1 \in 1..(Len(w) - 1) /\ 1 \in 1..Len(w) /\ 2 \in 1..Len(w)
  BY <1>1
<1>4. s \in Stations /\ s \notin A /\ w[2] \in B[s] /\ w[2] \in Hosts
  BY <1>1, <1>3 DEF WayFrom
<1>5. Host(v) = Host(w)
  <2>1. Len(v) \in 1..Len(v) /\ Len(v) + 1 = Len(w)
    BY <1>1, <1>2
  <2> QED
    BY <1>2, <2>1 DEF Host, Last
<1>6. v[1] = w[2] /\ Len(v) > 0
  <2>1. 1 \in 1..Len(v)
    BY <1>1, <1>2
  <2> QED
    BY <1>2, <2>1
<1>7. IsInjective(v)
  <2>1. DOMAIN v = 1..Len(v) /\ DOMAIN w = 1..Len(w)
    BY <1>1, <1>2
  <2> SUFFICES ASSUME NEW i \in 1..Len(v), NEW j \in 1..Len(v), v[i] = v[j] PROVE i = j
    BY <2>1 DEF IsInjective
  <2>2. i + 1 \in 1..Len(w) /\ j + 1 \in 1..Len(w)
    BY <1>1, <1>2
  <2>3. w[i + 1] = w[j + 1]
    BY <1>2
  <2>4. i + 1 = j + 1
    BY <2>1, <2>2, <2>3 DEF WayFrom, IsInjective
  <2> QED
    BY <2>4
<1>8. ASSUME NEW i \in 1..(Len(v) - 1) PROVE v[i] \in Stations /\ v[i + 1] \in B[v[i]]
  <2>1. i \in 1..Len(v) /\ i + 1 \in 1..Len(v) /\ i + 1 \in 1..(Len(w) - 1)
    BY <1>1, <1>2
  <2>2. v[i] = w[i + 1] /\ v[i + 1] = w[(i + 1) + 1]
    BY <1>2, <2>1
  <2> QED
    BY <2>1, <2>2 DEF WayFrom
<1>9. ASSUME NEW i \in 1..Len(v) PROVE v[i] \notin A \cup {s}
  <2>1. i + 1 \in 1..Len(w) /\ i + 1 # 1 /\ 1 \in 1..Len(w)
    BY <1>1, <1>2
  <2>2. DOMAIN w = 1..Len(w)
    BY <1>1
  <2>3. w[i + 1] \notin A
    BY <2>1 DEF WayFrom
  <2>4. w[i + 1] # w[1]
    BY <2>1, <2>2 DEF WayFrom, IsInjective
  <2> QED
    BY <1>1, <1>2, <2>3, <2>4
<1>10. WayFrom(B, w[2], A \cup {s}, v)
  BY <1>2, <1>6, <1>7, <1>8, <1>9 DEF WayFrom
<1> QED
  BY <1>1, <1>2, <1>4, <1>5, <1>10

LEMMA WayLonger ==
    ASSUME NEW B, NEW s \in Stations, NEW A, s \notin A, NEW c \in B[s], NEW v,
           WayFrom(B, c, A \cup {s}, v)
    PROVE  \E w \in Seq(Hosts) :
              /\ WayFrom(B, s, A, w) /\ ~(Len(w) < 2) /\ Host(w) = Host(v)
              /\ Tail(w) = v /\ w[1] = s /\ w[2] = c
<1>1. v \in Seq(Hosts) /\ Len(v) \in Nat /\ Len(v) > 0 /\ v[1] = c /\ DOMAIN v = 1..Len(v)
  BY DEF WayFrom
<1>2. s \in Hosts
  BY DEF Hosts
<1> DEFINE w == <<s>> \o v
<1>3. w \in Seq(Hosts) /\ Len(w) = Len(v) + 1 /\ w[1] = s
  BY <1>1, <1>2
<1>4. \A i \in 1..Len(v) : w[i + 1] = v[i]
  BY <1>1, <1>2
<1>5. \A i \in 2..Len(w) : w[i] = v[i - 1] /\ i - 1 \in 1..Len(v)
  BY <1>1, <1>2
<1>6. Tail(w) = v
  BY <1>1, <1>2, <1>3
<1>7. DOMAIN w = 1..Len(w)
  BY <1>3
<1> HIDE DEF w
<1>8. w[2] = c /\ Host(w) = Host(v)
  <2>1. 2 \in 2..Len(w) /\ Len(w) \in 2..Len(w) /\ Len(w) - 1 = Len(v) /\ 2 - 1 = 1
    BY <1>1, <1>3
  <2> QED
    BY <1>1, <1>5, <2>1 DEF Host, Last
<1>9. IsInjective(w)
  <2> SUFFICES ASSUME NEW i \in 1..Len(w), NEW j \in 1..Len(w), w[i] = w[j] PROVE i = j
    BY <1>7 DEF IsInjective
  <2>1. ASSUME NEW k \in 2..Len(w) PROVE w[k] # s
    BY <1>5 DEF WayFrom
  <2>2. CASE i = 1 \/ j = 1
    <3>1. i \in 2..Len(w) \/ i = 1
      BY <1>3, <1>1
    <3>2. j \in 2..Len(w) \/ j = 1
      BY <1>3, <1>1
    <3> QED
      BY <2>1, <2>2, <3>1, <3>2, <1>3
  <2>3. CASE i # 1 /\ j # 1
    <3>1. i \in 2..Len(w) /\ j \in 2..Len(w)
      BY <2>3, <1>3, <1>1
    <3>2. v[i - 1] = v[j - 1] /\ i - 1 \in 1..Len(v) /\ j - 1 \in 1..Len(v)
      BY <1>5, <3>1
    <3>3. i - 1 = j - 1
      BY <3>2, <1>1 DEF WayFrom, IsInjective
    <3> QED
      BY <3>3
  <2> QED
    BY <2>2, <2>3
<1>10. ASSUME NEW i \in 1..(Len(w) - 1) PROVE w[i] \in Stations /\ w[i + 1] \in B[w[i]]
  <2>1. CASE i = 1
    BY <2>1, <1>3, <1>8
  <2>2. CASE i # 1
    <3>1. i \in 2..Len(w) /\ i + 1 \in 2..Len(w) /\ i - 1 \in 1..(Len(v) - 1) /\ (i + 1) - 1 = (i - 1) + 1
      BY <2>2, <1>1, <1>3
    <3>2. w[i] = v[i - 1] /\ w[i + 1] = v[(i - 1) + 1]
      BY <1>5, <3>1
    <3> QED
      BY <3>1, <3>2 DEF WayFrom
  <2> QED
    BY <2>1, <2>2
<1>11. ASSUME NEW i \in 1..Len(w) PROVE w[i] \notin A
  <2>1. CASE i = 1
    BY <2>1, <1>3
  <2>2. CASE i # 1
    <3>1. i \in 2..Len(w)
      BY <2>2, <1>1, <1>3
    <3> QED
      BY <1>5, <3>1 DEF WayFrom
  <2> QED
    BY <2>1, <2>2
<1>12. WayFrom(B, s, A, w)
  BY <1>1, <1>3, <1>9, <1>10, <1>11 DEF WayFrom
<1>13. ~(Len(w) < 2)
  BY <1>1, <1>3
<1> QED
  BY <1>3, <1>6, <1>8, <1>12, <1>13

\* No way is longer than the stations and one more host.
LEMMA WayBounded ==
    ASSUME NEW B, NEW s, NEW A, NEW w, WayFrom(B, s, A, w)
    PROVE  Len(w) <= Cardinality(Stations) + 1
<1> DEFINE n == Len(w) - 1
           f == [i \in 1..n |-> w[i]]
<1>1. w \in Seq(Hosts) /\ Len(w) \in Nat /\ Len(w) > 0 /\ DOMAIN w = 1..Len(w)
  BY DEF WayFrom
<1>2. n \in Nat /\ Cardinality(Stations) \in Nat /\ IsFiniteSet(Stations)
  BY <1>1, StationAssumption, FS_CardinalityType
<1>3. IsFiniteSet(1..n) /\ Cardinality(1..n) = n
  <2> HIDE DEF n
  <2>1. 1 \in Int /\ n \in Int
    BY <1>2
  <2>2. Cardinality(1..n) = IF 1 > n THEN 0 ELSE n - 1 + 1
    BY <2>1, FS_Interval
  <2> QED
    BY <1>2, <2>1, <2>2, FS_Interval
<1>4. f \in [1..n -> Stations]
  BY DEF WayFrom
<1>5. SUFFICES ASSUME Cardinality(Stations) < n PROVE FALSE
  BY <1>1, <1>2
<1>6. PICK i \in 1..n, j \in 1..n : i # j /\ f[i] = f[j]
  <2> HIDE DEF f, n
  <2>1. Cardinality(Stations) < Cardinality(1..n)
    BY <1>3, <1>5
  <2> QED
    BY <1>2, <1>3, <1>4, <2>1, FS_PigeonHole
<1>7. w[i] = w[j] /\ i \in 1..Len(w) /\ j \in 1..Len(w)
  BY <1>1, <1>6
<1> QED
  BY <1>1, <1>6, <1>7 DEF WayFrom, IsInjective

\* The ways of the property are these ways.
LEMMA WaysAre ==
    ASSUME subs \in [Stations -> Seq(Hosts)], NEW s \in Stations, NEW w
    PROVE  w \in Ways(s) <=> WayFrom(Below(subs), s, {}, w)
<1> DEFINE N == Cardinality(Stations) + 1
<1>1. N \in Nat
  BY StationAssumption, FS_CardinalityType
<1>2. ASSUME NEW v \in Seq(Hosts)
      PROVE  IsWay(v) <=> /\ IsInjective(v)
                          /\ \A i \in 1..(Len(v) - 1) : v[i] \in Stations /\ v[i + 1] \in Below(subs)[v[i]]
  BY DEF IsWay, Below
<1>3. ASSUME w \in Ways(s) PROVE WayFrom(Below(subs), s, {}, w)
  <2>1. PICK m \in 1..N : w \in [1..m -> Hosts] /\ w[1] = s /\ IsWay(w)
    BY <1>3 DEF Ways
  <2>2. w \in Seq(Hosts) /\ Len(w) = m /\ m > 0
    BY <1>1, <2>1
  <2> QED
    BY <1>2, <2>1, <2>2 DEF WayFrom
<1>4. ASSUME WayFrom(Below(subs), s, {}, w) PROVE w \in Ways(s)
  <2>1. w \in Seq(Hosts) /\ Len(w) \in Nat /\ Len(w) > 0 /\ w[1] = s
    BY <1>4 DEF WayFrom
  <2>2. Len(w) <= N
    BY <1>4, WayBounded
  <2>3. Len(w) \in 1..N /\ w \in [1..Len(w) -> Hosts]
    BY <1>1, <2>1, <2>2
  <2>4. IsWay(w)
    BY <1>2, <1>4, <2>1 DEF WayFrom
  <2> QED
    BY <2>1, <2>3, <2>4 DEF Ways
<1> QED
  BY <1>3, <1>4

--------------------------------------------------------------------------------
(* StationRouting: the tools at the ends of ways.                               *)

GroupOf(h) == IF h \in Servers THEN h ELSE Given
\* What is listed.
Listed == [name : Labels, tool : Hosts \X Labels, group : Hosts \cup {Given, Idle}]
OwnTools(h) == {Entry(n, h, n, GroupOf(h)) : n \in Native[h]}

\* A tool a station has by its sub-stations B, without passing a station of A.
ToolFrom(B, s, A, e) ==
    \E w \in Seq(Hosts) :
        /\ WayFrom(B, s, A, w)
        /\ \E n \in Native[Host(w)] : e = Entry(NameAlong(w, n), Host(w), n, GroupOf(Host(w)))
Passed(s, c, e) == Entry(GlobalName(s, c, e.name), e.tool[1], e.tool[2], e.group)

\* A tool that station s, asked by the stations of A, has of sub-station c.
Via(B, s, A, c, e) == \E g : ToolFrom(B, c, A \cup {s}, g) /\ e = Passed(s, c, g)
HasVia(B, s, A, e) == s \in Stations /\ \E c \in B[s] : c \in Hosts /\ Via(B, s, A, c, e)

LEMMA HostOfWay ==
    ASSUME NEW B, NEW s, NEW A, NEW w, WayFrom(B, s, A, w)
    PROVE  Host(w) \in Hosts /\ w \in Seq(Hosts)
<1>1. w \in Seq(Hosts) /\ Len(w) \in Nat /\ Len(w) > 0
  BY DEF WayFrom
<1>2. Len(w) \in 1..Len(w)
  BY <1>1
<1> QED
  BY <1>1, <1>2 DEF Host, Last

\* Its own tools are among them.
LEMMA ToolNative ==
    ASSUME NEW B, NEW s \in Hosts, NEW A, s \notin A, NEW e \in OwnTools(s)
    PROVE  ToolFrom(B, s, A, e)
<1>1. PICK n \in Native[s] : e = Entry(n, s, n, GroupOf(s))
  BY DEF OwnTools
<1>2. n \in Labels
  BY NativeAreLabels
<1>3. WayFrom(B, s, A, <<s>>) /\ Host(<<s>>) = s /\ <<s>> \in Seq(Hosts)
  BY WayOfOne
<1>4. NameAlong(<<s>>, n) = n
  BY <1>2, WayOfOne, NameAlongIs
<1> QED
  BY <1>1, <1>3, <1>4 DEF ToolFrom

\* So are those of its sub-stations, under the names it gives them.
LEMMA ToolPassed ==
    ASSUME NEW B, NEW s \in Stations, NEW A, s \notin A, NEW c \in B[s], NEW e,
           ToolFrom(B, c, A \cup {s}, e)
    PROVE  ToolFrom(B, s, A, Passed(s, c, e))
<1>1. PICK v \in Seq(Hosts) : WayFrom(B, c, A \cup {s}, v)
         /\ \E n \in Native[Host(v)] : e = Entry(NameAlong(v, n), Host(v), n, GroupOf(Host(v)))
  BY DEF ToolFrom
<1>2. PICK n \in Native[Host(v)] : e = Entry(NameAlong(v, n), Host(v), n, GroupOf(Host(v)))
  BY <1>1
<1>3. n \in Labels
  BY <1>1, <1>2, HostOfWay, NativeAreLabels
<1>4. PICK w \in Seq(Hosts) : /\ WayFrom(B, s, A, w) /\ ~(Len(w) < 2) /\ Host(w) = Host(v)
                              /\ Tail(w) = v /\ w[1] = s /\ w[2] = c
  BY <1>1, WayLonger
<1>5. NameAlong(w, n) = GlobalName(s, c, NameAlong(v, n))
  BY <1>3, <1>4, NameAlongIs
<1>6. Passed(s, c, e) = Entry(NameAlong(w, n), Host(w), n, GroupOf(Host(w)))
  BY <1>2, <1>4, <1>5 DEF Passed, Entry, Tool
<1> QED
  BY <1>4, <1>6 DEF ToolFrom

\* There are no others.
LEMMA ToolCases ==
    ASSUME NEW B, NEW s, NEW A, NEW e, ToolFrom(B, s, A, e)
    PROVE  /\ s \in Hosts /\ s \notin A
           /\ e \in OwnTools(s) \/ HasVia(B, s, A, e)
<1>1. PICK w \in Seq(Hosts) : WayFrom(B, s, A, w)
         /\ \E n \in Native[Host(w)] : e = Entry(NameAlong(w, n), Host(w), n, GroupOf(Host(w)))
  BY DEF ToolFrom
<1>2. PICK n \in Native[Host(w)] : e = Entry(NameAlong(w, n), Host(w), n, GroupOf(Host(w)))
  BY <1>1
<1>3. n \in Labels
  BY <1>1, <1>2, HostOfWay, NativeAreLabels
<1>4. CASE Len(w) < 2
  <2>1. s \in Hosts /\ s \notin A /\ Host(w) = s
    BY <1>1, <1>4, WayEmpty
  <2>2. NameAlong(w, n) = n
    BY <1>3, <1>4, NameAlongIs
  <2> QED
    BY <1>2, <2>1, <2>2 DEF OwnTools
<1>5. CASE ~(Len(w) < 2)
  <2> DEFINE c == w[2]
             v == Tail(w)
             g == Entry(NameAlong(v, n), Host(v), n, GroupOf(Host(v)))
  <2>1. /\ s \in Stations /\ s \notin A /\ c \in B[s] /\ c \in Hosts
        /\ WayFrom(B, c, A \cup {s}, v) /\ Host(v) = Host(w) /\ w[1] = s /\ v \in Seq(Hosts)
    BY <1>1, <1>5, WayTail, ZenonT(60)
  <2>2. NameAlong(w, n) = GlobalName(s, c, NameAlong(v, n))
    BY <1>3, <1>5, <2>1, NameAlongIs
  <2>3. ToolFrom(B, c, A \cup {s}, g)
    BY <1>2, <2>1 DEF ToolFrom
  <2>4. e = Passed(s, c, g)
    BY <1>2, <2>1, <2>2 DEF Passed, Entry, Tool
  <2>5. s \in Hosts
    BY <2>1 DEF Hosts
  <2> QED
    BY <2>1, <2>3, <2>4, <2>5 DEF HasVia, Via
<1> QED
  BY <1>4, <1>5

\* A server has its own alone.
LEMMA ToolOfServer ==
    ASSUME NEW B, NEW c \in Servers, NEW A, c \notin A, NEW e
    PROVE  ToolFrom(B, c, A, e) <=> e \in OwnTools(c)
<1>1. c \in Hosts /\ c \notin Stations
  BY StationAssumption DEF Hosts
<1> QED
  BY <1>1, ToolNative, ToolCases DEF HasVia

\* All are tools that may be listed.
LEMMA NativeListed ==
    ASSUME NEW h \in Hosts
    PROVE  OwnTools(h) \subseteq Listed /\ (h \in Stations => OwnTools(h) = NativeEntries(h))
<1>1. \A n \in Native[h] : n \in Labels
  BY NativeAreLabels
<1>2. GroupOf(h) \in Hosts \cup {Given, Idle}
  BY DEF GroupOf
<1>3. h \in Stations => GroupOf(h) = Given
  BY StationAssumption DEF GroupOf
<1> QED
  BY <1>1, <1>2, <1>3 DEF OwnTools, NativeEntries, Listed, Entry, Tool

LEMMA PassedListed ==
    ASSUME NEW s \in Hosts, NEW c \in Hosts, NEW e \in Listed
    PROVE  /\ Passed(s, c, e) \in Listed
           /\ Passed(s, c, e) = [e EXCEPT !.name = GlobalName(s, c, e.name)]
           /\ Passed(s, c, e).name = GlobalName(s, c, e.name)
<1>1. GlobalName(s, c, e.name) \in Labels
  BY GlobalIsLabel DEF Listed
<1>2. e = [name |-> e.name, tool |-> e.tool, group |-> e.group] /\ e.tool = <<e.tool[1], e.tool[2]>>
      /\ e.tool \in Hosts \X Labels /\ e.group \in Hosts \cup {Given, Idle}
  BY DEF Listed
<1>3. Passed(s, c, e) = [name |-> GlobalName(s, c, e.name), tool |-> e.tool, group |-> e.group]
  BY <1>2 DEF Passed, Entry, Tool
<1> QED
  BY <1>1, <1>2, <1>3 DEF Listed

\* The tools of the property are these tools.
LEMMA AllToolsAre ==
    ASSUME subs \in [Stations -> Seq(Hosts)], NEW s \in Stations, NEW e
    PROVE  e \in AllTools(s) <=> ToolFrom(Below(subs), s, {}, e)
<1>1. \A w : w \in Ways(s) <=> WayFrom(Below(subs), s, {}, w)
  BY WaysAre
<1>2. e \in AllTools(s) <=> \E w \in Ways(s) : e \in EntriesAlong(w)
  BY DEF AllTools
<1>3. \A w : e \in EntriesAlong(w) <=>
         \E n \in Native[Host(w)] : e = Entry(NameAlong(w, n), Host(w), n, GroupOf(Host(w)))
  BY DEF EntriesAlong, GroupOf
<1>4. \A w : WayFrom(Below(subs), s, {}, w) => w \in Seq(Hosts)
  BY HostOfWay
<1> QED
  BY <1>1, <1>2, <1>3, <1>4 DEF ToolFrom

--------------------------------------------------------------------------------
(* StationRouting: where names lead.                                            *)

\* K is a set of <<host, stations passed, name, tool>>: each of its names is at
\* the host of its tool, or a route leads on to another, or a route of it moved.
Arrived(s, n, t) == n \in Native[s] /\ t = Tool(s, n)
Onward(R, K, s, A, n, t) ==
    /\ s \in Stations /\ n \notin Native[s] /\ n \in DOMAIN R[s]
    /\ <<R[s][n], A \cup {s}, LocalName(s, R[s][n], n), t>> \in K
Sound(R, M, K) == \A s, A, n, t : <<s, A, n, t>> \in K =>
    /\ s \in Hosts /\ s \notin A
    /\ <<s, n>> \in M \/ Arrived(s, n, t) \/ Onward(R, K, s, A, n, t)
\* By routes R the name n leads from s to the tool t, passing no station of A,
\* unless one of M is on the way.
Leads(R, M, s, A, n, t) == \E K : Sound(R, M, K) /\ <<s, A, n, t>> \in K
LeadsOn(R, M, s, A, c, n, t) == Leads(R, M, c, A \cup {s}, LocalName(s, c, n), t)

LEMMA LeadsArrived ==
    ASSUME NEW R, NEW M, NEW s \in Hosts, NEW A, s \notin A, NEW n \in Native[s]
    PROVE  Leads(R, M, s, A, n, Tool(s, n))
<1>1. Sound(R, M, {<<s, A, n, Tool(s, n)>>})
  BY DEF Sound, Arrived
<1> QED
  BY <1>1 DEF Leads

LEMMA LeadsCases ==
    ASSUME NEW R, NEW M, NEW s, NEW A, NEW n, NEW t, Leads(R, M, s, A, n, t)
    PROVE  /\ s \in Hosts /\ s \notin A
           /\ \/ <<s, n>> \in M
              \/ Arrived(s, n, t)
              \/ s \in Stations /\ n \notin Native[s] /\ n \in DOMAIN R[s] /\ LeadsOn(R, M, s, A, R[s][n], n, t)
BY DEF Leads, Sound, Onward, LeadsOn

LEMMA LeadsOnward ==
    ASSUME NEW R, NEW M, NEW s \in Stations, NEW A, s \notin A, NEW n, n \notin Native[s],
           n \in DOMAIN R[s], NEW t, LeadsOn(R, M, s, A, R[s][n], n, t)
    PROVE  Leads(R, M, s, A, n, t)
<1>1. PICK K : Sound(R, M, K) /\ <<R[s][n], A \cup {s}, LocalName(s, R[s][n], n), t>> \in K
  BY DEF Leads, LeadsOn
<1> DEFINE J == K \cup {<<s, A, n, t>>}
<1>2. s \in Hosts
  BY DEF Hosts
<1>3. ASSUME NEW z, NEW C, NEW m, NEW u, <<z, C, m, u>> \in J
      PROVE  /\ z \in Hosts /\ z \notin C
             /\ <<z, m>> \in M \/ Arrived(z, m, u) \/ Onward(R, J, z, C, m, u)
  <2>1. CASE <<z, C, m, u>> \in K
    BY <1>1, <2>1 DEF Sound, Onward
  <2>2. CASE <<z, C, m, u>> = <<s, A, n, t>>
    <3>1. Onward(R, J, s, A, n, t)
      BY <1>1 DEF Onward
    <3>2. z = s /\ C = A /\ m = n /\ u = t
      BY <2>2
    <3> QED
      BY <1>2, <3>1, <3>2
  <2> QED
    BY <1>3, <2>1, <2>2
<1>4. Sound(R, M, J)
  BY <1>3 DEF Sound
<1> QED
  BY <1>4 DEF Leads

\* Routes stay, or are among those that moved.
RoutesStay(R, M, Q, N) ==
    /\ M \subseteq N
    /\ \A s \in Stations : \A n \in DOMAIN R[s] :
          <<s, n>> \notin N => n \in DOMAIN Q[s] /\ Q[s][n] = R[s][n]

LEMMA LeadsStays ==
    ASSUME NEW R, NEW M, NEW Q, NEW N, RoutesStay(R, M, Q, N),
           NEW s, NEW A, NEW n, NEW t, Leads(R, M, s, A, n, t)
    PROVE  Leads(Q, N, s, A, n, t)
<1>1. PICK K : Sound(R, M, K) /\ <<s, A, n, t>> \in K
  BY DEF Leads
<1>2. ASSUME NEW z, NEW C, NEW m, NEW u, <<z, C, m, u>> \in K
      PROVE  /\ z \in Hosts /\ z \notin C
             /\ <<z, m>> \in N \/ Arrived(z, m, u) \/ Onward(Q, K, z, C, m, u)
  <2>1. /\ z \in Hosts /\ z \notin C
        /\ <<z, m>> \in M \/ Arrived(z, m, u) \/ Onward(R, K, z, C, m, u)
    BY <1>1, <1>2 DEF Sound
  <2>2. CASE Onward(R, K, z, C, m, u) /\ <<z, m>> \notin N
    <3>1. m \in DOMAIN Q[z] /\ Q[z][m] = R[z][m]
      BY <2>2 DEF RoutesStay, Onward
    <3> QED
      BY <2>1, <2>2, <3>1 DEF Onward
  <2> QED
    BY <2>1, <2>2 DEF RoutesStay
<1>3. Sound(Q, N, K)
  BY <1>2 DEF Sound
<1> QED
  BY <1>1, <1>3 DEF Leads

\* What a station stores replaces the routes of it that differ.
Stored(R, M, s, T, Q, N) ==
    /\ Q = [R EXCEPT ![s] = T]
    /\ N = M \cup {<<s, n>> : n \in {m \in DOMAIN R[s] : m \notin DOMAIN T \/ T[m] # R[s][m]}}

LEMMA StoredStays ==
    ASSUME NEW R, DOMAIN R = Stations, NEW M, NEW s \in Stations, NEW T, NEW Q, NEW N,
           Stored(R, M, s, T, Q, N)
    PROVE  RoutesStay(R, M, Q, N) /\ Q[s] = T
<1>1. Q[s] = T /\ \A z \in Stations : z # s => Q[z] = R[z]
  BY DEF Stored
<1>2. \A n \in DOMAIN R[s] : n \notin DOMAIN T \/ T[n] # R[s][n] => <<s, n>> \in N
  BY DEF Stored
<1>3. M \subseteq N
  BY DEF Stored
<1> QED
  BY <1>1, <1>2, <1>3 DEF RoutesStay

\* A station finds again what it made a name of.
LEMMA LocalOfGlobal ==
    ASSUME NEW s, NEW c, NEW n \in Labels
    PROVE  LocalName(s, c, GlobalName(s, c, n)) = n
<1>1. CASE Prefix[<<s, c>>] = NoPrefix
  BY <1>1 DEF LocalName, GlobalName
<1>2. CASE Prefix[<<s, c>>] # NoPrefix
  <2> DEFINE P == Prefix[<<s, c>>]
             g == <<P>> \o n
  <2>1. n \in Seq(LabelParts \cup {P}) /\ <<P>> \in Seq(LabelParts \cup {P})
    BY DEF Labels
  <2>2. g \in Seq(LabelParts \cup {P}) /\ Len(g) = Len(n) + 1 /\ g[1] = P
    BY <2>1
  <2>3. g # <<>> /\ Head(g) = P
    BY <2>1, <2>2
  <2>4. Tail(g) = n
    BY <2>1, <2>2
  <2> QED
    BY <1>2, <2>3, <2>4 DEF LocalName, GlobalName
<1> QED
  BY <1>1, <1>2

LEMMA LocalIsLabel ==
    ASSUME NEW s, NEW c, NEW n \in Labels
    PROVE  LocalName(s, c, n) \in Labels
BY DEF LocalName, Labels

--------------------------------------------------------------------------------
(* StationRouting: frames.                                                      *)

Tables == UNION {[D -> Hosts] : D \in SUBSET Labels}
Frames == [at : Stations, chain : Seq(Stations), left : Seq(Hosts), found : SUBSET Listed,
           table : Tables, whole : BOOLEAN]

Gives(B, s, A, D, e) == e \in OwnTools(s) \/ \E c \in D : Via(B, s, A, c, e)
\* A list L of tools, when those of sub-stations D have come.
ListIs(B, s, A, D, L, whole) ==
    /\ OwnTools(s) \subseteq L
    /\ \A e \in L : Gives(B, s, A, D, e)
    /\ \A e, g \in L : e.name = g.name => e = g
    /\ whole => \A e : Gives(B, s, A, D, e) => e.name \in Names(L)
TableIs(R, M, s, A, T, L) ==
    /\ \A n \in DOMAIN T : n \notin Native[s] /\ n \in Names(L)
    /\ \A e \in L : e.name \notin Native[s] =>
          e.name \in DOMAIN T /\ LeadsOn(R, M, s, A, T[e.name], e.name, e.tool)
Come(B, s, left, D) == D \subseteq B[s] /\ B[s] \subseteq D \cup Range(left)
FrameIs(B, R, M, f) ==
    /\ f.at \notin Range(f.chain)
    /\ Range(f.left) \subseteq B[f.at]
    /\ \E D : Come(B, f.at, f.left, D) /\ ListIs(B, f.at, Range(f.chain), D, f.found, f.whole)
    /\ TableIs(R, M, f.at, Range(f.chain), f.table, f.found)

LEMMA FrameStays ==
    ASSUME NEW B, NEW R, NEW M, NEW Q, NEW N, RoutesStay(R, M, Q, N), NEW f, FrameIs(B, R, M, f)
    PROVE  FrameIs(B, Q, N, f)
<1>1. ASSUME NEW s, NEW A, NEW c, NEW n, NEW t, LeadsOn(R, M, s, A, c, n, t)
      PROVE  LeadsOn(Q, N, s, A, c, n, t)
  BY <1>1, LeadsStays DEF LeadsOn
<1>2. TableIs(Q, N, f.at, Range(f.chain), f.table, f.found)
  BY <1>1 DEF FrameIs, TableIs
<1> QED
  BY <1>2 DEF FrameIs

\* What sub-station c adds to a frame.
New(f, E) == {e \in {Passed(f.at, Head(f.left), g) : g \in E} : e.name \notin Names(f.found)}
Longer(T, L, c) == [n \in DOMAIN T \cup Names(L) |-> IF n \in DOMAIN T THEN T[n] ELSE c]
Taken(f, E, w) ==
    [at |-> f.at, chain |-> f.chain, left |-> Tail(f.left), found |-> f.found \cup New(f, E),
     table |-> Longer(f.table, New(f, E), Head(f.left)), whole |-> f.whole /\ w]

LEMMA NextIs ==
    ASSUME NEW f \in Frames, f.left # <<>>
    PROVE  /\ Head(f.left) \in Hosts /\ Head(f.left) \in Range(f.left) /\ Tail(f.left) \in Seq(Hosts)
           /\ Range(f.left) \subseteq Range(Tail(f.left)) \cup {Head(f.left)}
           /\ Range(Tail(f.left)) \subseteq Range(f.left)
<1> DEFINE q == f.left
           u == Tail(q)
<1>1. q \in Seq(Hosts) /\ q # <<>>
  BY DEF Frames
<1> HIDE DEF q
<1>2. Len(q) \in Nat /\ Len(q) > 0 /\ u \in Seq(Hosts) /\ Len(u) = Len(q) - 1 /\ Head(q) = q[1]
      /\ \A i \in 1..Len(u) : u[i] = q[i + 1]
  BY <1>1
<1>3. DOMAIN q = 1..Len(q) /\ DOMAIN u = 1..Len(u)
  BY <1>1, <1>2
<1>4. \A i \in 1..Len(u) : i + 1 \in 1..Len(q)
  BY <1>2
<1>5. \A i \in 1..Len(q) : i = 1 \/ (i - 1 \in 1..Len(u) /\ (i - 1) + 1 = i)
  BY <1>2
<1>6. 1 \in 1..Len(q) /\ q[1] \in Hosts
  BY <1>1, <1>2
<1>7. Range(u) \subseteq Range(q)
  BY <1>2, <1>3, <1>4 DEF Range
<1>8. Range(q) \subseteq Range(u) \cup {Head(q)}
  <2> SUFFICES ASSUME NEW i \in 1..Len(q) PROVE q[i] \in Range(u) \cup {Head(q)}
    BY <1>3 DEF Range
  <2>1. CASE i = 1
    BY <1>2, <2>1
  <2>2. CASE i # 1
    <3>1. i - 1 \in 1..Len(u) /\ u[i - 1] = q[i]
      BY <1>2, <1>5, <2>2
    <3> QED
      BY <1>3, <3>1 DEF Range
  <2> QED
    BY <2>1, <2>2
<1>9. Head(q) \in Range(q)
  BY <1>2, <1>3, <1>6 DEF Range
<1> QED
  BY <1>2, <1>6, <1>7, <1>8, <1>9 DEF q

\* The tools of sub-stations have a group.
LEMMA GroupsGiven ==
    ASSUME NEW B, NEW s, NEW A, NEW e, ToolFrom(B, s, A, e)
    PROVE  e.group # Idle
<1>1. PICK w : WayFrom(B, s, A, w) /\ \E n \in Native[Host(w)] : e.group = GroupOf(Host(w))
  BY DEF ToolFrom, Entry
<1>2. Host(w) \in Hosts
  BY <1>1, HostOfWay
<1> QED
  BY <1>1, <1>2, StationAssumption DEF GroupOf

\* A list that has taken what a sub-station lists.
Lists(B, R, M, c, A, E, w) ==
    /\ E \subseteq Listed
    /\ \A g \in E : ToolFrom(B, c, A, g) /\ Leads(R, M, c, A, g.name, g.tool)
    /\ \A e, g \in E : e.name = g.name => e = g
    /\ w => \A g : ToolFrom(B, c, A, g) => g.name \in Names(E)

LEMMA ListTakes ==
    ASSUME NEW B, NEW R, NEW M, NEW f \in Frames, f.left # <<>>, NEW E, NEW w \in BOOLEAN,
           Lists(B, R, M, Head(f.left), Range(f.chain) \cup {f.at}, E, w), NEW D,
           ListIs(B, f.at, Range(f.chain), D, f.found, f.whole)
    PROVE  ListIs(B, f.at, Range(f.chain), D \cup {Head(f.left)}, f.found \cup New(f, E), f.whole /\ w)
<1> DEFINE s == f.at
           A == Range(f.chain)
           c == Head(f.left)
           L == f.found \cup New(f, E)
<1>1. s \in Hosts /\ c \in Hosts /\ f.found \subseteq Listed /\ f.whole \in BOOLEAN
  BY NextIs DEF Frames, Hosts
<1>2. \A g \in Listed : Passed(s, c, g).name = GlobalName(s, c, g.name)
  BY <1>1, PassedListed
<1>3. \A e : e \in New(f, E) <=> e.name \notin Names(f.found) /\ \E g \in E : e = Passed(s, c, g)
  BY DEF New
<1>4. Names(L) = Names(f.found) \cup Names(New(f, E))
  BY DEF Names
<1>5. \A e \in L : Gives(B, s, A, D \cup {c}, e)
  BY <1>3 DEF ListIs, Lists, Gives, Via
<1>6. ASSUME NEW e \in L, NEW g \in L, e.name = g.name PROVE e = g
  <2>1. CASE e \in f.found /\ g \in f.found
    BY <1>6, <2>1 DEF ListIs
  <2>2. CASE e \in New(f, E) /\ g \in New(f, E)
    <3>1. PICK x \in E, y \in E : e = Passed(s, c, x) /\ g = Passed(s, c, y)
      BY <1>3, <2>2
    <3>2. x \in Listed /\ y \in Listed /\ x.name \in Labels /\ y.name \in Labels
      BY DEF Lists, Listed
    <3>3. GlobalName(s, c, x.name) = GlobalName(s, c, y.name)
      BY <1>2, <1>6, <3>1, <3>2
    <3>4. x.name = y.name
      BY <3>2, <3>3, GlobalTells
    <3> QED
      BY <3>1, <3>4 DEF Lists
  <2>3. \A x \in f.found : x.name \in Names(f.found)
    BY DEF Names
  <2> QED
    BY <1>3, <1>6, <2>1, <2>2, <2>3
<1>7. ASSUME f.whole, w, NEW e, Gives(B, s, A, D \cup {c}, e) PROVE e.name \in Names(L)
  <2>1. CASE Gives(B, s, A, D, e)
    BY <1>4, <1>7, <2>1 DEF ListIs
  <2>2. CASE Via(B, s, A, c, e)
    <3>1. PICK g : ToolFrom(B, c, A \cup {s}, g) /\ e = Passed(s, c, g)
      BY <2>2 DEF Via
    <3>2. PICK x \in E : x.name = g.name
      BY <1>7, <3>1 DEF Lists, Names
    <3>3. x \in Listed
      BY DEF Lists
    <3>4. Passed(s, c, x).name = e.name
      BY <3>1, <3>2 DEF Passed, Entry
    <3>5. Passed(s, c, x) \in New(f, E) \/ e.name \in Names(f.found)
      BY <1>3, <3>4
    <3> QED
      BY <1>4, <3>4, <3>5 DEF Names
  <2> QED
    BY <1>7, <2>1, <2>2 DEF Gives
<1> QED
  BY <1>5, <1>6, <1>7 DEF ListIs

LEMMA TableTakes ==
    ASSUME NEW B, NEW R, NEW M, NEW f \in Frames, f.left # <<>>, NEW E, NEW w \in BOOLEAN,
           Lists(B, R, M, Head(f.left), Range(f.chain) \cup {f.at}, E, w), NEW D,
           ListIs(B, f.at, Range(f.chain), D, f.found, f.whole),
           TableIs(R, M, f.at, Range(f.chain), f.table, f.found)
    PROVE  TableIs(R, M, f.at, Range(f.chain), Longer(f.table, New(f, E), Head(f.left)),
                   f.found \cup New(f, E))
<1> DEFINE s == f.at
           A == Range(f.chain)
           c == Head(f.left)
           T == f.table
           U == Longer(T, New(f, E), c)
           L == f.found \cup New(f, E)
<1>1. s \in Hosts /\ c \in Hosts /\ f.found \subseteq Listed
  BY NextIs DEF Frames, Hosts
<1>2. DOMAIN U = DOMAIN T \cup Names(New(f, E)) /\ \A n \in DOMAIN U : U[n] = IF n \in DOMAIN T THEN T[n] ELSE c
  BY DEF Longer
<1>3. Names(L) = Names(f.found) \cup Names(New(f, E)) /\ Names(New(f, E)) \cap Names(f.found) = {}
  BY DEF Names, New
<1>4. \A n \in Native[s] : n \in Names(f.found)
  <2> SUFFICES ASSUME NEW n \in Native[s] PROVE n \in Names(f.found)
    OBVIOUS
  <2>1. Entry(n, s, n, GroupOf(s)) \in f.found
    BY DEF ListIs, OwnTools
  <2>2. Entry(n, s, n, GroupOf(s)).name = n
    BY DEF Entry
  <2> QED
    BY <2>1, <2>2 DEF Names
<1>5. ASSUME NEW n \in DOMAIN U PROVE n \notin Native[s] /\ n \in Names(L)
  BY <1>2, <1>3, <1>4, <1>5 DEF TableIs
<1>6. ASSUME NEW e \in L, e.name \notin Native[s]
      PROVE  e.name \in DOMAIN U /\ LeadsOn(R, M, s, A, U[e.name], e.name, e.tool)
  <2>1. CASE e \in f.found
    BY <1>2, <1>6, <2>1 DEF TableIs
  <2>2. CASE e \in New(f, E)
    <3>1. PICK g \in E : e = Passed(s, c, g)
      BY <2>2 DEF New
    <3>2. g \in Listed /\ g.name \in Labels /\ g.tool = <<g.tool[1], g.tool[2]>>
      BY DEF Lists, Listed
    <3>3. e.name = GlobalName(s, c, g.name) /\ e.tool = g.tool
      BY <3>1, <3>2 DEF Passed, Entry, Tool
    <3>4. e.name \in Names(New(f, E)) /\ e.name \notin Names(f.found)
      BY <1>3, <2>2 DEF Names
    <3>5. e.name \in DOMAIN U /\ U[e.name] = c
      BY <1>2, <3>4 DEF TableIs
    <3>6. LocalName(s, c, e.name) = g.name
      BY <3>2, <3>3, LocalOfGlobal
    <3>7. Leads(R, M, c, A \cup {s}, g.name, g.tool)
      BY DEF Lists
    <3> QED
      BY <3>3, <3>5, <3>6, <3>7 DEF LeadsOn
  <2> QED
    BY <2>1, <2>2
<1> QED
  BY <1>5, <1>6 DEF TableIs

LEMMA FrameTakes ==
    ASSUME NEW B, NEW R, NEW M, NEW f \in Frames, f.left # <<>>, NEW E, NEW w \in BOOLEAN,
           Lists(B, R, M, Head(f.left), Range(f.chain) \cup {f.at}, E, w), FrameIs(B, R, M, f)
    PROVE  Taken(f, E, w) \in Frames /\ FrameIs(B, R, M, Taken(f, E, w))
<1> DEFINE s == f.at
           A == Range(f.chain)
           c == Head(f.left)
           U == Longer(f.table, New(f, E), c)
           L == f.found \cup New(f, E)
           k == Taken(f, E, w)
<1>1. /\ s \in Hosts /\ c \in Hosts /\ f.found \subseteq Listed /\ c \in Range(f.left)
      /\ s \in Stations /\ f.chain \in Seq(Stations) /\ f.table \in Tables /\ f.whole \in BOOLEAN
      /\ Tail(f.left) \in Seq(Hosts)
  BY NextIs DEF Frames, Hosts
<1>2. k.at = s /\ k.chain = f.chain /\ k.left = Tail(f.left) /\ k.found = L /\ k.table = U /\ k.whole = (f.whole /\ w)
  BY DEF Taken
<1>3. New(f, E) \subseteq Listed
  BY <1>1, PassedListed DEF New, Lists
<1>4. U \in Tables
  <2>1. PICK X \in SUBSET Labels : f.table \in [X -> Hosts]
    BY <1>1 DEF Tables
  <2>2. Names(New(f, E)) \subseteq Labels
    BY <1>3 DEF Names, Listed
  <2>3. U \in [X \cup Names(New(f, E)) -> Hosts]
    BY <1>1, <2>1 DEF Longer
  <2> QED
    BY <2>1, <2>2, <2>3 DEF Tables
<1>5. k \in Frames
  BY <1>1, <1>3, <1>4 DEF Taken, Frames
<1>6. PICK D : Come(B, s, f.left, D) /\ ListIs(B, s, A, D, f.found, f.whole)
  BY DEF FrameIs
<1>7. ListIs(B, s, A, D \cup {c}, L, f.whole /\ w)
  BY <1>6, ListTakes
<1>8. TableIs(R, M, s, A, U, L)
  BY <1>6, TableTakes DEF FrameIs
<1>9. Come(B, s, Tail(f.left), D \cup {c})
  <2>1. Range(f.left) \subseteq Range(Tail(f.left)) \cup {c} /\ c \in B[s]
    BY <1>1, NextIs DEF FrameIs
  <2> QED
    BY <1>6, <2>1 DEF Come
<1>10. s \notin A /\ Range(Tail(f.left)) \subseteq B[s]
  BY NextIs DEF FrameIs
<1>11. FrameIs(B, R, M, k)
  <2> HIDE DEF k, L, U
  <2> QED
    BY <1>2, <1>7, <1>8, <1>9, <1>10 DEF FrameIs
<1> QED
  BY <1>5, <1>11

LEMMA FrameSkips ==
    ASSUME NEW B, NEW R, NEW M, NEW f \in Frames, f.left # <<>>, NEW w \in BOOLEAN,
           FrameIs(B, R, M, f), w => Head(f.left) \in Range(f.chain) \cup {f.at}
    PROVE  Skipped(f, w) \in Frames /\ FrameIs(B, R, M, Skipped(f, w))
<1> DEFINE s == f.at
           A == Range(f.chain)
           c == Head(f.left)
           k == Skipped(f, w)
<1>1. /\ c \in Range(f.left) /\ f.whole \in BOOLEAN /\ Tail(f.left) \in Seq(Hosts)
  BY NextIs DEF Frames
<1>2. k = [at |-> f.at, chain |-> f.chain, left |-> Tail(f.left), found |-> f.found,
           table |-> f.table, whole |-> f.whole /\ w]
  <2> DEFINE l == Tail(f.left)
             b == (f.whole /\ w)
  <2>1. k = [f EXCEPT !.left = l, !.whole = b]
    BY DEF Skipped
  <2> HIDE DEF l, b, k
  <2>2. k = [at |-> f.at, chain |-> f.chain, left |-> l, found |-> f.found, table |-> f.table, whole |-> b]
    BY <2>1 DEF Frames
  <2> QED
    BY <2>2 DEF l, b
<1>3. k.at = s /\ k.chain = f.chain /\ k.left = Tail(f.left) /\ k.found = f.found /\ k.table = f.table
      /\ k.whole = (f.whole /\ w)
  BY <1>2
<1>4. k \in Frames
  BY <1>1, <1>2 DEF Frames
<1>5. PICK D : Come(B, s, f.left, D) /\ ListIs(B, s, A, D, f.found, f.whole)
  BY DEF FrameIs
<1>6. ListIs(B, s, A, D \cup {c}, f.found, f.whole /\ w)
  <2>1. w => \A e : ~ Via(B, s, A, c, e)
    BY ToolCases DEF Via
  <2> QED
    BY <1>5, <2>1 DEF ListIs, Gives
<1>7. Come(B, s, Tail(f.left), D \cup {c})
  <2>1. Range(f.left) \subseteq Range(Tail(f.left)) \cup {c} /\ c \in B[s]
    BY <1>1, NextIs DEF FrameIs
  <2> QED
    BY <1>5, <2>1 DEF Come
<1>8. s \notin A /\ Range(Tail(f.left)) \subseteq B[s]
  BY NextIs DEF FrameIs
<1>9. FrameIs(B, R, M, k)
  <2> HIDE DEF k
  <2> QED
    BY <1>3, <1>6, <1>7, <1>8 DEF FrameIs
<1> QED
  BY <1>4, <1>9

--------------------------------------------------------------------------------
(* StationRouting: stacks of frames.                                            *)

\* What a frame has to do with the one above it.
Asks(f, g) == f.left # <<>> /\ Head(f.left) = g.at /\ g.chain = Append(f.chain, f.at)
StackIs(B, R, M, k) ==
    /\ k \in Seq(Frames)
    /\ \A i \in 1..Len(k) : FrameIs(B, R, M, k[i])
    /\ \A i \in 1..(Len(k) - 1) : Asks(k[i], k[i + 1])

LEMMA StackStays ==
    ASSUME NEW B, NEW R, NEW M, NEW Q, NEW N, RoutesStay(R, M, Q, N), NEW k, StackIs(B, R, M, k)
    PROVE  StackIs(B, Q, N, k)
BY FrameStays DEF StackIs

LEMMA StackNone ==
    ASSUME NEW B, NEW R, NEW M PROVE StackIs(B, R, M, <<>>)
BY DEF StackIs

LEMMA StackOne ==
    ASSUME NEW B, NEW R, NEW M, NEW g \in Frames, FrameIs(B, R, M, g)
    PROVE  StackIs(B, R, M, <<g>>) /\ <<g>> # <<>> /\ <<g>>[1] = g
<1>1. <<g>> \in Seq(Frames) /\ Len(<<g>>) = 1 /\ <<g>>[1] = g
  OBVIOUS
<1>2. \A i \in 1..1 : i = 1
  OBVIOUS
<1>3. \A i \in 1..(1 - 1) : FALSE
  OBVIOUS
<1> QED
  BY <1>1, <1>2, <1>3 DEF StackIs

\* Where a stack ends.
LEMMA StackTop ==
    ASSUME NEW k \in Seq(Frames), k # <<>>
    PROVE  /\ Len(k) \in Nat /\ Len(k) > 0 /\ Len(k) \in 1..Len(k) /\ 1 \in 1..Len(k)
           /\ Last(k) = k[Len(k)] /\ Last(k) \in Frames /\ k[1] \in Frames
           /\ Front(k) \in Seq(Frames) /\ Len(Front(k)) = Len(k) - 1
           /\ \A i \in 1..(Len(k) - 1) : Front(k)[i] = k[i]
<1>1. Len(k) \in Nat /\ Len(k) > 0
  OBVIOUS
<1>2. Len(k) \in 1..Len(k) /\ 1 \in 1..Len(k)
  BY <1>1
<1> DEFINE b == Len(k) - 1
<1>3. b \in Nat /\ b <= Len(k) /\ \A i \in 1..b : k[i] \in Frames
  BY <1>1
<1> HIDE DEF b
<1>4. SubSeq(k, 1, b) \in Seq(Frames) /\ Len(SubSeq(k, 1, b)) = b
      /\ \A i \in 1..b : SubSeq(k, 1, b)[i] = k[i]
  BY <1>3
<1>5. Front(k) = SubSeq(k, 1, b)
  BY DEF Front, b
<1>6. Front(k) \in Seq(Frames) /\ Len(Front(k)) = b /\ \A i \in 1..b : Front(k)[i] = k[i]
  BY <1>4, <1>5
<1> QED
  BY <1>1, <1>2, <1>6 DEF Last, b

\* A piece of a stack is a stack.
LEMMA StackPart ==
    ASSUME NEW B, NEW R, NEW M, NEW k, StackIs(B, R, M, k), NEW a \in Nat, NEW b \in Nat,
           a >= 1, b <= Len(k)
    PROVE  StackIs(B, R, M, SubSeq(k, a, b))
<1> DEFINE u == SubSeq(k, a, b)
<1>1. k \in Seq(Frames) /\ Len(k) \in Nat
  BY DEF StackIs
<1>2. u \in Seq(Frames) /\ Len(u) = (IF a <= b THEN b - a + 1 ELSE 0)
      /\ \A i \in 1..Len(u) : u[i] = k[a + i - 1]
  <2>1. \A i \in a..b : k[i] \in Frames
    BY <1>1
  <2> QED
    BY <1>1, <2>1
<1> HIDE DEF u
<1>3. ASSUME NEW i \in 1..Len(u) PROVE a + i - 1 \in 1..Len(k)
  BY <1>1, <1>2
<1>4. ASSUME NEW i \in 1..(Len(u) - 1)
      PROVE  i \in 1..Len(u) /\ i + 1 \in 1..Len(u) /\ a + i - 1 \in 1..(Len(k) - 1)
             /\ a + (i + 1) - 1 = (a + i - 1) + 1
  BY <1>1, <1>2
<1>5. \A i \in 1..Len(u) : FrameIs(B, R, M, u[i])
  BY <1>2, <1>3 DEF StackIs
<1>6. ASSUME NEW i \in 1..(Len(u) - 1) PROVE Asks(u[i], u[i + 1])
  <2> DEFINE j == a + i - 1
             m == i + 1
  <2>1. i \in 1..Len(u) /\ m \in 1..Len(u) /\ j \in 1..(Len(k) - 1) /\ a + m - 1 = j + 1
    BY <1>4
  <2> HIDE DEF m
  <2>2. j \in 1..(Len(k) - 1) /\ u[i] = k[j] /\ u[m] = k[j + 1]
    BY <1>2, <2>1
  <2> USE DEF m
  <2> HIDE DEF j
  <2> QED
    BY <2>2 DEF StackIs
<1> QED
  BY <1>2, <1>5, <1>6 DEF StackIs, u

LEMMA StackFront ==
    ASSUME NEW B, NEW R, NEW M, NEW k, StackIs(B, R, M, k), k # <<>>
    PROVE  StackIs(B, R, M, Front(k))
<1>1. k \in Seq(Frames) /\ Len(k) \in Nat /\ Len(k) > 0
  BY StackTop DEF StackIs
<1> DEFINE b == Len(k) - 1
<1>2. b \in Nat /\ b <= Len(k) /\ 1 \in Nat /\ 1 >= 1
  BY <1>1
<1> HIDE DEF b
<1>3. StackIs(B, R, M, SubSeq(k, 1, b))
  BY <1>2, StackPart
<1> QED
  BY <1>3 DEF b, Front

\* A frame on top of a stack.
OnTop(k, g) == k # <<>> => Asks(Last(k), g)
LEMMA StackMore ==
    ASSUME NEW B, NEW R, NEW M, NEW k, StackIs(B, R, M, k), NEW g \in Frames, FrameIs(B, R, M, g),
           OnTop(k, g)
    PROVE  /\ StackIs(B, R, M, Append(k, g)) /\ Append(k, g) # <<>>
           /\ Append(k, g)[1] = IF k = <<>> THEN g ELSE k[1]
<1> DEFINE u == Append(k, g)
<1>1. k \in Seq(Frames) /\ Len(k) \in Nat /\ (k # <<>> => Len(k) > 0) /\ (k = <<>> => Len(k) = 0)
  BY DEF StackIs
<1>2. u \in Seq(Frames) /\ Len(u) = Len(k) + 1 /\ u[Len(k) + 1] = g /\ \A i \in 1..Len(k) : u[i] = k[i]
  BY <1>1
<1> HIDE DEF u
<1>3. u # <<>>
  BY <1>1, <1>2
<1>4. u[1] = IF k = <<>> THEN g ELSE k[1]
  <2>1. CASE k = <<>>
    BY <1>1, <1>2, <2>1
  <2>2. CASE k # <<>>
    <3>1. 1 \in 1..Len(k)
      BY <1>1, <2>2
    <3> QED
      BY <1>2, <2>2, <3>1
  <2> QED
    BY <2>1, <2>2
<1>5. ASSUME NEW i \in 1..Len(u) PROVE FrameIs(B, R, M, u[i])
  <2>1. i \in 1..Len(k) \/ i = Len(k) + 1
    BY <1>1, <1>2
  <2> QED
    BY <1>2, <2>1 DEF StackIs
<1>6. ASSUME NEW i \in 1..(Len(u) - 1) PROVE Asks(u[i], u[i + 1])
  <2>1. CASE i = Len(k)
    <3>1. k # <<>> /\ Len(k) \in 1..Len(k) /\ u[i] = k[Len(k)] /\ u[i + 1] = g
      BY <1>1, <1>2, <2>1
    <3> QED
      BY <3>1 DEF OnTop, Last
  <2>2. CASE i # Len(k)
    <3>1. i \in 1..(Len(k) - 1) /\ i \in 1..Len(k) /\ i + 1 \in 1..Len(k)
      BY <1>1, <1>2, <2>2
    <3>2. u[i] = k[i] /\ u[i + 1] = k[i + 1]
      BY <1>2, <3>1
    <3> QED
      BY <3>1, <3>2 DEF StackIs
  <2> QED
    BY <2>1, <2>2
<1>7. StackIs(B, R, M, u)
  BY <1>2, <1>5, <1>6 DEF StackIs
<1> QED
  BY <1>3, <1>4, <1>7 DEF u

\* The top of a stack, further on.
LEMMA StackSetTop ==
    ASSUME NEW B, NEW R, NEW M, NEW k, StackIs(B, R, M, k), k # <<>>, NEW g \in Frames,
           FrameIs(B, R, M, g), g.at = Last(k).at, g.chain = Last(k).chain
    PROVE  /\ StackIs(B, R, M, Append(Front(k), g)) /\ Append(Front(k), g) # <<>>
           /\ Append(Front(k), g)[1].chain = k[1].chain
<1> DEFINE u == Front(k)
<1>1. /\ k \in Seq(Frames) /\ Len(k) \in Nat /\ Len(k) > 0 /\ Last(k) = k[Len(k)]
      /\ u \in Seq(Frames) /\ Len(u) = Len(k) - 1 /\ \A i \in 1..(Len(k) - 1) : u[i] = k[i]
  BY StackTop DEF StackIs
<1>2. StackIs(B, R, M, u)
  BY StackFront
<1>3. OnTop(u, g) /\ (u # <<>> => u[1] = k[1]) /\ (u = <<>> => Last(k) = k[1])
  <2>1. CASE u = <<>>
    <3>1. Len(k) = 1
      BY <1>1, <2>1
    <3> QED
      BY <1>1, <2>1, <3>1 DEF OnTop
  <2>2. CASE u # <<>>
    <3> DEFINE j == Len(k) - 1
    <3>1. j \in 1..(Len(k) - 1) /\ j + 1 = Len(k) /\ Len(u) = j /\ 1 \in 1..(Len(k) - 1)
      BY <1>1, <2>2
    <3> HIDE DEF j
    <3>2. Asks(k[j], k[j + 1]) /\ u[j] = k[j] /\ u[1] = k[1]
      BY <1>1, <3>1 DEF StackIs
    <3>3. Last(u) = k[j] /\ Last(k) = k[j + 1]
      BY <1>1, <3>1, <3>2 DEF Last
    <3> QED
      BY <2>2, <3>2, <3>3 DEF OnTop, Asks
  <2> QED
    BY <2>1, <2>2
<1> HIDE DEF u
<1>4. /\ StackIs(B, R, M, Append(u, g)) /\ Append(u, g) # <<>>
      /\ Append(u, g)[1] = IF u = <<>> THEN g ELSE u[1]
  BY <1>2, <1>3, StackMore
<1> QED
  BY <1>3, <1>4 DEF u

--------------------------------------------------------------------------------
(* StationRouting: what steps make of frames.                                   *)

LEMMA RangeMore ==
    ASSUME NEW S, NEW q \in Seq(S), NEW x \in S
    PROVE  Append(q, x) \in Seq(S) /\ Range(Append(q, x)) = Range(q) \cup {x}
<1> DEFINE u == Append(q, x)
<1>1. u \in Seq(S) /\ Len(u) = Len(q) + 1 /\ Len(q) \in Nat /\ u[Len(q) + 1] = x /\ \A i \in 1..Len(q) : u[i] = q[i]
  OBVIOUS
<1>2. DOMAIN u = 1..Len(u) /\ DOMAIN q = 1..Len(q)
  BY <1>1
<1> HIDE DEF u
<1>3. \A i \in 1..Len(q) : i \in 1..Len(u)
  BY <1>1
<1>4. \A i \in 1..Len(u) : i \in 1..Len(q) \/ i = Len(q) + 1
  BY <1>1
<1>5. Len(q) + 1 \in 1..Len(u)
  BY <1>1
<1>6. Range(u) = Range(q) \cup {x}
  BY <1>1, <1>2, <1>3, <1>4, <1>5 DEF Range
<1> QED
  BY <1>1, <1>6 DEF u

\* A station's own tools tell their names.
LEMMA OwnTell ==
    ASSUME NEW s
    PROVE  /\ \A e \in OwnTools(s) : e.name \in Native[s] /\ e.tool = Tool(s, e.name)
           /\ \A e, g \in OwnTools(s) : e.name = g.name => e = g
           /\ \A n \in Native[s] : \E e \in OwnTools(s) : e.name = n
<1>1. \A n : Entry(n, s, n, GroupOf(s)).name = n /\ Entry(n, s, n, GroupOf(s)).tool = Tool(s, n)
  BY DEF Entry
<1> QED
  BY <1>1 DEF OwnTools

\* A station begins to list.
LEMMA FrameBegins ==
    ASSUME subs \in [Stations -> Seq(Hosts)], NEW R, NEW M, NEW s \in Stations,
           NEW chain \in Seq(Stations), s \notin Range(chain)
    PROVE  /\ Frame(s, chain) \in Frames /\ FrameIs(Below(subs), R, M, Frame(s, chain))
           /\ Frame(s, chain).at = s /\ Frame(s, chain).chain = chain
<1> DEFINE f == Frame(s, chain)
           B == Below(subs)
<1>1. s \in Hosts /\ NativeEntries(s) = OwnTools(s) /\ OwnTools(s) \subseteq Listed
  BY NativeListed DEF Hosts
<1>2. NoRoutes \in Tables /\ DOMAIN NoRoutes = {}
  <2>1. NoRoutes \in [{} -> Hosts] /\ {} \in SUBSET Labels
    BY DEF NoRoutes
  <2> QED
    BY <2>1 DEF Tables, NoRoutes
<1>3. f \in Frames /\ f.at = s /\ f.chain = chain /\ f.left = subs[s] /\ f.found = OwnTools(s)
      /\ f.table = NoRoutes /\ f.whole = TRUE
  BY <1>1, <1>2 DEF Frame, Frames
<1>4. Come(B, s, subs[s], {}) /\ Range(subs[s]) \subseteq B[s]
  BY DEF Come, Below
<1>5. ListIs(B, s, Range(chain), {}, OwnTools(s), TRUE)
  BY OwnTell DEF ListIs, Gives, Names
<1>6. TableIs(R, M, s, Range(chain), NoRoutes, OwnTools(s))
  BY <1>2, OwnTell DEF TableIs
<1> HIDE DEF f, B
<1> QED
  BY <1>3, <1>4, <1>5, <1>6 DEF FrameIs, f, B

\* A station has listed.
LEMMA FrameEnds ==
    ASSUME NEW B, NEW R, DOMAIN R = Stations, NEW M, NEW f \in Frames, f.left = <<>>, FrameIs(B, R, M, f),
           NEW Q, NEW N, Stored(R, M, f.at, f.table, Q, N)
    PROVE  /\ Lists(B, Q, N, f.at, Range(f.chain), f.found, f.whole)
           /\ ListIs(B, f.at, Range(f.chain), B[f.at], f.found, f.whole)
<1> DEFINE s == f.at
           A == Range(f.chain)
           T == f.table
           L == f.found
<1>1. s \in Stations /\ s \in Hosts /\ L \subseteq Listed /\ s \notin A
  BY DEF Frames, Hosts, FrameIs
<1>2. PICK D : Come(B, s, f.left, D) /\ ListIs(B, s, A, D, L, f.whole)
  BY DEF FrameIs
<1>3. D = B[s]
  <2>1. Range(f.left) = {}
    BY DEF Range
  <2> QED
    BY <1>2, <2>1 DEF Come
<1>4. RoutesStay(R, M, Q, N) /\ Q[s] = T
  BY <1>1, StoredStays
<1>5. ASSUME NEW e \in L PROVE ToolFrom(B, s, A, e)
  BY <1>1, <1>2, <1>3, ToolNative, ToolPassed DEF ListIs, Gives, Via
<1>6. ASSUME f.whole, NEW e, ToolFrom(B, s, A, e) PROVE e.name \in Names(L)
  <2>2. e \in OwnTools(s) \/ HasVia(B, s, A, e)
    <3> HIDE DEF s, A
    <3>1. ToolFrom(B, s, A, e)
      BY <1>6
    <3> QED
      BY <3>1, ToolCases
  <2>1. Gives(B, s, A, D, e)
    BY <1>3, <2>2 DEF Gives, HasVia
  <2> QED
    BY <1>2, <1>6, <2>1 DEF ListIs
<1>7. ASSUME NEW e \in L PROVE Leads(Q, N, s, A, e.name, e.tool)
  <2>1. CASE e.name \in Native[s]
    <3>1. PICK g \in OwnTools(s) : g.name = e.name
      BY <2>1, OwnTell
    <3>2. e = g
      BY <1>2, <3>1 DEF ListIs
    <3>3. e.tool = Tool(s, e.name)
      BY <3>1, <3>2, OwnTell
    <3> QED
      BY <1>1, <2>1, <3>3, LeadsArrived
  <2>2. CASE e.name \notin Native[s]
    <3> DEFINE n == e.name
               t == e.tool
               c == T[n]
    <3>1. n \in DOMAIN T /\ LeadsOn(R, M, s, A, c, n, t)
      BY <2>2 DEF FrameIs, TableIs
    <3> HIDE DEF n, t, c
    <3>2. LeadsOn(Q, N, s, A, c, n, t)
      BY <1>4, <3>1, LeadsStays DEF LeadsOn
    <3>3. n \in DOMAIN Q[s] /\ Q[s][n] = c /\ n \notin Native[s]
      BY <1>4, <2>2, <3>1 DEF n, c
    <3>4. Leads(Q, N, s, A, n, t)
      BY <1>1, <3>2, <3>3, LeadsOnward
    <3> QED
      BY <3>4 DEF n, t
  <2> QED
    BY <2>1, <2>2
<1>8. \A e, g \in L : e.name = g.name => e = g
  BY <1>2 DEF ListIs
<1>9. Lists(B, Q, N, s, A, L, f.whole)
  BY <1>1, <1>5, <1>6, <1>7, <1>8 DEF Lists
<1> QED
  BY <1>2, <1>3, <1>9

\* A server lists.
LEMMA ServerLists ==
    ASSUME NEW B, NEW R, NEW M, NEW c \in Servers, NEW A \in SUBSET Stations
    PROVE  Lists(B, R, M, c, A, OwnTools(c), TRUE)
<1>1. c \in Hosts /\ c \notin A
  BY StationAssumption DEF Hosts
<1>2. ASSUME NEW g \in OwnTools(c) PROVE ToolFrom(B, c, A, g) /\ Leads(R, M, c, A, g.name, g.tool)
  BY <1>1, ToolNative, LeadsArrived, OwnTell
<1>3. ASSUME NEW g, ToolFrom(B, c, A, g) PROVE g.name \in Names(OwnTools(c))
  BY <1>1, <1>3, ToolOfServer DEF Names
<1>4. OwnTools(c) \subseteq Listed
  BY <1>1, NativeListed
<1> QED
  BY <1>2, <1>3, <1>4, OwnTell DEF Lists

\* Absorbing a list of a station, or of a server, is taking it.
Regrouped(f, e) ==
    [e EXCEPT !.name = GlobalName(f.at, Head(f.left), e.name),
              !.group = IF @ = Idle THEN Head(f.left) ELSE @]
Grouped(f, tools) == {Regrouped(f, e) : e \in tools}
WithWhole(a, w) == [a EXCEPT !.whole = @ /\ w]
LEMMA AbsorbedIs ==
    ASSUME NEW f \in Frames, NEW tools, NEW E,
           Grouped(f, tools) = {Passed(f.at, Head(f.left), g) : g \in E}
    PROVE  /\ Absorbed(f, tools) = Taken(f, E, TRUE)
           /\ \A w \in BOOLEAN : WithWhole(Absorbed(f, tools), w) = Taken(f, E, w)
<1> DEFINE K == New(f, E)
           T == Longer(f.table, K, Head(f.left))
           l == Tail(f.left)
           L == f.found \cup K
           k == [at |-> f.at, chain |-> f.chain, left |-> l, found |-> L, table |-> T, whole |-> f.whole]
<1>1. Absorbed(f, tools) = [f EXCEPT !.left = l, !.found = L, !.table = T]
  BY DEF Absorbed, Grouped, Regrouped, New, Longer
<1>2. f = [at |-> f.at, chain |-> f.chain, left |-> f.left, found |-> f.found, table |-> f.table, whole |-> f.whole]
      /\ f.whole \in BOOLEAN
  BY DEF Frames
<1> HIDE DEF l, L, T
<1>3. Absorbed(f, tools) = k
  BY <1>1, <1>2
<1>4. ASSUME NEW w \in BOOLEAN PROVE Taken(f, E, w) = [k EXCEPT !.whole = @ /\ w]
  <2> DEFINE b == (f.whole /\ w)
  <2>1. Taken(f, E, w) = [at |-> f.at, chain |-> f.chain, left |-> l, found |-> L, table |-> T, whole |-> b]
    BY DEF Taken, l, L, T
  <2>2. [k EXCEPT !.whole = @ /\ w] = [k EXCEPT !.whole = b]
    OBVIOUS
  <2> HIDE DEF b
  <2> QED
    BY <2>1, <2>2
<1>5. Taken(f, E, TRUE) = k
  <2> DEFINE b == (f.whole /\ TRUE)
  <2>1. Taken(f, E, TRUE) = [at |-> f.at, chain |-> f.chain, left |-> l, found |-> L, table |-> T, whole |-> b]
    BY DEF Taken, l, L, T
  <2>2. b = f.whole
    BY <1>2
  <2> HIDE DEF b
  <2> QED
    BY <2>1, <2>2
<1>6. \A w \in BOOLEAN : WithWhole(k, w) = Taken(f, E, w)
  BY <1>4 DEF WithWhole
<1> HIDE DEF k
<1> QED
  BY <1>3, <1>5, <1>6

\* What grouping makes of one tool.
LEMMA RegroupedIs ==
    ASSUME NEW f, NEW n, NEW h, NEW m, NEW g
    PROVE  Regrouped(f, Entry(n, h, m, g))
             = Entry(GlobalName(f.at, Head(f.left), n), h, m, IF g = Idle THEN Head(f.left) ELSE g)
<1> DEFINE x == GlobalName(f.at, Head(f.left), n)
           c == IF g = Idle THEN Head(f.left) ELSE g
           t == Tool(h, m)
           e == Entry(n, h, m, g)
<1>1. e = [name |-> n, tool |-> t, group |-> g]
  BY DEF Entry
<1>2. e.name = n /\ e.group = g
  BY <1>1
<1>3. Regrouped(f, e) = [e EXCEPT !.name = x, !.group = c]
  BY <1>2 DEF Regrouped
<1> HIDE DEF x, c, t, e
<1>4. Regrouped(f, e) = [name |-> x, tool |-> t, group |-> c]
  BY <1>1, <1>3
<1> QED
  BY <1>4 DEF x, c, t, e, Entry

LEMMA PassedIs ==
    ASSUME NEW s, NEW c, NEW n, NEW h, NEW m, NEW g
    PROVE  Passed(s, c, Entry(n, h, m, g)) = Entry(GlobalName(s, c, n), h, m, g)
BY DEF Passed, Entry, Tool

LEMMA ServerGrouped ==
    ASSUME NEW f, NEW c \in Servers, c = Head(f.left)
    PROVE  Grouped(f, {Entry(n, c, n, Idle) : n \in Native[c]}) = {Passed(f.at, c, g) : g \in OwnTools(c)}
<1>1. GroupOf(c) = c
  BY DEF GroupOf
<1>2. \A n : Regrouped(f, Entry(n, c, n, Idle)) = Passed(f.at, c, Entry(n, c, n, GroupOf(c)))
  BY <1>1, RegroupedIs, PassedIs
<1> QED
  BY <1>2 DEF Grouped, OwnTools

LEMMA StationGrouped ==
    ASSUME NEW f, NEW E \in SUBSET Listed, \A e \in E : e.group # Idle
    PROVE  Grouped(f, E) = {Passed(f.at, Head(f.left), g) : g \in E}
<1>1. ASSUME NEW e \in E PROVE Regrouped(f, e) = Passed(f.at, Head(f.left), e)
  <2>1. e \in Listed /\ e.group # Idle
    OBVIOUS
  <2>2. e = Entry(e.name, e.tool[1], e.tool[2], e.group)
    BY <2>1 DEF Listed, Entry, Tool
  <2> QED
    BY <2>1, <2>2, RegroupedIs, PassedIs
<1> QED
  BY <1>1 DEF Grouped

--------------------------------------------------------------------------------
(* StationRouting: the invariant.                                               *)

MaybeTool == (Hosts \X Labels) \cup {<<>>}
CallRecords ==
    [at : Hosts \cup {Idle}, name : Labels, chain : Seq(Hosts), visited : SUBSET (Hosts \X Labels),
     wanted : MaybeTool, lost : BOOLEAN, ran : MaybeTool,
     answer : {"none", "ran", "internal", "cycle", "unknown"}]

StationTypes ==
    /\ subs \in [Stations -> Seq(Hosts)]
    /\ routes \in [Stations -> Tables]
    /\ stack \in [Listings -> Seq(Frames)]
    /\ awaited \in SUBSET Listings
    /\ shown \in [Stations -> [tools : SUBSET Listed, whole : BOOLEAN]]
    /\ call \in [Calls -> CallRecords]
    /\ losses \in Nat
    /\ moved \in SUBSET (Stations \X Labels)

\* A stack, and if a session waits for it, one that the session's station began.
StackFine(B, R, M, k, waits) ==
    StackIs(B, R, M, k) /\ (waits => k # <<>> /\ k[1].chain = <<>>)
\* What a session of station s was shown.
ShownIs(B, R, M, s, r) ==
    /\ \A e \in r.tools : Leads(R, M, s, {}, e.name, e.tool)
    /\ r.whole => ListIs(B, s, {}, B[s], r.tools, TRUE)
\* A call under way, or answered.
Excused(M, r) == r.visited \cap M # {}
CallRight(M, r) ==
    \/ r.answer = "ran" /\ r.ran = r.wanted
    \/ r.lost
    \/ r.answer = "internal" /\ r.name \in OddNames
    \/ Excused(M, r)
CallIs(R, M, r) ==
    /\ r.at # Idle => /\ r.answer = "none"
                      /\ Excused(M, r) \/ Leads(R, M, r.at, Range(r.chain), r.name, r.wanted)
    /\ r.answer # "none" => CallRight(M, r)

StacksOK == \A t \in Listings : StackFine(Below(subs), routes, moved, stack[t], t \in awaited)
ShownOK == \A s \in Stations : ShownIs(Below(subs), routes, moved, s, shown[s])
CallsOK == \A c \in Calls : CallIs(routes, moved, call[c])
\* No route is for a name a station has a tool for.
NoOwnRoutes(R, M) == \A s \in Stations : \A n \in Native[s] : n \notin DOMAIN R[s] /\ <<s, n>> \notin M

\* The invariant of listings and calls.
StationInv == StationTypes /\ StacksOK /\ ShownOK /\ CallsOK /\ NoOwnRoutes(routes, moved)

LEMMA ShownStays ==
    ASSUME NEW B, NEW R, NEW M, NEW Q, NEW N, RoutesStay(R, M, Q, N), NEW s, NEW r, ShownIs(B, R, M, s, r)
    PROVE  ShownIs(B, Q, N, s, r)
BY LeadsStays DEF ShownIs

LEMMA CallStays ==
    ASSUME NEW R, NEW M, NEW Q, NEW N, RoutesStay(R, M, Q, N), NEW r, CallIs(R, M, r)
    PROVE  CallIs(Q, N, r)
<1>1. Excused(M, r) => Excused(N, r)
  BY DEF Excused, RoutesStay
<1>2. Leads(R, M, r.at, Range(r.chain), r.name, r.wanted) => Leads(Q, N, r.at, Range(r.chain), r.name, r.wanted)
  BY LeadsStays
<1> QED
  BY <1>1, <1>2 DEF CallIs, CallRight

LEMMA NoRoutesStored == NoRoutes \in Tables /\ DOMAIN NoRoutes = {}
<1>1. NoRoutes \in [{} -> Hosts] /\ {} \in SUBSET Labels
  BY DEF NoRoutes
<1> QED
  BY <1>1 DEF Tables, NoRoutes

\* It holds when the program starts.
LEMMA StationsStart == StationInit => StationInv
<1> SUFFICES ASSUME StationInit PROVE StationInv
  OBVIOUS
<1> USE DEF StationInit
<1>1. <<>> \in Labels
  BY DEF Labels
<1>2. NoCall \in CallRecords /\ NoCall.at = Idle /\ NoCall.answer = "none"
  BY <1>1 DEF NoCall, CallRecords, MaybeTool
<1>3. StationTypes
  <2>1. routes \in [Stations -> Tables]
    BY NoRoutesStored
  <2>2. stack \in [Listings -> Seq(Frames)]
    <3>1. <<>> \in Seq(Frames)
      OBVIOUS
    <3> QED
      BY <3>1
  <2>3. shown \in [Stations -> [tools : SUBSET Listed, whole : BOOLEAN]]
    OBVIOUS
  <2>4. call \in [Calls -> CallRecords]
    BY <1>2
  <2> QED
    BY <2>1, <2>2, <2>3, <2>4 DEF StationTypes
<1>4. StacksOK
  BY StackNone DEF StacksOK, StackFine
<1>5. ShownOK
  BY DEF ShownOK, ShownIs
<1>6. CallsOK
  BY <1>2 DEF CallsOK, CallIs
<1>7. NoOwnRoutes(routes, moved)
  BY NoRoutesStored DEF NoOwnRoutes
<1> QED
  BY <1>3, <1>4, <1>5, <1>6, <1>7 DEF StationInv

\* A step that changes nothing but stacks.
LEMMA StackSteps ==
    ASSUME StationInv, UNCHANGED <<subs, routes, shown, call, moved>>, losses' \in Nat,
           awaited' \in SUBSET Listings, DOMAIN stack' = Listings, stack' = [t \in Listings |-> stack'[t]],
           \A t \in Listings : StackFine(Below(subs), routes, moved, stack'[t], t \in awaited')
    PROVE  StationInv'
<1>1. stack' \in [Listings -> Seq(Frames)]
  BY DEF StackFine, StackIs
<1>2. StationTypes'
  BY <1>1 DEF StationInv, StationTypes
<1>3. StacksOK'
  BY DEF StacksOK
<1>4. ShownOK' /\ CallsOK' /\ NoOwnRoutes(routes, moved)'
  BY DEF StationInv, ShownOK, CallsOK
<1> QED
  BY <1>2, <1>3, <1>4 DEF StationInv

\* A step of one listing.
LEMMA StackStep ==
    ASSUME StationInv, UNCHANGED <<subs, routes, shown, call, moved>>, losses' \in Nat,
           NEW t \in Listings, NEW k, stack' = [stack EXCEPT ![t] = k],
           awaited' = awaited \/ awaited' = awaited \cup {t},
           StackFine(Below(subs), routes, moved, k, t \in awaited')
    PROVE  StationInv'
<1>1. awaited' \in SUBSET Listings /\ stack \in [Listings -> Seq(Frames)]
  BY DEF StationInv, StationTypes
<1>2. stack' = [u \in Listings |-> stack'[u]] /\ DOMAIN stack' = Listings /\ stack'[t] = k
      /\ \A u \in Listings : u # t => stack'[u] = stack[u]
  BY <1>1
<1>3. ASSUME NEW u \in Listings PROVE StackFine(Below(subs), routes, moved, stack'[u], u \in awaited')
  <2>1. CASE u = t
    BY <1>2, <2>1
  <2>2. CASE u # t
    <3>1. stack'[u] = stack[u] /\ (u \in awaited' => u \in awaited)
      BY <1>2, <2>2
    <3> QED
      BY <3>1 DEF StationInv, StacksOK, StackFine
  <2> QED
    BY <2>1, <2>2
<1> QED
  BY <1>1, <1>2, <1>3, StackSteps

LEMMA StepBeginListing ==
    ASSUME StationInv, NEW t \in Listings, NEW s \in Stations, BeginListing(t, s)
    PROVE  StationInv'
<1> DEFINE f == Frame(s, <<>>)
           B == Below(subs)
<1>1. subs \in [Stations -> Seq(Hosts)] /\ losses \in Nat
  BY DEF StationInv, StationTypes
<1>2. <<>> \in Seq(Stations) /\ s \notin Range(<<>>)
  BY DEF Range
<1>3. f \in Frames /\ FrameIs(B, routes, moved, f) /\ f.chain = <<>>
  BY <1>1, <1>2, FrameBegins
<1> HIDE DEF f, B
<1>4. StackIs(B, routes, moved, <<f>>) /\ <<f>> # <<>> /\ <<f>>[1] = f
  BY <1>3, StackOne
<1>5. StackFine(B, routes, moved, <<f>>, t \in awaited')
  BY <1>3, <1>4 DEF StackFine
<1>6. /\ stack' = [stack EXCEPT ![t] = <<f>>] /\ awaited' = awaited \cup {t}
      /\ losses' \in Nat /\ UNCHANGED <<subs, routes, shown, call, moved>>
  BY <1>1 DEF BeginListing, f
<1> QED
  BY <1>5, <1>6, StackStep DEF B

\* What holds of a stack with frames.
LEMMA AtTop ==
    ASSUME StationInv, NEW t \in Listings, stack[t] # <<>>
    PROVE  /\ StackIs(Below(subs), routes, moved, stack[t]) /\ stack[t] \in Seq(Frames)
           /\ Top(t) = Last(stack[t]) /\ Top(t) \in Frames /\ FrameIs(Below(subs), routes, moved, Top(t))
           /\ (t \in awaited => stack[t][1].chain = <<>>)
<1> DEFINE k == stack[t]
<1>1. StackIs(Below(subs), routes, moved, k) /\ k \in Seq(Frames) /\ (t \in awaited => k[1].chain = <<>>)
  BY DEF StationInv, StacksOK, StackFine, StackIs
<1>2. k # <<>>
  OBVIOUS
<1>3. Top(t) = Last(k)
  BY DEF Top
<1> HIDE DEF k
<1>4. Len(k) \in 1..Len(k) /\ Last(k) = k[Len(k)] /\ Last(k) \in Frames
  BY <1>1, <1>2, StackTop
<1> QED
  BY <1>1, <1>3, <1>4 DEF StackIs, k

\* The frame on top goes on.
LEMMA SetTopSteps ==
    ASSUME StationInv, NEW t \in Listings, stack[t] # <<>>, NEW g \in Frames,
           FrameIs(Below(subs), routes, moved, g), g.at = Top(t).at, g.chain = Top(t).chain, SetTop(t, g),
           UNCHANGED <<subs, routes, shown, call, moved, awaited>>, losses' \in Nat
    PROVE  StationInv'
<1> DEFINE k == stack[t]
           u == Append(Front(k), g)
           B == Below(subs)
<1>1. StackIs(B, routes, moved, k) /\ k # <<>> /\ Top(t) = Last(k) /\ (t \in awaited => k[1].chain = <<>>)
  BY AtTop
<1>2. stack' = [stack EXCEPT ![t] = u]
  BY DEF SetTop
<1>3. g.at = Last(k).at /\ g.chain = Last(k).chain /\ FrameIs(B, routes, moved, g)
  BY <1>1
<1> HIDE DEF k, B
<1>4. StackIs(B, routes, moved, u) /\ u # <<>> /\ u[1].chain = k[1].chain
  BY <1>1, <1>3, StackSetTop
<1> HIDE DEF u
<1>5. StackFine(B, routes, moved, u, t \in awaited')
  BY <1>1, <1>4 DEF StackFine
<1> QED
  BY <1>2, <1>5, StackStep DEF B

--------------------------------------------------------------------------------
(* StationRouting: the steps of listings.                                       *)

LEMMA StepAskStation ==
    ASSUME StationInv, NEW t \in Listings, AskStation(t)
    PROVE  StationInv'
<1> DEFINE k == stack[t]
           f == Top(t)
           s == NextOf(f)
           g == Frame(s, ChainOf(f))
           B == Below(subs)
<1>1. /\ stack[t] # <<>> /\ f.left # <<>> /\ s \in Stations /\ ~Cycle(s, ChainOf(f))
      /\ stack' = [stack EXCEPT ![t] = Append(k, g)]
      /\ UNCHANGED <<subs, routes, shown, call, moved>> /\ awaited' = awaited /\ losses' = losses
  BY DEF AskStation
<1>2. /\ StackIs(B, routes, moved, k) /\ f = Last(k) /\ f \in Frames
      /\ (t \in awaited => k[1].chain = <<>>) /\ subs \in [Stations -> Seq(Hosts)] /\ losses \in Nat
  BY <1>1, AtTop DEF StationInv, StationTypes
<1>3. ChainOf(f) \in Seq(Stations) /\ s \notin Range(ChainOf(f))
  BY <1>1, <1>2, RangeMore DEF ChainOf, Frames, Cycle
<1>4. g \in Frames /\ FrameIs(B, routes, moved, g) /\ g.at = s /\ g.chain = ChainOf(f)
  BY <1>1, <1>2, <1>3, FrameBegins
<1>5. OnTop(k, g) /\ k # <<>>
  BY <1>1, <1>2, <1>4 DEF OnTop, Asks, NextOf, ChainOf
<1> HIDE DEF k, g, B
<1>6. StackIs(B, routes, moved, Append(k, g)) /\ Append(k, g) # <<>> /\ Append(k, g)[1] = k[1]
  BY <1>2, <1>4, <1>5, StackMore
<1> DEFINE u == Append(k, g)
<1>7. StackFine(B, routes, moved, u, t \in awaited')
  BY <1>1, <1>2, <1>6 DEF StackFine
<1>8. stack' = [stack EXCEPT ![t] = u] /\ losses' \in Nat
  BY <1>1, <1>2
<1> HIDE DEF u
<1> QED
  BY <1>1, <1>7, <1>8, StackStep DEF B

LEMMA SkippedIs ==
    ASSUME NEW f \in Frames, NEW w
    PROVE  Skipped(f, w).at = f.at /\ Skipped(f, w).chain = f.chain
BY DEF Skipped, Frames

LEMMA StepRefused ==
    ASSUME StationInv, NEW t \in Listings, Refused(t)
    PROVE  StationInv'
<1> DEFINE f == Top(t)
<1>1. /\ stack[t] # <<>> /\ f.left # <<>> /\ Cycle(NextOf(f), ChainOf(f)) /\ SetTop(t, Skipped(f, TRUE))
      /\ UNCHANGED <<subs, routes, shown, call, moved, awaited>> /\ losses' = losses
  BY DEF Refused
<1>2. f \in Frames /\ FrameIs(Below(subs), routes, moved, f) /\ losses \in Nat
  BY <1>1, AtTop DEF StationInv, StationTypes
<1>3. Head(f.left) \in Range(f.chain) \cup {f.at}
  BY <1>1, <1>2, RangeMore DEF Cycle, ChainOf, NextOf, Frames
<1> HIDE DEF f
<1>4. Skipped(f, TRUE) \in Frames /\ FrameIs(Below(subs), routes, moved, Skipped(f, TRUE))
  BY <1>1, <1>2, <1>3, FrameSkips
<1> DEFINE g == Skipped(f, TRUE)
<1>5. g \in Frames /\ FrameIs(Below(subs), routes, moved, g) /\ g.at = Top(t).at /\ g.chain = Top(t).chain
      /\ SetTop(t, g) /\ losses' \in Nat
  BY <1>1, <1>2, <1>4, SkippedIs DEF f
<1> HIDE DEF g
<1> QED
  BY <1>1, <1>5, SetTopSteps

LEMMA StepUnreachable ==
    ASSUME StationInv, NEW t \in Listings, Unreachable(t)
    PROVE  StationInv'
<1> DEFINE f == Top(t)
<1>1. /\ stack[t] # <<>> /\ f.left # <<>> /\ SetTop(t, Skipped(f, FALSE))
      /\ UNCHANGED <<subs, routes, shown, call, moved, awaited>> /\ losses' = losses + 1
  BY DEF Unreachable, Loses
<1>2. f \in Frames /\ FrameIs(Below(subs), routes, moved, f) /\ losses \in Nat
  BY <1>1, AtTop DEF StationInv, StationTypes
<1> HIDE DEF f
<1>4. Skipped(f, FALSE) \in Frames /\ FrameIs(Below(subs), routes, moved, Skipped(f, FALSE))
  BY <1>1, <1>2, FrameSkips
<1>6. losses' \in Nat
  BY <1>1, <1>2
<1> DEFINE g == Skipped(f, FALSE)
<1>5. g \in Frames /\ FrameIs(Below(subs), routes, moved, g) /\ g.at = Top(t).at /\ g.chain = Top(t).chain
      /\ SetTop(t, g)
  BY <1>1, <1>2, <1>4, SkippedIs DEF f
<1> HIDE DEF g
<1> QED
  BY <1>1, <1>5, <1>6, SetTopSteps

\* What a server lists is taken whole.
LEMMA ServerTaken ==
    ASSUME StationInv, NEW t \in Listings, AskServer(t)
    PROVE  LET f == Top(t)
               E == OwnTools(Head(f.left))
           IN /\ stack[t] # <<>> /\ f.left # <<>> /\ f \in Frames /\ FrameIs(Below(subs), routes, moved, f)
              /\ Lists(Below(subs), routes, moved, Head(f.left), Range(f.chain) \cup {f.at}, E, TRUE)
              /\ SetTop(t, Taken(f, E, TRUE))
              /\ UNCHANGED <<subs, routes, shown, call, moved, awaited>> /\ losses' = losses /\ losses \in Nat
<1> DEFINE f == Top(t)
           c == Head(f.left)
           tools == {Entry(n, c, n, Idle) : n \in Native[c]}
           g == Absorbed(f, tools)
           B == Below(subs)
<1>1. /\ stack[t] # <<>> /\ f.left # <<>> /\ c \in Servers /\ SetTop(t, g)
      /\ UNCHANGED <<subs, routes, shown, call, moved, awaited>> /\ losses' = losses
  BY DEF AskServer, NextOf
<1>2. f \in Frames /\ FrameIs(B, routes, moved, f) /\ losses \in Nat
  BY <1>1, AtTop DEF StationInv, StationTypes
<1>3. g = Taken(f, OwnTools(c), TRUE)
  <2> HIDE DEF f
  <2>1. Grouped(f, tools) = {Passed(f.at, Head(f.left), e) : e \in OwnTools(c)}
    BY <1>1, ServerGrouped
  <2> HIDE DEF tools, c
  <2> QED
    BY <1>2, <2>1, AbsorbedIs
<1>4. Range(f.chain) \cup {f.at} \in SUBSET Stations
  BY <1>2, RangeOfSeq DEF Frames
<1>5. Lists(B, routes, moved, c, Range(f.chain) \cup {f.at}, OwnTools(c), TRUE)
  BY <1>1, <1>4, ServerLists
<1> HIDE DEF g
<1> QED
  BY <1>1, <1>2, <1>3, <1>5

LEMMA StepAskServer ==
    ASSUME StationInv, NEW t \in Listings, AskServer(t)
    PROVE  StationInv'
<1> DEFINE f == Top(t)
           E == OwnTools(Head(f.left))
           B == Below(subs)
           g == Taken(f, E, TRUE)
<1>1. /\ stack[t] # <<>> /\ f.left # <<>> /\ f \in Frames /\ FrameIs(B, routes, moved, f)
      /\ Lists(B, routes, moved, Head(f.left), Range(f.chain) \cup {f.at}, E, TRUE) /\ SetTop(t, g)
      /\ UNCHANGED <<subs, routes, shown, call, moved, awaited>> /\ losses' \in Nat
  BY ServerTaken
<1> HIDE DEF f, B, E
<1>2. g \in Frames /\ FrameIs(B, routes, moved, g)
  BY <1>1, FrameTakes
<1>3. g.at = Top(t).at /\ g.chain = Top(t).chain
  BY DEF Taken, f
<1> HIDE DEF g
<1> QED
  BY <1>1, <1>2, <1>3, SetTopSteps DEF B

\* A stack cut off above its frame d, which has become g.
LEMMA StackCut ==
    ASSUME NEW B, NEW R, NEW M, NEW k, StackIs(B, R, M, k), NEW d \in Nat, d >= 1, d <= Len(k),
           NEW g \in Frames, FrameIs(B, R, M, g), g.at = k[d].at, g.chain = k[d].chain
    PROVE  /\ StackIs(B, R, M, Append(SubSeq(k, 1, d - 1), g)) /\ Append(SubSeq(k, 1, d - 1), g) # <<>>
           /\ Append(SubSeq(k, 1, d - 1), g)[1].chain = k[1].chain
<1> DEFINE b == d - 1
           u == SubSeq(k, 1, b)
<1>1. k \in Seq(Frames) /\ Len(k) \in Nat /\ b \in Nat /\ b <= Len(k) /\ 1 \in Nat /\ 1 >= 1
  BY DEF StackIs
<1>2. u \in Seq(Frames) /\ Len(u) = b /\ \A i \in 1..b : u[i] = k[i]
  <2> HIDE DEF b
  <2>1. \A i \in 1..b : k[i] \in Frames
    BY <1>1
  <2> QED
    BY <1>1, <2>1
<1>3. StackIs(B, R, M, u)
  <2> HIDE DEF b
  <2> QED
    BY <1>1, StackPart
<1>4. OnTop(u, g) /\ (u # <<>> => u[1] = k[1]) /\ (u = <<>> => g.chain = k[1].chain)
  <2>1. CASE d = 1
    <3>1. u = <<>>
      BY <1>2, <2>1
    <3> QED
      BY <2>1, <3>1 DEF OnTop
  <2>2. CASE d # 1
    <3>1. b \in 1..(Len(k) - 1) /\ b + 1 = d /\ 1 \in 1..b /\ b \in 1..b /\ u # <<>>
      BY <1>1, <1>2, <2>2
    <3> HIDE DEF u, b
    <3>2. Asks(k[b], k[b + 1]) /\ u[b] = k[b] /\ u[1] = k[1]
      BY <1>2, <3>1 DEF StackIs
    <3>3. Last(u) = k[b] /\ Asks(k[b], k[d])
      BY <1>2, <3>1, <3>2 DEF Last
    <3> QED
      BY <3>1, <3>2, <3>3 DEF OnTop, Asks
  <2> QED
    BY <2>1, <2>2
<1> HIDE DEF u
<1>5. /\ StackIs(B, R, M, Append(u, g)) /\ Append(u, g) # <<>>
      /\ Append(u, g)[1] = IF u = <<>> THEN g ELSE u[1]
  BY <1>3, <1>4, StackMore
<1> QED
  BY <1>4, <1>5 DEF u

LEMMA StepAbandon ==
    ASSUME StationInv, NEW t \in Listings, NEW d \in 1..Cardinality(Stations), Abandon(t, d)
    PROVE  StationInv'
<1> DEFINE k == stack[t]
           B == Below(subs)
           g == Skipped(k[d], FALSE)
           parent == Append(SubSeq(k, 1, d - 1), g)
           child == SubSeq(k, d + 1, Len(k))
<1>1. /\ d < Len(k) /\ losses' = losses + 1 /\ UNCHANGED <<subs, routes, shown, call, moved, awaited>>
      /\ \/ stack' = [stack EXCEPT ![t] = parent]
         \/ \E u \in Listings \ {t} :
               stack[u] = <<>> /\ stack' = [stack EXCEPT ![t] = parent, ![u] = child]
  BY DEF Abandon, Loses
<1>2. /\ StackIs(B, routes, moved, k) /\ (t \in awaited => k # <<>> /\ k[1].chain = <<>>) /\ losses \in Nat
      /\ stack \in [Listings -> Seq(Frames)] /\ awaited \in SUBSET Listings
  BY DEF StationInv, StationTypes, StacksOK, StackFine
<1>3. d \in Nat /\ d >= 1 /\ d <= Len(k) /\ Len(k) \in Nat /\ d \in 1..Len(k) /\ d \in 1..(Len(k) - 1)
      /\ d + 1 \in Nat /\ d + 1 >= 1 /\ Len(k) <= Len(k)
  <2>1. Cardinality(Stations) \in Nat
    BY StationAssumption, FS_CardinalityType
  <2>2. Len(k) \in Nat
    BY <1>2 DEF StackIs
  <2> QED
    BY <1>1, <2>1, <2>2
<1>4. k[d] \in Frames /\ FrameIs(B, routes, moved, k[d]) /\ k[d].left # <<>>
  BY <1>2, <1>3 DEF StackIs, Asks
<1>5. g \in Frames /\ FrameIs(B, routes, moved, g) /\ g.at = k[d].at /\ g.chain = k[d].chain
  BY <1>4, FrameSkips, SkippedIs
<1>6. StackIs(B, routes, moved, parent) /\ parent # <<>> /\ parent[1].chain = k[1].chain
  <2> HIDE DEF g, k, B
  <2> QED
    BY <1>2, <1>3, <1>5, StackCut
<1>7. StackIs(B, routes, moved, child)
  <2> DEFINE a == d + 1
             b == Len(k)
  <2>1. a \in Nat /\ a >= 1 /\ b \in Nat /\ b <= Len(k)
    BY <1>3
  <2> HIDE DEF a, b, k, B
  <2>2. StackIs(B, routes, moved, SubSeq(k, a, b))
    BY <1>2, <2>1, StackPart
  <2> QED
    BY <2>2 DEF a, b
<1>8. StackFine(B, routes, moved, parent, t \in awaited')
  BY <1>1, <1>2, <1>6 DEF StackFine
<1> HIDE DEF parent, child, k
<1>9. losses' \in Nat
  BY <1>1, <1>2
<1>10. CASE stack' = [stack EXCEPT ![t] = parent]
  BY <1>1, <1>8, <1>9, <1>10, StackStep DEF B
<1>11. CASE \E u \in Listings \ {t} :
               stack[u] = <<>> /\ stack' = [stack EXCEPT ![t] = parent, ![u] = child]
  <2>1. PICK u \in Listings \ {t} : stack[u] = <<>> /\ stack' = [stack EXCEPT ![t] = parent, ![u] = child]
    BY <1>11
  <2>2. u \notin awaited
    BY <2>1 DEF StationInv, StacksOK, StackFine
  <2>3. /\ stack' = [v \in Listings |-> stack'[v]] /\ DOMAIN stack' = Listings
        /\ stack'[t] = parent /\ stack'[u] = child
        /\ \A v \in Listings : v # t /\ v # u => stack'[v] = stack[v]
    BY <1>2, <2>1
  <2>4. ASSUME NEW v \in Listings PROVE StackFine(B, routes, moved, stack'[v], v \in awaited')
    <3>1. CASE v = t
      BY <1>8, <2>3, <3>1
    <3>2. CASE v = u
      BY <1>1, <1>7, <2>2, <2>3, <3>2 DEF StackFine
    <3>3. CASE v # t /\ v # u
      BY <1>1, <2>3, <3>3 DEF StationInv, StacksOK, StackFine
    <3> QED
      BY <3>1, <3>2, <3>3
  <2>5. awaited' \in SUBSET Listings
    BY <1>1, <1>2
  <2> QED
    BY <1>1, <1>9, <2>3, <2>4, <2>5, StackSteps DEF B
<1> QED
  BY <1>1, <1>10, <1>11

\* A step that stores a table.
LEMMA RouteSteps ==
    ASSUME StationInv, NEW s \in Stations, NEW T \in Tables, \A n \in Native[s] : n \notin DOMAIN T,
           Stored(routes, moved, s, T, routes', moved'),
           subs' \in [Stations -> Seq(Hosts)], Below(subs') = Below(subs), UNCHANGED call, losses' \in Nat,
           awaited' \in SUBSET Listings, DOMAIN stack' = Listings, stack' = [t \in Listings |-> stack'[t]],
           \A t \in Listings : StackFine(Below(subs), routes', moved', stack'[t], t \in awaited'),
           shown' \in [Stations -> [tools : SUBSET Listed, whole : BOOLEAN]],
           \A z \in Stations : ShownIs(Below(subs), routes', moved', z, shown'[z])
    PROVE  StationInv'
<1>1. routes \in [Stations -> Tables] /\ moved \in SUBSET (Stations \X Labels) /\ call \in [Calls -> CallRecords]
  BY DEF StationInv, StationTypes
<1>2. routes' = [routes EXCEPT ![s] = T]
      /\ moved' = moved \cup {<<s, n>> : n \in {m \in DOMAIN routes[s] : m \notin DOMAIN T \/ T[m] # routes[s][m]}}
  BY DEF Stored
<1>3. routes' \in [Stations -> Tables]
  BY <1>1, <1>2
<1>4. DOMAIN routes[s] \subseteq Labels
  <2>1. routes[s] \in Tables
    BY <1>1
  <2> QED
    BY <2>1 DEF Tables
<1>5. moved' \in SUBSET (Stations \X Labels)
  BY <1>1, <1>2, <1>4
<1>6. stack' \in [Listings -> Seq(Frames)]
  BY DEF StackFine, StackIs
<1>7. StationTypes'
  BY <1>1, <1>3, <1>5, <1>6 DEF StationTypes
<1>8. StacksOK' /\ ShownOK'
  BY DEF StacksOK, ShownOK
<1>9. RoutesStay(routes, moved, routes', moved')
  <2>1. DOMAIN routes = Stations
    BY <1>1
  <2> QED
    BY <2>1, StoredStays
<1>10. CallsOK'
  <2> SUFFICES ASSUME NEW c \in Calls PROVE CallIs(routes', moved', call[c])
    BY DEF CallsOK
  <2>1. CallIs(routes, moved, call[c])
    BY DEF StationInv, CallsOK
  <2> QED
    BY <1>9, <2>1, CallStays
<1>11. NoOwnRoutes(routes, moved)'
  <2> SUFFICES ASSUME NEW z \in Stations, NEW n \in Native[z] PROVE n \notin DOMAIN routes'[z] /\ <<z, n>> \notin moved'
    BY DEF NoOwnRoutes
  <2>1. n \notin DOMAIN routes[z] /\ <<z, n>> \notin moved
    BY DEF StationInv, NoOwnRoutes
  <2>2. n \notin DOMAIN routes'[z]
    <3>1. CASE z = s
      <4>1. routes'[z] = T
        BY <1>1, <1>2, <3>1
      <4> QED
        BY <3>1, <4>1
    <3>2. CASE z # s
      BY <1>1, <1>2, <2>1, <3>2
    <3> QED
      BY <3>1, <3>2
  <2>3. <<z, n>> \notin moved'
    BY <1>2, <2>1
  <2> QED
    BY <2>2, <2>3
<1> QED
  BY <1>7, <1>8, <1>10, <1>11 DEF StationInv

\* What is kept when a table is stored.
LEMMA StoreKeeps ==
    ASSUME StationInv, NEW s \in Stations, NEW T, Stored(routes, moved, s, T, routes', moved')
    PROVE  /\ RoutesStay(routes, moved, routes', moved')
           /\ \A k, w : StackFine(Below(subs), routes, moved, k, w) => StackFine(Below(subs), routes', moved', k, w)
           /\ \A z, r : ShownIs(Below(subs), routes, moved, z, r) => ShownIs(Below(subs), routes', moved', z, r)
<1>1. DOMAIN routes = Stations
  BY DEF StationInv, StationTypes
<1>2. RoutesStay(routes, moved, routes', moved')
  BY <1>1, StoredStays
<1>3. ASSUME NEW k, StackIs(Below(subs), routes, moved, k) PROVE StackIs(Below(subs), routes', moved', k)
  BY <1>2, <1>3, StackStays
<1>4. ASSUME NEW z, NEW r, ShownIs(Below(subs), routes, moved, z, r)
      PROVE  ShownIs(Below(subs), routes', moved', z, r)
  BY <1>2, <1>4, ShownStays
<1> QED
  BY <1>2, <1>3, <1>4 DEF StackFine

\* The answer of the top frame, taken by the one below.
TopAnswered(k) ==
    Append(Front(Front(k)), WithWhole(Absorbed(Last(Front(k)), Last(k).found), Last(k).whole))
LEMMA AnswerTaken ==
    ASSUME NEW B, NEW R, DOMAIN R = Stations, NEW M, NEW k, StackIs(B, R, M, k), k # <<>>,
           Last(k).left = <<>>, Front(k) # <<>>, NEW Q, NEW N,
           Stored(R, M, Last(k).at, Last(k).table, Q, N)
    PROVE  LET f == Last(k)
               p == Last(Front(k))
           IN /\ StackIs(B, Q, N, Front(k)) /\ Front(k)[1] = k[1] /\ Front(k) \in Seq(Frames)
              /\ p \in Frames /\ p.left # <<>> /\ FrameIs(B, Q, N, p) /\ f.whole \in BOOLEAN
              /\ Lists(B, Q, N, Head(p.left), Range(p.chain) \cup {p.at}, f.found, f.whole)
              /\ TopAnswered(k) = Append(Front(Front(k)), Taken(p, f.found, f.whole))
<1> DEFINE f == Last(k)
           rest == Front(k)
           p == Last(rest)
           g == WithWhole(Absorbed(p, f.found), f.whole)
<1>1. /\ k \in Seq(Frames) /\ Len(k) \in Nat /\ Len(k) > 0 /\ f = k[Len(k)] /\ f \in Frames
      /\ Len(k) \in 1..Len(k)
      /\ rest \in Seq(Frames) /\ Len(rest) = Len(k) - 1 /\ \A i \in 1..(Len(k) - 1) : rest[i] = k[i]
  BY StackTop DEF StackIs
<1> HIDE DEF f, rest
<1>2. rest # <<>>
  BY DEF rest
<1>3. p = rest[Len(rest)] /\ p \in Frames /\ Len(rest) > 0
  BY <1>1, <1>2, StackTop
<1>4. Asks(p, f) /\ FrameIs(B, R, M, f) /\ rest[1] = k[1]
  <2> DEFINE j == Len(k) - 1
  <2>1. j \in 1..(Len(k) - 1) /\ j + 1 = Len(k) /\ Len(rest) = j /\ 1 \in 1..(Len(k) - 1)
    BY <1>1, <1>3
  <2> HIDE DEF j
  <2>2. Asks(k[j], k[j + 1]) /\ p = k[j] /\ f = k[j + 1] /\ rest[1] = k[1]
    BY <1>1, <1>3, <2>1 DEF StackIs
  <2> QED
    BY <1>1, <2>2 DEF StackIs
<1>5. f.found \in SUBSET Listed /\ f.whole \in BOOLEAN /\ f.at \in Stations /\ f.left = <<>>
  BY <1>1 DEF Frames, f
<1>6. Lists(B, Q, N, f.at, Range(f.chain), f.found, f.whole)
  <2>1. Stored(R, M, f.at, f.table, Q, N)
    BY DEF f
  <2> QED
    BY <1>1, <1>4, <1>5, <2>1, FrameEnds
<1>7. p.left # <<>> /\ Head(p.left) = f.at /\ Range(f.chain) = Range(p.chain) \cup {p.at}
  BY <1>3, <1>4, RangeMore DEF Asks, Frames
<1>8. g = Taken(p, f.found, f.whole)
  <2> DEFINE E == f.found
             w == f.whole
  <2>1. E \in SUBSET Listed /\ w \in BOOLEAN /\ \A e \in E : e.group # Idle
    BY <1>5, <1>6, GroupsGiven DEF Lists
  <2> HIDE DEF p, E, w
  <2>2. Grouped(p, E) = {Passed(p.at, Head(p.left), e) : e \in E}
    BY <2>1, StationGrouped
  <2>3. WithWhole(Absorbed(p, E), w) = Taken(p, E, w)
    BY <1>3, <2>1, <2>2, AbsorbedIs, ZenonT(60)
  <2> QED
    BY <2>3 DEF E, w
<1>9. StackIs(B, Q, N, rest) /\ FrameIs(B, Q, N, p)
  <2>1. RoutesStay(R, M, Q, N)
    BY <1>5, StoredStays DEF f
  <2>2. StackIs(B, R, M, rest)
    BY <1>1, StackFront DEF rest
  <2>3. StackIs(B, Q, N, rest)
    BY <2>1, <2>2, StackStays
  <2>4. Len(rest) \in 1..Len(rest)
    BY <1>1, <1>3
  <2> QED
    BY <1>3, <2>3, <2>4 DEF StackIs
<1>10. Lists(B, Q, N, Head(p.left), Range(p.chain) \cup {p.at}, f.found, f.whole)
  BY <1>6, <1>7
<1>11. TopAnswered(k) = Append(Front(Front(k)), g)
  BY DEF TopAnswered, f, rest
<1> HIDE DEF g, p
<1>12. p = Last(Front(k))
  BY DEF p, rest
<1> QED
  BY <1>1, <1>3, <1>4, <1>5, <1>7, <1>8, <1>9, <1>10, <1>11, <1>12 DEF f, rest

LEMMA FrameAnswers ==
    ASSUME NEW B, NEW R, DOMAIN R = Stations, NEW M, NEW k, StackIs(B, R, M, k), k # <<>>,
           Last(k).left = <<>>, Front(k) # <<>>, NEW Q, NEW N,
           Stored(R, M, Last(k).at, Last(k).table, Q, N)
    PROVE  StackIs(B, Q, N, TopAnswered(k)) /\ TopAnswered(k) # <<>> /\ TopAnswered(k)[1].chain = k[1].chain
<1> DEFINE E == Last(k).found
           w == Last(k).whole
           rest == Front(k)
           p == Last(rest)
           g == Taken(p, E, w)
           u == Append(Front(rest), g)
<1>1. /\ StackIs(B, Q, N, rest) /\ rest[1] = k[1] /\ rest \in Seq(Frames) /\ rest # <<>>
      /\ p \in Frames /\ p.left # <<>> /\ FrameIs(B, Q, N, p) /\ w \in BOOLEAN
      /\ Lists(B, Q, N, Head(p.left), Range(p.chain) \cup {p.at}, E, w)
      /\ TopAnswered(k) = u
  BY AnswerTaken
<1> HIDE DEF E, w
<1>2. g \in Frames /\ FrameIs(B, Q, N, g) /\ g.at = p.at /\ g.chain = p.chain
  <2> HIDE DEF p, rest
  <2> QED
    BY <1>1, FrameTakes DEF Taken
<1> HIDE DEF g, rest
<1>3. StackIs(B, Q, N, u) /\ u # <<>> /\ u[1].chain = rest[1].chain
  BY <1>1, <1>2, StackSetTop
<1> QED
  BY <1>1, <1>3

LEMMA StepFinish ==
    ASSUME StationInv, NEW t \in Listings, Finish(t)
    PROVE  StationInv'
<1> DEFINE k == stack[t]
           f == Last(k)
           T == f.table
           B == Below(subs)
           u == TopAnswered(k)
           seen == [tools |-> f.found, whole |-> f.whole]
<1>1. /\ k # <<>> /\ f.left = <<>> /\ routes' = [routes EXCEPT ![f.at] = T]
      /\ moved' = moved \cup Replaced(f.at, T) /\ UNCHANGED <<subs, call, losses>>
      /\ IF Front(k) # <<>>
         THEN stack' = [stack EXCEPT ![t] = u] /\ UNCHANGED <<shown, awaited>>
         ELSE /\ stack' = [stack EXCEPT ![t] = <<>>]
              /\ shown' = IF t \in awaited THEN [shown EXCEPT ![f.at] = seen] ELSE shown
              /\ awaited' = awaited \ {t}
  BY DEF Finish, StoreTable, Top, TopAnswered, WithWhole
<1>2. /\ StackIs(B, routes, moved, k) /\ f \in Frames /\ FrameIs(B, routes, moved, f)
      /\ (t \in awaited => k[1].chain = <<>>)
  BY <1>1, AtTop
<1>3. /\ losses \in Nat /\ awaited \in SUBSET Listings /\ stack \in [Listings -> Seq(Frames)]
      /\ DOMAIN routes = Stations /\ subs \in [Stations -> Seq(Hosts)]
      /\ shown \in [Stations -> [tools : SUBSET Listed, whole : BOOLEAN]]
  BY DEF StationInv, StationTypes
<1>4. f.at \in Stations /\ T \in Tables /\ seen \in [tools : SUBSET Listed, whole : BOOLEAN]
  BY <1>2 DEF Frames
<1>5. \A n \in Native[f.at] : n \notin DOMAIN T
  BY <1>2 DEF FrameIs, TableIs
<1>6. Stored(routes, moved, f.at, T, routes', moved')
  BY <1>1 DEF Stored, Replaced
<1>7. /\ \A q, w : StackFine(B, routes, moved, q, w) => StackFine(B, routes', moved', q, w)
      /\ \A z, r : ShownIs(B, routes, moved, z, r) => ShownIs(B, routes', moved', z, r)
  BY <1>4, <1>6, StoreKeeps
<1>8. \A v \in Listings : StackFine(B, routes', moved', stack[v], v \in awaited)
  BY <1>7 DEF StationInv, StacksOK
<1>9. \A z \in Stations : ShownIs(B, routes', moved', z, shown[z])
  BY <1>7 DEF StationInv, ShownOK
<1>10. /\ DOMAIN stack' = Listings /\ stack' = [v \in Listings |-> stack'[v]] /\ awaited' \in SUBSET Listings
       /\ \A v \in Listings : v # t => stack'[v] = stack[v] /\ (v \in awaited' <=> v \in awaited)
       /\ stack'[t] = IF Front(k) # <<>> THEN u ELSE <<>>
  <2> HIDE DEF k, u
  <2> QED
    BY <1>1, <1>3
<1>11. StackFine(B, routes', moved', stack'[t], t \in awaited')
  <2>1. CASE Front(k) # <<>>
    <3>1. StackIs(B, routes', moved', u) /\ u # <<>> /\ u[1].chain = k[1].chain
      <4>1. /\ Stored(routes, moved, Last(k).at, Last(k).table, routes', moved') /\ Last(k).left = <<>>
            /\ StackIs(B, routes, moved, k) /\ k # <<>> /\ Front(k) # <<>> /\ DOMAIN routes = Stations
        BY <1>1, <1>2, <1>3, <1>6, <2>1
      <4> HIDE DEF k, f, T, B, u, seen
      <4>2. /\ StackIs(B, routes', moved', TopAnswered(k)) /\ TopAnswered(k) # <<>>
            /\ TopAnswered(k)[1].chain = k[1].chain
        BY <4>1, FrameAnswers
      <4> QED
        BY <4>2 DEF u
    <3>2. stack'[t] = u /\ (t \in awaited' => t \in awaited)
      BY <1>1, <1>10, <2>1
    <3> HIDE DEF u, k
    <3> QED
      BY <1>2, <3>1, <3>2 DEF StackFine
  <2>2. CASE Front(k) = <<>>
    <3>1. stack'[t] = <<>> /\ t \notin awaited'
      BY <1>1, <1>10, <2>2
    <3> QED
      BY <3>1, StackNone DEF StackFine
  <2> QED
    BY <2>1, <2>2
<1>12. \A v \in Listings : StackFine(B, routes', moved', stack'[v], v \in awaited')
  <2> HIDE DEF k, B
  <2> TAKE v \in Listings
  <2>1. CASE v = t
    BY <1>11, <2>1
  <2>2. CASE v # t
    BY <1>8, <1>10, <2>2 DEF StackFine
  <2> QED
    BY <2>1, <2>2
<1>13. CASE Front(k) = <<>> /\ t \in awaited
  <2>1. shown' = [shown EXCEPT ![f.at] = seen]
    BY <1>1, <1>13
  <2>2. f = k[1]
    <3> HIDE DEF k
    <3>1. Len(k) \in Nat /\ Len(Front(k)) = Len(k) - 1 /\ Last(k) = k[Len(k)]
      BY <1>1, <1>2, StackTop DEF StackIs
    <3>2. Len(k) = 1
      BY <1>13, <3>1
    <3> QED
      BY <3>1, <3>2
  <2>3. Range(f.chain) = {}
    BY <1>2, <1>13, <2>2 DEF Range
  <2>4. Lists(B, routes', moved', f.at, {}, f.found, f.whole) /\ ListIs(B, f.at, {}, B[f.at], f.found, f.whole)
    <3>1. Stored(routes, moved, f.at, f.table, routes', moved') /\ f.left = <<>>
      BY <1>1, <1>6
    <3> HIDE DEF f, B
    <3>2. /\ Lists(B, routes', moved', f.at, Range(f.chain), f.found, f.whole)
          /\ ListIs(B, f.at, Range(f.chain), B[f.at], f.found, f.whole)
      BY <1>2, <1>3, <3>1, FrameEnds
    <3> QED
      BY <2>3, <3>2
  <2>5. ShownIs(B, routes', moved', f.at, seen)
    <3>1. seen.tools = f.found /\ seen.whole = f.whole /\ (f.whole => f.whole = TRUE)
      BY <1>4
    <3> HIDE DEF seen
    <3> QED
      BY <2>4, <3>1 DEF ShownIs, Lists, ListIs
  <2>6. /\ shown' \in [Stations -> [tools : SUBSET Listed, whole : BOOLEAN]]
        /\ shown'[f.at] = seen /\ \A z \in Stations : z # f.at => shown'[z] = shown[z]
    BY <1>3, <1>4, <2>1
  <2>7. \A z \in Stations : ShownIs(B, routes', moved', z, shown'[z])
    BY <1>9, <2>5, <2>6
  <2>8. Below(subs') = B /\ subs' \in [Stations -> Seq(Hosts)] /\ losses' \in Nat /\ UNCHANGED call
    BY <1>1, <1>3
  <2> HIDE DEF f, T, B
  <2> QED
    BY <1>4, <1>5, <1>6, <1>10, <1>12, <2>6, <2>7, <2>8, RouteSteps DEF B
<1>14. CASE ~(Front(k) = <<>> /\ t \in awaited)
  <2>1. shown' = shown
    BY <1>1, <1>14
  <2>7. \A z \in Stations : ShownIs(B, routes', moved', z, shown'[z])
    BY <1>9, <2>1
  <2>8. Below(subs') = B /\ subs' \in [Stations -> Seq(Hosts)] /\ losses' \in Nat /\ UNCHANGED call
    BY <1>1, <1>3
  <2>9. shown' \in [Stations -> [tools : SUBSET Listed, whole : BOOLEAN]]
    BY <1>3, <2>1
  <2> HIDE DEF f, T, B
  <2> QED
    BY <1>4, <1>5, <1>6, <1>10, <1>12, <2>7, <2>8, <2>9, RouteSteps DEF B
<1> QED
  BY <1>13, <1>14

LEMMA StepStationRestarts ==
    ASSUME StationInv, NEW s \in Stations, StationRestarts(s)
    PROVE  StationInv'
<1> DEFINE here == {t \in Listings : stack[t] # <<>> /\ stack[t][1].at = s}
           B == Below(subs)
           none == [tools |-> {}, whole |-> FALSE]
<1>1. PICK order \in [DOMAIN subs[s] -> Range(subs[s])] :
         Range(order) = Range(subs[s]) /\ subs' = [subs EXCEPT ![s] = order]
  BY DEF StationRestarts
<1>2. /\ stack' = [t \in Listings |-> IF t \in here THEN <<>> ELSE stack[t]] /\ awaited' = awaited \ here
      /\ routes' = [routes EXCEPT ![s] = NoRoutes] /\ moved' = moved \cup Replaced(s, NoRoutes)
      /\ shown' = [shown EXCEPT ![s] = none] /\ losses' = losses + 1 /\ UNCHANGED call
  BY DEF StationRestarts, Loses, StoreTable
<1>3. /\ losses \in Nat /\ awaited \in SUBSET Listings /\ stack \in [Listings -> Seq(Frames)]
      /\ subs \in [Stations -> Seq(Hosts)]
      /\ shown \in [Stations -> [tools : SUBSET Listed, whole : BOOLEAN]]
  BY DEF StationInv, StationTypes
<1>4. subs' \in [Stations -> Seq(Hosts)] /\ Below(subs') = B
  <2>1. subs[s] \in Seq(Hosts) /\ DOMAIN subs[s] = 1..Len(subs[s]) /\ Len(subs[s]) \in Nat
    BY <1>3
  <2>2. Range(subs[s]) \subseteq Hosts
    BY <2>1, RangeOfSeq
  <2>3. order \in Seq(Hosts)
    BY <1>1, <2>1, <2>2
  <2>4. subs' \in [Stations -> Seq(Hosts)]
    BY <1>1, <1>3, <2>3
  <2>5. \A z \in Stations : Range(subs'[z]) = Range(subs[z])
    BY <1>1, <1>3
  <2> QED
    BY <2>4, <2>5 DEF Below
<1>5. NoRoutes \in Tables /\ \A n \in Native[s] : n \notin DOMAIN NoRoutes
  BY NoRoutesStored
<1>6. Stored(routes, moved, s, NoRoutes, routes', moved')
  BY <1>2 DEF Stored, Replaced
<1>7. /\ \A q, w : StackFine(B, routes, moved, q, w) => StackFine(B, routes', moved', q, w)
      /\ \A z, r : ShownIs(B, routes, moved, z, r) => ShownIs(B, routes', moved', z, r)
  BY <1>6, StoreKeeps
<1>8. /\ DOMAIN stack' = Listings /\ stack' = [t \in Listings |-> stack'[t]] /\ awaited' \in SUBSET Listings
  BY <1>2, <1>3
<1>9. ASSUME NEW t \in Listings PROVE StackFine(B, routes', moved', stack'[t], t \in awaited')
  <2>1. StackFine(B, routes', moved', stack[t], t \in awaited)
    BY <1>7 DEF StationInv, StacksOK
  <2>2. CASE t \in here
    <3>1. stack'[t] = <<>> /\ t \notin awaited'
      BY <1>2, <2>2
    <3> QED
      BY <3>1, StackNone DEF StackFine
  <2>3. CASE t \notin here
    <3>1. stack'[t] = stack[t] /\ (t \in awaited' => t \in awaited)
      BY <1>2, <2>3
    <3> QED
      BY <2>1, <3>1 DEF StackFine
  <2> QED
    BY <2>2, <2>3
<1>10. shown' \in [Stations -> [tools : SUBSET Listed, whole : BOOLEAN]]
  BY <1>2, <1>3
<1>11. ASSUME NEW z \in Stations PROVE ShownIs(B, routes', moved', z, shown'[z])
  <2>1. ShownIs(B, routes', moved', z, shown[z])
    BY <1>7 DEF StationInv, ShownOK
  <2>2. shown'[z] = IF z = s THEN none ELSE shown[z]
    BY <1>2, <1>3
  <2>3. none.tools = {} /\ none.whole = FALSE
    OBVIOUS
  <2> HIDE DEF none
  <2>4. ShownIs(B, routes', moved', z, none)
    BY <2>3 DEF ShownIs
  <2> QED
    BY <2>1, <2>2, <2>4
<1>12. losses' \in Nat
  BY <1>2, <1>3
<1> HIDE DEF here, B
<1> QED
  BY <1>2, <1>4, <1>5, <1>6, <1>8, <1>9, <1>10, <1>11, <1>12, RouteSteps DEF B

--------------------------------------------------------------------------------
(* StationRouting: the steps of calls.                                          *)

LEMMA CallSteps ==
    ASSUME StationInv, NEW c \in Calls, NEW r \in CallRecords, CallIs(routes, moved, r),
           call' = [call EXCEPT ![c] = r], losses' \in Nat,
           UNCHANGED <<subs, routes, stack, awaited, shown, moved>>
    PROVE  StationInv'
<1>1. call \in [Calls -> CallRecords]
  BY DEF StationInv, StationTypes
<1>2. call' \in [Calls -> CallRecords] /\ call'[c] = r /\ \A d \in Calls : d # c => call'[d] = call[d]
  BY <1>1
<1>3. StationTypes'
  BY <1>2 DEF StationInv, StationTypes
<1>4. StacksOK' /\ ShownOK' /\ NoOwnRoutes(routes, moved)'
  BY DEF StationInv, StacksOK, ShownOK
<1>5. CallsOK'
  <2> SUFFICES ASSUME NEW d \in Calls PROVE CallIs(routes, moved, call'[d])
    BY DEF CallsOK
  <2>1. CallIs(routes, moved, call[d])
    BY DEF StationInv, CallsOK
  <2> QED
    BY <1>2, <2>1
<1> QED
  BY <1>3, <1>4, <1>5 DEF StationInv

\* What is known of a call under way.
LEMMA UnderWay ==
    ASSUME StationInv, NEW c \in Calls, call[c].at # Idle
    PROVE  LET r == call[c] IN
           /\ r \in CallRecords /\ r.at \in Hosts /\ r.answer = "none" /\ losses \in Nat
           /\ \/ Excused(moved, r)
              \/ /\ r.at \notin Range(r.chain)
                 /\ \/ <<r.at, r.name>> \in moved /\ r.name \notin Native[r.at]
                    \/ Arrived(r.at, r.name, r.wanted)
                    \/ /\ r.at \in Stations /\ r.name \notin Native[r.at] /\ r.name \in DOMAIN routes[r.at]
                       /\ LeadsOn(routes, moved, r.at, Range(r.chain), routes[r.at][r.name], r.name, r.wanted)
<1> DEFINE r == call[c]
<1>1. r \in CallRecords /\ losses \in Nat /\ moved \in SUBSET (Stations \X Labels)
  BY DEF StationInv, StationTypes
<1>2. CallIs(routes, moved, r) /\ r.at # Idle
  BY DEF StationInv, CallsOK
<1> HIDE DEF r
<1>3. r.at \in Hosts
  BY <1>1, <1>2 DEF CallRecords
<1>4. CASE Leads(routes, moved, r.at, Range(r.chain), r.name, r.wanted)
  <2> DEFINE s == r.at
             n == r.name
             t == r.wanted
             A == Range(r.chain)
  <2> HIDE DEF s, n, t, A
  <2>1. Leads(routes, moved, s, A, n, t)
    BY <1>4 DEF s, n, t, A
  <2>2. /\ s \in Hosts /\ s \notin A
        /\ \/ <<s, n>> \in moved
           \/ Arrived(s, n, t)
           \/ s \in Stations /\ n \notin Native[s] /\ n \in DOMAIN routes[s]
              /\ LeadsOn(routes, moved, s, A, routes[s][n], n, t)
    BY <2>1, LeadsCases
  <2>3. <<s, n>> \in moved => n \notin Native[s]
    BY <1>1 DEF StationInv, NoOwnRoutes
  <2> QED
    BY <1>1, <1>2, <1>3, <2>2, <2>3 DEF CallIs, s, n, t, A, r
<1> QED
  BY <1>1, <1>2, <1>3, <1>4 DEF CallIs, r

LEMMA StepBeginCall ==
    ASSUME StationInv, NEW c \in Calls, NEW s \in Stations, BeginCall(c, s)
    PROVE  StationInv'
<1>1. PICK e \in shown[s].tools : call' = [call EXCEPT ![c] = [NoCall EXCEPT !.at = s, !.name = e.name, !.wanted = e.tool]]
  BY DEF BeginCall
<1> DEFINE r == [NoCall EXCEPT !.at = s, !.name = e.name, !.wanted = e.tool]
<1>2. e \in Listed /\ losses \in Nat
  BY DEF StationInv, StationTypes
<1>3. s \in Hosts /\ s # Idle /\ e.name \in Labels /\ e.tool \in MaybeTool /\ <<>> \in MaybeTool
  BY <1>2, StationAssumption DEF Listed, Hosts, MaybeTool
<1>4. NoCall \in CallRecords
  BY <1>3 DEF NoCall, CallRecords, Labels
<1>5. r \in CallRecords /\ r.at = s /\ r.name = e.name /\ r.wanted = e.tool /\ r.chain = <<>> /\ r.answer = "none"
  <2>1. NoCall.chain = <<>> /\ NoCall.answer = "none"
    BY DEF NoCall
  <2> QED
    BY <1>3, <1>4, <2>1 DEF CallRecords
<1>6. Leads(routes, moved, s, {}, e.name, e.tool)
  BY DEF StationInv, ShownOK, ShownIs
<1> HIDE DEF r
<1>7. Range(r.chain) = {}
  BY <1>5 DEF Range
<1>8. CallIs(routes, moved, r)
  BY <1>5, <1>6, <1>7 DEF CallIs
<1>9. UNCHANGED <<subs, routes, stack, awaited, shown, moved, losses>>
  BY DEF BeginCall
<1>10. call' = [call EXCEPT ![c] = r]
  BY <1>1 DEF r
<1> QED
  BY <1>2, <1>5, <1>8, <1>9, <1>10, CallSteps

LEMMA StepRunTool ==
    ASSUME StationInv, NEW c \in Calls, RunTool(c)
    PROVE  StationInv'
<1> DEFINE q == call[c]
           t == Tool(q.at, q.name)
           r == [q EXCEPT !.at = Idle, !.answer = "ran", !.ran = t]
<1>1. /\ q.at # Idle /\ q.name \in Native[q.at] /\ call' = [call EXCEPT ![c] = r]
      /\ UNCHANGED <<subs, routes, stack, awaited, shown, moved, losses>>
  BY DEF RunTool, Runs, Here, Answer
<1>2. q \in CallRecords /\ q.at \in Hosts /\ losses \in Nat
      /\ (Excused(moved, q) \/ Arrived(q.at, q.name, q.wanted))
  BY <1>1, UnderWay
<1> HIDE DEF q
<1>3. t \in MaybeTool
  BY <1>2 DEF CallRecords, MaybeTool, Tool
<1> HIDE DEF t
<1>4. r \in CallRecords
  BY <1>2, <1>3 DEF CallRecords
<1>5. r.at = Idle /\ r.answer = "ran" /\ r.ran = t /\ r.wanted = q.wanted /\ r.visited = q.visited
  BY <1>2 DEF CallRecords
<1>6. Excused(moved, r) \/ r.ran = r.wanted
  BY <1>2, <1>5 DEF Excused, Arrived, t
<1> HIDE DEF r
<1>7. CallIs(routes, moved, r)
  BY <1>5, <1>6 DEF CallIs, CallRight
<1> QED
  BY <1>1, <1>2, <1>4, <1>7, CallSteps

\* A name that can be put in a header is not refused.
LEMMA ReachesUnlessOdd ==
    ASSUME NEW n, ~Reaches("call", n)
    PROVE  n \in OddNames
<1> SUFFICES ASSUME n \notin OddNames PROVE FALSE
  OBVIOUS
<1> DEFINE q == Request("call", n)
<1>1. /\ q.origin = "none" /\ q.body = "json" /\ q.version = "supported" /\ q.meta = TRUE /\ q.method = "call"
      /\ q.name = n /\ q.headerVersion = "supported" /\ q.headerMethod = "call" /\ q.headerName = n
  BY DEF Request
<1> HIDE DEF q
<1>2. Handle(q) = 200
  BY <1>1 DEF Handle, Methods
<1> QED
  BY <1>2 DEF Reaches, q

LEMMA StepForward ==
    ASSUME StationInv, NEW c \in Calls, Forward(c)
    PROVE  StationInv'
<1> DEFINE q == call[c]
           s == q.at
           next == routes[s][q.name]
           n == LocalName(s, next, q.name)
           onward == [q EXCEPT !.at = next, !.name = n, !.chain = Append(q.chain, s),
                               !.visited = q.visited \cup {<<s, q.name>>}]
           refused == [q EXCEPT !.at = Idle, !.name = n, !.answer = "internal"]
<1>1. /\ s # Idle /\ s \in Stations /\ q.name \notin Native[s] /\ q.name \in DOMAIN routes[s]
      /\ call' = [call EXCEPT ![c] = IF Reaches("call", n) THEN onward ELSE refused]
      /\ UNCHANGED <<subs, routes, stack, awaited, shown, moved, losses>>
  BY DEF Forward, Routed, Runs, Here
<1>2. /\ q \in CallRecords /\ s \in Hosts /\ q.answer = "none" /\ losses \in Nat
      /\ \/ Excused(moved, q)
         \/ <<s, q.name>> \in moved
         \/ LeadsOn(routes, moved, s, Range(q.chain), next, q.name, q.wanted)
  BY <1>1, UnderWay DEF Arrived
<1>3. next \in Hosts
  <2>1. routes[s] \in Tables
    BY <1>1 DEF StationInv, StationTypes
  <2> HIDE DEF q, s
  <2> QED
    BY <1>1, <2>1 DEF Tables
<1> HIDE DEF q, next
<1>4. q.name \in Labels /\ q.chain \in Seq(Hosts) /\ q.visited \in SUBSET (Hosts \X Labels) /\ n \in Labels
  BY <1>2, LocalIsLabel DEF CallRecords
<1>5. CASE Reaches("call", n)
  <2> DEFINE chain == Append(q.chain, s)
             visited == q.visited \cup {<<s, q.name>>}
             r == [q EXCEPT !.at = next, !.name = n, !.chain = chain, !.visited = visited]
  <2>1. chain \in Seq(Hosts) /\ Range(chain) = Range(q.chain) \cup {s}
    BY <1>2, <1>4, RangeMore
  <2>2. visited \in SUBSET (Hosts \X Labels)
    BY <1>2, <1>4
  <2>3. /\ Excused(moved, q) => visited \cap moved # {}
        /\ <<s, q.name>> \in moved => visited \cap moved # {}
    BY DEF Excused
  <2>4. r = onward
    OBVIOUS
  <2> HIDE DEF chain, visited, n
  <2>5. r \in CallRecords /\ r.at = next /\ r.name = n /\ r.chain = chain /\ r.visited = visited
        /\ r.wanted = q.wanted /\ r.answer = "none"
    BY <1>2, <1>3, <1>4, <2>1, <2>2 DEF CallRecords
  <2>6. Excused(moved, r) \/ Leads(routes, moved, next, Range(chain), n, q.wanted)
    BY <1>2, <2>1, <2>3, <2>5 DEF Excused, LeadsOn, n
  <2>7. call' = [call EXCEPT ![c] = r]
    BY <1>1, <1>5, <2>4
  <2> HIDE DEF r
  <2>8. CallIs(routes, moved, r)
    BY <2>5, <2>6 DEF CallIs
  <2> QED
    BY <1>1, <1>2, <2>5, <2>7, <2>8, CallSteps
<1>6. CASE ~Reaches("call", n)
  <2> DEFINE r == refused
  <2>1. n \in OddNames
    BY <1>6, ReachesUnlessOdd
  <2>2. call' = [call EXCEPT ![c] = r]
    BY <1>1, <1>6
  <2> HIDE DEF n
  <2>3. r \in CallRecords /\ r.at = Idle /\ r.name = n /\ r.answer = "internal"
    BY <1>2, <1>4 DEF CallRecords
  <2> HIDE DEF r
  <2>4. CallIs(routes, moved, r)
    BY <2>1, <2>3 DEF CallIs, CallRight
  <2> QED
    BY <1>1, <1>2, <2>2, <2>3, <2>4, CallSteps
<1> QED
  BY <1>5, <1>6

LEMMA StepRefuseCall ==
    ASSUME StationInv, NEW c \in Calls, RefuseCall(c)
    PROVE  StationInv'
<1> DEFINE q == call[c]
           s == q.at
           visited == q.visited \cup {<<s, q.name>>}
           cycle == [q EXCEPT !.at = Idle, !.answer = "cycle", !.ran = <<>>]
           unknown == [q EXCEPT !.at = Idle, !.answer = "unknown", !.visited = visited]
<1>1. /\ s # Idle
      /\ \/ s \in Range(q.chain) /\ call' = [call EXCEPT ![c] = cycle]
         \/ /\ q.name \notin Native[s] /\ (s \in Stations => q.name \notin DOMAIN routes[s])
            /\ call' = [call EXCEPT ![c] = unknown]
      /\ UNCHANGED <<subs, routes, stack, awaited, shown, moved, losses>>
  BY DEF RefuseCall, Routed, Runs, Here, Answer, Cycle
<1>2. /\ q \in CallRecords /\ s \in Hosts /\ losses \in Nat
      /\ s \in Range(q.chain) => Excused(moved, q)
      /\ q.name \notin Native[s] /\ (s \in Stations => q.name \notin DOMAIN routes[s]) =>
            Excused(moved, q) \/ <<s, q.name>> \in moved
  BY <1>1, UnderWay DEF Arrived
<1> HIDE DEF q
<1>3. visited \in SUBSET (Hosts \X Labels)
  BY <1>2 DEF CallRecords
<1>4. Excused(moved, q) \/ <<s, q.name>> \in moved => visited \cap moved # {}
  BY DEF Excused
<1>5. <<>> \in MaybeTool
  BY DEF MaybeTool
<1> HIDE DEF visited
<1>6. cycle \in CallRecords /\ cycle.at = Idle /\ cycle.visited = q.visited
  BY <1>2, <1>5 DEF CallRecords
<1>7. unknown \in CallRecords /\ unknown.at = Idle /\ unknown.visited = visited
  BY <1>2, <1>3 DEF CallRecords
<1>8. Excused(moved, q) => CallIs(routes, moved, cycle)
  BY <1>6 DEF CallIs, CallRight, Excused
<1>9. Excused(moved, q) \/ <<s, q.name>> \in moved => CallIs(routes, moved, unknown)
  BY <1>4, <1>7 DEF CallIs, CallRight, Excused
<1> HIDE DEF cycle, unknown
<1>10. CASE s \in Range(q.chain) /\ call' = [call EXCEPT ![c] = cycle]
  BY <1>1, <1>2, <1>6, <1>8, <1>10, CallSteps
<1>11. CASE /\ q.name \notin Native[s] /\ (s \in Stations => q.name \notin DOMAIN routes[s])
            /\ call' = [call EXCEPT ![c] = unknown]
  BY <1>1, <1>2, <1>7, <1>9, <1>11, CallSteps
<1> QED
  BY <1>1, <1>10, <1>11

LEMMA StepLoseCall ==
    ASSUME StationInv, NEW c \in Calls, LoseCall(c)
    PROVE  StationInv'
<1> DEFINE q == call[c]
           r == [q EXCEPT !.at = Idle, !.lost = TRUE, !.answer = "internal"]
<1>1. /\ q.at # Idle /\ call' = [call EXCEPT ![c] = r] /\ losses' = losses + 1
      /\ UNCHANGED <<subs, routes, stack, awaited, shown, moved>>
  BY DEF LoseCall, Loses, Here
<1>2. q \in CallRecords /\ losses \in Nat
  BY DEF StationInv, StationTypes
<1> HIDE DEF q
<1>3. r \in CallRecords /\ r.at = Idle /\ r.lost
  BY <1>2 DEF CallRecords
<1>4. losses' \in Nat
  BY <1>1, <1>2
<1> HIDE DEF r
<1>5. CallIs(routes, moved, r)
  BY <1>3 DEF CallIs, CallRight
<1> QED
  BY <1>1, <1>3, <1>4, <1>5, CallSteps

LEMMA StationsStep == StationInv /\ [StationNext]_stationVars => StationInv'
<1> SUFFICES ASSUME StationInv, [StationNext]_stationVars PROVE StationInv'
  OBVIOUS
<1>1. ASSUME NEW t \in Listings, NEW s \in Stations, BeginListing(t, s) PROVE StationInv'
  BY <1>1, StepBeginListing
<1>2. ASSUME NEW t \in Listings, AskStation(t) \/ Refused(t) \/ AskServer(t) \/ Unreachable(t) \/ Finish(t)
      PROVE  StationInv'
  BY <1>2, StepAskStation, StepRefused, StepAskServer, StepUnreachable, StepFinish
<1>3. ASSUME NEW t \in Listings, NEW d \in 1..Cardinality(Stations), Abandon(t, d) PROVE StationInv'
  BY <1>3, StepAbandon
<1>4. ASSUME NEW s \in Stations, StationRestarts(s) PROVE StationInv'
  BY <1>4, StepStationRestarts
<1>5. ASSUME NEW c \in Calls, NEW s \in Stations, BeginCall(c, s) PROVE StationInv'
  BY <1>5, StepBeginCall
<1>6. ASSUME NEW c \in Calls, RunTool(c) \/ Forward(c) \/ RefuseCall(c) \/ LoseCall(c) PROVE StationInv'
  BY <1>6, StepRunTool, StepForward, StepRefuseCall, StepLoseCall
<1>7. CASE UNCHANGED stationVars
  BY <1>7 DEF stationVars, StationInv, StationTypes, StacksOK, ShownOK, CallsOK
<1> QED
  BY <1>1, <1>2, <1>3, <1>4, <1>5, <1>6, <1>7 DEF StationNext

\* The invariant holds in every behaviour: what a session was shown leads, by the
\* routes of its station and of those below, to the tools it stands for.
THEOREM StationInvHolds == StationSpec => []StationInv
BY StationsStart, StationsStep, PTL DEF StationSpec

\* What a listing that nothing failed in shows is complete, without doubles, and
\* has the station's own tools (station.rs:158-228).
THEOREM ListingsAreComplete == StationSpec => []ListingComplete
<1>1. StationInv => ListingComplete
  <2> SUFFICES ASSUME StationInv, NEW s \in Stations, shown[s].whole
               PROVE  LET L == shown[s].tools IN
                      /\ L \subseteq AllTools(s) /\ Names(L) = Names(AllTools(s))
                      /\ \A e, g \in L : e.name = g.name => e = g
                      /\ NativeEntries(s) \subseteq L
    BY DEF ListingComplete
  <2> DEFINE L == shown[s].tools
             B == Below(subs)
  <2>1. ListIs(B, s, {}, B[s], L, TRUE)
    BY DEF StationInv, ShownOK, ShownIs
  <2>2. s \in Hosts /\ s \notin {} /\ NativeEntries(s) = OwnTools(s) /\ subs \in [Stations -> Seq(Hosts)]
    BY NativeListed DEF Hosts, StationInv, StationTypes
  <2>3. \A e : e \in AllTools(s) <=> ToolFrom(B, s, {}, e)
    BY <2>2, AllToolsAre
  <2> HIDE DEF L, B
  <2>4. ASSUME NEW e, Gives(B, s, {}, B[s], e) PROVE ToolFrom(B, s, {}, e)
    BY <2>2, <2>4, ToolNative, ToolPassed DEF Gives, Via
  <2>5. ASSUME NEW e, ToolFrom(B, s, {}, e) PROVE Gives(B, s, {}, B[s], e)
    <3>1. e \in OwnTools(s) \/ HasVia(B, s, {}, e)
      BY <2>5, ToolCases
    <3> QED
      BY <3>1 DEF HasVia, Gives
  <2>6. L \subseteq AllTools(s)
    BY <2>1, <2>3, <2>4 DEF ListIs
  <2>7. Names(AllTools(s)) \subseteq Names(L)
    BY <2>1, <2>3, <2>5 DEF ListIs, Names
  <2>8. Names(L) = Names(AllTools(s))
    BY <2>6, <2>7 DEF Names
  <2> QED
    BY <2>1, <2>2, <2>6, <2>8 DEF ListIs, L
<1> QED
  BY <1>1, StationInvHolds, PTL

--------------------------------------------------------------------------------
(* StationRouting: without cycles and losses, tables do not depend on who asks. *)

\* X has what its stations have below them; x is somewhere below a.
Closed(B, X) == \A y \in X : y \in Stations => B[y] \subseteq X
Over(B, a, x) == \A X : B[a] \subseteq X /\ Closed(B, X) => x \in X
NoCycles(B) == \A s \in Stations : ~Over(B, s, s)

\* A way stays in a closed set.
LEMMA WayStays ==
    ASSUME NEW B, NEW c, NEW A, NEW w, WayFrom(B, c, A, w), NEW X, Closed(B, X), c \in X
    PROVE  \A i \in 1..Len(w) : w[i] \in X
<1> DEFINE T == {k \in Nat : k + 1 <= Len(w) => w[k + 1] \in X}
<1>1. w \in Seq(Hosts) /\ Len(w) \in Nat /\ w[1] = c
  BY DEF WayFrom
<1>2. 0 \in T
  BY <1>1
<1>3. ASSUME NEW k \in Nat, k \in T PROVE k + 1 \in T
  <2> DEFINE m == k + 1
  <2>0. m \in Nat
    OBVIOUS
  <2> SUFFICES ASSUME m + 1 <= Len(w) PROVE w[m + 1] \in X
    BY <2>0
  <2>1. m \in 1..(Len(w) - 1) /\ w[m] \in X
    BY <1>1, <1>3
  <2> HIDE DEF m
  <2>2. w[m] \in Stations /\ w[m + 1] \in B[w[m]]
    BY <2>1 DEF WayFrom
  <2> QED
    BY <2>1, <2>2 DEF Closed
<1>4. Nat \subseteq T
  <2> HIDE DEF T
  <2> QED
    BY <1>2, <1>3, CountUp
<1> TAKE i \in 1..Len(w)
<1>5. i - 1 \in T /\ (i - 1) + 1 = i /\ i <= Len(w)
  BY <1>1, <1>4
<1> QED
  BY <1>5

\* From the end of a way one can go on.
LEMMA WayOn ==
    ASSUME NEW B, NEW r, NEW w, WayFrom(B, r, {}, w), Host(w) \in Stations,
           NEW z \in Hosts, z \in B[Host(w)]
    PROVE  \E v : WayFrom(B, r, {}, v) /\ Host(v) = z
<1>1. w \in Seq(Hosts) /\ Len(w) \in Nat /\ Len(w) > 0 /\ w[1] = r /\ DOMAIN w = 1..Len(w)
  BY DEF WayFrom
<1>2. IsInjective(w) /\ \A i \in 1..(Len(w) - 1) : w[i] \in Stations /\ w[i + 1] \in B[w[i]]
  BY DEF WayFrom
<1>3. CASE \E i \in 1..Len(w) : w[i] = z
  <2>1. PICK m \in 1..Len(w) : w[m] = z
    BY <1>3
  <2> DEFINE v == SubSeq(w, 1, m)
  <2>2. v \in Seq(Hosts) /\ Len(v) = m /\ \A i \in 1..m : v[i] = w[i]
    <3>1. m \in Nat /\ 1 <= m /\ m <= Len(w) /\ \A i \in 1..m : w[i] \in Hosts
      BY <1>1
    <3> QED
      BY <1>1, <3>1
  <2> HIDE DEF v
  <2>3. m \in Nat /\ m > 0 /\ 1 \in 1..m /\ m \in 1..m /\ DOMAIN v = 1..m /\ \A i \in 1..m : i \in 1..Len(w)
    BY <1>1, <2>2
  <2>4. IsInjective(v)
    <3> SUFFICES ASSUME NEW i \in 1..m, NEW j \in 1..m, v[i] = v[j] PROVE i = j
      BY <2>3 DEF IsInjective
    <3>1. w[i] = w[j] /\ i \in DOMAIN w /\ j \in DOMAIN w
      BY <1>1, <2>2, <2>3
    <3> QED
      BY <1>2, <3>1 DEF IsInjective
  <2>5. ASSUME NEW i \in 1..(m - 1) PROVE v[i] \in Stations /\ v[i + 1] \in B[v[i]]
    <3>1. i \in 1..m /\ i + 1 \in 1..m /\ i \in 1..(Len(w) - 1)
      BY <1>1, <2>3
    <3>2. v[i] = w[i] /\ v[i + 1] = w[i + 1]
      BY <2>2, <3>1
    <3> QED
      BY <1>2, <3>1, <3>2
  <2>6. WayFrom(B, r, {}, v)
    BY <1>1, <2>2, <2>3, <2>4, <2>5 DEF WayFrom
  <2>7. Host(v) = z
    BY <2>1, <2>2, <2>3 DEF Host, Last
  <2> QED
    BY <2>6, <2>7
<1>4. CASE ~ \E i \in 1..Len(w) : w[i] = z
  <2> DEFINE v == Append(w, z)
             m == Len(w) + 1
  <2>1. v \in Seq(Hosts) /\ Len(v) = m /\ v[m] = z /\ \A i \in 1..Len(w) : v[i] = w[i]
    BY <1>1
  <2> HIDE DEF v
  <2>2. DOMAIN v = 1..m /\ m > 0 /\ 1 \in 1..Len(w) /\ v[1] = r
    BY <1>1, <2>1
  <2>3. \A i \in 1..m : i \in 1..Len(w) \/ i = m
    BY <1>1
  <2>4. IsInjective(v)
    <3> SUFFICES ASSUME NEW i \in 1..m, NEW j \in 1..m, v[i] = v[j] PROVE i = j
      BY <2>2 DEF IsInjective
    <3>1. CASE i \in 1..Len(w) /\ j \in 1..Len(w)
      BY <1>1, <1>2, <2>1, <3>1 DEF IsInjective
    <3>2. CASE i = m /\ j = m
      BY <3>2
    <3> QED
      BY <1>4, <2>1, <2>3, <3>1, <3>2
  <2>8. m - 1 = Len(w) /\ Len(w) \in Nat
    BY <1>1
  <2>5. ASSUME NEW i \in 1..(m - 1) PROVE v[i] \in Stations /\ v[i + 1] \in B[v[i]]
    <3>1. CASE i = Len(w)
      <4>1. v[i] = Host(w) /\ v[i + 1] = z
        BY <1>1, <2>1, <2>5, <3>1 DEF Host, Last
      <4> QED
        BY <4>1
    <3>2. CASE i # Len(w)
      <4>1. i \in 1..(Len(w) - 1) /\ i \in 1..Len(w) /\ i + 1 \in 1..Len(w)
        <5> HIDE DEF m
        <5> QED
          BY <2>8, <3>2
      <4>2. v[i] = w[i] /\ v[i + 1] = w[i + 1]
        BY <2>1, <4>1
      <4> QED
        BY <1>2, <4>1, <4>2
    <3> QED
      BY <3>1, <3>2
  <2>6. WayFrom(B, r, {}, v)
    BY <2>1, <2>2, <2>4, <2>5 DEF WayFrom
  <2>7. Host(v) = z
    BY <2>1 DEF Host, Last
  <2> QED
    BY <2>6, <2>7
<1> QED
  BY <1>3, <1>4

\* Where the stations form no cycle, none is below itself.
LEMMA AcyclicIs ==
    ASSUME subs \in [Stations -> Seq(Hosts)], Acyclic
    PROVE  NoCycles(Below(subs))
<1> DEFINE B == Below(subs)
<1>1. SUFFICES ASSUME NEW s \in Stations, Over(B, s, s) PROVE FALSE
  BY DEF NoCycles
<1>2. \A z \in Stations : B[z] = Range(subs[z]) /\ B[z] \subseteq Hosts
  BY RangeOfSeq DEF Below
<1> HIDE DEF B
<1> DEFINE X == {x \in Hosts : \E r \in B[s] : \E w : WayFrom(B, r, {}, w) /\ Host(w) = x}
<1>3. B[s] \subseteq X
  <2> SUFFICES ASSUME NEW r \in B[s] PROVE r \in X
    OBVIOUS
  <2>1. r \in Hosts
    BY <1>2
  <2>2. WayFrom(B, r, {}, <<r>>) /\ Host(<<r>>) = r
    BY <2>1, WayOfOne
  <2> QED
    BY <2>1, <2>2
<1>4. Closed(B, X)
  <2> SUFFICES ASSUME NEW y \in X, y \in Stations, NEW z \in B[y] PROVE z \in X
    BY DEF Closed
  <2>1. PICK r, w : r \in B[s] /\ WayFrom(B, r, {}, w) /\ Host(w) = y
    OBVIOUS
  <2>2. z \in Hosts
    BY <1>2
  <2> HIDE DEF X
  <2>3. \E v : WayFrom(B, r, {}, v) /\ Host(v) = z
    BY <2>1, <2>2, WayOn
  <2> QED
    BY <2>1, <2>2, <2>3 DEF X
<1>5. s \in X
  <2> HIDE DEF X
  <2> QED
    BY <1>1, <1>3, <1>4 DEF Over
<1>6. PICK r, w : r \in B[s] /\ WayFrom(B, r, {}, w) /\ Host(w) = s
  BY <1>5
<1>7. CASE r \in Stations
  <2>1. w \in Ways(r)
    BY <1>6, <1>7, WaysAre DEF B
  <2>2. s \in Reachable(r)
    BY <1>6, <2>1 DEF Reachable, Host, Last
  <2> QED
    BY <1>2, <1>6, <1>7, <2>2 DEF Acyclic
<1>8. CASE r \notin Stations
  <2>1. Len(w) < 2
    BY <1>6, <1>8, WayTail
  <2> QED
    BY <1>6, <1>8, <2>1, WayEmpty
<1> QED
  BY <1>7, <1>8

\* The tools of a sub-station are the same, whoever asks from above.
LEMMA ToolsWhoeverAsks ==
    ASSUME NEW B, NoCycles(B), NEW s \in Stations, NEW c \in B[s], NEW A \in SUBSET Stations,
           \A a \in A : Over(B, a, s), NEW g
    PROVE  ToolFrom(B, c, A \cup {s}, g) <=> ToolFrom(B, c, {}, g)
<1>1. ASSUME NEW w, WayFrom(B, c, A \cup {s}, w) PROVE WayFrom(B, c, {}, w)
  BY <1>1 DEF WayFrom
<1>2. ASSUME NEW w, WayFrom(B, c, {}, w) PROVE WayFrom(B, c, A \cup {s}, w)
  <2>1. ASSUME NEW i \in 1..Len(w), NEW a \in Stations, w[i] = a, a = s \/ Over(B, a, s) PROVE FALSE
    <3>1. ASSUME NEW X, B[a] \subseteq X, Closed(B, X) PROVE a \in X
      <4>1. c \in X
        BY <2>1, <3>1 DEF Over, Closed
      <4> QED
        BY <1>2, <2>1, <3>1, <4>1, WayStays
    <3>2. Over(B, a, a)
      BY <3>1 DEF Over
    <3> QED
      BY <3>2 DEF NoCycles
  <2>2. \A i \in 1..Len(w) : w[i] \notin A \cup {s}
    BY <2>1
  <2> QED
    BY <1>2, <2>2 DEF WayFrom
<1> QED
  BY <1>1, <1>2 DEF ToolFrom

\* Station s has a name n by its sub-station c; by one of the first j of q; and
\* c is the first of these it has it by.
HasName(B, s, c, n) == \E g : ToolFrom(B, c, {}, g) /\ n = GlobalName(s, c, g.name)
NamedBy(B, s, q, j, n) == \E i \in 1..j : HasName(B, s, q[i], n)
FirstOf(B, s, q, j, n, c) ==
    \E i \in 1..j : c = q[i] /\ HasName(B, s, c, n) /\ \A h \in 1..(i - 1) : ~HasName(B, s, q[h], n)
\* The table of a station when the first j of its sub-stations q have answered.
TableRight(B, s, q, j, T) ==
    /\ \A n : n \in DOMAIN T <=> n \notin Native[s] /\ NamedBy(B, s, q, j, n)
    /\ \A n \in DOMAIN T : FirstOf(B, s, q, j, n, T[n])
LeftOf(q, j, l) == j \in Nat /\ j + Len(l) = Len(q) /\ \A i \in 1..Len(l) : l[i] = q[j + i]
FrameRight(B, S, f) ==
    /\ f.whole
    /\ \A a \in Range(f.chain) : Over(B, a, f.at)
    /\ \E j : LeftOf(S[f.at], j, f.left) /\ TableRight(B, f.at, S[f.at], j, f.table)
StackRight(B, S, k) == \A i \in 1..Len(k) : FrameRight(B, S, k[i])
RoutesRight(B, S, R) == \A s \in Stations : R[s] = NoRoutes \/ TableRight(B, s, S[s], Len(S[s]), R[s])

\* As long as nothing fails.
Settled ==
    losses = 0 /\ NoCycles(Below(subs)) =>
        /\ moved = {} /\ RoutesRight(Below(subs), subs, routes)
        /\ \A t \in Listings : StackRight(Below(subs), subs, stack[t])

\* There is one such table.
LEMMA OneFirst ==
    ASSUME NEW B, NEW s, NEW q, NEW j \in Nat, NEW n, NEW c, NEW d,
           FirstOf(B, s, q, j, n, c), FirstOf(B, s, q, j, n, d)
    PROVE  c = d
<1>1. PICK i \in 1..j : c = q[i] /\ HasName(B, s, q[i], n) /\ \A h \in 1..(i - 1) : ~HasName(B, s, q[h], n)
  BY DEF FirstOf
<1>2. PICK k \in 1..j : d = q[k] /\ HasName(B, s, q[k], n) /\ \A h \in 1..(k - 1) : ~HasName(B, s, q[h], n)
  BY DEF FirstOf
<1>3. i = k \/ i \in 1..(k - 1) \/ k \in 1..(i - 1)
  OBVIOUS
<1> QED
  BY <1>1, <1>2, <1>3

LEMMA OneTable ==
    ASSUME NEW B, NEW s, NEW q, NEW j \in Nat, NEW T, NEW U,
           TableRight(B, s, q, j, T), U = NoRoutes \/ TableRight(B, s, q, j, U)
    PROVE  {n \in DOMAIN U : n \notin DOMAIN T \/ T[n] # U[n]} = {}
<1>1. CASE U = NoRoutes
  BY <1>1, NoRoutesStored
<1>2. CASE TableRight(B, s, q, j, U)
  <2> SUFFICES ASSUME NEW n \in DOMAIN U PROVE n \in DOMAIN T /\ T[n] = U[n]
    OBVIOUS
  <2>1. n \in DOMAIN T
    BY <1>2 DEF TableRight
  <2>2. FirstOf(B, s, q, j, n, T[n]) /\ FirstOf(B, s, q, j, n, U[n])
    BY <1>2, <2>1 DEF TableRight
  <2> QED
    BY <2>1, <2>2, OneFirst
<1> QED
  BY <1>1, <1>2

\* One more sub-station has answered.
Gains(B, s, T, U, c) ==
    /\ \A n : n \in DOMAIN U <=> n \in DOMAIN T \/ (HasName(B, s, c, n) /\ n \notin Native[s])
    /\ \A n \in DOMAIN U : U[n] = IF n \in DOMAIN T THEN T[n] ELSE c
LEMMA TableGains ==
    ASSUME NEW B, NEW s, NEW q, NEW j \in Nat, NEW T, TableRight(B, s, q, j, T),
           NEW U, Gains(B, s, T, U, q[j + 1])
    PROVE  TableRight(B, s, q, j + 1, U)
<1>1. \A i \in 1..(j + 1) : i \in 1..j \/ i = j + 1
  OBVIOUS
<1>2. \A i \in 1..j : i \in 1..(j + 1)
  OBVIOUS
<1>3. j + 1 \in 1..(j + 1) /\ (j + 1) - 1 = j
  OBVIOUS
<1>4. \A n : NamedBy(B, s, q, j + 1, n) <=> NamedBy(B, s, q, j, n) \/ HasName(B, s, q[j + 1], n)
  BY <1>1, <1>2, <1>3 DEF NamedBy
<1>5. \A n : n \in DOMAIN U <=> n \notin Native[s] /\ NamedBy(B, s, q, j + 1, n)
  BY <1>4 DEF TableRight, Gains
<1>6. ASSUME NEW n \in DOMAIN U PROVE FirstOf(B, s, q, j + 1, n, U[n])
  <2>1. CASE n \in DOMAIN T
    <3>1. FirstOf(B, s, q, j, n, U[n])
      BY <2>1 DEF TableRight, Gains
    <3> QED
      BY <3>1, <1>2 DEF FirstOf
  <2>2. CASE n \notin DOMAIN T
    <3>1. U[n] = q[j + 1] /\ HasName(B, s, q[j + 1], n) /\ n \notin Native[s]
      BY <2>2 DEF Gains
    <3>2. ~NamedBy(B, s, q, j, n)
      BY <2>2, <3>1 DEF TableRight
    <3> QED
      BY <1>3, <3>1, <3>2 DEF FirstOf, NamedBy
  <2> QED
    BY <2>1, <2>2
<1> QED
  BY <1>5, <1>6 DEF TableRight

\* What a frame takes from a sub-station, whose whole list has come.
LEMMA TakenGains ==
    ASSUME NEW B, NoCycles(B), NEW R, NEW M, NEW f \in Frames, f.left # <<>>, FrameIs(B, R, M, f),
           \A a \in Range(f.chain) : Over(B, a, f.at), NEW E,
           Lists(B, R, M, Head(f.left), Range(f.chain) \cup {f.at}, E, TRUE)
    PROVE  Gains(B, f.at, f.table, Longer(f.table, New(f, E), Head(f.left)), Head(f.left))
<1> DEFINE s == f.at
           A == Range(f.chain)
           c == Head(f.left)
           T == f.table
           L == f.found
           U == Longer(T, New(f, E), c)
<1>1. s \in Stations /\ A \in SUBSET Stations /\ c \in B[s] /\ c \in Hosts /\ s \in Hosts
  <2>1. f.chain \in Seq(Stations)
    BY DEF Frames
  <2>2. c \in Range(f.left) /\ c \in Hosts
    BY NextIs
  <2> QED
    BY <2>1, <2>2, RangeOfSeq DEF FrameIs, Frames, Hosts
<1>2. \A n : n \in Names(L) <=> n \in Native[s] \/ n \in DOMAIN T
  <2>1. \A n \in Native[s] : n \in Names(L)
    <3>1. OwnTools(s) \subseteq L
      BY DEF FrameIs, ListIs
    <3> QED
      BY <3>1, OwnTell DEF Names
  <2>2. \A n \in DOMAIN T : n \in Names(L)
    BY DEF FrameIs, TableIs
  <2>3. \A e \in L : e.name \in Native[s] \/ e.name \in DOMAIN T
    BY DEF FrameIs, TableIs
  <2> QED
    BY <2>1, <2>2, <2>3 DEF Names
<1>3. \A g : ToolFrom(B, c, A \cup {s}, g) <=> ToolFrom(B, c, {}, g)
  <2> HIDE DEF s, A, c
  <2> SUFFICES ASSUME NEW g PROVE ToolFrom(B, c, A \cup {s}, g) <=> ToolFrom(B, c, {}, g)
    OBVIOUS
  <2>1. \A a \in A : Over(B, a, s)
    BY DEF A, s
  <2> QED
    BY <1>1, <2>1, ToolsWhoeverAsks
<1>4. \A n : HasName(B, s, c, n) <=> \E g \in E : n = GlobalName(s, c, g.name)
  <2>1. \A g \in E : ToolFrom(B, c, {}, g)
    BY <1>3 DEF Lists
  <2>2. \A g : ToolFrom(B, c, {}, g) => \E e \in E : e.name = g.name
    BY <1>3 DEF Lists, Names
  <2> QED
    BY <2>1, <2>2 DEF HasName
<1>5. \A n : n \in Names(New(f, E)) <=> n \notin Names(L) /\ HasName(B, s, c, n)
  <2>1. \A g \in E : Passed(s, c, g).name = GlobalName(s, c, g.name)
    BY DEF Passed, Entry
  <2>2. \A n : n \in Names(New(f, E)) <=> \E g \in E : n = Passed(s, c, g).name /\ n \notin Names(L)
    BY DEF Names, New
  <2> QED
    BY <1>4, <2>1, <2>2
<1>6. DOMAIN U = DOMAIN T \cup Names(New(f, E)) /\ \A n \in DOMAIN U : U[n] = IF n \in DOMAIN T THEN T[n] ELSE c
  BY DEF Longer
<1> QED
  BY <1>2, <1>5, <1>6 DEF Gains

\* Frames of which this holds go on so.
LEMMA RightBegins ==
    ASSUME NEW S \in [Stations -> Seq(Hosts)], S = subs, NEW B, NEW s \in Stations, NEW chain,
           \A a \in Range(chain) : Over(B, a, s)
    PROVE  FrameRight(B, S, Frame(s, chain))
<1> DEFINE f == Frame(s, chain)
<1>1. f.at = s /\ f.chain = chain /\ f.left = S[s] /\ f.table = NoRoutes /\ f.whole = TRUE
  BY DEF Frame
<1>2. S[s] \in Seq(Hosts) /\ Len(S[s]) \in Nat
  OBVIOUS
<1>3. LeftOf(S[s], 0, S[s])
  BY <1>2 DEF LeftOf
<1>4. TableRight(B, s, S[s], 0, NoRoutes)
  BY NoRoutesStored DEF TableRight, NamedBy
<1> HIDE DEF f
<1> QED
  BY <1>1, <1>3, <1>4 DEF FrameRight, f

LEMMA RightTakes ==
    ASSUME NEW S \in [Stations -> Seq(Hosts)], NEW B, NoCycles(B), NEW R, NEW M, NEW f \in Frames,
           f.left # <<>>, FrameIs(B, R, M, f), FrameRight(B, S, f), NEW E,
           Lists(B, R, M, Head(f.left), Range(f.chain) \cup {f.at}, E, TRUE)
    PROVE  FrameRight(B, S, Taken(f, E, TRUE))
<1> DEFINE s == f.at
           q == S[s]
           c == Head(f.left)
           u == Tail(f.left)
           U == Longer(f.table, New(f, E), c)
           k == Taken(f, E, TRUE)
<1>1. k.at = s /\ k.chain = f.chain /\ k.left = u /\ k.table = U /\ (k.whole <=> f.whole)
  BY DEF Taken
<1>2. f.left \in Seq(Hosts) /\ s \in Stations /\ q \in Seq(Hosts)
  BY DEF Frames
<1>3. f.whole /\ \A a \in Range(f.chain) : Over(B, a, s)
  BY DEF FrameRight
<1>4. PICK j : LeftOf(q, j, f.left) /\ TableRight(B, s, q, j, f.table)
  BY DEF FrameRight
<1>5. j \in Nat /\ j + 1 \in Nat /\ c = q[j + 1] /\ LeftOf(q, j + 1, u)
  <2> DEFINE l == f.left
  <2>1. l \in Seq(Hosts) /\ l # <<>> /\ j \in Nat /\ j + Len(l) = Len(q) /\ \A i \in 1..Len(l) : l[i] = q[j + i]
    BY <1>2, <1>4 DEF LeftOf
  <2> HIDE DEF l, q
  <2>2. Len(l) \in Nat /\ Len(l) > 0 /\ 1 \in 1..Len(l) /\ Len(Tail(l)) = Len(l) - 1 /\ Head(l) = l[1]
        /\ \A i \in 1..Len(Tail(l)) : Tail(l)[i] = l[i + 1]
    BY <2>1
  <2>3. ASSUME NEW i \in 1..Len(Tail(l)) PROVE Tail(l)[i] = q[(j + 1) + i]
    <3>1. i + 1 \in 1..Len(l) /\ j + (i + 1) = (j + 1) + i
      BY <2>1, <2>2
    <3>2. Tail(l)[i] = q[j + (i + 1)]
      BY <2>1, <2>2, <3>1
    <3> QED
      BY <3>1, <3>2
  <2>4. Head(l) = q[j + 1]
    BY <2>1, <2>2
  <2>5. (j + 1) + Len(Tail(l)) = Len(q) /\ j + 1 \in Nat
    BY <2>1, <2>2
  <2>6. LeftOf(q, j + 1, Tail(l))
    BY <2>3, <2>5 DEF LeftOf
  <2> QED
    BY <2>1, <2>4, <2>5, <2>6 DEF l
<1>6. Gains(B, s, f.table, U, c)
  BY <1>3, TakenGains
<1> HIDE DEF k, U, q, c, u
<1>7. TableRight(B, s, q, j + 1, U)
  <2> DEFINE T == f.table
  <2> HIDE DEF s, T
  <2> QED
    BY <1>4, <1>5, <1>6, TableGains DEF T
<1> DEFINE i == j + 1
<1>8. LeftOf(q, i, u) /\ TableRight(B, s, q, i, U)
  BY <1>5, <1>7
<1> HIDE DEF i
<1> QED
  BY <1>1, <1>3, <1>8 DEF FrameRight, k, q

LEMMA RightEnds ==
    ASSUME NEW S \in [Stations -> Seq(Hosts)], NEW B, NEW f, f.at \in Stations, f.left = <<>>, FrameRight(B, S, f)
    PROVE  TableRight(B, f.at, S[f.at], Len(S[f.at]), f.table)
<1> DEFINE q == S[f.at]
<1>1. PICK j : LeftOf(q, j, f.left) /\ TableRight(B, f.at, q, j, f.table)
  BY DEF FrameRight
<1>2. q \in Seq(Hosts) /\ Len(q) \in Nat
  OBVIOUS
<1> HIDE DEF q
<1>3. j = Len(q)
  BY <1>1, <1>2 DEF LeftOf
<1> QED
  BY <1>1, <1>3 DEF q

--------------------------------------------------------------------------------
(* StationRouting: no step unsettles the tables.                                *)

\* As long as this holds, what it says of tables and stacks.
Calm == losses = 0 /\ NoCycles(Below(subs))
AllRight ==
    /\ moved = {} /\ RoutesRight(Below(subs), subs, routes)
    /\ \A t \in Listings : StackRight(Below(subs), subs, stack[t])

LEMMA SettledIs == (Settled <=> (Calm => AllRight)) /\ (Settled' <=> (Calm' => AllRight'))
BY DEF Settled, Calm, AllRight

\* One more frame on a stack; one less.
LEMMA RightMore ==
    ASSUME NEW B, NEW S, NEW k \in Seq(Frames), StackRight(B, S, k), NEW g \in Frames, FrameRight(B, S, g)
    PROVE  StackRight(B, S, Append(k, g))
<1> DEFINE u == Append(k, g)
<1>1. Len(u) = Len(k) + 1 /\ Len(k) \in Nat /\ u[Len(k) + 1] = g /\ \A i \in 1..Len(k) : u[i] = k[i]
  OBVIOUS
<1> HIDE DEF u
<1>2. \A i \in 1..Len(u) : i \in 1..Len(k) \/ i = Len(k) + 1
  BY <1>1
<1>3. StackRight(B, S, u)
  BY <1>1, <1>2 DEF StackRight
<1> QED
  BY <1>3 DEF u

LEMMA RightLess ==
    ASSUME NEW B, NEW S, NEW k \in Seq(Frames), k # <<>>, StackRight(B, S, k)
    PROVE  StackRight(B, S, Front(k)) /\ FrameRight(B, S, Last(k))
<1>1. /\ Len(k) \in 1..Len(k) /\ Last(k) = k[Len(k)] /\ Len(Front(k)) = Len(k) - 1 /\ Len(k) \in Nat
      /\ \A i \in 1..(Len(k) - 1) : Front(k)[i] = k[i]
  BY StackTop
<1>2. \A i \in 1..(Len(k) - 1) : i \in 1..Len(k)
  BY <1>1
<1> QED
  BY <1>1, <1>2 DEF StackRight

\* A step of one listing that stores nothing.
LEMMA RightStep ==
    ASSUME StationInv, AllRight, UNCHANGED <<subs, routes, moved>>, NEW t \in Listings, NEW k,
           stack' = [stack EXCEPT ![t] = k], StackRight(Below(subs), subs, k)
    PROVE  AllRight'
<1>1. stack \in [Listings -> Seq(Frames)]
  BY DEF StationInv, StationTypes
<1>2. \A u \in Listings : stack'[u] = IF u = t THEN k ELSE stack[u]
  BY <1>1
<1> QED
  BY <1>2 DEF AllRight

\* What is known of the frame on top.
LEMMA RightTop ==
    ASSUME StationInv, AllRight, NEW t \in Listings, stack[t] # <<>>
    PROVE  /\ stack[t] \in Seq(Frames) /\ Top(t) \in Frames /\ FrameIs(Below(subs), routes, moved, Top(t))
           /\ Front(stack[t]) \in Seq(Frames) /\ subs \in [Stations -> Seq(Hosts)]
           /\ StackRight(Below(subs), subs, Front(stack[t])) /\ FrameRight(Below(subs), subs, Top(t))
<1> DEFINE k == stack[t]
<1>1. k \in Seq(Frames) /\ k # <<>> /\ Top(t) = Last(k) /\ Top(t) \in Frames
      /\ FrameIs(Below(subs), routes, moved, Top(t)) /\ StackRight(Below(subs), subs, k)
  BY AtTop DEF AllRight
<1>2. subs \in [Stations -> Seq(Hosts)]
  BY DEF StationInv, StationTypes
<1> HIDE DEF k
<1>3. StackRight(Below(subs), subs, Front(k)) /\ FrameRight(Below(subs), subs, Last(k)) /\ Front(k) \in Seq(Frames)
  BY <1>1, RightLess, StackTop
<1> QED
  BY <1>1, <1>2, <1>3 DEF k

LEMMA CalmBeginListing ==
    ASSUME StationInv, AllRight, NEW t \in Listings, NEW s \in Stations, BeginListing(t, s)
    PROVE  AllRight'
<1> DEFINE f == Frame(s, <<>>)
           B == Below(subs)
           S == subs
<1>1. S \in [Stations -> Seq(Hosts)] /\ S = subs
  BY DEF StationInv, StationTypes
<1>2. Range(<<>>) = {}
  BY DEF Range
<1> HIDE DEF B, S
<1>3. FrameRight(B, S, f)
  BY <1>1, <1>2, RightBegins
<1>4. <<f>>[1] = f /\ Len(<<f>>) = 1
  OBVIOUS
<1> DEFINE k == <<f>>
<1>5. \A i \in 1..1 : i = 1
  OBVIOUS
<1>6. stack' = [stack EXCEPT ![t] = k] /\ UNCHANGED <<subs, routes, moved>>
  BY DEF BeginListing
<1>7. k[1] = f /\ Len(k) = 1
  BY <1>4
<1> HIDE DEF k, f
<1>8. StackRight(B, S, k)
  BY <1>3, <1>5, <1>7 DEF StackRight
<1> QED
  BY <1>6, <1>8, RightStep DEF B, S

\* Those in the chain of a station are above those that it asks.
LEMMA AboveNext ==
    ASSUME NEW B, NEW f \in Frames, f.left # <<>>, NEW S, FrameRight(B, S, f),
           NEW R, NEW M, FrameIs(B, R, M, f)
    PROVE  \A a \in Range(ChainOf(f)) : Over(B, a, NextOf(f))
<1>1. NextOf(f) \in B[f.at] /\ f.at \in Stations /\ Range(ChainOf(f)) = Range(f.chain) \cup {f.at}
  <2>1. f.chain \in Seq(Stations) /\ f.at \in Stations
    BY DEF Frames
  <2> QED
    BY <2>1, NextIs, RangeMore DEF NextOf, ChainOf, FrameIs
<1>2. \A a \in Range(f.chain) : Over(B, a, f.at)
  BY DEF FrameRight
<1> HIDE DEF FrameRight, FrameIs
<1> QED
  BY <1>1, <1>2 DEF Over, Closed

LEMMA CalmAskStation ==
    ASSUME StationInv, AllRight, NEW t \in Listings, AskStation(t)
    PROVE  AllRight'
<1> DEFINE k == stack[t]
           f == Top(t)
           s == NextOf(f)
           chain == ChainOf(f)
           g == Frame(s, chain)
           B == Below(subs)
           S == subs
<1>1. /\ stack[t] # <<>> /\ f.left # <<>> /\ s \in Stations /\ ~Cycle(s, chain)
      /\ stack' = [stack EXCEPT ![t] = Append(k, g)] /\ UNCHANGED <<subs, routes, moved>>
  BY DEF AskStation
<1>2. /\ k \in Seq(Frames) /\ f \in Frames /\ FrameIs(B, routes, moved, f) /\ S \in [Stations -> Seq(Hosts)]
      /\ FrameRight(B, S, f) /\ StackRight(B, S, k) /\ S = subs
  BY <1>1, RightTop DEF AllRight
<1>3. chain \in Seq(Stations) /\ s \notin Range(chain)
  BY <1>1, <1>2, RangeMore DEF ChainOf, Frames, Cycle
<1>4. g \in Frames
  BY <1>1, <1>2, <1>3, FrameBegins
<1>5. \A a \in Range(chain) : Over(B, a, s)
  <2> HIDE DEF f, S, B
  <2> QED
    BY <1>1, <1>2, AboveNext
<1> HIDE DEF f, B, S, s, chain
<1>6. FrameRight(B, S, g)
  BY <1>1, <1>2, <1>5, RightBegins
<1> DEFINE u == Append(k, g)
<1> HIDE DEF k, g
<1>7. StackRight(B, S, u)
  BY <1>2, <1>4, <1>6, RightMore
<1>8. stack' = [stack EXCEPT ![t] = u]
  BY <1>1
<1> HIDE DEF u
<1> QED
  BY <1>1, <1>7, <1>8, RightStep DEF B, S

\* Nobody is asked who is in the chain.
LEMMA CalmRefused ==
    ASSUME StationInv, AllRight, Calm, NEW t \in Listings, Refused(t)
    PROVE  FALSE
<1> DEFINE f == Top(t)
           B == Below(subs)
<1>1. stack[t] # <<>> /\ f.left # <<>> /\ NextOf(f) \in Stations /\ NextOf(f) \in Range(ChainOf(f))
  BY DEF Refused, Cycle
<1>2. f \in Frames /\ FrameIs(B, routes, moved, f) /\ FrameRight(B, subs, f)
  BY <1>1, RightTop
<1> HIDE DEF f, B
<1>3. Over(B, NextOf(f), NextOf(f))
  BY <1>1, <1>2, AboveNext
<1> QED
  BY <1>1, <1>3 DEF Calm, NoCycles, B

LEMMA CalmAskServer ==
    ASSUME StationInv, AllRight, Calm, NEW t \in Listings, AskServer(t)
    PROVE  AllRight'
<1> DEFINE f == Top(t)
           E == OwnTools(Head(f.left))
           B == Below(subs)
           S == subs
           g == Taken(f, E, TRUE)
<1>1. /\ stack[t] # <<>> /\ f.left # <<>> /\ f \in Frames /\ FrameIs(B, routes, moved, f)
      /\ Lists(B, routes, moved, Head(f.left), Range(f.chain) \cup {f.at}, E, TRUE) /\ SetTop(t, g)
      /\ UNCHANGED <<subs, routes, moved>> /\ NoCycles(B) /\ S = subs
  BY ServerTaken DEF Calm
<1> DEFINE r == Front(stack[t])
           u == Append(r, g)
<1>2. r \in Seq(Frames) /\ S \in [Stations -> Seq(Hosts)] /\ StackRight(B, S, r) /\ FrameRight(B, S, f)
  BY <1>1, RightTop
<1>3. stack' = [stack EXCEPT ![t] = u]
  BY <1>1 DEF SetTop
<1> HIDE DEF f, E, B, S, r
<1>4. g \in Frames
  BY <1>1, FrameTakes
<1>5. FrameRight(B, S, g)
  BY <1>1, <1>2, RightTakes
<1> HIDE DEF g
<1>6. StackRight(B, S, u)
  BY <1>2, <1>4, <1>5, RightMore
<1> HIDE DEF u
<1> QED
  BY <1>1, <1>3, <1>6, RightStep DEF B, S

\* What a station stores at the end of a listing is what it has stored before.
LEMMA CalmFinish ==
    ASSUME StationInv, AllRight, Calm, NEW t \in Listings, Finish(t)
    PROVE  AllRight'
<1> DEFINE k == stack[t]
           f == Last(k)
           T == f.table
           B == Below(subs)
           S == subs
           u == IF Front(k) # <<>> THEN TopAnswered(k) ELSE <<>>
<1>1. /\ k # <<>> /\ f.left = <<>> /\ routes' = [routes EXCEPT ![f.at] = T]
      /\ moved' = moved \cup Replaced(f.at, T) /\ subs' = subs
      /\ stack' = [stack EXCEPT ![t] = u]
  BY DEF Finish, StoreTable, Top, TopAnswered, WithWhole
<1>2. /\ k \in Seq(Frames) /\ f \in Frames /\ FrameRight(B, S, f) /\ S \in [Stations -> Seq(Hosts)] /\ S = subs
      /\ StackIs(B, routes, moved, k) /\ StackRight(B, S, Front(k)) /\ Front(k) \in Seq(Frames)
  BY <1>1, RightTop, AtTop DEF Top
<1>3. /\ routes \in [Stations -> Tables] /\ stack \in [Listings -> Seq(Frames)] /\ NoCycles(B)
      /\ moved = {} /\ RoutesRight(B, S, routes) /\ \A v \in Listings : StackRight(B, S, stack[v])
  BY DEF StationInv, StationTypes, Calm, AllRight
<1>4. f.at \in Stations
  BY <1>2 DEF Frames
<1> HIDE DEF S, B
<1>5. TableRight(B, f.at, S[f.at], Len(S[f.at]), T)
  <2> HIDE DEF f
  <2> QED
    BY <1>1, <1>2, <1>4, RightEnds
<1>6. Stored(routes, moved, f.at, T, routes', moved')
  BY <1>1 DEF Stored, Replaced
<1>7. moved' = {}
  <2> DEFINE s == f.at
             U == routes[s]
             q == S[s]
             j == Len(q)
  <2>1. j \in Nat
    BY <1>2, <1>4
  <2>2. U = NoRoutes \/ TableRight(B, s, q, j, U)
    BY <1>3, <1>4 DEF RoutesRight
  <2>3. TableRight(B, s, q, j, T)
    BY <1>5
  <2>4. moved' = moved \cup {<<s, n>> : n \in {m \in DOMAIN U : m \notin DOMAIN T \/ T[m] # U[m]}}
    BY <1>1 DEF Replaced
  <2> HIDE DEF T, s, U, q, j
  <2>5. {m \in DOMAIN U : m \notin DOMAIN T \/ T[m] # U[m]} = {}
    BY <2>1, <2>2, <2>3, OneTable
  <2> QED
    BY <1>3, <2>4, <2>5
<1>8. RoutesRight(B, S, routes')
  BY <1>1, <1>3, <1>4, <1>5 DEF RoutesRight
<1>9. StackRight(B, S, u)
  <2>1. CASE Front(k) # <<>>
    <3> DEFINE rest == Front(k)
               p == Last(rest)
               E == f.found
               w == f.whole
               g == Taken(p, E, TRUE)
    <3>1. /\ Stored(routes, moved, Last(k).at, Last(k).table, routes', moved') /\ Last(k).left = <<>>
          /\ k # <<>> /\ DOMAIN routes = Stations
      BY <1>1, <1>3, <1>6
    <3>2. /\ p \in Frames /\ p.left # <<>> /\ FrameIs(B, routes', moved', p) /\ w \in BOOLEAN
          /\ Lists(B, routes', moved', Head(p.left), Range(p.chain) \cup {p.at}, E, w)
          /\ TopAnswered(k) = Append(Front(rest), Taken(p, E, w))
      <4> HIDE DEF k
      <4> QED
        BY <1>2, <2>1, <3>1, AnswerTaken
    <3>3. w = TRUE
      BY <1>2, <3>2 DEF FrameRight
    <3>4. u = Append(Front(rest), g)
      BY <2>1, <3>2, <3>3
    <3>5. Lists(B, routes', moved', Head(p.left), Range(p.chain) \cup {p.at}, E, TRUE)
      BY <3>2, <3>3
    <3>6. rest \in Seq(Frames) /\ rest # <<>> /\ StackRight(B, S, rest)
      BY <1>2, <2>1
    <3> HIDE DEF rest, E, w, f, k, u
    <3>7. StackRight(B, S, Front(rest)) /\ FrameRight(B, S, p) /\ Front(rest) \in Seq(Frames)
      BY <3>6, RightLess, StackTop
    <3> HIDE DEF p
    <3>8. g \in Frames
      BY <3>2, <3>5, FrameTakes
    <3>9. FrameRight(B, S, g)
      <4> DEFINE R == routes'
                 M == moved'
      <4>1. FrameIs(B, R, M, p) /\ Lists(B, R, M, Head(p.left), Range(p.chain) \cup {p.at}, E, TRUE)
        BY <3>2, <3>5
      <4> HIDE DEF R, M
      <4> QED
        BY <1>2, <1>3, <3>2, <3>7, <4>1, RightTakes
    <3> HIDE DEF g
    <3>10. StackRight(B, S, Append(Front(rest), g))
      BY <3>7, <3>8, <3>9, RightMore
    <3> QED
      BY <3>4, <3>10
  <2>2. CASE Front(k) = <<>>
    BY <2>2 DEF StackRight
  <2> QED
    BY <2>1, <2>2
<1>10. ASSUME NEW v \in Listings PROVE StackRight(B, S, stack'[v])
  <2> HIDE DEF u
  <2>1. stack'[v] = IF v = t THEN u ELSE stack[v]
    BY <1>1, <1>3
  <2> QED
    BY <1>3, <1>9, <2>1
<1>11. B = Below(subs') /\ S = subs'
  BY <1>1 DEF B, S
<1> HIDE DEF k, f, T, u
<1> QED
  BY <1>7, <1>8, <1>10, <1>11 DEF AllRight

\* The other steps fail something, or change none of it.
LEMMA SettledStep == StationInv /\ Settled /\ [StationNext]_stationVars => Settled'
<1> SUFFICES ASSUME StationInv, Settled, [StationNext]_stationVars, Calm' PROVE AllRight'
  BY SettledIs
<1>1. losses \in Nat
  BY DEF StationInv, StationTypes
<1>2. losses' = 0
  BY DEF Calm
<1>3. ASSUME losses' = losses, subs' = subs PROVE Calm /\ AllRight
  BY <1>2, <1>3, SettledIs DEF Calm
<1>4. losses' # losses + 1
  BY <1>1, <1>2
<1>5. ASSUME NEW t \in Listings, NEW s \in Stations, BeginListing(t, s) PROVE AllRight'
  <2>1. losses' = losses /\ subs' = subs
    BY <1>5 DEF BeginListing
  <2> QED
    BY <1>3, <1>5, <2>1, CalmBeginListing
<1>6. ASSUME NEW t \in Listings, AskStation(t) \/ Refused(t) \/ AskServer(t) \/ Finish(t) PROVE AllRight'
  <2>1. losses' = losses /\ subs' = subs
    BY <1>6 DEF AskStation, Refused, AskServer, Finish
  <2> QED
    BY <1>3, <1>6, <2>1, CalmAskStation, CalmRefused, CalmAskServer, CalmFinish
<1>7. ASSUME NEW t \in Listings, Unreachable(t) \/ (\E d \in 1..Cardinality(Stations) : Abandon(t, d)) PROVE FALSE
  BY <1>4, <1>7 DEF Unreachable, Abandon, Loses
<1>8. ASSUME NEW s \in Stations, StationRestarts(s) PROVE FALSE
  BY <1>4, <1>8 DEF StationRestarts, Loses
<1>9. ASSUME NEW c \in Calls, LoseCall(c) PROVE FALSE
  BY <1>4, <1>9 DEF LoseCall, Loses
<1>10. ASSUME UNCHANGED <<subs, routes, stack, moved, losses>> PROVE AllRight'
  BY <1>3, <1>10 DEF AllRight
<1>11. ASSUME NEW c \in Calls, (\E s \in Stations : BeginCall(c, s)) \/ RunTool(c) \/ Forward(c) \/ RefuseCall(c)
       PROVE  AllRight'
  BY <1>10, <1>11 DEF BeginCall, RunTool, Forward, RefuseCall
<1>12. CASE UNCHANGED stationVars
  BY <1>10, <1>12 DEF stationVars
<1> QED
  BY <1>5, <1>6, <1>7, <1>8, <1>9, <1>11, <1>12 DEF StationNext

LEMMA SettledStart == StationInit => Settled
<1> SUFFICES ASSUME StationInit PROVE AllRight
  BY SettledIs
<1>1. \A k : k = <<>> => StackRight(Below(subs), subs, k)
  BY DEF StackRight
<1> QED
  BY <1>1 DEF StationInit, AllRight, RoutesRight

\* A call runs the tool that was listed, whatever names it has on the way, but for
\* the four causes; and where stations form no cycle and nothing fails, no route
\* ever changes, whoever asked for the listing it comes from (station.rs:185-290).
THEOREM ListedToolsRun == StationSpec => []ListedToolRuns
<1>1. StationInv /\ Settled => ListedToolRuns
  <2> SUFFICES ASSUME StationInv, Settled PROVE ListedToolRuns
    OBVIOUS
  <2>1. ASSUME NEW c \in Calls, call[c].answer # "none" PROVE CallRight(moved, call[c])
    BY <2>1 DEF StationInv, CallsOK, CallIs
  <2>2. RoutesStable
    <3> SUFFICES ASSUME moved # {}, losses = 0, Acyclic PROVE FALSE
      BY DEF RoutesStable
    <3>1. NoCycles(Below(subs))
      BY AcyclicIs DEF StationInv, StationTypes
    <3> QED
      BY <3>1 DEF Settled
  <2> QED
    BY <2>1, <2>2 DEF ListedToolRuns, CallRight, Excused
<1>2. StationSpec => []Settled
  BY SettledStart, SettledStep, StationInvHolds, PTL DEF StationSpec
<1> QED
  BY <1>1, <1>2, StationInvHolds, PTL
================================================================================
