------------------------------ MODULE CasePlacement ------------------------------
(* How one request finds the cases of its records and messages: the messages   *)
(* are merged with the pending records of their channel, the model groups a    *)
(* chunk and is led down the tree of cases, level by level, for each group,    *)
(* cases are created, summaries told anew from the leaves up, and the answer   *)
(* names a case for every message (archive.rs, model.rs, tree.rs, locate.rs).  *)
(*                                                                             *)
(* The request holds the lock of the role throughout, so its steps are         *)
(* sequential; any call of the model may fail.  CaseArchive has the files,     *)
(* watermarks and crashes around this.                                         *)
EXTENDS Naturals, Sequences, FiniteSets

CONSTANTS
    ChannelKeys,
    StoredRecords,    \* pending records, in the order of the store
    Messages, Sent,   \* the messages of the request, and their sequence
    InputChannel, InputTime,   \* functions of records and messages
    Ids, NoId,        \* the msg_ids, and the empty one
    Earlier(_, _),    \* the order of the records, and of the messages
    Names,            \* names the model may give to a new case
    MaxCopies,        \* bound: how often a name is used
    MaxBatch,         \* max_batch_records
    EventCase, Top, NoCase, NoChannelKey

Inputs == StoredRecords \cup Messages

\* "role-{name}", "role-{name}-2" and so on, and the case of the event.
RoleCases == Names \X (1..MaxCopies)
Cases == RoleCases \cup {EventCase}

\* One request has finitely many records and messages, each message once.  Earlier
\* is the order of the records in their files and of the messages in the
\* request; at the same time a record sorts before a message.
ASSUME PlacementAssumption ==
    /\ IsFiniteSet(StoredRecords) /\ IsFiniteSet(Messages) /\ IsFiniteSet(Names)
    /\ StoredRecords \cap Messages = {} /\ StoredRecords \cap Cases = {}
    /\ InputChannel \in [Inputs -> ChannelKeys]
    /\ InputTime \in [Inputs -> Nat]
    /\ Sent \in [1..Cardinality(Messages) -> Messages]
    /\ \A m \in Messages : \E i \in DOMAIN Sent : Sent[i] = m
    /\ \A i, j \in DOMAIN Sent : i # j => Sent[i] # Sent[j]
    /\ \A x \in Inputs : ~Earlier(x, x)
    /\ \A x, y, z \in Inputs : Earlier(x, y) /\ Earlier(y, z) => Earlier(x, z)
    /\ \A S \in {StoredRecords, Messages} :
          \A x, y \in S : x = y \/ Earlier(x, y) \/ Earlier(y, x)
    /\ \A m \in Messages, r \in StoredRecords : ~Earlier(m, r)
    /\ Top \notin Cases /\ NoCase \notin Cases /\ NoCase # Top
    /\ EventCase \notin RoleCases
    /\ NoChannelKey \notin ChannelKeys
    /\ MaxBatch \in Nat \ {0} /\ MaxCopies \in Nat \ {0}

VARIABLES
    \* the state of the role
    parent,    \* the tree: the parent of every case
    held,      \* the records of a case; a case stands for what it held before
    told,      \* what the summary of a case tells of
    current,   \* the current case of each channel
    pending,   \* records beyond the watermark
    \* the request
    idOf,      \* the msg_id of each record and message
    inEvent,   \* whether it is about an event
    pc, todo, channel,
    items,     \* the batch of the channel
    from,      \* how much of it is done
    groups, verdicts, under,
    landed,    \* the cases of the groups, so far
    created, computed,
    before,    \* the tree and summaries before the chunk
    located, omitted

roleState == <<parent, held, told, current, pending>>
input     == <<idOf, inEvent>>
request   == <<input, pc, todo, channel, items, from, groups, verdicts, under, landed,
             created, computed, before, located, omitted>>
placementVars == <<roleState, request>>

MinOf(S) == CHOOSE x \in S : \A y \in S : x <= y
MaxOf(S) == CHOOSE x \in S : \A y \in S : x >= y

--------------------------------------------------------------------------------
(* The tree.                                                                   *)
Children(c) == {d \in DOMAIN parent : parent[d] = c}
IsLeaf(c) == c \in DOMAIN parent /\ Children(c) = {}

\* Mutant: whatever hangs below the case is a candidate.
AnyCandidate(c) == Children(c)
\* Only cases of the role are candidates, never the case of an event.
Candidates(c) == Children(c) \cap RoleCases

\* The chain of parents, by as many steps as there are cases.
Ancestors(c) ==
    LET up[n \in 0..Cardinality(Cases)] ==
          IF n = 0 THEN {c}
          ELSE up[n - 1] \cup {parent[d] : d \in up[n - 1] \cap DOMAIN parent}
    IN  (up[Cardinality(Cases)] \ {c}) \cap DOMAIN parent
Depth(c) == Cardinality(Ancestors(c))
Subtree(c) == {d \in DOMAIN parent : d = c \/ c \in Ancestors(d)}

\* unique_role_case_name: the first of the names that is free.
FreeName(n) == <<n, MinOf({k \in 1..MaxCopies : <<n, k>> \notin DOMAIN parent})>>
NameLeft(n) == <<n, MaxCopies>> \notin DOMAIN parent

\* Trees as tree.json may bring them back: cases of the role over two levels,
\* and the case of an event, always at the top.
Forests ==
    UNION {{t \in [D -> D \cup {Top}] :
              \A c \in D :
                 /\ c = EventCase => t[c] = Top
                 /\ t[c] # Top => t[c] \notin {c, EventCase} /\ t[t[c]] = Top}
           : D \in SUBSET ({<<n, 1>> : n \in Names} \cup {EventCase})}
OwnCases == IF inEvent THEN {EventCase} ELSE RoleCases

--------------------------------------------------------------------------------
(* merge_batch: a message whose id an untaken record of the batch carries is   *)
(* an alias of the first such record, every other message is an item.          *)
BatchOf(ch) == {r \in pending : InputChannel[r] = ch}
MessagesOf(ch) == {m \in Messages : InputChannel[m] = ch}
Duplicates(r, m) == idOf[m] # NoId /\ idOf[r] = idOf[m]

\* Mutant: a record absorbs every message with its id.
MatchAny(ch, m, taken) == {r \in BatchOf(ch) : Duplicates(r, m)}
Matching(ch, m, taken) == {r \in BatchOf(ch) \ taken : Duplicates(r, m)}
FirstOf(S) == CHOOSE r \in S : \A x \in S \ {r} : Earlier(r, x)

\* The record each message of the channel is matched with: a set of pairs.
Pairs(ch) ==
    LET p[k \in 0..Cardinality(Messages)] ==
          IF k = 0 THEN {}
          ELSE LET free == Matching(ch, Sent[k], {q[2] : q \in p[k - 1]})
               IN  IF InputChannel[Sent[k]] # ch \/ free = {} THEN p[k - 1]
                   ELSE p[k - 1] \cup {<<Sent[k], FirstOf(free)>>}
    IN  p[Cardinality(Messages)]

\* An item: a record with its aliases, or a new message.
Entries(ch) ==
    {[of |-> r, messages |-> {q[1] : q \in {p \in Pairs(ch) : p[2] = r}}] : r \in BatchOf(ch)}
    \cup {[of |-> m, messages |-> {m}] : m \in MessagesOf(ch) \ {q[1] : q \in Pairs(ch)}}

\* By time; at the same time records come first, in their order.
Sooner(a, b) ==
    \/ InputTime[a.of] < InputTime[b.of]
    \/ /\ InputTime[a.of] = InputTime[b.of]
       /\ \/ a.of \in StoredRecords /\ b.of \in Messages
          \/ Earlier(a.of, b.of)
Merged(ch) ==
    LET E == Entries(ch)
    IN  CHOOSE s \in [1..Cardinality(E) -> E] :
          \A i, j \in 1..Cardinality(E) : i < j => Sooner(s[i], s[j])

Size == MinOf({MaxBatch, Len(items) - from})
Item(i) == items[from + i]
StoredAt(G) == {Item(i).of : i \in {j \in G : Item(j).of \in StoredRecords}}
MessagesAt(G) == UNION {Item(i).messages : i \in G}
TextOf(G) == {Item(i).of : i \in G}

\* parse_groups: nonempty ascending groups, each starting behind the last index
\* of the one before it, the first at the start and the last at the end.
Accepted(gs, n) ==
    /\ gs # <<>> /\ \A k \in 1..Len(gs) : gs[k] # {}
    /\ MinOf(gs[1]) = 1 /\ MaxOf(gs[Len(gs)]) = n
    /\ \A k \in 1..(Len(gs) - 1) : MinOf(gs[k + 1]) = MaxOf(gs[k]) + 1
Groupings(n) ==
    {gs \in UNION {[1..k -> SUBSET (1..n)] : k \in 1..n} : Accepted(gs, n)}

--------------------------------------------------------------------------------
PlacementInit ==
    /\ parent \in Forests /\ inEvent \in BOOLEAN
    /\ held = [c \in DOMAIN parent |-> {c}]
    /\ told = [c \in DOMAIN parent |-> Subtree(c)]
    /\ current \in [ChannelKeys ->
                      {NoCase} \cup {c \in DOMAIN parent \cap OwnCases : IsLeaf(c)}]
    /\ pending = StoredRecords /\ idOf \in [Inputs -> Ids \cup {NoId}]
    /\ pc = "channel" /\ todo = ChannelKeys /\ channel = NoChannelKey
    /\ items = <<>> /\ from = 0
    /\ groups = <<>> /\ verdicts = <<>> /\ under = Top /\ landed = <<>>
    /\ created = {} /\ computed = <<>>
    /\ before = <<parent, told>>
    /\ located = {} /\ omitted = {}

\* process_pending takes the channels one by one; archive merges the batch.
NextChannel(ch) ==
    /\ pc = "channel" /\ ch \in todo
    /\ todo' = todo \ {ch} /\ channel' = ch
    /\ items' = Merged(ch) /\ from' = 0
    /\ pc' = IF Entries(ch) = {} THEN "channel" ELSE "group"
    /\ UNCHANGED <<roleState, input, groups, verdicts, under, landed, created, computed,
                   before, located, omitted>>

\* archive_chunk: the state is kept in case the chunk fails.
StartChunk(gs, vs) ==
    /\ groups' = gs /\ verdicts' = vs
    /\ before' = <<parent, told>>
    /\ created' = {} /\ computed' = <<>> /\ landed' = <<>>
    /\ UNCHANGED <<roleState, input, todo, channel, items, from, under, located, omitted>>

\* The model groups the chunk and marks the groups of the current case.
GroupItems ==
    /\ pc = "group" /\ ~inEvent
    /\ \E gs \in Groupings(Size) : \E marked \in SUBSET DOMAIN gs :
         StartChunk([k \in DOMAIN gs |-> [items |-> gs[k], current |-> k \in marked]], <<>>)
    /\ pc' = "decide"

\* For an event the chunk is one group, and its case is known.
GroupOfEvent ==
    /\ pc = "group" /\ inEvent
    /\ StartChunk(<<[items |-> 1..Size, current |-> FALSE]>>,
                  <<IF EventCase \in DOMAIN parent
                    THEN [kind |-> "case", case |-> EventCase] ELSE [kind |-> "event"]>>)
    /\ pc' = "land"

Group == groups[Len(verdicts) + 1]
AllDecided == Len(verdicts) = Len(groups)
Decided(v) ==
    /\ verdicts' = Append(verdicts, v)
    /\ pc' = IF Len(verdicts) + 1 = Len(groups) THEN "land" ELSE "decide"
    /\ UNCHANGED <<roleState, input, todo, channel, items, from, groups, under, landed,
                   created, computed, before, located, omitted>>

\* A group marked as current goes to the channel's current case.
DecideCurrent ==
    /\ pc = "decide" /\ Group.current /\ current[channel] # NoCase
    /\ Decided([kind |-> "case", case |-> current[channel]])

\* The others go down from the top, and so does a marked group of messages only
\* when there is no current case.
Descend ==
    /\ pc = "decide"
    /\ ~Group.current \/ (current[channel] = NoCase /\ StoredAt(Group.items) = {})
    /\ pc' = "level" /\ under' = Top
    /\ UNCHANGED <<roleState, input, todo, channel, items, from, groups, verdicts, landed,
                   created, computed, before, located, omitted>>

\* decide_level: the model names a new case for this level,
LevelNew(n) ==
    /\ pc = "level" /\ NameLeft(n)
    /\ Decided([kind |-> "new", under |-> under, name |-> n])

\* ... or a candidate: a leaf takes the group, any other case is gone into.
LevelMerge(c) ==
    /\ pc = "level" /\ c \in Candidates(under)
    /\ \/ IsLeaf(c) /\ Decided([kind |-> "case", case |-> c])
       \/ /\ ~IsLeaf(c) /\ under' = c
          /\ UNCHANGED <<roleState, input, pc, todo, channel, items, from, groups, verdicts,
                         landed, created, computed, before, located, omitted>>

\* The next group is landed: its case is created when it must be.  The model's
\* answer told its name and summary; the summary of an event's case is asked
\* for only when it has messages but no records.
Create(c, p, G) ==
    /\ parent' = [d \in DOMAIN parent \cup {c} |-> IF d = c THEN p ELSE parent[d]]
    /\ held' = [d \in DOMAIN held \cup {c} |-> IF d = c THEN {} ELSE held[d]]
    /\ told' = [d \in DOMAIN told \cup {c} |-> IF d = c THEN TextOf(G) ELSE told[d]]
    /\ created' = created \cup {c}

Land ==
    /\ pc = "land" /\ Len(landed) < Len(groups)
    /\ LET v == verdicts[Len(landed) + 1]
           G == groups[Len(landed) + 1].items
       IN  \/ /\ v.kind = "case" /\ landed' = Append(landed, v.case)
              /\ UNCHANGED <<parent, held, told, created>>
           \/ /\ v.kind = "new" /\ NameLeft(v.name)
              /\ landed' = Append(landed, FreeName(v.name))
              /\ Create(FreeName(v.name), v.under, G)
           \/ /\ v.kind = "event" /\ landed' = Append(landed, EventCase)
              /\ \/ StoredAt(G) = {} /\ Create(EventCase, Top, G)
                 \/ /\ StoredAt(G) # {}
                    /\ parent' = [d \in DOMAIN parent \cup {EventCase} |->
                                    IF d = EventCase THEN Top ELSE parent[d]]
                    /\ held' = [d \in DOMAIN held \cup {EventCase} |->
                                  IF d = EventCase THEN {} ELSE held[d]]
                    /\ told' = [d \in DOMAIN told \cup {EventCase} |->
                                  IF d = EventCase THEN {} ELSE told[d]]
                    /\ UNCHANGED created
    /\ pc' = IF Len(landed) + 1 = Len(groups) THEN "summaries" ELSE "land"
    /\ UNCHANGED <<current, pending, input, todo, channel, items, from, groups, verdicts,
                   under, computed, before, located, omitted>>

NewRecords(c) ==
    UNION {StoredAt(groups[k].items) : k \in {j \in DOMAIN landed : landed[j] = c}}
Touched == created \cup {c \in DOMAIN parent : NewRecords(c) # {}}

\* recompute_order: the touched cases and their ancestors, the deepest first;
\* what was just created has its summary already.
ToSummarise ==
    ((Touched \cup UNION {Ancestors(c) : c \in Touched}) \ created) \ DOMAIN computed

\* Mutant: from the top down.
ShallowestFirst(c) == \A d \in ToSummarise : Depth(d) >= Depth(c)
IsNext(c) == \A d \in ToSummarise : Depth(d) <= Depth(c)

\* compute_summary: its records, stored and new, and the summaries of its
\* children, the new ones where there are some.
SummaryOf(c) ==
    held[c] \cup NewRecords(c)
    \cup UNION {IF d \in DOMAIN computed THEN computed[d] ELSE told[d] : d \in Children(c)}

Summarise(c) ==
    /\ pc = "summaries" /\ c \in ToSummarise /\ IsNext(c)
    /\ computed' = [d \in DOMAIN computed \cup {c} |->
                      IF d = c THEN SummaryOf(c) ELSE computed[d]]
    /\ UNCHANGED <<roleState, input, pc, todo, channel, items, from, groups, verdicts, under,
                   landed, created, before, located, omitted>>

\* Mutant: only the new messages are answered, not those a record stands for.
NewMessagesAt(G) == TextOf(G) \cap Messages
Answered(G) == MessagesAt(G)

ChunkEnds ==
    /\ groups' = <<>> /\ verdicts' = <<>> /\ landed' = <<>> /\ under' = Top
    /\ created' = {} /\ computed' = <<>>
    /\ before' = <<parent', told'>>

\* What an accepted grouping leaves out: items that belong to no group.
Skipped == (1..Size) \ UNION {groups[k].items : k \in DOMAIN groups}

\* The copies are written, the changes of memory applied, the watermark passes
\* the chunk.
Apply ==
    /\ pc = "summaries" /\ ToSummarise = {}
    /\ held' = [c \in DOMAIN held |-> held[c] \cup NewRecords(c)]
    /\ told' = [c \in DOMAIN told |-> IF c \in DOMAIN computed THEN computed[c] ELSE told[c]]
    /\ current' = [current EXCEPT ![channel] = landed[Len(landed)]]
    /\ pending' = pending \ StoredAt(1..Size)
    /\ located' = located \cup
         {[messages |-> Answered(groups[k].items), case |-> landed[k], channel |-> channel] :
            k \in {j \in DOMAIN groups : Answered(groups[j].items) # {}}}
    /\ omitted' = omitted \cup TextOf(Skipped) \cup MessagesAt(Skipped)
    /\ IF from + Size = Len(items)
       THEN pc' = "channel" /\ items' = <<>> /\ from' = 0
       ELSE pc' = "group" /\ from' = from + Size /\ UNCHANGED items
    /\ UNCHANGED <<parent, input, todo, channel>>
    /\ ChunkEnds

\* The answer of the model is refused or does not come: the request ends with
\* an error, and the chunk leaves nothing behind.
ChunkFails ==
    /\ pc \in {"group", "decide", "level", "land", "summaries"}
    /\ pc = "group" => ~inEvent
    /\ pc = "land" => \E k \in DOMAIN verdicts : verdicts[k].kind = "event"
    /\ pc = "decide" =>
          Group.current /\ current[channel] = NoCase /\ StoredAt(Group.items) # {}
    /\ pc = "summaries" => ToSummarise # {}
    /\ parent' = before[1] /\ told' = before[2]
    /\ held' = [c \in DOMAIN before[1] |-> held[c]]
    /\ pc' = "failed" /\ items' = <<>> /\ from' = 0
    /\ ChunkEnds
    /\ UNCHANGED <<current, pending, input, todo, channel, located, omitted>>

\* locate answers.
Respond ==
    /\ pc = "channel" /\ todo = {} /\ pc' = "done"
    /\ UNCHANGED <<roleState, input, todo, channel, items, from, groups, verdicts, under,
                   landed, created, computed, before, located, omitted>>

PlacementNext ==
    \/ \E ch \in ChannelKeys : NextChannel(ch)
    \/ GroupItems \/ GroupOfEvent \/ DecideCurrent \/ Descend
    \/ \E n \in Names : LevelNew(n)
    \/ \E c \in Cases : LevelMerge(c)
    \/ Land \/ \E c \in Cases : Summarise(c)
    \/ Apply \/ ChunkFails \/ Respond

PlacementSpec == PlacementInit /\ [][PlacementNext]_placementVars

\* merge_located: a group is current when its case is the channel's current case
\* in the end; a case is listed once.
IsCurrent(g) == current[g.channel] = g.case
AnsweredCases ==
    {[case |-> c, current |-> \E g \in located : g.case = c /\ IsCurrent(g)] :
        c \in {g.case : g \in located}}

--------------------------------------------------------------------------------
\* The batch has every pending record of the channel once and every message of
\* the channel once, as an alias of one record with its id or for itself; a
\* message is new only when each record with its id stands for another one.
MergeExact ==
    pc = "group" /\ from = 0 =>
        LET ms == MessagesOf(channel) IN
        /\ \A r \in BatchOf(channel) :
              Cardinality({i \in DOMAIN items : items[i].of = r}) = 1
        /\ \A m \in ms :
              /\ Cardinality({i \in DOMAIN items : m \in items[i].messages}) = 1
              /\ (\E i \in DOMAIN items : items[i].of = m) =>
                    \A i \in DOMAIN items :
                       items[i].of \in StoredRecords /\ Duplicates(items[i].of, m)
                          => items[i].messages # {}
        /\ \A i \in DOMAIN items :
              /\ items[i].of \in StoredRecords => Cardinality(items[i].messages) <= 1
              /\ \A j \in DOMAIN items :
                    i < j => InputTime[items[i].of] <= InputTime[items[j].of]

\* A group goes to the channel's current case, to a leaf of the role, or to a
\* new case under one that is not a leaf: what holds records never gets children,
\* no name is given twice, and a request about the role never touches an event's
\* case.
VerdictsSound ==
    /\ \A c \in DOMAIN parent : parent[c] \in (DOMAIN parent \ {c}) \cup {Top}
    /\ \A c \in DOMAIN before[1] \cap DOMAIN parent : before[1][c] = parent[c]
    /\ ~inEvent =>
        /\ \A k \in DOMAIN verdicts :
              /\ verdicts[k].kind = "case" => verdicts[k].case \in RoleCases
              /\ verdicts[k].kind = "new" =>
                    verdicts[k].under = Top \/ ~IsLeaf(verdicts[k].under)
        /\ \A c \in DOMAIN parent :
              pc = "summaries" => NewRecords(c) = {} \/ IsLeaf(c)

\* After each chunk the summary of every case tells of all the records of its
\* subtree, and after a chunk that failed, of what it told before.
SummariesCover ==
    pc \in {"channel", "group", "done", "failed"} =>
        \A c \in DOMAIN parent : UNION {held[d] : d \in Subtree(c)} \subseteq told[c]

\* The answer has every message once, also one that a stored record stands for,
\* except those that an accepted grouping omits; a record that is not pending
\* any more is in one case, except those.
LocatedOnce ==
    /\ pc = "done" => \A m \in Messages \ omitted : \E g \in located : m \in g.messages
    /\ \A g, h \in located : g # h => g.messages \cap h.messages = {}
    /\ \A r \in StoredRecords \ (pending \cup omitted) :
          Cardinality({c \in DOMAIN held : r \in held[c]}) = 1
    /\ pc = "done" => \A a, b \in AnsweredCases : a.case = b.case => a = b
================================================================================
