---------------------------- MODULE ContextRecovery ----------------------------
(* An agent rebuilds a context from the memory store (kissbot-agent pipelines.rs *)
(* and message.rs): the most recent records by one query, those before them in   *)
(* the window by another, both answered from the index (kissbot-memory index.rs) *)
(* while the store goes on writing.                                              *)
EXTENDS MemoryStore, SequencesExt

CONSTANTS
    Day,           \* Keys -> the day of the file
    DayOf,         \* times -> days
    Own,           \* records of what the agent said itself
    Silent,        \* records without text
    Counts, Starts \* how many records, and since when, a context is to hold

\* The keys are the files of one kind and role, one for each day of the calendar.
ASSUME RecoveryAssumption ==
    /\ IsFiniteSet(Keys) /\ Day \in [Keys -> Nat]
    /\ \A k, l \in Keys : Day[k] = Day[l] => k = l
    /\ DOMAIN DayOf \subseteq Nat /\ \A t \in DOMAIN DayOf : DayOf[t] \in Nat
    /\ \A r \in Records : TimeOf[r] \in DOMAIN DayOf /\ DayOf[TimeOf[r]] = Day[KeyOf[r]]
    /\ \A s, t \in DOMAIN DayOf : s <= t => DayOf[s] <= DayOf[t]
    /\ Counts \subseteq Nat \ {0} /\ Starts \subseteq DOMAIN DayOf

VARIABLES
    reader,    \* the context being rebuilt
    kept,      \* ghost: records that were readable when it was begun
    shifted    \* ghost: files that were written anew, or could not be read, since

recovery == <<reader, kept, shifted>>

Nothing == [at |-> "idle", count |-> 0, start |-> 0, days |-> <<>>,
            found |-> {}, oldest |-> 0]

Later(k, l) == Day[k] > Day[l]
Sooner(k, l) == Day[k] < Day[l]
ReadableNow(k) == IF writer[k].mode = "rewrite" THEN {} ELSE InFile(k) \ Waiting(k)

StartRecovery ==
    /\ reader = Nothing /\ kept = {} /\ shifted = {}

--------------------------------------------------------------------------------
(* query_channel_recent: days backwards, until there are enough records.        *)

\* The map of days stays locked until the last of them is read.
Reading == reader.at = "recent"

Begin(n, start) ==
    /\ reader.at = "idle" /\ scanned
    /\ reader' = [Nothing EXCEPT !.at = "recent", !.count = n, !.start = start,
         !.days = Sorted(dated, Later)]
    /\ kept' = UNION {ReadableNow(k) : k \in dated}
    /\ shifted' = {k \in Keys : writer[k].mode = "rewrite" \/ k \in damaged}
    /\ UNCHANGED vars

\* A query brings the index of a day up to date before it answers from it.
Loads(k) ==
    /\ index' = [index EXCEPT ![k] = CASE stale[k] = "all" -> file[k]
                   [] stale[k] = "tail" -> @ \o SubSeq(file[k], Len(@) + 1, Len(file[k]))
                   [] OTHER -> @]
    /\ stale' = [stale EXCEPT ![k] = "none"]
    /\ UNCHANGED <<files, state, queue, writer, requests, days, failures, lost>>

\* The lines that parse, and the last n of them, by their places.
Parsed(s) == {i \in DOMAIN s : s[i].record # Torn}
LastOf(I, n) == {i \in I : Cardinality({j \in I : j >= i}) <= n}

\* parse_channel_groups: of two records with one time and one number the first
\* to come is kept.
Same(l, m) == TimeOf[l.record] = TimeOf[m.record] /\ l.sn = m.sn
Taken(found, s, I) ==
    found \cup {s[i] : i \in {j \in I : /\ \A l \in found : ~Same(l, s[j])
                                       /\ \A h \in I : h < j => ~Same(s[h], s[j])}}

ReadRecent ==
    /\ Reading /\ reader.days # <<>> /\ Cardinality(reader.found) < reader.count
    /\ LET k == Head(reader.days) IN
         /\ Loads(k)
         /\ reader' = [reader EXCEPT !.days = Tail(@),
              !.found = Taken(@, index'[k],
                              LastOf(Parsed(index'[k]), reader.count - Cardinality(@)))]
    /\ UNCHANGED <<kept, shifted>>

--------------------------------------------------------------------------------
(* read_recent_for_context.                                                     *)

Oldest(found) == CHOOSE t \in {TimeOf[l.record] : l \in found} :
                    \A l \in found : t <= TimeOf[l.record]
\* Mutant: only what lies before the window is asked for.
FromStart(start, oldest) == start
From(start, oldest) == IF start < oldest THEN start ELSE oldest

\* With enough records, those of the window before the oldest and those of the
\* same time are asked for; the days are named by the times.
EndRecent ==
    /\ Reading /\ (reader.days = <<>> \/ Cardinality(reader.found) >= reader.count)
    /\ reader' = IF Cardinality(reader.found) < reader.count
         THEN [reader EXCEPT !.at = "done", !.days = <<>>]
         ELSE LET oldest == Oldest(reader.found)
                  from == From(reader.start, oldest)
                  asked == {k \in Keys : Day[k] \in DayOf[from]..DayOf[oldest]}
              IN [reader EXCEPT !.at = "window", !.oldest = oldest, !.start = from,
                    !.days = Sorted(asked, Sooner)]
    /\ UNCHANGED <<vars, kept, shifted>>

ReadWindow ==
    /\ reader.at = "window" /\ reader.days # <<>>
    /\ LET k == Head(reader.days) IN
         /\ Loads(k)
         /\ reader' = [reader EXCEPT !.days = Tail(@),
              !.found = Taken(@, index'[k], {i \in Parsed(index'[k]) :
                  TimeOf[index'[k][i].record] \in reader.start..reader.oldest})]
    /\ UNCHANGED <<kept, shifted>>

EndWindow ==
    /\ reader.at = "window" /\ reader.days = <<>>
    /\ reader' = [reader EXCEPT !.at = "done"]
    /\ UNCHANGED <<vars, kept, shifted>>

Rest == reader' = Nothing /\ kept' = {} /\ shifted' = {}

\* A query that fails leaves an empty context; the error is dropped.
ReadFails ==
    /\ reader.at \in {"recent", "window"} /\ Fails /\ Rest
    /\ UNCHANGED <<files, state, queue, writer, requests, indices, days, lost>>

--------------------------------------------------------------------------------
(* pack_memory_messages.                                                        *)

Spoken ==
    LET recalled == Sorted({l \in reader.found : l.record \notin Silent}, Ordered)
    IN  [i \in DOMAIN recalled |-> recalled[i].record]

\* Mutant: nothing is left out at the beginning.
SpeakAnyway(packed, r) ==
    IF packed # <<>> /\ Last(packed).own = (r \in Own)
    THEN [packed EXCEPT ![Len(packed)].says = Append(@, r)]
    ELSE Append(packed, [own |-> r \in Own, says |-> <<r>>])
\* One record after another: a message is closed when the speaker changes; what
\* the agent said before anybody else is left out.
Speak(packed, r) ==
    IF packed = <<>> THEN IF r \in Own THEN packed ELSE <<[own |-> FALSE, says |-> <<r>>]>>
    ELSE IF Last(packed).own = (r \in Own)
         THEN [packed EXCEPT ![Len(packed)].says = Append(@, r)]
         ELSE Append(packed, [own |-> r \in Own, says |-> <<r>>])
Closed(packed) ==
    IF packed # <<>> /\ ~Last(packed).own THEN Append(packed, [own |-> TRUE, says |-> <<>>])
    ELSE packed
Context(spoken) == Closed(FoldLeft(Speak, <<>>, spoken))

\* The messages go to the session.
Hand ==
    /\ reader.at = "done" /\ Rest
    /\ UNCHANGED vars

--------------------------------------------------------------------------------
StoreNext ==
    \/ \E q \in Requests : Accept(q)
    \/ \E q \in Requests, k \in Keys : Check(q, k) \/ CheckFails(q, k)
    \/ \E k \in Keys : \/ \E n \in 1..Len(queue[k]) : Take(k, n) \/ TakeFails(k, n)
                       \/ WriteLine(k) \/ WriteFails(k) \/ Query(k)
                       \/ ~Reading /\ EndWrite(k)
    \/ Scan

Shifted == {k \in Keys : writer'[k].mode = "rewrite"} \cup damaged'

\* The hook of a write waits for the map of days; a restart of the store fails
\* the queries; a context is packed without a pause.
RecoveryNext ==
    \/ /\ StoreNext /\ reader.at # "done"
       /\ shifted' = IF reader = Nothing THEN {} ELSE shifted \cup Shifted
       /\ UNCHANGED <<reader, kept>>
    \/ Crash /\ reader.at # "done" /\ Rest
    \/ \E n \in Counts, start \in Starts : Begin(n, start)
    \/ ReadRecent \/ EndRecent \/ ReadWindow \/ EndWindow \/ ReadFails \/ Hand

RecoverySpec == Init /\ StartRecovery /\ [][RecoveryNext]_<<vars, recovery>>

--------------------------------------------------------------------------------
\* A context rebuilt from the store holds every record once, leaves no gap after
\* its oldest one, holds as many as it should or all there are, and all of the
\* window when these are enough, whatever is written in the meantime: the two
\* queries join at the time of the oldest record, of which the first may have
\* brought a part (pipelines.rs:91-134).  A file that is written anew in between
\* is excepted: its numbers, by which doubles are told, change.
RecallWhole ==
    reader.at = "done" /\ shifted = {} =>
        LET held == {l.record : l \in reader.found} IN
        /\ Cardinality(held) = Cardinality(reader.found)
        /\ \A r \in kept, s \in held : TimeOf[s] <= TimeOf[r] => r \in held
        /\ Cardinality(held) >= reader.count \/ kept \subseteq held
        /\ Cardinality(held) >= reader.count =>
               \A r \in kept : reader.start <= TimeOf[r] => r \in held

\* The context begins with what somebody else said and ends with the agent, the
\* two take turns, and nothing said in between is left out or moved.
TurnsTaken ==
    reader.at = "done" =>
        LET spoken == Spoken
            context == Context(spoken)
            said == FlattenSeq([i \in DOMAIN context |-> context[i].says])
            before == Len(spoken) - Len(said)
        IN  /\ Len(context) % 2 = 0
            /\ \A i \in DOMAIN context :
                  /\ context[i].own = (i % 2 = 0)
                  /\ i < Len(context) => context[i].says # <<>>
            /\ said = SubSeq(spoken, before + 1, Len(spoken))
            /\ \A i \in 1..before : spoken[i] \in Own
            /\ said # <<>> => said[1] \notin Own

\* Both: what the agent is handed is all it should be, as a conversation.
ContextRecovered == RecallWhole /\ TurnsTaken
================================================================================
