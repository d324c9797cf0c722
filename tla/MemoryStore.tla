------------------------------- MODULE MemoryStore -------------------------------
(* The record files of the memory store (kissbot-memory-store record.rs) and   *)
(* the index over them (kissbot-memory index.rs).                              *)
(*                                                                             *)
(* A key names a file of one kind, agent, role and day: one JSON line per      *)
(* record, in the order of time, numbered from 1.  A request checks every file *)
(* it concerns and then queues its records; an appender hands what is queued   *)
(* to a writer, one at a time per file.  Records in order are appended; with a *)
(* late one among them the file is written anew, in place.  Lines are thought  *)
(* of as equally long.                                                         *)
EXTENDS Naturals, Sequences, FiniteSets

CONSTANTS
    Keys, Records, Requests,
    KeyOf, TimeOf,       \* functions of Records
    RecordsOf, Forced,    \* functions of Requests; Forced: late records are welcome
    Before(_, _),        \* the order of the records within a request
    Torn,                \* a line that does not parse
    MaxFailures          \* bound on I/O errors and crashes

ASSUME StoreAssumption ==
    /\ KeyOf \in [Records -> Keys]
    /\ TimeOf \in [Records -> Nat \ {0}]
    /\ RecordsOf \in [Requests -> (SUBSET Records) \ {{}}]
    /\ \A q \in Requests : IsFiniteSet(RecordsOf[q])
    /\ \A q \in Requests : \A r, s, t \in RecordsOf[q] :
          /\ ~Before(r, r)
          /\ KeyOf[r] = KeyOf[s] => r = s \/ Before(r, s) \/ Before(s, r)
          /\ Before(r, s) /\ Before(s, t) => Before(r, t)
    /\ \A q, p \in Requests : q # p => RecordsOf[q] \cap RecordsOf[p] = {}
    /\ Forced \in [Requests -> BOOLEAN]
    /\ Torn \notin Records /\ MaxFailures \in Nat

VARIABLES
    file,      \* the lines of each file, each with its number
    open,      \* whether the last line lacks its newline
    state,     \* the last number and time of each file, as far as they are known
    queue,     \* records accepted and not yet handed to the writer
    writer,    \* what the writer of each file is doing
    step, checked,   \* where each request is, and the files it has checked
    index, stale,    \* the lines a query knows, and what it must read again
    dated, scanned,  \* the files known by their day, and whether these were looked for
    failures,
    lost,      \* records whose write failed; the error is only logged
    damaged    \* files of which a write was cut off

files    == <<file, open, damaged>>
requests == <<step, checked>>
indices  == <<index, stale>>
days     == <<dated, scanned>>
vars     == <<files, state, queue, writer, requests, indices, days, failures, lost>>

Line(r, n) == [record |-> r, sn |-> n]
KeysOf(q) == {KeyOf[r] : r \in RecordsOf[q]}

Unknown == [known |-> FALSE, sn |-> 0, time |-> 0]
Resting == [mode |-> "rest", lines |-> <<>>, done |-> 0, old |-> <<>>, batch |-> {}]

\* load_existing_file_state: the number and time of the last line; a line that
\* does not parse counts like an empty file.
Loaded(k) ==
    LET f == file[k]
    IN  IF f = <<>> \/ f[Len(f)].record = Torn
        THEN [known |-> TRUE, sn |-> 0, time |-> 0]
        ELSE [known |-> TRUE, sn |-> f[Len(f)].sn, time |-> TimeOf[f[Len(f)].record]]
StateOf(k) == IF state[k].known THEN state[k] ELSE Loaded(k)

Fails == failures < MaxFailures /\ failures' = failures + 1

--------------------------------------------------------------------------------
Init ==
    /\ file = [k \in Keys |-> <<>>] /\ open = [k \in Keys |-> FALSE]
    /\ state = [k \in Keys |-> Unknown]
    /\ queue = [k \in Keys |-> <<>>] /\ writer = [k \in Keys |-> Resting]
    /\ step = [q \in Requests |-> "new"] /\ checked = [q \in Requests |-> {}]
    /\ index = [k \in Keys |-> <<>>] /\ stale = [k \in Keys |-> "none"]
    /\ dated = {} /\ scanned = FALSE
    /\ failures = 0 /\ lost = {} /\ damaged = {}

\* append_record looks at each file under the writer's lock, which it releases.
InOrder(q, k) ==
    \A r \in RecordsOf[q] : KeyOf[r] = k => StateOf(k).time <= TimeOf[r]

Check(q, k) ==
    /\ step[q] = "new" /\ k \in KeysOf(q) \ checked[q]
    /\ writer[k].mode = "rest"
    /\ state' = [state EXCEPT ![k] = StateOf(k)]
    /\ IF Forced[q] \/ InOrder(q, k)
       THEN checked' = [checked EXCEPT ![q] = @ \cup {k}] /\ UNCHANGED step
       ELSE step' = [step EXCEPT ![q] = "refused"] /\ UNCHANGED checked
    /\ UNCHANGED <<files, queue, writer, indices, days, failures, lost>>

\* The file cannot be read: the request fails.
CheckFails(q, k) ==
    /\ step[q] = "new" /\ k \in KeysOf(q) \ checked[q]
    /\ writer[k].mode = "rest" /\ ~state[k].known
    /\ Fails
    /\ step' = [step EXCEPT ![q] = "refused"]
    /\ UNCHANGED <<files, state, queue, writer, checked, indices, days, lost>>

\* A finite set as a sequence in which none comes before one it follows in o.
Sorted(S, o(_, _)) ==
    CHOOSE s \in [1..Cardinality(S) -> S] :
        \A i, j \in 1..Cardinality(S) : i < j => s[i] # s[j] /\ ~o(s[j], s[i])
Share(q, k) == Sorted({r \in RecordsOf[q] : KeyOf[r] = k}, Before)

\* Mutant: the records of a file are queued as soon as that file is checked.
AcceptFile(q) ==
    /\ step[q] = "new" /\ checked[q] # {}
    /\ step' = [step EXCEPT ![q] = IF checked[q] = KeysOf(q) THEN "accepted" ELSE @]
    /\ queue' = [k \in Keys |->
         IF k \in checked[q] /\ \A r \in RecordsOf[q] : r \notin {queue[k][i] : i \in DOMAIN queue[k]}
         THEN queue[k] \o Share(q, k) ELSE queue[k]]
    /\ UNCHANGED <<files, state, writer, checked, indices, days, failures, lost>>

\* Every file agreed: the records are queued, and the request is answered.
Accept(q) ==
    /\ step[q] = "new" /\ checked[q] = KeysOf(q)
    /\ step' = [step EXCEPT ![q] = "accepted"]
    /\ queue' = [k \in Keys |->
         IF k \in KeysOf(q) THEN queue[k] \o Share(q, k) ELSE queue[k]]
    /\ UNCHANGED <<files, state, writer, checked, indices, days, failures, lost>>

--------------------------------------------------------------------------------
(* RecordWriterContext::write.                                                 *)

\* By time, then by number; those of the batch are numbered on from the last.
Ordered(a, b) ==
    \/ TimeOf[a.record] < TimeOf[b.record]
    \/ TimeOf[a.record] = TimeOf[b.record] /\ a.sn < b.sn
Fresh(batch, n) == {Line(batch[i], n + i) : i \in 1..Len(batch)}
Numbered(s, n) == [i \in DOMAIN s |-> Line(s[i].record, n + i)]
Lines(k) == {file[k][i] : i \in DOMAIN file[k]}
Late(k, batch) == \E i \in DOMAIN batch : StateOf(k).time > TimeOf[batch[i]]

\* Mutant: late records are appended like any other.
NeverLate(k, batch) == FALSE
Rewrites(k, batch) == Late(k, batch)

\* The appender hands over what is queued, at most so many at a time.
Take(k, n) ==
    LET batch == SubSeq(queue[k], 1, n)
        st    == StateOf(k)
        late  == Rewrites(k, batch)
        old   == IF late THEN Lines(k) ELSE {}
    IN  /\ writer[k].mode = "rest" /\ n \in 1..Len(queue[k])
        /\ late => \A i \in DOMAIN file[k] : file[k][i].record # Torn
        /\ queue' = [queue EXCEPT ![k] = SubSeq(@, n + 1, Len(@))]
        /\ state' = [state EXCEPT ![k] = IF late THEN [st EXCEPT !.sn = 0] ELSE st]
        /\ writer' = [writer EXCEPT ![k] =
             [mode  |-> IF late THEN "rewrite" ELSE "append",
              lines |-> Numbered(Sorted(old \cup Fresh(batch, st.sn), Ordered),
                                 IF late THEN 0 ELSE st.sn),
              done  |-> 0, old |-> file[k],
              batch |-> {batch[i] : i \in DOMAIN batch}]]
        /\ UNCHANGED <<files, requests, indices, days, failures, lost>>

\* The file cannot be read or opened, or it has to be written anew and a line
\* does not parse: the batch is dropped.
TakeFails(k, n) ==
    LET batch == SubSeq(queue[k], 1, n) IN
    /\ writer[k].mode = "rest" /\ n \in 1..Len(queue[k])
    /\ \/ Fails
       \/ /\ Late(k, batch) /\ \E i \in DOMAIN file[k] : file[k][i].record = Torn
          /\ UNCHANGED failures
    /\ queue' = [queue EXCEPT ![k] = SubSeq(@, n + 1, Len(@))]
    /\ lost' = lost \cup {batch[i] : i \in DOMAIN batch}
    /\ UNCHANGED <<files, state, writer, requests, indices, days>>

\* What the file is after d lines of the writer, with e in place of the next one:
\* <<>>, or a line that is cut off.
After(w, d, e) ==
    LET written == SubSeq(w.lines, 1, d) \o e
    IN  IF w.mode = "append" THEN w.old \o written
        ELSE written \o SubSeq(w.old, Len(written) + 1, Len(w.old))

\* A line appended to one without a newline makes one that does not parse.
Joins(k) == open[k] /\ writer[k].mode = "append" /\ writer[k].done = 0
Joined(k, s) ==
    IF Joins(k)
    THEN SubSeq(s, 1, Len(writer[k].old) - 1) \o <<Line(Torn, 0)>>
         \o SubSeq(s, Len(writer[k].old) + 2, Len(s))
    ELSE s

WriteLine(k) ==
    LET w == writer[k]
        l == w.lines[w.done + 1]
    IN  /\ w.mode # "rest" /\ w.done < Len(w.lines)
        /\ file' = [file EXCEPT ![k] = Joined(k, After(w, w.done + 1, <<>>))]
        /\ writer' = [writer EXCEPT ![k] = [w EXCEPT !.done = w.done + 1,
             !.old = IF Joins(k) THEN SubSeq(w.old, 1, Len(w.old) - 1) ELSE w.old,
             !.lines = IF Joins(k) THEN [w.lines EXCEPT ![1] = Line(Torn, 0)] ELSE w.lines]]
        /\ open' = [open EXCEPT ![k] = w.mode = "rewrite" /\ w.done + 1 < Len(w.old) /\ @]
        /\ state' = [state EXCEPT ![k] = [state[k] EXCEPT !.sn = state[k].sn + 1,
             !.time = IF w.mode = "append" THEN TimeOf[l.record] ELSE state[k].time]]
        /\ UNCHANGED <<queue, requests, indices, days, failures, lost, damaged>>

\* Mutant: a file written anew is read on from where the index ended.
MarkTail(k) == IF stale[k] = "all" THEN "all" ELSE "tail"
Mark(k) == IF writer[k].mode = "rewrite" \/ stale[k] = "all" THEN "all" ELSE "tail"

\* The hooks of the four kinds mark the index and note the day.
Hook(k) ==
    /\ stale' = [stale EXCEPT ![k] = Mark(k)]
    /\ dated' = dated \cup {k}
    /\ UNCHANGED <<index, scanned>>

\* Flushed: the time is that of the last line, the hook is called.
EndWrite(k) ==
    LET w == writer[k] IN
    /\ w.mode # "rest" /\ w.done = Len(w.lines)
    /\ state' = [state EXCEPT ![k].time =
         IF w.mode = "rewrite" THEN TimeOf[w.lines[w.done].record] ELSE @]
    /\ Hook(k)
    /\ writer' = [writer EXCEPT ![k] = Resting]
    /\ UNCHANGED <<files, queue, requests, failures, lost>>

\* What an interrupted write leaves: whole lines, or a line cut off, or only its
\* newline missing at the end of the file.
CutOff(k) ==
    LET w == writer[k]
        rest == After(w, w.done, <<Line(Torn, 0)>>)
    IN  \/ UNCHANGED <<file, open>>
        \/ /\ w.done < Len(w.lines)
           /\ file' = [file EXCEPT ![k] = Joined(k, rest)]
           /\ open' = [open EXCEPT ![k] = Len(w.old) <= w.done \/ w.mode = "append" \/ @]
        \/ /\ w.done < Len(w.lines) /\ ~open[k]
           /\ w.mode = "append" \/ Len(w.old) <= w.done
           /\ file' = [file EXCEPT ![k] = After(w, w.done + 1, <<>>)]
           /\ open' = [open EXCEPT ![k] = TRUE]

\* An I/O error while lines are written: the numbers in memory stay as they are.
WriteFails(k) ==
    /\ writer[k].mode # "rest"
    /\ Fails /\ CutOff(k)
    /\ damaged' = damaged \cup {k}
    /\ lost' = lost \cup writer[k].batch
    /\ writer' = [writer EXCEPT ![k] = Resting]
    /\ UNCHANGED <<state, queue, requests, indices, days>>

\* A query reads what the marks say and answers from the index; the first one
\* reads the whole file.
Query(k) ==
    /\ stale[k] # "none"
    /\ index' = [index EXCEPT ![k] =
         IF stale[k] = "all" THEN file[k]
         ELSE @ \o SubSeq(file[k], Len(@) + 1, Len(file[k]))]
    /\ stale' = [stale EXCEPT ![k] = "none"]
    /\ UNCHANGED <<files, state, queue, writer, requests, days, failures, lost>>

\* The first query for the most recent records looks for the files there are; an
\* error is ignored, and there is no second time.
Scan ==
    /\ ~scanned /\ scanned' = TRUE
    /\ LET found == {k \in Keys : file[k] # <<>>} IN
         \/ dated' = dated \cup found /\ UNCHANGED failures
         \/ Fails /\ \E S \in SUBSET found : dated' = dated \cup S
    /\ UNCHANGED <<files, state, queue, writer, requests, indices, lost>>

\* The process ends, one file cut off in the middle of a write, and starts again.
Crash ==
    /\ Fails
    /\ LET writing == {k \in Keys : writer[k].mode # "rest"} IN
         /\ damaged' = damaged \cup writing
         /\ \/ \E k \in writing : CutOff(k)
            \/ UNCHANGED <<file, open>>
    /\ lost' = lost \cup UNION {writer[k].batch \cup {queue[k][i] : i \in DOMAIN queue[k]} : k \in Keys}
    /\ state' = [k \in Keys |-> Unknown]
    /\ queue' = [k \in Keys |-> <<>>] /\ writer' = [k \in Keys |-> Resting]
    /\ step' = [q \in Requests |-> IF step[q] = "new" /\ checked[q] # {} THEN "refused" ELSE step[q]]
    /\ checked' = [q \in Requests |-> {}]
    /\ index' = [k \in Keys |-> <<>>] /\ stale' = [k \in Keys |-> "all"]
    /\ dated' = {} /\ scanned' = FALSE

Next ==
    \/ \E q \in Requests : Accept(q)
    \/ \E q \in Requests, k \in Keys : Check(q, k) \/ CheckFails(q, k)
    \/ \E k \in Keys : \/ \E n \in 1..Len(queue[k]) : Take(k, n) \/ TakeFails(k, n)
                       \/ WriteLine(k) \/ EndWrite(k) \/ WriteFails(k) \/ Query(k)
    \/ Scan \/ Crash

Spec == Init /\ [][Next]_vars

--------------------------------------------------------------------------------
InFile(k) == {l.record : l \in Lines(k)}
Waiting(k) == {queue[k][i] : i \in DOMAIN queue[k]}
              \cup {writer[k].lines[i].record : i \in DOMAIN writer[k].lines}

\* Between writes a file that no write was cut off in is sorted by time and
\* numbered from 1, each record once: the watermarks of the abstract memory rely
\* on it.  What is in memory of it agrees.
NumberedInOrder ==
    \A k \in Keys \ damaged :
        writer[k].mode = "rest" =>
            /\ \A i \in DOMAIN file[k] : file[k][i].sn = i
            /\ \A i, j \in DOMAIN file[k] : i < j =>
                  /\ TimeOf[file[k][i].record] <= TimeOf[file[k][j].record]
                  /\ file[k][i].record # file[k][j].record
            /\ state[k].known => state[k] = Loaded(k)

\* The records of a request are kept together or refused together: those of an
\* accepted one are on their way or in the file, unless their write failed or a
\* write of the file was cut off, and none of a refused one is.
AcceptedKept ==
    \A q \in Requests : \A r \in RecordsOf[q] :
        LET k == KeyOf[r] IN
        IF step[q] = "accepted"
        THEN r \in InFile(k) \cup Waiting(k) \cup lost \/ k \in damaged
        ELSE r \notin InFile(k) \cup Waiting(k)

\* Both: what was accepted is kept, in order and numbered.
FilesKept == NumberedInOrder /\ AcceptedKept

\* A query answers with the file as it is: after each write the marks make the
\* index read what changed, and a query for the most recent records knows every
\* file, unless its only search for them failed.  A write that failed leaves no mark.
QueriesSeeWrites ==
    \A k \in Keys \ damaged :
        writer[k].mode = "rest" =>
            /\ stale[k] = "none" => index[k] = file[k]
            /\ scanned /\ failures = 0 /\ file[k] # <<>> => k \in dated
================================================================================
