------------------------------ MODULE CaseArchive ------------------------------
(* The archiving of one role of the abstract memory: the records of the memory *)
(* store are read, grouped by the model into cases, copied into the files of   *)
(* the cases, and passed by a watermark (archive.rs, service.rs, records.rs,   *)
(* agent_role.rs).                                                             *)
(*                                                                             *)
(* A role has one tree of cases.  Its input and its positions are kept per     *)
(* memory suffix: the role itself, or the role and an event, whose records all *)
(* go to one fixed case.  One request at a time works on a role, because it    *)
(* holds the lock of the role's state; the store goes on writing meanwhile.    *)
(* Every awaited file operation is an action of its own, so that a crash or an *)
(* I/O error may come between any two of them.                                 *)
EXTENDS Naturals, Sequences, FiniteSets

CONSTANTS
    Suffixes, EventSuffixes,   \* memory suffixes, and those in event mode
    NoSuffix,
    Channels, NoChannel,
    RoleCases,                 \* names the model may give to cases
    NoCase,
    Records,                   \* what the store will ever hold
    SuffixOf, ChannelOf, TimeOf,  \* functions of Records
    Placeholder,               \* of a think record: the channel record naming it
    NoRecord,                  \* Placeholder of a channel record
    Msg, MsgTime,              \* the new message of a locate request, its time
    MaxBatch,                  \* max_batch_records
    MaxRequests, MaxFailures   \* bounds; a failure is an I/O error or a crash

\* A role has one suffix without an event; a think record is named by a channel
\* record.
ASSUME ArchiveAssumption ==
    /\ EventSuffixes \subseteq Suffixes
    /\ \A s, t \in Suffixes \ EventSuffixes : s = t
    /\ IsFiniteSet(Records)
    /\ SuffixOf \in [Records -> Suffixes]
    /\ ChannelOf \in [Records -> Channels]
    /\ TimeOf \in [Records -> Nat]
    /\ Placeholder \in [Records -> Records \cup {NoRecord}]
    /\ \A r \in Records : Placeholder[r] \in Records => Placeholder[Placeholder[r]] = NoRecord
    /\ NoRecord \notin Records /\ Msg \notin Records /\ MsgTime \in Nat
    /\ NoChannel \notin Channels /\ NoSuffix \notin Suffixes
    /\ RoleCases \cap EventSuffixes = {}
    /\ NoCase \notin RoleCases \cup EventSuffixes
    /\ MaxBatch \in Nat \ {0}
    /\ MaxRequests \in Nat /\ MaxFailures \in Nat

VARIABLES
    \* the memory store
    at,         \* when a record was written: its place among all writes, or 0
    \* the disk of the abstract memory
    copies,     \* how many copies of a record the files of a case hold
    diskTree, diskCurrent, diskMark,
    \* the memory of the process
    opened,     \* whether the role is loaded
    loaded,     \* the suffixes whose current cases and watermarks were read
    tree,       \* the number of records of each case of the role
    current,    \* the current case of each suffix and channel
    mark,       \* the watermarks
    \* the request that holds the lock: its step and its local variables
    pc, job,
    \* bounds and history
    requests, failures,
    dropped,    \* records that no group of an accepted grouping contains
    broken      \* suffixes whose last rebuild was interrupted while it cleared

disk   == <<copies, diskTree, diskCurrent, diskMark>>
memory == <<opened, loaded, tree, current, mark>>
history == <<dropped, broken>>
bounds == <<requests, failures>>
vars   == <<at, disk, memory, pc, job, bounds, history>>

suffix  == job.suffix    \* the memory suffix of the request
view    == job.view      \* how many writes the files showed when they were read
channel == job.channel   \* the channel it works on
rest    == job.rest      \* what is left of the channel's batch
place   == job.place     \* the case of each item of the chunk

Kinds == {"channel", "think"}
KindOf(r) == IF Placeholder[r] = NoRecord THEN "channel" ELSE "think"

\* An event suffix names its own case; the names of the two modes differ.
Cases  == RoleCases \cup EventSuffixes
Zero   == <<0, 0>>
NoMarks == [ch \in Channels |-> [k \in Kinds |-> Zero]]
NoCurrent == [ch \in Channels |-> NoCase]
NoTree == [c \in {} |-> 0]
NoPlace == [x \in {} |-> NoCase]
NoJob ==
    [op |-> "none", suffix |-> NoSuffix, message |-> NoChannel,
     view |-> [k \in Kinds |-> 0], todo |-> {}, channel |-> NoChannel,
     rest |-> {}, place |-> NoPlace, appends |-> {}, doomed |-> {}]
Written == Cardinality({r \in Records : at[r] # 0})

--------------------------------------------------------------------------------
(* The order of the store's files: by time, then by arrival.  A late record is *)
(* put in its place and the records after it are numbered anew.                *)
SameFile(r, x) == SuffixOf[r] = SuffixOf[x] /\ KindOf(r) = KindOf(x)
Before(x, r) ==
    \/ TimeOf[x] < TimeOf[r]
    \/ TimeOf[x] = TimeOf[r] /\ at[x] < at[r]

\* The sequence number of r in its file once n records were written.
SnAt(r, n) ==
    Cardinality({x \in Records : /\ SameFile(r, x)
                                 /\ at[x] \in 1..n
                                 /\ x = r \/ Before(x, r)})
Position(r, n) == <<TimeOf[r], SnAt(r, n)>>
Beyond(p, q) == p[1] > q[1] \/ (p[1] = q[1] /\ p[2] > q[2])

\* A think record belongs to a channel only through its placeholder.
Seen(r, v) == at[r] # 0 /\ at[r] <= v[KindOf(r)]
Claimed(r, v) ==
    /\ Seen(r, v)
    /\ KindOf(r) = "think" => Seen(Placeholder[r], v)

PendingFor(s, ch, v, w) ==
    {r \in Records : /\ SuffixOf[r] = s /\ ChannelOf[r] = ch
                     /\ Claimed(r, v)
                     /\ Beyond(Position(r, v[KindOf(r)]), w[KindOf(r)])}

\* The order of a batch: by time, stored records before a new message; among
\* stored records the number, then the channel records first.
Precedes(x, y) ==
    CASE x = Msg -> y # Msg /\ MsgTime < TimeOf[y]
      [] y = Msg -> x # Msg /\ TimeOf[x] <= MsgTime
      [] OTHER ->
            LET p == Position(x, view[KindOf(x)])
                q == Position(y, view[KindOf(y)])
            IN  \/ Beyond(q, p)
                \/ p = q /\ KindOf(x) = "channel" /\ KindOf(y) = "think"

Chunk ==
    CHOOSE C \in SUBSET rest :
        /\ Cardinality(C) = IF Cardinality(rest) < MaxBatch
                            THEN Cardinality(rest) ELSE MaxBatch
        /\ \A x \in C, y \in rest \ C : Precedes(x, y)

Stored(C) == C \ {Msg}
LastOf(C) == CHOOSE x \in C : \A y \in C \ {x} : Precedes(y, x)

--------------------------------------------------------------------------------
(* What parse_groups accepts: every group is a run of the batch from its first *)
(* to its last index, the runs follow each other, and only the two ends of a   *)
(* run are compared; an index between them may be missing.                     *)
AcceptedPlaces(s, C) ==
    UNION {{f \in [K -> Cases] :
              \A x \in C \ K : \E y, z \in K :
                 /\ Precedes(y, x) /\ Precedes(x, z)
                 /\ \A w \in K : Precedes(w, x) => w = y \/ Precedes(w, y)
                 /\ \A w \in K : Precedes(x, w) => w = z \/ Precedes(z, w)
                 /\ f[y] = f[z]}
           : K \in SUBSET C}

\* In event mode nothing is grouped: the whole batch goes to the event's case.
\* In role mode a group goes to a case of the role, which it may create: a new
\* name is not used yet, so it holds one group.
PlacesOf(s, C) ==
    IF s \in EventSuffixes THEN {[x \in C |-> s]}
    ELSE {f \in AcceptedPlaces(s, C) :
             /\ \A x \in DOMAIN f : f[x] \in RoleCases
             /\ \A x, y, z \in DOMAIN f :
                   f[x] = f[z] /\ f[x] \notin DOMAIN tree
                   /\ Precedes(x, y) /\ Precedes(y, z) => f[y] = f[x]}

Targets(f, k) == {<<c, k>> : c \in {f[x] : x \in {y \in DOMAIN f : y # Msg /\ KindOf(y) = k}}}

--------------------------------------------------------------------------------
Init ==
    /\ at = [r \in Records |-> 0]
    /\ copies = [c \in Cases |-> [r \in Records |-> 0]]
    /\ diskTree = NoTree
    /\ diskCurrent = [s \in Suffixes |-> NoCurrent]
    /\ diskMark = [s \in Suffixes |-> NoMarks]
    /\ opened = FALSE /\ loaded = {} /\ tree = NoTree
    /\ current = [s \in Suffixes |-> NoCurrent]
    /\ mark = [s \in Suffixes |-> NoMarks]
    /\ pc = "idle" /\ job = NoJob
    /\ requests = 0 /\ failures = 0 /\ dropped = {} /\ broken = {}

\* The store writes a record, in order or late (kissbot-memory-store record.rs).
\* Only the two reads of a request observe a write: one that comes between other
\* steps is the same as one before the next read or after the request.
Write(r) ==
    /\ at[r] = 0 /\ pc \in {"idle", "view", "view2"}
    /\ at' = [at EXCEPT ![r] = Written + 1]
    /\ UNCHANGED <<disk, memory, pc, job, bounds, history>>

\* The request ends; its error, if any, goes to its caller.
Idle == pc' = "idle" /\ job' = NoJob

\* An awaited operation fails, or the process dies: the request is over.
Fail == failures < MaxFailures /\ failures' = failures + 1
        /\ UNCHANGED requests /\ Idle

\* manual_trigger, rebuild and locate take the lock; the role is loaded on its
\* first use.
Begin(o, s, m) ==
    /\ pc = "idle"
    /\ requests < MaxRequests /\ requests' = requests + 1
    /\ o = "locate" <=> m # NoChannel
    /\ pc' = "ensure"
    /\ job' = [job EXCEPT !.op = o, !.suffix = s, !.message = m]
    /\ opened' = TRUE
    /\ tree' = IF opened THEN tree ELSE diskTree
    /\ UNCHANGED <<at, disk, loaded, current, mark, failures, history>>

\* Mutant: a rebuild clears the cases of every suffix.
EveryCase == DOMAIN tree
CasesToClear ==
    {c \in DOMAIN tree : IF suffix \in EventSuffixes THEN c = suffix ELSE c \in RoleCases}
AfterEnsure ==
    IF job.op = "rebuild"
    THEN pc' = "clear" /\ job' = [job EXCEPT !.doomed = CasesToClear]
    ELSE pc' = "view" /\ UNCHANGED job

\* ensure_role_event of a suffix that was used before.
EnsureKnown ==
    /\ pc = "ensure" /\ suffix \in loaded
    /\ AfterEnsure
    /\ UNCHANGED <<at, disk, memory, bounds, history>>

\* ... of one that was not: current.json, then watermark.json.
EnsureRead ==
    /\ pc = "ensure" /\ suffix \notin loaded
    /\ loaded' = loaded \cup {suffix}
    /\ current' = [current EXCEPT ![suffix] = diskCurrent[suffix]]
    /\ mark' = [mark EXCEPT ![suffix] = diskMark[suffix]]
    /\ AfterEnsure
    /\ UNCHANGED <<at, disk, opened, tree, bounds, history>>

\* A file cannot be read: the suffix counts as loaded nevertheless, without
\* its watermarks, and without its current cases when that file came first.
EnsureFails ==
    /\ pc = "ensure" /\ suffix \notin loaded
    /\ Fail
    /\ loaded' = loaded \cup {suffix}
    /\ \/ UNCHANGED current
       \/ current' = [current EXCEPT ![suffix] = diskCurrent[suffix]]
    /\ UNCHANGED <<at, disk, opened, tree, mark, history>>

\* rebuild removes the directory of one case; an I/O error may leave some files.
ClearCopies(c) ==
    /\ pc = "clear" /\ c \in job.doomed
    /\ broken' = broken \cup {suffix}
    /\ \E K \in SUBSET Kinds :
         /\ copies' = [copies EXCEPT ![c] =
              [r \in Records |-> IF KindOf(r) \in K THEN 0 ELSE @[r]]]
         /\ \/ K = Kinds
               /\ job' = [job EXCEPT !.doomed = @ \ {c}]
               /\ UNCHANGED <<pc, bounds>>
            \/ Fail
    /\ UNCHANGED <<at, diskTree, diskCurrent, diskMark, memory, dropped>>

\* ... then drops the cases, pointers and watermarks it holds in memory, and
\* removes current.json,
ResetCurrent ==
    /\ pc = "clear" /\ job.doomed = {}
    /\ tree' = [c \in DOMAIN tree \ CasesToClear |-> tree[c]]
    /\ current' = [current EXCEPT ![suffix] = NoCurrent]
    /\ mark' = [mark EXCEPT ![suffix] = NoMarks]
    /\ \/ /\ diskCurrent' = [diskCurrent EXCEPT ![suffix] = NoCurrent]
          /\ pc' = "clearmark"
          /\ UNCHANGED <<job, bounds>>
       \/ Fail /\ UNCHANGED diskCurrent
    /\ UNCHANGED <<at, copies, diskTree, diskMark, opened, loaded, history>>

\* ... and watermark.json.
ResetMark ==
    /\ pc = "clearmark"
    /\ \/ /\ diskMark' = [diskMark EXCEPT ![suffix] = NoMarks]
          /\ broken' = broken \ {suffix}
          /\ pc' = "view"
          /\ UNCHANGED <<job, bounds>>
       \/ Fail /\ UNCHANGED <<diskMark, broken>>
    /\ UNCHANGED <<at, copies, diskTree, diskCurrent, memory, dropped>>

\* The files of the store are read one kind after the other, the channel
\* records first; the store may write between the two.
ReadChannelFile ==
    /\ pc = "view" /\ pc' = "view2"
    /\ job' = [job EXCEPT !.view["channel"] = Written]
    /\ UNCHANGED <<at, disk, memory, bounds, history>>

KnownChannels(v) ==
    {ChannelOf[r] : r \in {x \in Records : SuffixOf[x] = suffix /\ Claimed(x, v)}}

ReadThinkFile ==
    /\ pc = "view2" /\ pc' = "next"
    /\ LET v == [view EXCEPT !["think"] = Written] IN
         job' = [job EXCEPT !.view = v,
                            !.todo = KnownChannels(v) \cup ({job.message} \ {NoChannel})]
    /\ UNCHANGED <<at, disk, memory, bounds, history>>

\* merge_batch: the message of a request is new, or a pending record with its
\* id stands for it.
Batches(ch) ==
    LET pending == PendingFor(suffix, ch, view, mark[suffix][ch])
    IN  IF ch # job.message THEN {pending}
        ELSE {pending \cup {Msg}} \cup
             (IF \E r \in pending : KindOf(r) = "channel" THEN {pending} ELSE {})

\* The next channel of process_pending.
NextChannel ==
    /\ pc = "next" /\ rest = {}
    /\ \E ch \in job.todo : \E B \in Batches(ch) :
         job' = [job EXCEPT !.todo = @ \ {ch}, !.channel = ch, !.rest = B]
    /\ UNCHANGED <<at, disk, memory, pc, bounds, history>>

Finish ==
    /\ pc = "next" /\ rest = {} /\ job.todo = {}
    /\ Idle
    /\ UNCHANGED <<at, disk, memory, bounds, history>>

\* archive_chunk_inner up to the copies: the model groups the chunk and decides
\* where each group goes.  A new case is not seen before the lock is released,
\* so it enters the tree with the other changes of memory (Apply).
Decide ==
    /\ pc = "next" /\ rest # {} /\ pc' = "append"
    /\ \E f \in PlacesOf(suffix, Chunk) :
         /\ job' = [job EXCEPT !.place = f,
                               !.appends = UNION {Targets(f, k) : k \in Kinds}]
         /\ dropped' = dropped \cup (Stored(Chunk) \ DOMAIN f)
    /\ UNCHANGED <<at, disk, memory, bounds, broken>>

\* Any of the calls of the model fails: nothing of the chunk is kept.
DecideFails ==
    /\ pc = "next" /\ rest # {}
    /\ Idle
    /\ UNCHANGED <<at, disk, memory, bounds, history>>

\* append_case_records writes the records of one kind to one case.
Group(c, k) == {r \in DOMAIN place \ {Msg} : place[r] = c /\ KindOf(r) = k}
AppendCopies(c, k) ==
    /\ pc = "append" /\ <<c, k>> \in job.appends
    /\ copies' = [copies EXCEPT ![c] =
         [r \in Records |-> @[r] + IF r \in Group(c, k) THEN 1 ELSE 0]]
    /\ job' = [job EXCEPT !.appends = @ \ {<<c, k>>}]
    /\ UNCHANGED <<at, diskTree, diskCurrent, diskMark, memory, pc, bounds, history>>

\* Mutant: the error is logged and the chunk goes on.
AppendErrorIgnored ==
    /\ pc = "append" /\ job.appends # {}
    /\ failures < MaxFailures /\ failures' = failures + 1
    /\ job' = [job EXCEPT !.appends = {}]
    /\ UNCHANGED <<at, disk, memory, pc, requests, history>>
\* The write fails; the chunk is given up, what was written stays.
AppendFails ==
    /\ pc = "append" /\ job.appends # {}
    /\ Fail
    /\ UNCHANGED <<at, disk, memory, history>>

\* The changes of memory: new cases, counts, the current case and the watermark,
\* which passes every stored record of the chunk (advance_watermark).  The
\* current case may be missing from the tree when a rebuild broke off: a group
\* is placed there without making it a case again.
Created == {place[x] : x \in DOMAIN place} \ {current[suffix][channel]}
CountOf(c) == IF c \in DOMAIN tree THEN tree[c] ELSE 0
\* Mutant: only the channel records move the watermark.
AdvancedForChannel(p, k, S) ==
    IF k = "think" \/ S = {} THEN p
    ELSE LET Ps == {Position(r, view[k]) : r \in {x \in S : KindOf(x) = k}} \cup {p}
         IN  CHOOSE q \in Ps : \A o \in Ps : ~Beyond(o, q)
Advanced(p, k, S) ==
    LET Ps == {Position(r, view[k]) : r \in {x \in S : KindOf(x) = k}} \cup {p}
    IN  CHOOSE q \in Ps : \A o \in Ps : ~Beyond(o, q)

Apply ==
    /\ pc = "append" /\ job.appends = {}
    /\ tree' = [c \in DOMAIN tree \cup Created |->
                  CountOf(c) + Cardinality(UNION {Group(c, k) : k \in Kinds})]
    /\ current' = [current EXCEPT ![suffix][channel] = place[LastOf(DOMAIN place)]]
    /\ mark' = [mark EXCEPT ![suffix][channel] =
                  [k \in Kinds |-> Advanced(@[k], k, Stored(Chunk))]]
    /\ job' = [job EXCEPT !.rest = @ \ Chunk, !.place = NoPlace]
    /\ pc' = IF Stored(Chunk) = {} THEN "next" ELSE "savetree"
    /\ UNCHANGED <<at, disk, opened, loaded, bounds, history>>

\* Mutant: the tree is not saved.
SaveTreeSkipped ==
    /\ pc = "savetree" /\ pc' = "savecurrent"
    /\ UNCHANGED <<at, disk, memory, job, bounds, history>>

\* save_state: tree.json, current.json and watermark.json, each by a rename.
SaveTree ==
    /\ pc = "savetree" /\ pc' = "savecurrent"
    /\ diskTree' = tree
    /\ UNCHANGED <<at, copies, diskCurrent, diskMark, memory, job, bounds, history>>

SaveCurrent ==
    /\ pc = "savecurrent" /\ pc' = "savemark"
    /\ diskCurrent' = [diskCurrent EXCEPT ![suffix] = current[suffix]]
    /\ UNCHANGED <<at, copies, diskTree, diskMark, memory, job, bounds, history>>

SaveMark ==
    /\ pc = "savemark" /\ pc' = "next"
    /\ diskMark' = [diskMark EXCEPT ![suffix] = mark[suffix]]
    /\ UNCHANGED <<at, copies, diskTree, diskCurrent, memory, job, bounds, history>>

\* A save fails: the request ends with an error and memory is ahead of the disk.
SaveFails ==
    /\ pc \in {"savetree", "savecurrent", "savemark"}
    /\ Fail
    /\ UNCHANGED <<at, disk, memory, history>>

\* The process dies between two awaited operations and starts again.
Crash ==
    /\ Fail
    /\ opened /\ opened' = FALSE
    /\ loaded' = {} /\ tree' = NoTree
    /\ current' = [s \in Suffixes |-> NoCurrent]
    /\ mark' = [s \in Suffixes |-> NoMarks]
    /\ UNCHANGED <<at, disk, history>>

Next ==
    \/ \E r \in Records : Write(r)
    \/ \E s \in Suffixes : \/ Begin("trigger", s, NoChannel)
                           \/ Begin("rebuild", s, NoChannel)
    \/ \E s \in Suffixes, ch \in Channels : Begin("locate", s, ch)
    \/ EnsureKnown \/ EnsureRead \/ EnsureFails
    \/ \E c \in Cases : ClearCopies(c)
    \/ ResetCurrent \/ ResetMark
    \/ ReadChannelFile \/ ReadThinkFile \/ NextChannel \/ Finish
    \/ Decide \/ DecideFails
    \/ \E c \in Cases, k \in Kinds : AppendCopies(c, k)
    \/ AppendFails \/ Apply
    \/ SaveTree \/ SaveCurrent \/ SaveMark \/ SaveFails
    \/ Crash

Spec == Init /\ [][Next]_vars

--------------------------------------------------------------------------------
\* A record that was written or claimed out of order: one that follows it in
\* its file was written, or claimed, before it.  The watermark may have passed it.
OutOfOrder(r) ==
    \E x \in Records :
        /\ SameFile(r, x) /\ ChannelOf[r] = ChannelOf[x]
        /\ at[x] # 0 /\ Before(r, x)
        /\ \/ at[x] < at[r]
           \/ /\ KindOf(r) = "think"
              /\ at[Placeholder[x]] # 0
              /\ at[Placeholder[x]] < at[Placeholder[r]]

\* A record written late: it took a place before another one of its file, of
\* any channel, whose number it changed.
Late(r) ==
    \E x \in Records : SameFile(r, x) /\ at[x] # 0 /\ at[x] < at[r] /\ Before(r, x)

Covered(r, m) ==
    /\ at[r] # 0
    /\ KindOf(r) = "think" => at[Placeholder[r]] # 0
    /\ ~Beyond(Position(r, Written), m[SuffixOf[r]][ChannelOf[r]][KindOf(r)])

HasCopy(r) == \E c \in Cases : copies[c][r] > 0

\* Nothing is lost at the watermark: a record that was written in order and that
\* a watermark covers, on disk or in memory, is in the files of a case, whatever
\* crashed or failed.  Left out: the records that an accepted grouping omits, and
\* the suffixes whose rebuild broke off while it cleared.
InOrderRecordsCovered ==
    \A r \in Records :
        /\ Covered(r, diskMark) \/ (SuffixOf[r] \in loaded /\ Covered(r, mark))
        /\ ~OutOfOrder(r) /\ r \notin dropped /\ SuffixOf[r] \notin broken
        => HasCopy(r)

\* Without errors, crashes and records written late to its file, no record is
\* copied twice, however requests, rebuilds and writes interleave.
CopiedOnce ==
    \A r \in Records :
        failures = 0 /\ (\A x \in Records : SameFile(r, x) => ~Late(x)) =>
            \A c, d \in Cases :
              /\ copies[c][r] <= 1
              /\ copies[c][r] > 0 /\ copies[d][r] > 0 => c = d

\* The copies that the files of a case hold, one element for each.
Held(c) == UNION {{r} \X (1..copies[c][r]) : r \in Records}

\* The state files agree with each other and with the files of the cases.  A
\* current case is a case of the tree, on disk and in memory, whatever crashed:
\* tree.json is saved before current.json, and a rebuild clears the pointers with
\* the cases.  Between requests the count of a case in the tree is the number of
\* copies in its files, as long as nothing failed.
StateFilesAgree ==
    /\ \A s \in Suffixes \ broken, ch \in Channels :
          /\ diskCurrent[s][ch] \in DOMAIN diskTree \cup {NoCase}
          /\ current[s][ch] \in DOMAIN tree \cup {NoCase}
    /\ pc = "idle" /\ opened /\ failures = 0 =>
          \A c \in Cases : Cardinality(Held(c)) = CountOf(c)

\* The rebuild of a suffix leaves the cases of the others alone, and no request
\* touches their pointers and watermarks.
OwnCases(s) == IF s \in EventSuffixes THEN {s} ELSE RoleCases
SuffixesIsolated ==
    [][pc # "idle" =>
         /\ \A c \in Cases \ OwnCases(suffix) : copies'[c] = copies[c]
         /\ \A s \in Suffixes \ {suffix} :
               /\ diskCurrent'[s] = diskCurrent[s]
               /\ diskMark'[s] = diskMark[s]]_vars
================================================================================
