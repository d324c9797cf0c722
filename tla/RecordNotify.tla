------------------------------- MODULE RecordNotify -------------------------------
(* How the abstract memory learns of new records: the notification service of  *)
(* the memory store (kissbot-memory-store notify.rs), the client that follows  *)
(* it (kissbot-memory-struct-abstract notify.rs) and the marks of one role     *)
(* that decide whether a request looks at the store at all (service.rs,        *)
(* agent_role.rs).  What a request then does with the records is CaseArchive.  *)
(*                                                                             *)
(* Equal notifications at the same stage are one: both were published after    *)
(* their records were written, and a mark is set or it is not.                 *)
EXTENDS Naturals, FiniteSets

CONSTANTS
    Records, Suffixes, Channels,
    NoChannel,             \* of think and tool records
    SuffixOf, ChannelOf,   \* functions of Records
    MaxFailures            \* bound on I/O errors, lost connections and restarts

ASSUME NotifyAssumption ==
    /\ NoChannel \notin Channels /\ Suffixes # {}
    /\ SuffixOf \in [Records -> Suffixes]
    /\ ChannelOf \in [Records -> Channels \cup {NoChannel}]
    /\ MaxFailures \in Nat

VARIABLES
    written,      \* the records in the files of the store
    serving,      \* whether the notification service of the store runs
    unpublished,  \* records written whose hook has not run
    queue,        \* notifications to broadcast
    wire,         \* notifications on the way to the client
    tasks,        \* notifications the client is handling
    link,         \* whether there is a connection
    registered,   \* whether the server counts it among its clients
    status,       \* what the loop of the client is doing
    listed,       \* suffixes found in the store, about to be marked
    opened,       \* whether the role is in memory
    loads,        \* what loads of the role found that have not entered it yet
    marks,        \* <<suffix, channel>>; NoChannel stands for all of them
    job,          \* the request that holds the lock of the role
    considered,   \* records a successful request has looked at
    failures,
    excused       \* records that slipped through a window named below

store  == <<written, serving, unpublished, queue>>
client == <<wire, tasks, link, registered, status, listed>>
role   == <<opened, loads, marks, job, considered>>
vars   == <<store, client, role, failures, excused>>

Notices == [suffix : Suffixes, channel : Channels \cup {NoChannel}]
Notice(r) == [suffix |-> SuffixOf[r], channel |-> ChannelOf[r]]

NoJob == [stage |-> "none", suffix |-> CHOOSE s \in Suffixes : TRUE, seen |-> {}]
Free == job.stage = "none"

\* list_store_suffixes: the suffixes that occur in the store.
Occurring == {SuffixOf[r] : r \in written}
All(S) == S \X {NoChannel}
IsDirty(s) == \E c \in Channels \cup {NoChannel} : <<s, c>> \in marks

\* Records not looked at whose notification is gone.
Unannounced ==
    {r \in written \ considered :
        r \notin unpublished /\ Notice(r) \notin queue \cup wire \cup tasks}
ToBeMarked(s) == status = "init" \/ (status = "marking" /\ s \in listed)

\* Those of S slip through a window.
Slip(S) == excused' = excused \cup {r \in Unannounced' : SuffixOf[r] \in S}
Fails == failures < MaxFailures /\ failures' = failures + 1

--------------------------------------------------------------------------------
Init ==
    /\ written = {} /\ serving = FALSE /\ unpublished = {} /\ queue = {}
    /\ wire = {} /\ tasks = {} /\ link = FALSE /\ registered = FALSE
    /\ status = "connecting" /\ listed = {}
    /\ opened = FALSE /\ loads = {} /\ marks = {} /\ job = NoJob /\ considered = {}
    /\ failures = 0 /\ excused = {}

\* Mutant: the hook runs before the write.
AnnounceFirst(B) ==
    /\ written' = written
    /\ unpublished' = unpublished \cup B
\* A writer appends a batch to a file: records of one suffix and of one kind.
Flushed(B) ==
    /\ written' = written \cup B
    /\ unpublished' = unpublished \cup B

SameFile(r, q) ==
    /\ SuffixOf[r] = SuffixOf[q]
    /\ (ChannelOf[r] = NoChannel) = (ChannelOf[q] = NoChannel)

Flush(B) ==
    /\ \A r, q \in B : SameFile(r, q)
    /\ \A r \in B, q \in unpublished : ~SameFile(r, q)
    /\ Flushed(B)
    /\ UNCHANGED <<serving, queue, client, role, failures, excused>>

\* channel_notifications: one for every channel of the batch; think and tool
\* records have none.
Notifications(B) == {Notice(r) : r \in B}

\* The hook of the writer, once for every batch: without a server nothing is
\* published.
Publish(r) ==
    /\ r \in unpublished
    /\ LET B == {q \in unpublished : SameFile(r, q)} IN
       /\ queue' = IF serving THEN queue \cup Notifications(B) ELSE queue
       /\ unpublished' = unpublished \ B
    /\ UNCHANGED <<written, serving, client, role, failures, excused>>

\* NotifyServer::start.
Serve ==
    /\ ~serving /\ serving' = TRUE
    /\ UNCHANGED <<written, unpublished, queue, client, role, failures, excused>>

\* The broadcaster sends to the clients it knows.  A client that has marked its
\* roles but is not among them yet misses the notification.
Broadcast(n) ==
    /\ n \in queue /\ queue' = queue \ {n}
    /\ wire' = IF registered THEN wire \cup {n} ELSE wire
    /\ UNCHANGED <<written, serving, unpublished, tasks, link, registered, status,
                   listed, role, failures>>
    /\ Slip(IF registered \/ ~link \/ ToBeMarked(n.suffix) THEN {} ELSE {n.suffix})

\* init of the server, after the handshake and at its own time.
Register ==
    /\ link /\ ~registered /\ registered' = TRUE
    /\ UNCHANGED <<store, wire, tasks, link, status, listed, role, failures, excused>>

--------------------------------------------------------------------------------
(* The client.                                                                 *)

\* ws_connect; then init of the client.
Connect ==
    /\ status = "connecting" /\ serving
    /\ status' = "init" /\ link' = TRUE
    /\ UNCHANGED <<store, wire, tasks, registered, listed, role, failures, excused>>

\* It fails: the loop waits for a disconnection all the same, and nobody will
\* tell it of one.
ConnectFails ==
    /\ status = "connecting"
    /\ Fails
    /\ status' = "stalled"
    /\ UNCHANGED <<store, wire, tasks, link, registered, listed, role, excused>>

\* Mutant: the roles are not marked again.
NothingToMark == {}
\* What mark_all_dirty finds for the role, if it is loaded.
ToMark == IF opened THEN Occurring ELSE {}

ListSuffixes ==
    /\ status = "init" /\ status' = "marking"
    /\ listed' = ToMark
    /\ UNCHANGED <<store, wire, tasks, link, registered, role, failures, excused>>

\* The store cannot be listed: the role is passed over.
ListFails ==
    /\ status = "init" /\ opened /\ status' = "marking"
    /\ Fails
    /\ UNCHANGED <<store, wire, tasks, link, registered, listed, role>>
    /\ Slip(Suffixes)

MarkAll ==
    /\ status = "marking" /\ status' = "up"
    /\ listed = {} \/ Free
    /\ marks' = marks \cup All(listed) /\ listed' = {}
    /\ UNCHANGED <<store, wire, tasks, link, registered, opened, loads, job,
                   considered, failures, excused>>

LoseLink ==
    /\ link
    /\ Fails
    /\ link' = FALSE /\ registered' = FALSE /\ wire' = {}
    /\ UNCHANGED <<store, tasks, status, listed, role, excused>>

\* The close handler wakes the loop, which sleeps and connects again.
Reconnect ==
    /\ status = "up" /\ ~link /\ status' = "connecting"
    /\ UNCHANGED <<store, wire, tasks, link, registered, listed, role, failures, excused>>

\* Every message is handled in a task of its own.
Receive(n) ==
    /\ n \in wire /\ wire' = wire \ {n} /\ tasks' = tasks \cup {n}
    /\ UNCHANGED <<store, link, registered, status, listed, role, failures, excused>>

\* on_notification.
OnNotification(n) ==
    /\ n \in tasks /\ opened /\ Free
    /\ tasks' = tasks \ {n}
    /\ marks' = marks \cup {<<n.suffix, n.channel>>}
    /\ UNCHANGED <<store, wire, link, registered, status, listed, opened, loads,
                   job, considered, failures, excused>>

\* The role cannot be opened: the notification is only logged.
NotificationFails(n) ==
    /\ n \in tasks /\ ~opened
    /\ Fails
    /\ tasks' = tasks \ {n}
    /\ UNCHANGED <<store, wire, link, registered, status, listed, role, excused>>

--------------------------------------------------------------------------------
(* The role.                                                                   *)

\* AgentRoleManager::open reads the role for whoever needs it; several may.
Load ==
    /\ ~opened /\ loads' = loads \cup {Occurring}
    /\ UNCHANGED <<store, client, opened, marks, job, considered, failures, excused>>

\* The first one enters.  A suffix that first occurred after the store was
\* listed is not marked.
Insert(S) ==
    /\ S \in loads /\ loads' = {}
    /\ opened' = TRUE /\ marks' = All(S)
    /\ UNCHANGED <<store, client, job, considered, failures>>
    /\ Slip(Suffixes \ S)

\* A request without messages of which nothing is marked ends here.
Passes(s) ==
    /\ opened /\ Free /\ ~IsDirty(s)
    /\ UNCHANGED vars

\* locate with messages, a manual trigger, or any request of a marked suffix.
Process(s) ==
    /\ opened /\ Free
    /\ job' = [stage |-> "channels", suffix |-> s, seen |-> {}]
    /\ UNCHANGED <<store, client, opened, loads, marks, considered, failures, excused>>

Of(s) == {r \in Records : SuffixOf[r] = s}

\* rebuild forgets the progress of the suffix and marks it.
Rebuild(s) ==
    /\ opened /\ Free
    /\ considered' = considered \ Of(s)
    /\ marks' = marks \cup All({s})
    /\ job' = [stage |-> "channels", suffix |-> s, seen |-> {}]
    /\ UNCHANGED <<store, client, opened, loads, failures, excused>>

\* A state file cannot be removed: the progress is gone, the mark is not set.
RebuildFails(s) ==
    /\ opened /\ Free
    /\ Fails
    /\ considered' = considered \ Of(s)
    /\ UNCHANGED <<store, client, opened, loads, marks, job>>
    /\ Slip({s})

\* The channel files are read first.
ReadChannels ==
    /\ job.stage = "channels"
    /\ job' = [job EXCEPT !.stage = "others", !.seen =
                 {r \in written \cap Of(job.suffix) : ChannelOf[r] # NoChannel}]
    /\ UNCHANGED <<store, client, opened, loads, marks, considered, failures, excused>>

ReadOthers ==
    /\ job.stage = "others"
    /\ job' = [job EXCEPT !.stage = "archive", !.seen = @ \cup
                 {r \in written \cap Of(job.suffix) : ChannelOf[r] = NoChannel}]
    /\ UNCHANGED <<store, client, opened, loads, marks, considered, failures, excused>>

\* clear_dirty: the channels that were marked or that occur in what was read,
\* and the suffix itself.
ClearDirty == marks' = {m \in marks : m[1] # job.suffix}

\* Mutant: the marks are cleared although a channel failed.
ClearAnyway == ClearDirty
KeepMarks == UNCHANGED marks

Archived ==
    /\ job.stage = "archive" /\ job' = NoJob
    /\ considered' = considered \cup job.seen
    /\ ClearDirty
    /\ UNCHANGED <<store, client, opened, loads, failures, excused>>

\* A channel fails: the marks stay for the next request.
ArchiveFails ==
    /\ ~Free /\ job' = NoJob
    /\ Fails
    /\ KeepMarks
    /\ UNCHANGED <<store, client, opened, loads, considered, excused>>

--------------------------------------------------------------------------------
\* The store stops; what was not sent is lost.
StoreRestarts ==
    /\ Fails
    /\ serving' = FALSE /\ unpublished' = {} /\ queue' = {}
    /\ link' = FALSE /\ registered' = FALSE /\ wire' = {}
    /\ UNCHANGED <<written, tasks, status, listed, role, excused>>

\* The abstract memory stops; its watermarks are on disk, its marks are not.
AbstractRestarts ==
    /\ Fails
    /\ wire' = {} /\ tasks' = {} /\ link' = FALSE /\ registered' = FALSE
    /\ status' = "connecting" /\ listed' = {}
    /\ opened' = FALSE /\ loads' = {} /\ marks' = {} /\ job' = NoJob
    /\ UNCHANGED <<store, considered, excused>>

StoreNext ==
    \/ \E B \in SUBSET (Records \ written) \ {{}} : Flush(B)
    \/ \E r \in Records : Publish(r)
    \/ Serve \/ Register \/ StoreRestarts
    \/ \E n \in Notices : Broadcast(n)

ClientNext ==
    \/ Connect \/ ConnectFails \/ ListSuffixes \/ ListFails \/ MarkAll
    \/ LoseLink \/ Reconnect
    \/ \E n \in Notices : Receive(n) \/ OnNotification(n) \/ NotificationFails(n)

RoleNext ==
    \/ Load \/ \E S \in loads : Insert(S)
    \/ \E s \in Suffixes : Passes(s) \/ Process(s) \/ Rebuild(s) \/ RebuildFails(s)
    \/ ReadChannels \/ ReadOthers \/ Archived \/ ArchiveFails \/ AbstractRestarts

Next == StoreNext \/ ClientNext \/ RoleNext

Spec == Init /\ [][Next]_vars

--------------------------------------------------------------------------------
(* Properties.                                                                 *)

\* Every variable has its type; nothing is announced before it is written, and
\* a connection has two ends.
TypeOK ==
    /\ unpublished \subseteq written /\ written \subseteq Records
    /\ considered \subseteq written /\ excused \subseteq written
    /\ serving \in BOOLEAN /\ link \in BOOLEAN /\ opened \in BOOLEAN
    /\ registered \in BOOLEAN /\ (registered => link) /\ (link => serving)
    /\ queue \cup wire \cup tasks \subseteq Notices
    /\ status \in {"connecting", "init", "marking", "up", "stalled"}
    /\ listed \subseteq Suffixes /\ loads \subseteq SUBSET Suffixes
    /\ marks \subseteq Suffixes \X (Channels \cup {NoChannel})
    /\ job \in [stage : {"none", "channels", "others", "archive"},
                suffix : Suffixes, seen : SUBSET written]
    /\ failures \in 0..MaxFailures

\* While the client is connected and the role is open, every record that no
\* request has looked at is announced or marked, so that the next request of
\* its suffix will look: through batches that mix channels, connections lost
\* and made again, restarts of either side, requests that fail and records that
\* are written while a request reads.  Only what slipped through the windows of
\* Broadcast, ListFails, Insert and RebuildFails is excepted.
NoRecordMissed ==
    opened /\ link =>
        \A r \in Unannounced :
            \/ IsDirty(SuffixOf[r]) \/ ToBeMarked(SuffixOf[r])
            \/ r \in excused
================================================================================
