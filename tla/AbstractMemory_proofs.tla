-------------------------- MODULE AbstractMemory_proofs --------------------------
(***************************************************************************)
(* Proofs about what the abstract memory does before and around its files: *)
(* RecordNotify, how it learns of records, and CasePlacement, how one      *)
(* request finds the cases of its records and messages.                    *)
(*                                                                         *)
(* For any records, suffixes and channels and any number of failures no    *)
(* record is missed, but for the windows named there.  For any records,    *)
(* messages, names and sizes of chunks, whatever the model answers, a      *)
(* batch merges exactly, groups land at leaves, summaries tell of their    *)
(* subtrees, and everything is located once.                               *)
(***************************************************************************)
EXTENDS RecordNotify, CasePlacement, FiniteSetTheorems, WellFoundedInduction, TLAPS

--------------------------------------------------------------------------------
(* RecordNotify: the inductive invariant.                                      *)

(* The request at work, if any, has r behind or ahead of it: what it still has *)
(* to read holds r, or what it has read does.                                 *)
Looked(r) ==
    \/ job.stage \in {"none", "channels"}
    \/ job.suffix # SuffixOf[r]
    \/ r \in job.seen
    \/ job.stage = "others" /\ ChannelOf[r] = NoChannel

Safe(r) ==
    \/ r \in excused
    \/ ToBeMarked(SuffixOf[r])
    \/ IsDirty(SuffixOf[r]) /\ Looked(r)

Guarded == opened /\ link => \A r \in Unannounced : Safe(r)

Stages ==
    /\ ~Free => opened
    /\ loads # {} => ~opened
    /\ link => status \in {"init", "marking", "up"}

Inv == TypeOK /\ Stages /\ Guarded

LEMMA FirstSuffix ==
    /\ NoJob \in [stage : {"none"}, suffix : Suffixes, seen : {{}}]
    /\ NoJob.stage = "none"
  BY NotifyAssumption DEF NoJob

-------------------------------------------------------------------------------
(* The types: the Boolean variables apart from the others.                    *)

Flags ==
    /\ serving \in BOOLEAN /\ link \in BOOLEAN /\ opened \in BOOLEAN
    /\ registered \in BOOLEAN /\ (registered => link) /\ (link => serving)

Data ==
    /\ unpublished \subseteq written /\ written \subseteq Records
    /\ considered \subseteq written /\ excused \subseteq written
    /\ queue \subseteq Notices /\ wire \subseteq Notices /\ tasks \subseteq Notices
    /\ status \in {"connecting", "init", "marking", "up", "stalled"}
    /\ listed \subseteq Suffixes /\ loads \subseteq SUBSET Suffixes
    /\ marks \subseteq Suffixes \X (Channels \union {NoChannel})
    /\ job \in [stage : {"none", "channels", "others", "archive"},
                suffix : Suffixes, seen : SUBSET written]
    /\ failures \in 0..MaxFailures

LEMMA TypeSplits == (TypeOK <=> Flags /\ Data) /\ (TypeOK' <=> Flags' /\ Data')
  BY DEF TypeOK, Flags, Data

LEMMA InitInv == Init => Inv
<1> SUFFICES ASSUME Init PROVE Inv
  OBVIOUS
<1>1. TypeOK
  <2>1. job = NoJob
    BY DEF Init
  <2>2. Flags
    BY Zenon DEF Init, Flags
  <2>3. Data
    BY <2>1, FirstSuffix, NotifyAssumption DEF Init, Data
  <2>4. QED
    BY <2>2, <2>3, TypeSplits
<1>2. Stages /\ Guarded
  BY FirstSuffix DEF Init, Stages, Guarded, Free
<1>3. QED
  BY <1>1, <1>2 DEF Inv

LEMMA FlagsStep ==
    ASSUME Flags, Next
    PROVE  Flags'
<1>1. CASE UNCHANGED <<serving, link, opened, registered>>
  BY <1>1 DEF Flags
<1>2. CASE Serve
  BY <1>2, Zenon DEF Flags, Serve, client, role
<1>3. CASE Register
  BY <1>3, Zenon DEF Flags, Register, store, role
<1>4. CASE StoreRestarts
  BY <1>4, Zenon DEF Flags, StoreRestarts, role
<1>5. CASE Connect
  BY <1>5, Zenon DEF Flags, Connect, store, role
<1>6. CASE LoseLink
  BY <1>6, Zenon DEF Flags, LoseLink, store, role
<1>7. CASE \E S \in loads : Insert(S)
  <2>1. opened' = TRUE /\ UNCHANGED <<serving, link, registered>>
    BY <1>7 DEF Insert, store, client
  <2>2. QED
    BY <2>1, Zenon DEF Flags
<1>8. CASE AbstractRestarts
  BY <1>8, Zenon DEF Flags, AbstractRestarts, store
<1>9. CASE StoreNext
  <2>1. CASE \E B \in SUBSET (Records \ written) \ {{}} : Flush(B)
    BY <1>1, <2>1, Zenon DEF Flush, client, role
  <2>2. CASE \E r \in Records : Publish(r)
    BY <1>1, <2>2, Zenon DEF Publish, client, role
  <2>3. CASE \E n \in Notices : Broadcast(n)
    BY <1>1, <2>3, Zenon DEF Broadcast, role
  <2>4. QED
    BY <1>2, <1>3, <1>4, <1>9, <2>1, <2>2, <2>3 DEF StoreNext
<1>10. CASE ClientNext
  <2>1. CASE ConnectFails \/ ListSuffixes \/ ListFails \/ MarkAll \/ Reconnect
    BY <1>1, <2>1, Zenon
       DEF ConnectFails, ListSuffixes, ListFails, MarkAll, Reconnect, store, role
  <2>2. CASE \E n \in Notices : Receive(n) \/ OnNotification(n) \/ NotificationFails(n)
    BY <1>1, <2>2, Zenon DEF Receive, OnNotification, NotificationFails, store, role
  <2>3. QED
    BY <1>5, <1>6, <1>10, <2>1, <2>2 DEF ClientNext
<1>11. CASE RoleNext
  <2>1. CASE \E s \in Suffixes : Passes(s) \/ Process(s) \/ Rebuild(s) \/ RebuildFails(s)
    BY <1>1, <2>1, Zenon
       DEF Passes, Process, Rebuild, RebuildFails, vars, store, client, role
  <2>2. CASE Load \/ ReadChannels \/ ReadOthers \/ Archived \/ ArchiveFails
    BY <1>1, <2>2, Zenon
       DEF Load, ReadChannels, ReadOthers, Archived, ArchiveFails, store, client
  <2>3. QED
    BY <1>7, <1>8, <1>11, <2>1, <2>2 DEF RoleNext
<1>12. QED
  BY <1>9, <1>10, <1>11 DEF Next

LEMMA StoreTypes ==
    ASSUME Data, StoreNext
    PROVE  Data'
<1> USE NotifyAssumption DEF Data, client, role, Slip, Fails, Unannounced
<1>1. CASE \E B \in SUBSET (Records \ written) \ {{}} : Flush(B)
  BY <1>1 DEF Flush, Flushed
<1>2. CASE \E r \in Records : Publish(r)
  <2>1. \A B \in SUBSET Records : Notifications(B) \subseteq Notices
    BY DEF Notifications, Notice, Notices
  <2>2. PICK r \in Records : Publish(r)
    BY <1>2
  <2>3. queue' \subseteq Notices /\ unpublished' \subseteq unpublished
    BY <2>1, <2>2 DEF Publish
  <2>4. QED
    BY <2>2, <2>3 DEF Publish
<1>3. CASE Serve
  BY <1>3 DEF Serve
<1>4. CASE Register
  BY <1>4 DEF Register, store
<1>5. CASE StoreRestarts
  BY <1>5 DEF StoreRestarts
<1>6. CASE \E n \in Notices : Broadcast(n)
  BY <1>6 DEF Broadcast
<1>7. QED
  BY <1>1, <1>2, <1>3, <1>4, <1>5, <1>6 DEF StoreNext

LEMMA ListedTypes == Data => Occurring \subseteq Suffixes
  BY NotifyAssumption DEF Data, Occurring

LEMMA ClientTypes ==
    ASSUME Data, ClientNext
    PROVE  Data'
<1> USE NotifyAssumption DEF Data, store, role, Slip, Fails, Unannounced
<1>1. CASE Connect \/ ConnectFails
  BY <1>1 DEF Connect, ConnectFails
<1>2. CASE ListSuffixes
  <2>1. ToMark \subseteq Suffixes
    BY ListedTypes DEF ToMark
  <2>2. QED
    BY <1>2, <2>1 DEF ListSuffixes
<1>3. CASE ListFails
  BY <1>3 DEF ListFails
<1>4. CASE MarkAll
  <2>1. marks' \subseteq Suffixes \X (Channels \union {NoChannel})
    BY <1>4 DEF MarkAll, All
  <2>2. QED
    BY <1>4, <2>1 DEF MarkAll
<1>5. CASE LoseLink \/ Reconnect
  BY <1>5 DEF LoseLink, Reconnect
<1>6. CASE \E n \in Notices : Receive(n) \/ NotificationFails(n)
  BY <1>6 DEF Receive, NotificationFails
<1>7. CASE \E n \in Notices : OnNotification(n)
  <2>1. PICK n \in Notices : OnNotification(n)
    BY <1>7
  <2>2. <<n.suffix, n.channel>> \in Suffixes \X (Channels \union {NoChannel})
    BY DEF Notices
  <2>3. QED
    BY <2>1, <2>2 DEF OnNotification
<1>8. QED
  BY <1>1, <1>2, <1>3, <1>4, <1>5, <1>6, <1>7 DEF ClientNext

LEMMA RoleTypes ==
    ASSUME Data, RoleNext
    PROVE  Data'
<1> USE NotifyAssumption DEF Data, store, client, Fails
<1> USE FirstSuffix
<1>1. CASE Load
  <2>1. loads' \subseteq SUBSET Suffixes
    BY <1>1, ListedTypes DEF Load
  <2>2. QED
    BY <1>1, <2>1 DEF Load
<1>2. CASE \E S \in loads : Insert(S)
  <2>1. marks' \subseteq Suffixes \X (Channels \union {NoChannel})
    BY <1>2 DEF Insert, All
  <2>2. QED
    BY <1>2, <2>1 DEF Insert, Slip, Unannounced
<1>3. ASSUME NEW s \in Suffixes, Passes(s) \/ Process(s) PROVE Data'
  BY <1>3 DEF Passes, Process, vars, role
<1>4. ASSUME NEW s \in Suffixes, Rebuild(s) PROVE Data'
  <2>1. marks' \subseteq Suffixes \X (Channels \union {NoChannel})
    BY <1>4 DEF Rebuild, All
  <2>2. QED
    BY <1>4, <2>1 DEF Rebuild
<1>5. ASSUME NEW s \in Suffixes, RebuildFails(s) PROVE Data'
  BY <1>5 DEF RebuildFails, Slip, Unannounced
<1>6. CASE ReadChannels
  BY <1>6 DEF ReadChannels
<1>7. CASE ReadOthers
  BY <1>7 DEF ReadOthers
<1>8. CASE Archived
  BY <1>8 DEF Archived, ClearDirty
<1>9. CASE ArchiveFails
  BY <1>9 DEF ArchiveFails, KeepMarks
<1>10. CASE AbstractRestarts
  BY <1>10 DEF AbstractRestarts
<1>11. QED
  BY <1>1, <1>2, <1>3, <1>4, <1>5, <1>6, <1>7, <1>8, <1>9, <1>10 DEF RoleNext

LEMMA TypeStep ==
    ASSUME TypeOK, [Next]_vars
    PROVE  TypeOK'
<1>1. CASE Next
  <2>1. Flags' /\ Data'
    BY <1>1, TypeSplits, FlagsStep, StoreTypes, ClientTypes, RoleTypes DEF Next
  <2>2. QED
    BY <2>1, TypeSplits
<1>2. CASE UNCHANGED vars
  BY <1>2 DEF vars, store, client, role, TypeOK
<1>3. QED
  BY <1>1, <1>2

-------------------------------------------------------------------------------
(* The stages of the client, of the loads and of the request.                 *)

LEMMA StagesStep ==
    ASSUME TypeOK, Stages, Next
    PROVE  Stages'
<1> USE DEF Stages, Free
<1>1. CASE UNCHANGED <<job, opened, loads, link, status>>
  BY <1>1
<1>2. CASE StoreNext
  <2>1. CASE \E B \in SUBSET (Records \ written) \ {{}} : Flush(B)
    BY <1>1, <2>1, Zenon DEF Flush, client, role
  <2>2. CASE \E r \in Records : Publish(r)
    BY <1>1, <2>2, Zenon DEF Publish, client, role
  <2>3. CASE \E n \in Notices : Broadcast(n)
    BY <1>1, <2>3, Zenon DEF Broadcast, role
  <2>4. CASE Serve \/ Register
    BY <2>4 DEF Serve, Register, client, role
  <2>5. CASE StoreRestarts
    BY <2>5 DEF StoreRestarts, role
  <2>6. QED
    BY <1>2, <2>1, <2>2, <2>3, <2>4, <2>5 DEF StoreNext
<1>3. CASE ClientNext
  <2>1. CASE \E n \in Notices : Receive(n) \/ OnNotification(n) \/ NotificationFails(n)
    BY <1>1, <2>1, Zenon DEF Receive, OnNotification, NotificationFails, store, role
  <2>2. CASE Connect \/ ListSuffixes \/ ListFails \/ MarkAll
    BY <2>2 DEF Connect, ListSuffixes, ListFails, MarkAll, role
  <2>3. CASE ConnectFails \/ Reconnect \/ LoseLink
    BY <2>3 DEF ConnectFails, Reconnect, LoseLink, role
  <2>4. QED
    BY <1>3, <2>1, <2>2, <2>3 DEF ClientNext
<1>4. CASE RoleNext
  <2>1. CASE Load \/ \E S \in loads : Insert(S)
    <3>1. CASE Load
      BY <3>1, Zenon DEF Load, client
    <3>2. CASE \E S \in loads : Insert(S)
      <4>1. loads' = {} /\ opened' = TRUE /\ UNCHANGED <<link, status>>
        BY <3>2 DEF Insert, client
      <4>2. QED
        BY <4>1, Zenon
    <3>3. QED
      BY <2>1, <3>1, <3>2
  <2>2. CASE \E s \in Suffixes : Passes(s) \/ Process(s) \/ Rebuild(s) \/ RebuildFails(s)
    BY <2>2 DEF Passes, Process, Rebuild, RebuildFails, vars, client, role
  <2>3. CASE ReadChannels \/ ReadOthers
    BY <2>3 DEF ReadChannels, ReadOthers, client
  <2>4. CASE Archived \/ ArchiveFails
    BY <2>4, FirstSuffix DEF Archived, ArchiveFails, client
  <2>5. CASE AbstractRestarts
    BY <2>5, FirstSuffix DEF AbstractRestarts
  <2>6. QED
    BY <1>4, <2>1, <2>2, <2>3, <2>4, <2>5 DEF RoleNext
<1>5. QED
  BY <1>2, <1>3, <1>4 DEF Next

-------------------------------------------------------------------------------
(* No record is missed.                                                       *)

(* A step that disturbs nothing of this: no record becomes unannounced, and   *)
(* what keeps one safe stays.                                                 *)
LEMMA Undisturbed ==
    ASSUME Guarded, opened' /\ link' => opened /\ link,
           Unannounced' \subseteq Unannounced,
           UNCHANGED <<excused, status, listed, marks, job>>
    PROVE  Guarded'
  BY DEF Guarded, Safe, ToBeMarked, IsDirty, Looked

LEMMA FlushSafe ==
    ASSUME Inv, NEW B \in SUBSET (Records \ written), Flush(B)
    PROVE  Guarded'
<1>1. Unannounced' \subseteq Unannounced
  BY DEF Flush, Flushed, Unannounced, client, role
<1>2. QED
  BY <1>1, Undisturbed DEF Inv, Flush, client, role

LEMMA PublishSafe ==
    ASSUME Inv, NEW r \in Records, Publish(r)
    PROVE  Guarded'
<1> DEFINE B == {q \in unpublished : SameFile(r, q)}
<1>1. CASE ~link
  BY <1>1, Zenon DEF Guarded, Publish, client
<1>2. CASE link
  <2>1. serving
    BY <1>2 DEF Inv, TypeOK
  <2>2. queue' = queue \union Notifications(B) /\ unpublished' = unpublished \ B
    BY <2>1 DEF Publish
  <2>3. \A q \in B : Notice(q) \in queue'
    BY <2>2 DEF Notifications
  <2>4. UNCHANGED <<written, considered, wire, tasks>> /\ Notice(r) = Notice(r)'
    BY DEF Publish, client, role, Notice
  <2>5. Unannounced' \subseteq Unannounced
    <3> SUFFICES ASSUME NEW q \in Unannounced' PROVE q \in Unannounced
      OBVIOUS
    <3>1. q \in written \ considered /\ q \notin unpublished' 
          /\ Notice(q) \notin queue' \union wire \union tasks
      BY <2>4 DEF Unannounced, Notice
    <3>2. q \notin unpublished
      BY <2>2, <2>3, <3>1
    <3>3. QED
      BY <2>2, <3>1, <3>2 DEF Unannounced
  <2>6. QED
    BY <2>5, Undisturbed DEF Inv, Publish, client, role
<1>3. QED
  BY <1>1, <1>2

LEMMA BroadcastSafe ==
    ASSUME Inv, NEW n \in Notices, Broadcast(n)
    PROVE  Guarded'
<1> SUFFICES ASSUME opened, link, NEW r \in Unannounced' PROVE Safe(r)'
  BY DEF Guarded, Broadcast, role
<1> USE DEF Broadcast, role
<1>1. r \in written \ considered /\ r \notin unpublished
      /\ Notice(r) \notin queue' \union wire' \union tasks
  BY DEF Unannounced, Notice
<1>2. CASE r \in Unannounced
  BY <1>2 DEF Inv, Guarded, Safe, Slip, ToBeMarked, IsDirty, Looked
<1>3. CASE r \notin Unannounced
  <2>1. Notice(r) = n /\ ~registered
    BY <1>1, <1>3 DEF Unannounced
  <2>2. n.suffix = SuffixOf[r]
    BY <2>1 DEF Notice
  <2>3. CASE ToBeMarked(n.suffix)
    BY <2>2, <2>3 DEF Safe, ToBeMarked
  <2>4. CASE ~ToBeMarked(n.suffix)
    BY <2>1, <2>2, <2>4 DEF Slip, Safe
  <2>5. QED
    BY <2>3, <2>4
<1>4. QED
  BY <1>2, <1>3

LEMMA StoreSafe ==
    ASSUME Inv, StoreNext
    PROVE  Guarded'
<1>1. CASE Serve \/ Register
  <2>1. Unannounced' = Unannounced /\ UNCHANGED <<opened, link, excused, status, listed, marks, job>>
    BY <1>1 DEF Serve, Register, Unannounced, store, client, role
  <2>2. QED
    BY <2>1, Undisturbed DEF Inv
<1>2. CASE StoreRestarts
  BY <1>2 DEF StoreRestarts, Guarded
<1>3. QED
  BY <1>1, <1>2, FlushSafe, PublishSafe, BroadcastSafe DEF StoreNext

-------------------------------------------------------------------------------
(* The client.                                                                *)

LEMMA ListSafe ==
    ASSUME Inv, Connect \/ ConnectFails \/ ListSuffixes \/ ListFails
    PROVE  Guarded'
<1>0. Unannounced' = Unannounced
  BY DEF Connect, ConnectFails, ListSuffixes, ListFails, Unannounced, store, role
<1>1. CASE Connect
  BY <1>1 DEF Connect, Guarded, Safe, ToBeMarked
<1>2. CASE ConnectFails
  BY <1>2 DEF ConnectFails, Inv, Stages, Guarded
<1>3. CASE ListSuffixes
  <2> SUFFICES ASSUME opened, NEW r \in Unannounced PROVE Safe(r)'
    BY <1>0, <1>3 DEF Guarded, ListSuffixes, role
  <2>1. SuffixOf[r] \in Occurring /\ listed' = Occurring /\ status' = "marking"
    BY <1>3 DEF ListSuffixes, ToMark, Occurring, Unannounced
  <2>2. QED
    BY <2>1 DEF Safe, ToBeMarked
<1>4. CASE ListFails
  <2> SUFFICES ASSUME NEW r \in Unannounced' PROVE r \in excused'
    BY DEF Guarded, Safe
  <2>1. SuffixOf[r] \in Suffixes
    BY <1>0, NotifyAssumption DEF Inv, TypeOK, Unannounced
  <2>2. QED
    BY <1>4, <2>1 DEF ListFails, Slip
<1>5. QED
  BY <1>1, <1>2, <1>3, <1>4

LEMMA MarkSafe ==
    ASSUME Inv, MarkAll
    PROVE  Guarded'
<1>0. Unannounced' = Unannounced
  BY DEF MarkAll, Unannounced, store
<1> SUFFICES ASSUME opened, link, NEW r \in Unannounced PROVE Safe(r)'
  BY <1>0 DEF Guarded, MarkAll
<1> USE DEF MarkAll
<1>1. Safe(r)
  BY DEF Inv, Guarded
<1>2. CASE r \in excused
  BY <1>2 DEF Safe
<1>3. CASE ToBeMarked(SuffixOf[r])
  <2>1. SuffixOf[r] \in listed /\ Free
    BY <1>3 DEF ToBeMarked
  <2>2. <<SuffixOf[r], NoChannel>> \in marks' /\ job'.stage = "none"
    BY <2>1 DEF All, Free
  <2>3. QED
    BY <2>2 DEF Safe, IsDirty, Looked
<1>4. CASE IsDirty(SuffixOf[r]) /\ Looked(r)
  BY <1>4 DEF Safe, IsDirty, Looked
<1>5. QED
  BY <1>1, <1>2, <1>3, <1>4 DEF Safe

LEMMA NotificationSafe ==
    ASSUME Inv, NEW n \in Notices, OnNotification(n)
    PROVE  Guarded'
<1> SUFFICES ASSUME opened, link, NEW r \in Unannounced' PROVE Safe(r)'
  BY DEF Guarded, OnNotification
<1> USE DEF OnNotification
<1>1. r \in written \ considered /\ r \notin unpublished
      /\ Notice(r) \notin queue \union wire \union tasks'
  BY DEF Unannounced, Notice, store
<1>2. CASE r \in Unannounced
  BY <1>2 DEF Inv, Guarded, Safe, ToBeMarked, IsDirty, Looked
<1>3. CASE r \notin Unannounced
  <2>1. Notice(r) = n
    BY <1>1, <1>3 DEF Unannounced
  <2>2. <<SuffixOf[r], ChannelOf[r]>> \in marks' /\ ChannelOf[r] \in Channels \union {NoChannel}
    BY <1>1, <2>1, NotifyAssumption DEF Notice, Inv, TypeOK
  <2>3. job'.stage = "none"
    BY DEF Free
  <2>4. QED
    BY <2>2, <2>3 DEF Safe, IsDirty, Looked
<1>4. QED
  BY <1>2, <1>3

LEMMA ClientSafe ==
    ASSUME Inv, ClientNext
    PROVE  Guarded'
<1>1. CASE LoseLink
  BY <1>1 DEF LoseLink, Guarded
<1>2. CASE Reconnect
  BY <1>2 DEF Reconnect, Guarded
<1>3. ASSUME NEW n \in Notices, Receive(n) PROVE Guarded'
  <2>1. Unannounced' \subseteq Unannounced
    BY <1>3 DEF Receive, Unannounced, store, role, Notice
  <2>2. QED
    BY <1>3, <2>1, Undisturbed DEF Inv, Receive, role
<1>4. ASSUME NEW n \in Notices, NotificationFails(n) PROVE Guarded'
  BY <1>4, Zenon DEF NotificationFails, Guarded, role
<1>5. QED
  BY <1>1, <1>2, <1>3, <1>4, ListSafe, MarkSafe, NotificationSafe DEF ClientNext

-------------------------------------------------------------------------------
(* The role.                                                                  *)

LEMMA InsertSafe ==
    ASSUME Inv, NEW S \in loads, Insert(S)
    PROVE  Guarded'
<1> SUFFICES ASSUME NEW r \in Unannounced' PROVE Safe(r)'
  BY DEF Guarded
<1> USE DEF Insert
<1>1. job'.stage = "none"
  BY DEF Inv, Stages, Free
<1>2. SuffixOf[r] \in Suffixes
  BY NotifyAssumption DEF Inv, TypeOK, Unannounced, store
<1>3. CASE SuffixOf[r] \in S
  <2>1. <<SuffixOf[r], NoChannel>> \in marks'
    BY <1>3 DEF All
  <2>2. QED
    BY <1>1, <2>1 DEF Safe, IsDirty, Looked
<1>4. CASE SuffixOf[r] \notin S
  BY <1>2, <1>4 DEF Slip, Safe
<1>5. QED
  BY <1>3, <1>4

(* A request begins.                                                          *)
LEMMA BeginSafe ==
    ASSUME Inv, NEW s \in Suffixes, Process(s) \/ Rebuild(s) \/ RebuildFails(s)
    PROVE  Guarded'
<1> SUFFICES ASSUME opened, link, NEW r \in Unannounced' PROVE Safe(r)'
  BY DEF Guarded, Process, Rebuild, RebuildFails, client
<1> USE DEF Process, Rebuild, RebuildFails, store, client
<1>1. r \in written /\ r \in Records
  BY DEF Inv, TypeOK, Unannounced
<1>2. job'.stage \in {"none", "channels"}
  <2>1. CASE Process(s) \/ Rebuild(s)
    <3>1. job' = [stage |-> "channels", suffix |-> s, seen |-> {}]
      BY <2>1, Zenon
    <3>2. QED
      BY <3>1
  <2>2. CASE RebuildFails(s)
    <3>1. job' = job /\ job.stage = "none"
      BY <2>2 DEF Free
    <3>2. QED
      BY <3>1
  <2>3. QED
    BY <2>1, <2>2
<1>3. CASE r \in Unannounced
  <2>1. Safe(r)
    BY <1>3 DEF Inv, Guarded
  <2>2. marks \subseteq marks' /\ excused \subseteq excused' /\ UNCHANGED <<status, listed>>
    BY DEF Slip
  <2>3. QED
    BY <1>2, <2>1, <2>2 DEF Safe, ToBeMarked, IsDirty, Looked
<1>4. CASE r \notin Unannounced
  <2>1. r \in considered /\ r \notin considered'
    BY <1>4 DEF Unannounced, Notice
  <2>2. SuffixOf[r] = s /\ (Rebuild(s) \/ RebuildFails(s))
    BY <2>1 DEF Of
  <2>3. CASE Rebuild(s)
    <3>1. <<s, NoChannel>> \in marks'
      BY <2>3 DEF All
    <3>2. QED
      BY <1>2, <2>2, <3>1 DEF Safe, IsDirty, Looked
  <2>4. CASE RebuildFails(s)
    BY <2>2, <2>4 DEF Slip, Safe
  <2>5. QED
    BY <2>2, <2>3, <2>4
<1>5. QED
  BY <1>3, <1>4

LEMMA ReadSafe ==
    ASSUME Inv, ReadChannels \/ ReadOthers
    PROVE  Guarded'
<1>0. Unannounced' = Unannounced
  BY DEF ReadChannels, ReadOthers, Unannounced, store, client
<1> SUFFICES ASSUME opened, link, NEW r \in Unannounced PROVE Safe(r)'
  BY <1>0 DEF Guarded, ReadChannels, ReadOthers, client
<1>1. Safe(r) /\ r \in written /\ r \in Records
  BY DEF Inv, TypeOK, Guarded, Unannounced
<1>2. UNCHANGED <<status, listed, marks, excused>> /\ job'.suffix = job.suffix
  BY DEF ReadChannels, ReadOthers, client, Inv, TypeOK
<1>3. Looked(r) => Looked(r)'
  <2>1. SUFFICES ASSUME Looked(r), job.suffix = SuffixOf[r] PROVE Looked(r)'
    BY <1>2 DEF Looked
  <2>2. r \in Of(job.suffix)
    BY <1>1, <2>1 DEF Of
  <2>3. CASE ReadChannels
    <3>1. job'.stage = "others" /\ job'.seen = {q \in written \intersect Of(job.suffix) : ChannelOf[q] # NoChannel}
      BY <2>3 DEF ReadChannels, Inv, TypeOK
    <3>2. QED
      BY <1>1, <2>2, <3>1 DEF Looked
  <2>4. CASE ReadOthers
    <3>1. /\ job.stage = "others"
          /\ job'.seen = job.seen \union {q \in written \intersect Of(job.suffix) : ChannelOf[q] = NoChannel}
      BY <2>4 DEF ReadOthers, Inv, TypeOK
    <3>2. QED
      BY <1>1, <2>1, <2>2, <3>1 DEF Looked
  <2>5. QED
    BY <2>3, <2>4
<1>4. QED
  BY <1>1, <1>2, <1>3 DEF Safe, ToBeMarked, IsDirty

LEMMA EndSafe ==
    ASSUME Inv, Archived \/ ArchiveFails
    PROVE  Guarded'
<1> SUFFICES ASSUME opened, link, NEW r \in Unannounced' PROVE Safe(r)'
  BY DEF Guarded, Archived, ArchiveFails, client
<1>0. r \in Unannounced /\ UNCHANGED <<status, listed, excused>> /\ job'.stage = "none"
  <2>1. considered \subseteq considered' /\ UNCHANGED <<status, listed, excused>> /\ job' = NoJob
    BY DEF Archived, ArchiveFails, client
  <2>2. r \in Unannounced
    BY <2>1 DEF Archived, ArchiveFails, Unannounced, store, client, Notice
  <2>3. QED
    BY <2>1, <2>2, FirstSuffix
<1>1. Safe(r)
  BY <1>0 DEF Inv, Guarded
<1>2. IsDirty(SuffixOf[r]) /\ Looked(r) => IsDirty(SuffixOf[r])'
  <2>1. CASE ArchiveFails
    BY <2>1 DEF ArchiveFails, KeepMarks, IsDirty
  <2>2. CASE Archived
    <3> SUFFICES ASSUME IsDirty(SuffixOf[r]), Looked(r) PROVE IsDirty(SuffixOf[r])'
      OBVIOUS
    <3>1. r \notin job.seen
      BY <2>2 DEF Archived, Unannounced
    <3>2. job.suffix # SuffixOf[r]
      BY <2>2, <3>1 DEF Archived, Looked
    <3>3. PICK c \in Channels \union {NoChannel} : <<SuffixOf[r], c>> \in marks
      BY DEF IsDirty
    <3>4. <<SuffixOf[r], c>> \in marks'
      BY <2>2, <3>2, <3>3 DEF Archived, ClearDirty
    <3>5. QED
      BY <3>4 DEF IsDirty
  <2>3. QED
    BY <2>1, <2>2
<1>3. QED
  BY <1>0, <1>1, <1>2 DEF Safe, ToBeMarked, Looked

LEMMA RoleSafe ==
    ASSUME Inv, RoleNext
    PROVE  Guarded'
<1>1. CASE Load
  <2>1. ~opened /\ opened' = opened
    BY <1>1, Zenon DEF Load
  <2>2. QED
    BY <2>1, Zenon DEF Guarded
<1>2. ASSUME NEW s \in Suffixes, Passes(s) PROVE Guarded'
  BY <1>2 DEF Passes, vars, store, client, role, Inv, Guarded, Safe, Unannounced,
     ToBeMarked, IsDirty, Looked, Notice
<1>3. CASE AbstractRestarts
  BY <1>3 DEF AbstractRestarts, Guarded
<1>4. QED
  BY <1>1, <1>2, <1>3, InsertSafe, BeginSafe, ReadSafe, EndSafe DEF RoleNext

-------------------------------------------------------------------------------
(* The theorems.                                                              *)

LEMMA InvStep == Inv /\ [Next]_vars => Inv'
<1> SUFFICES ASSUME Inv, [Next]_vars PROVE Inv'
  OBVIOUS
<1>1. TypeOK'
  BY TypeStep DEF Inv
<1>2. CASE Next
  BY <1>1, <1>2, StagesStep, StoreSafe, ClientSafe, RoleSafe DEF Inv, Next
<1>3. CASE UNCHANGED vars
  BY <1>1, <1>3 DEF vars, store, client, role, Inv, Stages, Free, Guarded, Safe, Unannounced,
     ToBeMarked, IsDirty, Looked, Notice
<1>4. QED
  BY <1>2, <1>3

LEMMA InvHolds == Spec => []Inv
  BY InitInv, InvStep, PTL DEF Spec

(* Every variable has its type, a record is announced after it is written,    *)
(* and a connection has two ends.                                             *)
THEOREM NotifyTypes == Spec => []TypeOK
  BY InvHolds, PTL DEF Inv

(* While the client is connected and the role is open, what no request has    *)
(* looked at is announced or marked, but for what slipped through the windows *)
(* that the model names.                                                      *)
THEOREM NothingMissed == Spec => []NoRecordMissed
<1>1. Inv => NoRecordMissed
  BY DEF Inv, Guarded, Safe, NoRecordMissed
<1>2. QED
  BY <1>1, InvHolds, PTL

--------------------------------------------------------------------------------
(* CasePlacement: least and greatest numbers, sorting, groupings.             *)

\* There is a least number among some: what stands for induction here.
LEMMA LeastNumber ==
  ASSUME NEW T \in SUBSET Nat, T # {}
  PROVE  \E x \in T : \A y \in T : x <= y
<1>1. PICK x \in T : \A y \in T : ~ (<<y, x>> \in OpToRel(<, Nat))
  BY NatLessThanWellFounded, WFMin
<1>2. ASSUME NEW y \in T PROVE x <= y
  <2>1. x \in Nat /\ y \in Nat
    BY <1>1, <1>2
  <2>2. ~(y < x)
    BY <1>1, <1>2, <2>1 DEF OpToRel
  <2>3. QED
    BY <2>1, <2>2
<1>3. QED
  BY <1>2

LEMMA SetInduction ==
  ASSUME NEW T, 0 \in T, \A n \in Nat : n \in T => n + 1 \in T
  PROVE  \A n \in Nat : n \in T
<1> DEFINE M == {n \in Nat : n \notin T}
<1>1. SUFFICES ASSUME M # {} PROVE FALSE
  OBVIOUS
<1>2. M \in SUBSET Nat
  OBVIOUS
<1>3. PICK m \in M : \A y \in M : m <= y
  <2> HIDE DEF M
  <2> QED BY <1>1, <1>2, LeastNumber
<1>4. m \in Nat /\ m # 0 /\ m \notin T
  BY <1>3
<1>5. m - 1 \in Nat /\ m - 1 \notin M
  BY <1>3, <1>4
<1> QED
  BY <1>4, <1>5

LEMMA MinIsLeast ==
  ASSUME NEW S \in SUBSET Nat, S # {}
  PROVE  MinOf(S) \in S /\ \A y \in S : MinOf(S) <= y
  BY LeastNumber DEF MinOf

LEMMA MaxIsGreatest ==
  ASSUME NEW n \in Nat, NEW S \in SUBSET (0..n), S # {}
  PROVE  MaxOf(S) \in S /\ \A y \in S : MaxOf(S) >= y
<1> DEFINE T == {n - x : x \in S}
<1>1. T \in SUBSET Nat /\ T # {}
  <2>1. PICK z \in S : TRUE
    OBVIOUS
  <2>2. n - z \in T
    BY <2>1
  <2>3. \A x \in S : n - x \in Nat
    OBVIOUS
  <2> QED BY <2>2, <2>3
<1>2. PICK t \in T : \A y \in T : t <= y
  <2> HIDE DEF T
  <2> QED BY <1>1, LeastNumber
<1>3. PICK x \in S : t = n - x
  BY <1>2
<1>4. \A y \in S : n - y \in T /\ t <= n - y
  BY <1>2
<1>5. \A y \in S : x >= y
  BY <1>3, <1>4
<1> QED
  BY <1>5 DEF MaxOf

\* A finite set has a sequence in any strict total order: each element stands
\* where the number of those before it says.
LEMMA SortedByRelation ==
  ASSUME NEW S, IsFiniteSet(S), NEW R,
         \A a \in S : <<a, a>> \notin R,
         \A a, b \in S : a = b \/ <<a, b>> \in R \/ <<b, a>> \in R,
         \A a, b, c \in S : <<a, b>> \in R /\ <<b, c>> \in R => <<a, c>> \in R
  PROVE  \E s \in [1..Cardinality(S) -> S] : \A i, j \in 1..Cardinality(S) :
            i < j => s[i] # s[j] /\ <<s[j], s[i]>> \notin R
<1> DEFINE N == Cardinality(S)
           Below(a) == {b \in S : <<b, a>> \in R}
           rank == [a \in S |-> Cardinality(Below(a)) + 1]
<1>1. N \in Nat
  BY FS_CardinalityType
<1>2. ASSUME NEW a \in S
      PROVE  /\ IsFiniteSet(Below(a)) /\ Cardinality(Below(a)) \in Nat
             /\ Cardinality(Below(a)) + 1 <= N
  <2>1. Below(a) \in SUBSET S /\ Below(a) # S
    OBVIOUS
  <2>2. IsFiniteSet(Below(a)) /\ Cardinality(Below(a)) <= N /\ Cardinality(Below(a)) # N
    BY <2>1, FS_Subset
  <2>3. Cardinality(Below(a)) \in Nat
    BY <2>2, FS_CardinalityType
  <2> HIDE DEF Below, N
  <2> QED BY <2>2, <2>3, <1>1
<1>3. ASSUME NEW a \in S, NEW b \in S, <<a, b>> \in R
      PROVE  Cardinality(Below(a)) < Cardinality(Below(b))
  <2>1. Below(a) \in SUBSET Below(b) /\ a \in Below(b) /\ a \notin Below(a)
    BY <1>3
  <2>2. IsFiniteSet(Below(b)) /\ Cardinality(Below(b)) \in Nat /\ Cardinality(Below(a)) \in Nat
    BY <1>2
  <2>3. Cardinality(Below(a)) <= Cardinality(Below(b)) /\ Cardinality(Below(b)) # Cardinality(Below(a))
    <3> HIDE DEF Below
    <3> QED BY <2>1, <2>2, FS_Subset
  <2> HIDE DEF Below
  <2> QED BY <2>2, <2>3
<1>4. rank \in [S -> 1..N] /\ \A a, b \in S : <<a, b>> \in R => rank[a] < rank[b]
  <2>1. ASSUME NEW a \in S PROVE rank[a] = Cardinality(Below(a)) + 1 /\ rank[a] \in 1..N
    <3>1. rank[a] = Cardinality(Below(a)) + 1
      OBVIOUS
    <3> HIDE DEF rank, Below, N
    <3> QED BY <1>1, <1>2, <3>1
  <2>2. rank \in [S -> 1..N]
    <3>1. rank = [a \in S |-> rank[a]]
      OBVIOUS
    <3> HIDE DEF rank, Below, N
    <3> QED BY <2>1, <3>1
  <2> HIDE DEF rank, Below, N
  <2> QED BY <1>2, <1>3, <2>1, <2>2
<1>5. rank \in Injection(S, 1..N)
  <2>1. ASSUME NEW a \in S, NEW b \in S, rank[a] = rank[b] PROVE a = b
    <3> HIDE DEF rank, N, Below
    <3>1. rank[a] \in Int /\ rank[b] \in Int
      BY <1>4, <1>1
    <3>2. a = b \/ <<a, b>> \in R \/ <<b, a>> \in R
      OBVIOUS
    <3>3. <<a, b>> \in R => rank[a] < rank[b]
      BY <1>4
    <3>4. <<b, a>> \in R => rank[b] < rank[a]
      BY <1>4
    <3> QED BY <2>1, <3>1, <3>2, <3>3, <3>4
  <2> HIDE DEF rank, N, Below
  <2> QED BY <1>4, <2>1 DEF Injection, IsInjective
<1>6. \A i \in 1..N : \E a \in S : rank[a] = i
  <2>1. IsFiniteSet(1..N) /\ Cardinality(1..N) = N
    <3> HIDE DEF N
    <3> QED BY <1>1, FS_Interval
  <2> HIDE DEF rank, Below
  <2>2. rank \in Surjection(S, 1..N)
    BY <1>5, <2>1, FS_Injection
  <2> QED BY <2>2 DEF Surjection
<1> DEFINE s == [i \in 1..N |-> CHOOSE a \in S : rank[a] = i]
<1> HIDE DEF rank, Below, N
<1>7. \A i \in 1..N : s[i] \in S /\ rank[s[i]] = i
  BY <1>6
<1>8. s \in [1..N -> S]
  BY <1>7
<1> HIDE DEF s
<1>9. \A i, j \in 1..N : i < j => s[i] # s[j] /\ <<s[j], s[i]>> \notin R
  BY <1>1, <1>4, <1>7
<1> QED BY <1>8, <1>9 DEF N

\* What a sorted set is: each element has its place, and none stands before one
\* it has to follow.
LEMMA SortedIsASequence ==
  ASSUME NEW S, IsFiniteSet(S), NEW s \in [1..Cardinality(S) -> S],
         \A i, j \in 1..Cardinality(S) : i < j => s[i] # s[j]
  PROVE  /\ s \in Seq(S) /\ Len(s) = Cardinality(S) /\ Len(s) \in Nat
         /\ \A a \in S : \E i \in 1..Len(s) : s[i] = a
<1>1. Cardinality(S) \in Nat
  BY FS_CardinalityType
<1>2. s \in Seq(S) /\ Len(s) = Cardinality(S)
  BY <1>1
<1>3. IsFiniteSet(1..Cardinality(S)) /\ Cardinality(1..Cardinality(S)) = Cardinality(S)
  BY <1>1, FS_Interval
<1>4. s \in Injection(1..Cardinality(S), S)
  <2>1. \A i, j \in 1..Cardinality(S) : s[i] = s[j] => i = j
    BY <1>1
  <2> QED BY <2>1 DEF Injection, IsInjective
<1>5. s \in Surjection(1..Cardinality(S), S)
  BY <1>3, <1>4, FS_Injection
<1> QED BY <1>1, <1>2, <1>5 DEF Surjection

\* What an accepted grouping is: its groups are nonempty and each lies behind
\* the one before it.
LEMMA GroupsApart ==
  ASSUME NEW n \in Nat, NEW gs \in Groupings(n)
  PROVE  /\ Len(gs) \in Nat \ {0} /\ DOMAIN gs = 1..Len(gs)
         /\ \A k \in 1..Len(gs) : gs[k] # {} /\ gs[k] \in SUBSET (1..n)
         /\ \A j, k \in 1..Len(gs) : j < k => \A x \in gs[j], y \in gs[k] : x < y
<1>1. PICK k \in 1..n : gs \in [1..k -> SUBSET (1..n)]
  BY DEF Groupings
<1>2. Accepted(gs, n)
  BY DEF Groupings
<1>3. /\ Len(gs) = k /\ DOMAIN gs = 1..k
  BY <1>1
<1>4. \A i \in 1..k : gs[i] # {} /\ gs[i] \in SUBSET (1..n)
  BY <1>1, <1>2, <1>3 DEF Accepted
<1>5. ASSUME NEW i \in 1..k
      PROVE  /\ MinOf(gs[i]) \in gs[i] /\ MaxOf(gs[i]) \in gs[i]
             /\ \A x \in gs[i] : MinOf(gs[i]) <= x /\ x <= MaxOf(gs[i])
  <2>1. gs[i] \in SUBSET Nat /\ gs[i] \in SUBSET (0..n) /\ gs[i] # {}
    BY <1>4
  <2>2. MinOf(gs[i]) \in gs[i] /\ \A y \in gs[i] : MinOf(gs[i]) <= y
    BY <2>1, MinIsLeast
  <2>3. MaxOf(gs[i]) \in gs[i] /\ \A y \in gs[i] : MaxOf(gs[i]) >= y
    BY <2>1, MaxIsGreatest
  <2>4. \A y \in gs[i] : y \in Nat
    BY <2>1
  <2> QED
    BY <2>2, <2>3, <2>4
<1>6. \A i \in 1..(k - 1) : MinOf(gs[i + 1]) = MaxOf(gs[i]) + 1
  BY <1>2, <1>3 DEF Accepted
<1> DEFINE T == {d \in Nat : \A i \in 1..k : i + d + 1 \in 1..k =>
                    \A x \in gs[i], y \in gs[i + d + 1] : x < y}
<1>7. 0 \in T
  <2>1. ASSUME NEW i \in 1..k, i + 0 + 1 \in 1..k, NEW x \in gs[i], NEW y \in gs[i + 0 + 1]
        PROVE  x < y
    <3>1. i \in 1..(k - 1) /\ i + 1 \in 1..k /\ i + 0 + 1 = i + 1 /\ k \in Nat
      BY <2>1
    <3>2. x <= MaxOf(gs[i]) /\ MinOf(gs[i + 1]) <= y /\ MinOf(gs[i + 1]) = MaxOf(gs[i]) + 1
      BY <1>5, <1>6, <2>1, <3>1
    <3>3. x \in Nat /\ y \in Nat /\ MaxOf(gs[i]) \in Nat
      BY <1>4, <1>5, <2>1, <3>1
    <3> QED
      BY <3>2, <3>3
  <2> QED
    BY <2>1
<1>8. ASSUME NEW d \in Nat, d \in T PROVE d + 1 \in T
  <2>1. ASSUME NEW i \in 1..k, i + (d + 1) + 1 \in 1..k, NEW x \in gs[i],
               NEW y \in gs[i + (d + 1) + 1]
        PROVE  x < y
    <3> DEFINE e == i + d + 1
    <3>1. e \in 1..(k - 1) /\ e \in 1..k /\ e + 1 \in 1..k /\ i + (d + 1) + 1 = e + 1
      BY <2>1
    <3>2. \A z \in gs[e] : x < z
      BY <1>8, <2>1, <3>1
    <3> HIDE DEF e
    <3>3. x < MaxOf(gs[e]) /\ MinOf(gs[e + 1]) <= y /\ MinOf(gs[e + 1]) = MaxOf(gs[e]) + 1
      BY <1>5, <1>6, <2>1, <3>1, <3>2
    <3>4. x \in Nat /\ y \in Nat /\ MaxOf(gs[e]) \in Nat
      BY <1>4, <1>5, <2>1, <3>1
    <3> QED
      BY <3>3, <3>4
  <2> QED
    BY <2>1
<1>9. \A d \in Nat : d \in T
  <2> HIDE DEF T
  <2> QED BY <1>7, <1>8, SetInduction
<1>10. ASSUME NEW i \in 1..k, NEW j \in 1..k, i < j, NEW x \in gs[i], NEW y \in gs[j] PROVE x < y
  <2> DEFINE d == j - i - 1
  <2>1. d \in Nat /\ j = i + d + 1
    BY <1>10
  <2>2. d \in T
    BY <1>9, <2>1
  <2> HIDE DEF d
  <2> QED BY <1>10, <2>1, <2>2
<1> QED
  BY <1>1, <1>3, <1>4, <1>10

\* The next chunk is not empty and lies within the batch.
LEMMA SizeFits ==
  ASSUME Len(items) \in Nat, from \in Nat, from < Len(items)
  PROVE  Size \in Nat \ {0} /\ from + Size <= Len(items)
<1> DEFINE S == {MaxBatch, Len(items) - from}
<1>1. S \in SUBSET Nat /\ S # {} /\ \A x \in S : x # 0
  BY PlacementAssumption
<1>2. MinOf(S) \in S /\ \A y \in S : MinOf(S) <= y
  <2> HIDE DEF S
  <2> QED BY <1>1, MinIsLeast
<1>3. Size = MinOf(S)
  BY DEF Size
<1> HIDE DEF S
<1>4. Size \in Nat \ {0} /\ Size <= Len(items) - from
  BY <1>1, <1>2, <1>3 DEF S
<1> QED
  BY <1>4

--------------------------------------------------------------------------------
(* CasePlacement: the matches of merge_batch come about step by step.         *)

\* One step of merge_batch: what the k-th message adds to the pairs so far.
PairsWith(ch, k, P) ==
    LET free == Matching(ch, Sent[k], {q[2] : q \in P})
    IN  IF InputChannel[Sent[k]] # ch \/ free = {} THEN P
        ELSE P \cup {<<Sent[k], FirstOf(free)>>}

\* The pairs come about step by step: the recursion of merge_batch is one.
LEMMA PairsByStep ==
  ASSUME NEW ch
  PROVE  \E p : /\ p[0] = {} /\ Pairs(ch) = p[Cardinality(Messages)]
                /\ \A k \in 1..Cardinality(Messages) : p[k] = PairsWith(ch, k, p[k - 1])
<1> DEFINE N == Cardinality(Messages)
           Good(g, n) == /\ g = [k \in 0..n |-> g[k]] /\ g[0] = {}
                         /\ \A k \in 1..n : g[k] = PairsWith(ch, k, g[k - 1])
           T == {n \in Nat : \E g : Good(g, n)}
<1>1. N \in Nat
  BY PlacementAssumption, FS_CardinalityType
<1> HIDE DEF N
<1>2. 0 \in T
  <2> DEFINE g == [k \in 0..0 |-> {}]
  <2>1. Good(g, 0)
    OBVIOUS
  <2> HIDE DEF g
  <2> QED BY <2>1
<1>3. ASSUME NEW n \in Nat, n \in T PROVE n + 1 \in T
  <2>1. PICK g : Good(g, n)
    BY <1>3
  <2> DEFINE h == [k \in 0..(n + 1) |-> IF k = n + 1 THEN PairsWith(ch, k, g[n]) ELSE g[k]]
  <2>2. h = [k \in 0..(n + 1) |-> h[k]] /\ h[0] = {}
    BY <2>1
  <2>3. ASSUME NEW k \in 1..(n + 1) PROVE h[k] = PairsWith(ch, k, h[k - 1])
    <3>1. CASE k = n + 1
      <4>1. h[k] = PairsWith(ch, k, g[n]) /\ k - 1 = n /\ n \in 0..(n + 1) /\ n # n + 1
        BY <3>1
      <4>2. h[n] = g[n]
        BY <4>1
      <4> HIDE DEF h
      <4> QED BY <4>1, <4>2
    <3>2. CASE k # n + 1
      <4>1. k \in 1..n /\ k \in 0..(n + 1) /\ k - 1 \in 0..(n + 1) /\ k - 1 # n + 1
        BY <3>2
      <4>2. h[k] = g[k] /\ h[k - 1] = g[k - 1]
        BY <3>2, <4>1
      <4>3. g[k] = PairsWith(ch, k, g[k - 1])
        BY <2>1, <4>1
      <4> HIDE DEF h
      <4> QED BY <4>2, <4>3
    <3> QED BY <3>1, <3>2
  <2>4. Good(h, n + 1)
    <3> HIDE DEF h
    <3> QED BY <2>2, <2>3
  <2> HIDE DEF h, Good
  <2> QED BY <2>4
<1>4. N \in T
  <2> HIDE DEF T
  <2> QED BY <1>1, <1>2, <1>3, SetInduction
<1>5. PICK g : Good(g, N)
  BY <1>4
<1> DEFINE Eq(p) == p = [k \in 0..N |-> IF k = 0 THEN {} ELSE PairsWith(ch, k, p[k - 1])]
<1>6. Eq(g)
  <2>1. g = [k \in 0..N |-> g[k]] /\ g[0] = {}
    BY <1>5
  <2>2. \A k \in 1..N : g[k] = PairsWith(ch, k, g[k - 1])
    BY <1>5
  <2> HIDE DEF Good
  <2>3. ASSUME NEW k \in 0..N PROVE g[k] = IF k = 0 THEN {} ELSE PairsWith(ch, k, g[k - 1])
    <3>1. CASE k = 0
      BY <2>1, <3>1
    <3>2. CASE k # 0
      <4>1. k \in 1..N
        BY <1>1, <3>2
      <4> QED BY <2>2, <3>2, <4>1
    <3> QED BY <3>1, <3>2
  <2> QED BY <2>1, <2>3
<1> DEFINE p == CHOOSE q : Eq(q)
<1>7. Eq(p)
  <2> HIDE DEF Eq
  <2> QED BY <1>6
<1>8. Pairs(ch) = p[N]
  BY DEF Pairs, PairsWith, N
<1> HIDE DEF p
<1>9. p[0] = {}
  <2>1. 0 \in 0..N
    BY <1>1
  <2> QED BY <1>7, <2>1
<1>10. ASSUME NEW k \in 1..N PROVE p[k] = PairsWith(ch, k, p[k - 1])
  <2>1. k \in 0..N /\ k # 0
    BY <1>1
  <2> QED BY <1>7, <2>1
<1> QED
  BY <1>8, <1>9, <1>10 DEF N

\* Records that are not nothing have a first one.
LEMMA FirstIsOne ==
  ASSUME NEW S \in SUBSET StoredRecords, S # {}
  PROVE  FirstOf(S) \in S
<1> DEFINE R == {q \in S \X S : Earlier(q[1], q[2])}
           N == Cardinality(S)
<1>1. IsFiniteSet(S)
  BY PlacementAssumption, FS_Subset
<1>2. /\ \A x \in S : ~Earlier(x, x)
      /\ \A x, y \in S : x = y \/ Earlier(x, y) \/ Earlier(y, x)
      /\ \A x, y, z \in S : Earlier(x, y) /\ Earlier(y, z) => Earlier(x, z)
  BY PlacementAssumption DEF Inputs
<1>3. \A x, y \in S : <<x, y>> \in R <=> Earlier(x, y)
  OBVIOUS
<1> HIDE DEF R
<1>4. /\ \A x \in S : <<x, x>> \notin R
      /\ \A x, y \in S : x = y \/ <<x, y>> \in R \/ <<y, x>> \in R
      /\ \A x, y, z \in S : <<x, y>> \in R /\ <<y, z>> \in R => <<x, z>> \in R
  BY <1>2, <1>3
<1>5. PICK s \in [1..N -> S] : \A i, j \in 1..N : i < j => s[i] # s[j] /\ <<s[j], s[i]>> \notin R
  BY <1>1, <1>4, SortedByRelation
<1>6. /\ N \in Nat /\ N # 0
      /\ \A x \in S : \E i \in 1..N : s[i] = x
  <2>1. N \in Nat /\ N # 0
    BY <1>1, FS_CardinalityType, FS_EmptySet
  <2>2. s \in Seq(S) /\ Len(s) = N /\ \A x \in S : \E i \in 1..Len(s) : s[i] = x
    <3>1. \A i, j \in 1..Cardinality(S) : i < j => s[i] # s[j]
      BY <1>5
    <3> QED BY <1>1, <1>5, <3>1, SortedIsASequence, ZenonT(60)
  <2> QED BY <2>1, <2>2
<1>7. s[1] \in S
  BY <1>5, <1>6
<1>8. ASSUME NEW x \in S, x # s[1] PROVE Earlier(s[1], x)
  <2>1. PICK i \in 1..N : s[i] = x
    BY <1>6
  <2>2. 1 \in 1..N /\ 1 < i
    BY <1>6, <1>8, <2>1
  <2>3. <<x, s[1]>> \notin R
    BY <1>5, <2>1, <2>2
  <2> QED BY <1>2, <1>3, <1>7, <1>8, <2>3
<1> QED
  BY <1>7, <1>8 DEF FirstOf

\* What merge_batch has done when it has seen the first k messages.
SeenSoFar(ch, k, P) ==
    /\ \A q \in P : \E i \in 1..k, r \in BatchOf(ch) :
          q = <<Sent[i], r>> /\ InputChannel[Sent[i]] = ch /\ Duplicates(r, Sent[i])
    /\ \A q, s \in P : q[1] = s[1] \/ q[2] = s[2] => q = s
    /\ \A i \in 1..k, r \in BatchOf(ch) :
          InputChannel[Sent[i]] = ch /\ Duplicates(r, Sent[i]) =>
              \E q \in P : q[1] = Sent[i] \/ q[2] = r

LEMMA SeenOneMore ==
  ASSUME NEW ch, pending \in SUBSET StoredRecords,
         NEW k \in Nat, k + 1 \in 1..Cardinality(Messages), NEW P, SeenSoFar(ch, k, P)
  PROVE  SeenSoFar(ch, k + 1, PairsWith(ch, k + 1, P))
<1> DEFINE m == Sent[k + 1]
           free == Matching(ch, m, {q[2] : q \in P})
           Q == PairsWith(ch, k + 1, P)
<1>1. Q = IF InputChannel[m] # ch \/ free = {} THEN P ELSE P \cup {<<m, FirstOf(free)>>}
  BY DEF PairsWith
<1>2. \A i \in 1..k : i \in 1..(k + 1) /\ i \in DOMAIN Sent /\ Sent[i] # m
  <2>1. \A i \in 1..k : i \in DOMAIN Sent /\ k + 1 \in DOMAIN Sent /\ i # k + 1
    BY PlacementAssumption, FS_CardinalityType
  <2> QED BY <2>1, PlacementAssumption
<1>3. \A i \in 1..(k + 1) : i \in 1..k \/ i = k + 1
  OBVIOUS
<1>4. k + 1 \in 1..(k + 1)
  OBVIOUS
<1>5. free = {r \in BatchOf(ch) : r \notin {q[2] : q \in P} /\ Duplicates(r, m)}
  BY DEF Matching
<1>6. \A q \in P : q[1] # m
  BY <1>2 DEF SeenSoFar
<1> HIDE DEF Q, m
<1>7. CASE InputChannel[m] # ch
  <2>1. Q = P
    BY <1>1, <1>7
  <2> QED BY <2>1, <1>2, <1>3, <1>7 DEF SeenSoFar, Q, m
<1>8. CASE InputChannel[m] = ch /\ free = {}
  <2>1. Q = P
    BY <1>1, <1>8
  <2>2. \A r \in BatchOf(ch) : Duplicates(r, m) => \E q \in P : q[2] = r
    BY <1>5, <1>8
  <2> QED BY <2>1, <2>2, <1>2, <1>3 DEF SeenSoFar, Q, m
<1>9. CASE InputChannel[m] = ch /\ free # {}
  <2> DEFINE f == FirstOf(free)
  <2>1. Q = P \cup {<<m, f>>}
    BY <1>1, <1>9
  <2>2. f \in free
    <3>1. free \in SUBSET StoredRecords
      BY <1>5 DEF BatchOf
    <3> HIDE DEF free
    <3> QED BY <1>9, <3>1, FirstIsOne
  <2>3. f \in BatchOf(ch) /\ Duplicates(f, m) /\ \A q \in P : q[2] # f
    BY <1>5, <2>2
  <2> HIDE DEF f, free
  <2>4. ASSUME NEW q \in Q
        PROVE  \E i \in 1..(k + 1), r \in BatchOf(ch) :
                  q = <<Sent[i], r>> /\ InputChannel[Sent[i]] = ch /\ Duplicates(r, Sent[i])
    <3>1. CASE q \in P
      BY <1>2, <3>1 DEF SeenSoFar
    <3>2. CASE q = <<m, f>>
      BY <1>4, <1>9, <2>3, <3>2 DEF m
    <3> QED BY <2>1, <3>1, <3>2
  <2>5. ASSUME NEW q \in Q, NEW s \in Q, q[1] = s[1] \/ q[2] = s[2] PROVE q = s
    BY <1>6, <2>1, <2>3, <2>5 DEF SeenSoFar
  <2>6. ASSUME NEW i \in 1..(k + 1), NEW r \in BatchOf(ch),
               InputChannel[Sent[i]] = ch, Duplicates(r, Sent[i])
        PROVE  \E q \in Q : q[1] = Sent[i] \/ q[2] = r
    <3>1. CASE i \in 1..k
      BY <2>1, <2>6, <3>1 DEF SeenSoFar
    <3>2. CASE i = k + 1
      <4>1. <<m, f>> \in Q /\ <<m, f>>[1] = Sent[i]
        BY <2>1, <3>2 DEF m
      <4> QED BY <4>1
    <3> QED BY <1>3, <3>1, <3>2
  <2> QED BY <2>4, <2>5, <2>6 DEF SeenSoFar, Q
<1> QED
  BY <1>7, <1>8, <1>9

\* Whom the messages of a channel are aliases of: each of one record with its
\* id, each record has one at most, and a message has none only when each
\* record with its id has another.
LEMMA PairsMatch ==
  ASSUME NEW ch, pending \in SUBSET StoredRecords
  PROVE  /\ \A q \in Pairs(ch) : \E m \in MessagesOf(ch), r \in BatchOf(ch) :
               q = <<m, r>> /\ Duplicates(r, m)
         /\ \A q, s \in Pairs(ch) : q[1] = s[1] \/ q[2] = s[2] => q = s
         /\ \A m \in MessagesOf(ch), r \in BatchOf(ch) :
               Duplicates(r, m) => \E q \in Pairs(ch) : q[1] = m \/ q[2] = r
<1> DEFINE N == Cardinality(Messages)
<1>1. N \in Nat
  BY PlacementAssumption, FS_CardinalityType
<1>2. PICK p : /\ p[0] = {} /\ Pairs(ch) = p[N]
               /\ \A k \in 1..N : p[k] = PairsWith(ch, k, p[k - 1])
  BY PairsByStep
<1> HIDE DEF N
<1> DEFINE T == {k \in Nat : k \in 0..N => SeenSoFar(ch, k, p[k])}
<1>3. 0 \in T
  BY <1>2 DEF SeenSoFar
<1>4. ASSUME NEW k \in Nat, k \in T PROVE k + 1 \in T
  <2>1. CASE k + 1 \in 0..N
    <3>1. k + 1 \in 1..N /\ k \in 0..N /\ (k + 1) - 1 = k
      BY <1>1, <2>1
    <3>2. SeenSoFar(ch, k, p[k]) /\ p[k + 1] = PairsWith(ch, k + 1, p[k])
      BY <1>2, <1>4, <3>1
    <3>3. SeenSoFar(ch, k + 1, p[k + 1])
      BY <3>1, <3>2, SeenOneMore DEF N
    <3> QED BY <3>3
  <2> QED BY <2>1
<1>5. N \in T
  <2> HIDE DEF T
  <2> QED BY <1>1, <1>3, <1>4, SetInduction
<1>6. SeenSoFar(ch, N, Pairs(ch))
  BY <1>1, <1>2, <1>5
<1>7. \A i \in 1..N : Sent[i] \in Messages
  BY <1>1, PlacementAssumption DEF N
<1>8. \A m \in Messages : \E i \in 1..N : Sent[i] = m
  BY PlacementAssumption DEF N
<1>9. \A q \in Pairs(ch) : \E m \in MessagesOf(ch), r \in BatchOf(ch) :
               q = <<m, r>> /\ Duplicates(r, m)
  BY <1>6, <1>7 DEF SeenSoFar, MessagesOf
<1>10. \A m \in MessagesOf(ch), r \in BatchOf(ch) :
               Duplicates(r, m) => \E q \in Pairs(ch) : q[1] = m \/ q[2] = r
  <2> SUFFICES ASSUME NEW m \in MessagesOf(ch), NEW r \in BatchOf(ch), Duplicates(r, m)
               PROVE  \E q \in Pairs(ch) : q[1] = m \/ q[2] = r
    OBVIOUS
  <2>1. PICK i \in 1..N : Sent[i] = m
    BY <1>8 DEF MessagesOf
  <2>2. InputChannel[Sent[i]] = ch
    BY <2>1 DEF MessagesOf
  <2> QED BY <1>6, <2>1, <2>2 DEF SeenSoFar
<1> QED
  BY <1>6, <1>9, <1>10 DEF SeenSoFar

--------------------------------------------------------------------------------
(* CasePlacement: a batch as merge_batch makes it.                            *)

\* A batch as merge_batch makes it: an item is a record of the channel with the
\* message it stands for, or a message that no record stands for.
BatchItems == [of : Inputs, messages : SUBSET Messages]
ItemSound(ch, s, i) ==
    \/ /\ s[i].of \in StoredRecords /\ InputChannel[s[i].of] = ch
       /\ \/ s[i].messages = {}
          \/ \E m \in MessagesOf(ch) : s[i].messages = {m} /\ Duplicates(s[i].of, m)
    \/ /\ s[i].of \in MessagesOf(ch) /\ s[i].messages = {s[i].of}
       /\ \A j \in 1..Len(s) : s[j].of \in StoredRecords /\ Duplicates(s[j].of, s[i].of) =>
                                  s[j].messages # {}
Whole(ch, s) ==
    /\ s \in Seq(BatchItems)
    /\ \A i \in 1..Len(s) : ItemSound(ch, s, i)
    /\ \A i, j \in 1..Len(s) : i < j =>
          /\ s[i].of # s[j].of /\ s[i].messages \cap s[j].messages = {}
          /\ InputTime[s[i].of] <= InputTime[s[j].of]
    /\ \A m \in MessagesOf(ch) : \E i \in 1..Len(s) : m \in s[i].messages
\* What is pending of the channel is what the batch has behind its first n items.
Ahead(ch, s, n) ==
    \A r \in StoredRecords : r \in BatchOf(ch) <=> \E i \in 1..Len(s) : i > n /\ s[i].of = r

AliasesOf(ch, r) == {q[1] : q \in {x \in Pairs(ch) : x[2] = r}}

LEMMA EntriesAre ==
  ASSUME NEW ch
  PROVE  \A e : e \in Entries(ch) <=>
            \/ \E r \in BatchOf(ch) : e = [of |-> r, messages |-> AliasesOf(ch, r)]
            \/ \E m \in MessagesOf(ch) : (\A q \in Pairs(ch) : q[1] # m)
                                          /\ e = [of |-> m, messages |-> {m}]
  BY DEF Entries, AliasesOf

LEMMA AliasesAre ==
  ASSUME NEW ch, pending \in SUBSET StoredRecords, NEW r \in BatchOf(ch)
  PROVE  /\ \/ AliasesOf(ch, r) = {}
            \/ \E m \in MessagesOf(ch) : AliasesOf(ch, r) = {m} /\ Duplicates(r, m)
         /\ \A m : m \in AliasesOf(ch, r) => \E q \in Pairs(ch) : q = <<m, r>>
<1>1. \A m : m \in AliasesOf(ch, r) => \E q \in Pairs(ch) : q = <<m, r>> /\ m \in MessagesOf(ch)
                                                            /\ Duplicates(r, m)
  <2> SUFFICES ASSUME NEW m, m \in AliasesOf(ch, r)
               PROVE  \E q \in Pairs(ch) : q = <<m, r>> /\ m \in MessagesOf(ch) /\ Duplicates(r, m)
    OBVIOUS
  <2>1. PICK q \in Pairs(ch) : q[2] = r /\ q[1] = m
    BY DEF AliasesOf
  <2>2. PICK n \in MessagesOf(ch), x \in BatchOf(ch) : q = <<n, x>> /\ Duplicates(x, n)
    BY PairsMatch
  <2>3. n = m /\ x = r
    BY <2>1, <2>2
  <2> QED BY <2>2, <2>3
<1>2. \A m, n : m \in AliasesOf(ch, r) /\ n \in AliasesOf(ch, r) => m = n
  <2> SUFFICES ASSUME NEW m, NEW n, m \in AliasesOf(ch, r), n \in AliasesOf(ch, r)
               PROVE  m = n
    OBVIOUS
  <2>1. <<m, r>> \in Pairs(ch) /\ <<n, r>> \in Pairs(ch)
    BY <1>1
  <2>2. <<m, r>> = <<n, r>>
    <3>1. <<m, r>>[2] = <<n, r>>[2]
      OBVIOUS
    <3> QED BY <2>1, <3>1, PairsMatch
  <2> QED BY <2>2
<1>3. CASE AliasesOf(ch, r) = {}
  BY <1>3
<1>4. CASE AliasesOf(ch, r) # {}
  <2>1. PICK m : m \in AliasesOf(ch, r)
    BY <1>4
  <2>2. AliasesOf(ch, r) = {m}
    BY <1>2, <2>1
  <2> QED BY <1>1, <2>1, <2>2
<1> QED BY <1>1, <1>3, <1>4

LEMMA EntriesSound ==
  ASSUME NEW ch, pending \in SUBSET StoredRecords
  PROVE  /\ \A e \in Entries(ch) : e \in BatchItems
         /\ \A e, f \in Entries(ch) : e.of = f.of => e = f
         /\ \A e, f \in Entries(ch) : e # f => e.messages \cap f.messages = {}
         /\ \A m \in MessagesOf(ch) : \E e \in Entries(ch) : m \in e.messages
         /\ \A r \in StoredRecords : r \in BatchOf(ch) <=> \E e \in Entries(ch) : e.of = r
<1>1. BatchOf(ch) \subseteq StoredRecords /\ MessagesOf(ch) \subseteq Messages
      /\ \A x : ~(x \in StoredRecords /\ x \in Messages)
  BY PlacementAssumption DEF BatchOf, MessagesOf
<1>2. \A r \in BatchOf(ch) : AliasesOf(ch, r) \subseteq MessagesOf(ch)
  BY AliasesAre
<1>3. ASSUME NEW e \in Entries(ch) PROVE e \in BatchItems
  BY <1>1, <1>2, <1>3, EntriesAre DEF BatchItems, Inputs
<1>4. ASSUME NEW e \in Entries(ch), NEW f \in Entries(ch), e.of = f.of PROVE e = f
  <2>1. CASE \E r \in BatchOf(ch) : e = [of |-> r, messages |-> AliasesOf(ch, r)]
    <3>1. PICK r \in BatchOf(ch) : e = [of |-> r, messages |-> AliasesOf(ch, r)]
      BY <2>1
    <3>2. f.of = r /\ f.of \notin MessagesOf(ch)
      BY <1>1, <1>4, <3>1
    <3>3. PICK x \in BatchOf(ch) : f = [of |-> x, messages |-> AliasesOf(ch, x)]
      BY <3>2, EntriesAre
    <3> QED BY <3>1, <3>2, <3>3
  <2>2. CASE \E m \in MessagesOf(ch) : e = [of |-> m, messages |-> {m}]
    <3>1. PICK m \in MessagesOf(ch) : e = [of |-> m, messages |-> {m}]
      BY <2>2
    <3>2. f.of = m /\ f.of \notin BatchOf(ch)
      BY <1>1, <1>4, <3>1
    <3>3. PICK x \in MessagesOf(ch) : f = [of |-> x, messages |-> {x}]
      BY <3>2, EntriesAre
    <3> QED BY <3>1, <3>2, <3>3
  <2> QED BY <2>1, <2>2, EntriesAre
<1>5. ASSUME NEW e \in Entries(ch), NEW f \in Entries(ch),
             NEW m, m \in e.messages, m \in f.messages
      PROVE  e.of = f.of
  <2>1. ASSUME NEW g \in Entries(ch), m \in g.messages
        PROVE  \/ g.of \in BatchOf(ch) /\ <<m, g.of>> \in Pairs(ch)
               \/ g.of = m /\ \A q \in Pairs(ch) : q[1] # m
    <3>1. CASE \E r \in BatchOf(ch) : g = [of |-> r, messages |-> AliasesOf(ch, r)]
      <4>1. PICK r \in BatchOf(ch) : g = [of |-> r, messages |-> AliasesOf(ch, r)]
        BY <3>1
      <4>2. g.of = r /\ m \in AliasesOf(ch, r)
        BY <2>1, <4>1
      <4> QED BY <4>1, <4>2, AliasesAre
    <3>2. CASE \E n \in MessagesOf(ch) : (\A q \in Pairs(ch) : q[1] # n)
                                          /\ g = [of |-> n, messages |-> {n}]
      BY <2>1, <3>2
    <3> QED BY <3>1, <3>2, EntriesAre
  <2>2. <<m, e.of>>[1] = m /\ <<m, f.of>>[1] = m
    OBVIOUS
  <2>3. CASE <<m, e.of>> \in Pairs(ch) /\ <<m, f.of>> \in Pairs(ch)
    <3>1. <<m, e.of>> = <<m, f.of>>
      BY <2>2, <2>3, PairsMatch
    <3> QED BY <3>1
  <2> QED BY <1>5, <2>1, <2>2, <2>3
<1>6. ASSUME NEW m \in MessagesOf(ch) PROVE \E e \in Entries(ch) : m \in e.messages
  <2>1. CASE \A q \in Pairs(ch) : q[1] # m
    <3> DEFINE e == [of |-> m, messages |-> {m}]
    <3>1. e \in Entries(ch) /\ m \in e.messages
      BY <2>1, EntriesAre
    <3> QED BY <3>1
  <2>2. CASE \E q \in Pairs(ch) : q[1] = m
    <3>1. PICK q \in Pairs(ch) : q[1] = m
      BY <2>2
    <3>2. PICK n \in MessagesOf(ch), r \in BatchOf(ch) : q = <<n, r>>
      BY PairsMatch
    <3> DEFINE e == [of |-> r, messages |-> AliasesOf(ch, r)]
    <3>3. e \in Entries(ch)
      BY EntriesAre
    <3>4. m \in AliasesOf(ch, r)
      BY <3>1, <3>2 DEF AliasesOf
    <3>5. m \in e.messages
      BY <3>4
    <3> QED BY <3>3, <3>5
  <2> QED BY <2>1, <2>2
<1>7. ASSUME NEW r \in StoredRecords PROVE r \in BatchOf(ch) <=> \E e \in Entries(ch) : e.of = r
  <2>1. ASSUME r \in BatchOf(ch) PROVE \E e \in Entries(ch) : e.of = r
    <3> DEFINE e == [of |-> r, messages |-> AliasesOf(ch, r)]
    <3>1. e \in Entries(ch) /\ e.of = r
      BY <2>1, EntriesAre
    <3> QED BY <3>1
  <2>2. ASSUME NEW e \in Entries(ch), e.of = r PROVE r \in BatchOf(ch)
    <3>1. r \notin MessagesOf(ch)
      BY <1>1
    <3> QED BY <2>2, <3>1, EntriesAre
  <2> QED BY <2>1, <2>2
<1>8. ASSUME NEW e \in Entries(ch), NEW f \in Entries(ch), e # f
      PROVE  e.messages \cap f.messages = {}
  <2>1. SUFFICES ASSUME NEW m, m \in e.messages, m \in f.messages PROVE FALSE
    OBVIOUS
  <2>2. e.of = f.of
    BY <1>5, <2>1
  <2> QED BY <1>4, <1>8, <2>2
<1> QED BY <1>3, <1>4, <1>6, <1>7, <1>8

--------------------------------------------------------------------------------
(* CasePlacement: the order of a batch.                                       *)

LEMMA SoonerIsTotal ==
  ASSUME NEW ch, pending \in SUBSET StoredRecords
  PROVE  /\ \A e \in Entries(ch) : ~Sooner(e, e)
         /\ \A e, f \in Entries(ch) : e = f \/ Sooner(e, f) \/ Sooner(f, e)
         /\ \A e, f, g \in Entries(ch) : Sooner(e, f) /\ Sooner(f, g) => Sooner(e, g)
<1>1. \A x : ~(x \in StoredRecords /\ x \in Messages)
  BY PlacementAssumption
<1>2. ASSUME NEW e \in Entries(ch)
      PROVE  /\ e.of \in Inputs /\ InputTime[e.of] \in Nat
             /\ e.of \in StoredRecords \/ e.of \in Messages
  <2>1. e.of \in Inputs
    BY EntriesSound DEF BatchItems
  <2> QED BY <2>1, PlacementAssumption DEF Inputs
<1>3. \A e, f \in Entries(ch) : e.of = f.of => e = f
  BY EntriesSound
<1>4. /\ \A x \in Inputs : ~Earlier(x, x)
      /\ \A x, y, z \in Inputs : Earlier(x, y) /\ Earlier(y, z) => Earlier(x, z)
      /\ \A x, y \in StoredRecords : x = y \/ Earlier(x, y) \/ Earlier(y, x)
      /\ \A x, y \in Messages : x = y \/ Earlier(x, y) \/ Earlier(y, x)
      /\ \A m \in Messages, r \in StoredRecords : ~Earlier(m, r)
  BY PlacementAssumption
<1>5. ASSUME NEW e \in Entries(ch) PROVE ~Sooner(e, e)
  <2>1. ~(InputTime[e.of] < InputTime[e.of]) /\ ~Earlier(e.of, e.of)
    BY <1>2, <1>4
  <2> QED BY <1>1, <2>1 DEF Sooner
<1>6. ASSUME NEW e \in Entries(ch), NEW f \in Entries(ch)
      PROVE  e = f \/ Sooner(e, f) \/ Sooner(f, e)
  <2>1. \/ InputTime[e.of] < InputTime[f.of] \/ InputTime[f.of] < InputTime[e.of]
        \/ InputTime[e.of] = InputTime[f.of]
    BY <1>2
  <2>2. CASE InputTime[e.of] = InputTime[f.of]
    <3>1. \/ e.of = f.of \/ Earlier(e.of, f.of) \/ Earlier(f.of, e.of)
          \/ e.of \in StoredRecords /\ f.of \in Messages
          \/ f.of \in StoredRecords /\ e.of \in Messages
      BY <1>2, <1>4
    <3> QED BY <1>3, <2>2, <3>1 DEF Sooner
  <2> QED BY <2>1, <2>2 DEF Sooner
<1>7. ASSUME NEW e \in Entries(ch), NEW f \in Entries(ch), NEW g \in Entries(ch),
             Sooner(e, f), Sooner(f, g)
      PROVE  Sooner(e, g)
  <2>1. /\ InputTime[e.of] \in Nat /\ InputTime[f.of] \in Nat /\ InputTime[g.of] \in Nat
        /\ e.of \in Inputs /\ f.of \in Inputs /\ g.of \in Inputs
    BY <1>2
  <2>2. InputTime[e.of] <= InputTime[f.of] /\ InputTime[f.of] <= InputTime[g.of]
    BY <1>7, <2>1 DEF Sooner
  <2>3. CASE InputTime[e.of] < InputTime[g.of]
    BY <2>3 DEF Sooner
  <2>4. CASE InputTime[e.of] = InputTime[f.of] /\ InputTime[f.of] = InputTime[g.of]
    <3>1. /\ (e.of \in StoredRecords /\ f.of \in Messages) \/ Earlier(e.of, f.of)
          /\ (f.of \in StoredRecords /\ g.of \in Messages) \/ Earlier(f.of, g.of)
      BY <1>7, <2>1, <2>4 DEF Sooner
    <3>2. CASE Earlier(e.of, f.of) /\ Earlier(f.of, g.of)
      BY <1>4, <2>1, <2>4, <3>2 DEF Sooner
    <3>3. CASE e.of \in StoredRecords /\ f.of \in Messages /\ Earlier(f.of, g.of)
      <4>1. g.of \in Messages
        BY <1>2, <1>4, <3>3
      <4> QED BY <2>4, <3>3, <4>1 DEF Sooner
    <3>4. CASE Earlier(e.of, f.of) /\ f.of \in StoredRecords /\ g.of \in Messages
      <4>1. e.of \in StoredRecords
        BY <1>2, <1>4, <3>4
      <4> QED BY <2>4, <3>4, <4>1 DEF Sooner
    <3> QED BY <1>1, <3>1, <3>2, <3>3, <3>4
  <2> QED BY <2>1, <2>2, <2>3, <2>4
<1> QED BY <1>5, <1>6, <1>7

LEMMA EntriesFinite ==
  ASSUME NEW ch, pending \in SUBSET StoredRecords
  PROVE  IsFiniteSet(Entries(ch))
<1> DEFINE g == [e \in Entries(ch) |-> e.of]
<1>1. IsFiniteSet(Inputs)
  BY PlacementAssumption, FS_Union DEF Inputs
<1>2. g \in Injection(Entries(ch), Inputs)
  <2>1. \A e \in Entries(ch) : g[e] = e.of /\ e.of \in Inputs
    BY EntriesSound DEF BatchItems
  <2>2. g \in [Entries(ch) -> Inputs]
    BY <2>1
  <2>3. \A e, f \in Entries(ch) : g[e] = g[f] => e = f
    BY <2>1, EntriesSound
  <2> HIDE DEF g
  <2> QED BY <2>2, <2>3 DEF Injection, IsInjective
<1> QED BY <1>1, <1>2, FS_Injection

LEMMA MergedIsSorted ==
  ASSUME NEW ch, pending \in SUBSET StoredRecords
  PROVE  LET s == Merged(ch) IN
         /\ s \in Seq(Entries(ch)) /\ Len(s) \in Nat /\ Len(s) = Cardinality(Entries(ch))
         /\ \A e \in Entries(ch) : \E i \in 1..Len(s) : s[i] = e
         /\ \A i, j \in 1..Len(s) : i < j => s[i] # s[j] /\ Sooner(s[i], s[j])
<1> DEFINE E == Entries(ch)
           N == Cardinality(E)
           R == {q \in E \X E : Sooner(q[1], q[2])}
           Sorts(s) == \A i, j \in 1..N : i < j => Sooner(s[i], s[j])
           s == Merged(ch)
<1>1. IsFiniteSet(E) /\ N \in Nat
  BY EntriesFinite, FS_CardinalityType
<1>2. \A e, f \in E : <<e, f>> \in R <=> Sooner(e, f)
  OBVIOUS
<1>3. /\ \A e \in E : ~Sooner(e, e)
      /\ \A e, f \in E : e = f \/ Sooner(e, f) \/ Sooner(f, e)
      /\ \A e, f, g \in E : Sooner(e, f) /\ Sooner(f, g) => Sooner(e, g)
  BY SoonerIsTotal
<1> HIDE DEF R, E
<1>4. /\ \A e \in E : <<e, e>> \notin R
      /\ \A e, f \in E : e = f \/ <<e, f>> \in R \/ <<f, e>> \in R
      /\ \A e, f, g \in E : <<e, f>> \in R /\ <<f, g>> \in R => <<e, g>> \in R
  BY <1>2, <1>3
<1>5. \E t \in [1..N -> E] : Sorts(t)
  <2>1. PICK t \in [1..N -> E] : \A i, j \in 1..N : i < j => t[i] # t[j] /\ <<t[j], t[i]>> \notin R
    BY <1>1, <1>4, SortedByRelation
  <2>2. Sorts(t)
    <3> SUFFICES ASSUME NEW i \in 1..N, NEW j \in 1..N, i < j PROVE Sooner(t[i], t[j])
      OBVIOUS
    <3>1. t[i] \in E /\ t[j] \in E /\ t[i] # t[j] /\ <<t[j], t[i]>> \notin R
      BY <2>1
    <3> QED BY <1>2, <1>3, <3>1
  <2> QED BY <2>2
<1>6. s \in [1..N -> E] /\ Sorts(s)
  <2>1. s = CHOOSE t \in [1..N -> E] : Sorts(t)
    BY DEF Merged, E
  <2> HIDE DEF s, Sorts
  <2> QED BY <1>5, <2>1
<1> HIDE DEF s
<1>7. \A i, j \in 1..N : i < j => s[i] # s[j] /\ Sooner(s[i], s[j])
  <2> SUFFICES ASSUME NEW i \in 1..N, NEW j \in 1..N, i < j
               PROVE  s[i] # s[j] /\ Sooner(s[i], s[j])
    OBVIOUS
  <2>1. s[i] \in E /\ s[j] \in E /\ Sooner(s[i], s[j])
    BY <1>6
  <2> QED BY <1>3, <2>1
<1>8. s \in Seq(E) /\ Len(s) = N /\ Len(s) \in Nat /\ \A e \in E : \E i \in 1..Len(s) : s[i] = e
  <2>1. \A i, j \in 1..Cardinality(E) : i < j => s[i] # s[j]
    BY <1>7
  <2>2. s \in [1..Cardinality(E) -> E]
    BY <1>6
  <2> HIDE DEF N
  <2>3. s \in Seq(E) /\ Len(s) = Cardinality(E) /\ Len(s) \in Nat
        /\ \A e \in E : \E i \in 1..Len(s) : s[i] = e
    BY <1>1, <2>1, <2>2, SortedIsASequence
  <2> QED BY <2>3 DEF N
<1>9. s \in Seq(E) /\ Len(s) \in Nat /\ Len(s) = Cardinality(E)
      /\ (\A e \in E : \E i \in 1..Len(s) : s[i] = e)
      /\ \A i, j \in 1..Len(s) : i < j => s[i] # s[j] /\ Sooner(s[i], s[j])
  BY <1>7, <1>8
<1> QED
  BY <1>9 DEF s, E

\* merge_batch makes a whole batch of what is pending of the channel.
LEMMA MergedIsWhole ==
  ASSUME NEW ch, pending \in SUBSET StoredRecords
  PROVE  /\ Whole(ch, Merged(ch)) /\ Ahead(ch, Merged(ch), 0)
         /\ Entries(ch) = {} <=> Len(Merged(ch)) = 0
<1> DEFINE s == Merged(ch)
           E == Entries(ch)
<1>1. /\ s \in Seq(E) /\ Len(s) \in Nat /\ Len(s) = Cardinality(E)
      /\ \A e \in E : \E i \in 1..Len(s) : s[i] = e
      /\ \A i, j \in 1..Len(s) : i < j => s[i] # s[j] /\ Sooner(s[i], s[j])
  BY MergedIsSorted
<1>2. /\ \A e \in E : e \in BatchItems
      /\ \A e, f \in E : e.of = f.of => e = f
      /\ \A e, f \in E : e # f => e.messages \cap f.messages = {}
      /\ \A m \in MessagesOf(ch) : \E e \in E : m \in e.messages
      /\ \A r \in StoredRecords : r \in BatchOf(ch) <=> \E e \in E : e.of = r
  BY EntriesSound
<1>3. IsFiniteSet(E)
  BY EntriesFinite
<1>4. \A e \in E : \/ \E r \in BatchOf(ch) : e = [of |-> r, messages |-> AliasesOf(ch, r)]
                   \/ \E m \in MessagesOf(ch) : (\A q \in Pairs(ch) : q[1] # m)
                                                 /\ e = [of |-> m, messages |-> {m}]
  BY EntriesAre
<1> HIDE DEF s, E
<1>5. \A i \in 1..Len(s) : s[i] \in E
  BY <1>1
<1>6. E = {} <=> Len(s) = 0
  BY <1>1, <1>3, FS_EmptySet
<1>7. Ahead(ch, s, 0)
  <2> SUFFICES ASSUME NEW r \in StoredRecords
               PROVE  r \in BatchOf(ch) <=> \E i \in 1..Len(s) : i > 0 /\ s[i].of = r
    BY DEF Ahead
  <2>1. r \in BatchOf(ch) <=> \E e \in E : e.of = r
    BY <1>2
  <2>2. ASSUME NEW e \in E, e.of = r PROVE \E i \in 1..Len(s) : i > 0 /\ s[i].of = r
    <3>1. PICK i \in 1..Len(s) : s[i] = e
      BY <1>1
    <3>2. i > 0
      BY <1>1
    <3> QED BY <2>2, <3>1, <3>2
  <2> QED BY <1>5, <2>1, <2>2
<1>8. s \in Seq(BatchItems)
  <2>1. E \in SUBSET BatchItems
    BY <1>2
  <2> QED BY <1>1, <2>1
<1>9. ASSUME NEW i \in 1..Len(s), NEW j \in 1..Len(s), i < j
      PROVE  /\ s[i].of # s[j].of /\ s[i].messages \cap s[j].messages = {}
             /\ InputTime[s[i].of] <= InputTime[s[j].of]
  <2>1. s[i] \in E /\ s[j] \in E /\ s[i] # s[j] /\ Sooner(s[i], s[j])
    BY <1>1, <1>5, <1>9
  <2>2. s[i].of \in Inputs /\ s[j].of \in Inputs
    BY <1>2, <2>1 DEF BatchItems
  <2>3. InputTime[s[i].of] \in Nat /\ InputTime[s[j].of] \in Nat
    BY <2>2, PlacementAssumption
  <2>4. InputTime[s[i].of] <= InputTime[s[j].of]
    BY <2>1, <2>3 DEF Sooner
  <2> QED BY <1>2, <2>1, <2>4
<1>10. ASSUME NEW m \in MessagesOf(ch) PROVE \E i \in 1..Len(s) : m \in s[i].messages
  BY <1>1, <1>2
<1>11. ASSUME NEW i \in 1..Len(s) PROVE ItemSound(ch, s, i)
  <2>1. s[i] \in E
    BY <1>5
  <2>2. CASE \E r \in BatchOf(ch) : s[i] = [of |-> r, messages |-> AliasesOf(ch, r)]
    <3>1. PICK r \in BatchOf(ch) : s[i] = [of |-> r, messages |-> AliasesOf(ch, r)]
      BY <2>2
    <3>2. s[i].of = r /\ s[i].messages = AliasesOf(ch, r)
      BY <3>1
    <3>3. \/ AliasesOf(ch, r) = {}
          \/ \E m \in MessagesOf(ch) : AliasesOf(ch, r) = {m} /\ Duplicates(r, m)
      BY AliasesAre
    <3>4. r \in StoredRecords /\ InputChannel[r] = ch
      BY DEF BatchOf
    <3> QED BY <3>2, <3>3, <3>4 DEF ItemSound
  <2>3. CASE \E m \in MessagesOf(ch) : (\A q \in Pairs(ch) : q[1] # m)
                                       /\ s[i] = [of |-> m, messages |-> {m}]
    <3>1. PICK m \in MessagesOf(ch) : (\A q \in Pairs(ch) : q[1] # m)
                                       /\ s[i] = [of |-> m, messages |-> {m}]
      BY <2>3
    <3>2. s[i].of = m /\ s[i].messages = {m}
      BY <3>1
    <3>3. ASSUME NEW j \in 1..Len(s), s[j].of \in StoredRecords, Duplicates(s[j].of, m)
          PROVE  s[j].messages # {}
      <4>1. s[j] \in E
        BY <1>5
      <4>2. s[j].of \in BatchOf(ch)
        BY <1>2, <3>3, <4>1
      <4>3. s[j].of \notin MessagesOf(ch)
        BY <3>3, PlacementAssumption DEF MessagesOf
      <4>4. PICK r \in BatchOf(ch) : s[j] = [of |-> r, messages |-> AliasesOf(ch, r)]
        BY <1>4, <4>1, <4>3
      <4>5. s[j].of = r /\ s[j].messages = AliasesOf(ch, r)
        BY <4>4
      <4>6. PICK q \in Pairs(ch) : q[1] = m \/ q[2] = r
        BY <3>3, <4>5, PairsMatch
      <4>7. q[2] = r
        BY <3>1, <4>6
      <4>8. q[1] \in AliasesOf(ch, r)
        BY <4>7 DEF AliasesOf
      <4> QED BY <4>5, <4>8
    <3> QED BY <3>2, <3>3 DEF ItemSound
  <2> QED BY <1>4, <2>1, <2>2, <2>3
<1>12. Whole(ch, s)
  BY <1>8, <1>9, <1>10, <1>11 DEF Whole
<1> QED
  BY <1>6, <1>7, <1>12 DEF s, E

--------------------------------------------------------------------------------
(* CasePlacement, the tree: it has two levels, and only cases of the role have children.*)

TreeOf(t) ==
    /\ DOMAIN t \subseteq Cases /\ t = [c \in DOMAIN t |-> t[c]]
    /\ \A c \in DOMAIN t :
          /\ t[c] \in DOMAIN t \cup {Top}
          /\ c = EventCase => t[c] = Top
          /\ t[c] # Top => t[c] \notin {c, EventCase} /\ t[t[c]] = Top
LeafOf(t, c) == c \in DOMAIN t /\ \A d \in DOMAIN t : t[d] # c
InnerOf(t, c) == c \in RoleCases /\ c \in DOMAIN t /\ \E d \in DOMAIN t : t[d] = c

LEMMA CasesFinite == Cardinality(Cases) \in Nat \ {0} /\ IsFiniteSet(Cases)
<1>1. IsFiniteSet(RoleCases)
  <2>1. MaxCopies \in Nat /\ 1 \in Nat
    BY PlacementAssumption
  <2>2. IsFiniteSet(1..MaxCopies)
    BY <2>1, FS_Interval
  <2> QED BY <2>2, PlacementAssumption, FS_Product DEF RoleCases
<1>2. IsFiniteSet(Cases)
  BY <1>1, FS_AddElement DEF Cases
<1>3. Cases # {}
  BY DEF Cases
<1> QED BY <1>2, <1>3, FS_CardinalityType, FS_EmptySet

LEMMA AncestorsAre ==
  ASSUME TreeOf(parent), NEW c \in DOMAIN parent
  PROVE  Ancestors(c) = {parent[c]} \cap DOMAIN parent
<1> DEFINE N == Cardinality(Cases)
           Above(S) == S \cup {parent[d] : d \in S \cap DOMAIN parent}
           Eq(u) == u = [n \in 0..N |-> IF n = 0 THEN {c} ELSE Above(u[n - 1])]
           g == [n \in 0..N |-> IF n = 0 THEN {c}
                                ELSE IF n = 1 THEN {c, parent[c]} ELSE {c, parent[c], Top}]
<1>1. N \in Nat \ {0}
  BY CasesFinite
<1>2. Top \notin DOMAIN parent /\ parent[c] # c
      /\ (parent[c] \in DOMAIN parent => parent[parent[c]] = Top)
      /\ parent[c] \in DOMAIN parent \cup {Top}
  BY PlacementAssumption DEF TreeOf
<1>3. Above({c}) = {c, parent[c]}
  OBVIOUS
<1>4. Above({c, parent[c]}) = {c, parent[c], Top}
  <2>1. CASE parent[c] = Top
    BY <1>2, <2>1
  <2>2. CASE parent[c] \in DOMAIN parent
    BY <1>2, <2>2
  <2> QED BY <1>2, <2>1, <2>2
<1>5. Above({c, parent[c], Top}) = {c, parent[c], Top}
  <2>1. CASE parent[c] = Top
    BY <1>2, <2>1
  <2>2. CASE parent[c] \in DOMAIN parent
    BY <1>2, <2>2
  <2> QED BY <1>2, <2>1, <2>2
<1> HIDE DEF N, Above
<1>6. Eq(g)
  <2>1. ASSUME NEW n \in 0..N PROVE g[n] = IF n = 0 THEN {c} ELSE Above(g[n - 1])
    <3>1. CASE n = 0
      BY <3>1
    <3>2. CASE n = 1
      <4>1. 0 \in 0..N /\ n - 1 = 0
        BY <1>1, <3>2
      <4> QED BY <1>3, <3>2, <4>1
    <3>3. CASE n = 2
      <4>1. 1 \in 0..N /\ n - 1 = 1
        BY <1>1, <3>3
      <4> QED BY <1>4, <3>3, <4>1
    <3>4. CASE n > 2
      <4>1. n - 1 \in 0..N /\ n - 1 # 0 /\ n - 1 # 1 /\ n # 0 /\ n # 1
        BY <1>1, <3>4
      <4> QED BY <1>5, <4>1
    <3> QED BY <1>1, <3>1, <3>2, <3>3, <3>4
  <2>2. g = [n \in 0..N |-> g[n]]
    OBVIOUS
  <2> HIDE DEF g
  <2> QED BY <2>1, <2>2
<1> DEFINE u == CHOOSE q : Eq(q)
<1>7. Eq(u)
  <2> HIDE DEF Eq, g
  <2> QED BY <1>6
<1>8. Ancestors(c) = (u[N] \ {c}) \cap DOMAIN parent
  BY DEF Ancestors, N, Above
<1> HIDE DEF u
<1>9. u[0] = {c} /\ \A n \in 1..N : u[n] = Above(u[n - 1])
  <2>1. 0 \in 0..N /\ \A n \in 1..N : n \in 0..N /\ n # 0
    BY <1>1
  <2> QED BY <1>7, <2>1
<1> DEFINE T == {n \in Nat : n \in 1..N => u[n] \in {{c, parent[c]}, {c, parent[c], Top}}}
<1>10. 0 \in T
  OBVIOUS
<1>11. ASSUME NEW n \in Nat, n \in T PROVE n + 1 \in T
  <2>1. CASE n + 1 \in 1..N /\ n = 0
    <3>1. u[n + 1] = Above(u[0])
      BY <1>9, <2>1
    <3> QED BY <1>3, <1>9, <3>1
  <2>2. CASE n + 1 \in 1..N /\ n # 0
    <3>1. n \in 1..N /\ u[n + 1] = Above(u[n])
      BY <1>1, <1>9, <2>2
    <3>2. u[n] \in {{c, parent[c]}, {c, parent[c], Top}}
      BY <1>11, <3>1
    <3>3. u[n + 1] = {c, parent[c], Top}
      BY <1>4, <1>5, <3>1, <3>2
    <3> QED BY <3>3
  <2>3. CASE n + 1 \notin 1..N
    BY <2>3
  <2> QED BY <2>1, <2>2, <2>3
<1>12. N \in T
  <2> HIDE DEF T
  <2> QED BY <1>1, <1>10, <1>11, SetInduction
<1>13. u[N] \in {{c, parent[c]}, {c, parent[c], Top}}
  <2>1. N \in 1..N
    BY <1>1
  <2> QED BY <1>12, <2>1
<1>14. \A x : x \in Ancestors(c) <=> x \in {parent[c]} \cap DOMAIN parent
  BY <1>2, <1>8, <1>13
<1> QED BY <1>14

LEMMA SubtreeIs ==
  ASSUME TreeOf(parent), NEW c \in DOMAIN parent
  PROVE  \A d : d \in Subtree(c) <=> d \in DOMAIN parent /\ (d = c \/ parent[d] = c)
  BY AncestorsAre DEF Subtree

LEMMA DepthIs ==
  ASSUME TreeOf(parent), NEW c \in DOMAIN parent
  PROVE  Depth(c) = IF parent[c] = Top THEN 0 ELSE 1
<1>1. CASE parent[c] = Top
  <2>1. Ancestors(c) = {}
    BY <1>1, AncestorsAre, PlacementAssumption DEF TreeOf
  <2> QED BY <1>1, <2>1, FS_EmptySet DEF Depth
<1>2. CASE parent[c] # Top
  <2>1. Ancestors(c) = {parent[c]}
    BY <1>2, AncestorsAre DEF TreeOf
  <2> QED BY <1>2, <2>1, FS_Singleton DEF Depth
<1> QED BY <1>1, <1>2

\* Where no name is left there is none to give, and a free one is not given yet.
LEMMA FreeNameIsNew ==
  ASSUME NEW n \in Names, NameLeft(n)
  PROVE  FreeName(n) \in RoleCases \ DOMAIN parent
<1> DEFINE S == {k \in 1..MaxCopies : <<n, k>> \notin DOMAIN parent}
<1>1. MaxCopies \in S /\ S \in SUBSET Nat
  BY PlacementAssumption DEF NameLeft
<1>2. MinOf(S) \in S
  <2> HIDE DEF S
  <2> QED BY <1>1, MinIsLeast
<1> QED BY <1>2 DEF FreeName, RoleCases

--------------------------------------------------------------------------------
(* CasePlacement: the inductive invariant.                                    *)

Busy == pc \in {"group", "decide", "level", "land", "summaries"}
InChunk == pc \in {"decide", "level", "land", "summaries"}
Affected == Touched \cup UNION {Ancestors(c) : c \in Touched}
Latest(c) == IF c \in DOMAIN computed THEN computed[c] ELSE told[c]

\* The tree of the role grows below what there was before the chunk, by cases
\* that hold nothing yet.
TreeInv ==
    /\ TreeOf(parent) /\ TreeOf(before[1])
    /\ DOMAIN held = DOMAIN parent /\ DOMAIN told = DOMAIN parent
    /\ DOMAIN before[1] \subseteq DOMAIN parent /\ DOMAIN before[2] = DOMAIN before[1]
    /\ \A c \in DOMAIN before[1] : before[1][c] = parent[c] /\ before[2][c] = told[c]
    /\ created \subseteq DOMAIN parent \ DOMAIN before[1]
    /\ \A c \in DOMAIN parent \ DOMAIN before[1] :
          /\ held[c] = {} /\ \E k \in 1..Len(landed) : landed[k] = c
          /\ parent[c] = Top \/ InnerOf(before[1], parent[c])
          /\ c \notin created => told[c] = {} /\ c = EventCase
    /\ ~InChunk => /\ groups = <<>> /\ verdicts = <<>> /\ landed = <<>>
                   /\ created = {} /\ computed = <<>> /\ before = <<parent, told>>
    /\ pc # "summaries" => computed = <<>>
    /\ landed = <<>> => parent = before[1]

\* Where the groups of the chunk go.
Verdicts == UNION {[kind : {"case"}, case : Cases],
                   [kind : {"new"}, under : RoleCases \cup {Top}, name : Names],
                   [kind : {"event"}]}
VerdictSound(v) ==
    \/ v \in [kind : {"case"}, case : OwnCases] /\ LeafOf(before[1], v.case)
    \/ /\ ~inEvent /\ v \in [kind : {"new"}, under : RoleCases \cup {Top}, name : Names]
       /\ v.under = Top \/ InnerOf(before[1], v.under)
    \/ inEvent /\ v \in [kind : {"event"}] /\ EventCase \notin DOMAIN before[1]
DecideInv ==
    /\ inEvent \in BOOLEAN
    /\ current \in [ChannelKeys -> Cases \cup {NoCase}]
    /\ \A ch \in ChannelKeys :
          current[ch] # NoCase => current[ch] \in OwnCases /\ LeafOf(before[1], current[ch])
    /\ groups \in Seq([items : SUBSET Nat, current : BOOLEAN])
    /\ \A k \in 1..Len(groups) :
          groups[k].items # {} /\ groups[k].items \subseteq 1..Size
    /\ \A k, j \in 1..Len(groups) : k # j => groups[k].items \cap groups[j].items = {}
    /\ verdicts \in Seq(Verdicts)
    /\ \A k \in 1..Len(verdicts) : VerdictSound(verdicts[k])
    /\ landed \in Seq(OwnCases)
    /\ \A k \in 1..Len(landed) : LeafOf(parent, landed[k])
    /\ inEvent /\ InChunk => Len(groups) = 1
    /\ pc \in {"decide", "level"} => ~inEvent /\ Len(verdicts) < Len(groups) /\ landed = <<>>
    /\ pc = "level" => under = Top \/ InnerOf(before[1], under)
    /\ pc \in {"land", "summaries"} => Len(verdicts) = Len(groups)
    /\ pc = "land" => Len(landed) < Len(groups)
    /\ pc = "summaries" => Len(landed) = Len(groups) /\ landed # <<>>

\* A summary tells of what its case holds and of what its children tell of.
CoverInv ==
    /\ \A c \in DOMAIN parent \ created :
          /\ held[c] \subseteq told[c]
          /\ \A d \in DOMAIN parent \ created : parent[d] = c => told[d] \subseteq told[c]
    /\ \A c \in created : NewRecords(c) \subseteq told[c]
    /\ \A c \in DOMAIN computed :
          /\ c \in Affected /\ c \in DOMAIN parent \ created
          /\ held[c] \cup NewRecords(c) \subseteq computed[c]
          /\ \A d \in Children(c) : d \notin ToSummarise /\ Latest(d) \subseteq computed[c]

\* The batch, and how much of it is done.
BatchInv ==
    /\ pc \in {"channel", "group", "decide", "level", "land", "summaries", "done", "failed"}
    /\ todo \subseteq ChannelKeys /\ pending \subseteq StoredRecords
    /\ ~Busy => items = <<>> /\ from = 0
    /\ Busy => /\ channel \in ChannelKeys \ todo
               /\ Whole(channel, items) /\ Ahead(channel, items, from)
               /\ from \in Nat /\ Len(items) \in Nat /\ from < Len(items)
    /\ pc = "done" => todo = {}

\* What is done is in the answer, once, or omitted; the rest is not.
Remaining(m) == InputChannel[m] \in todo
                \/ \E i \in 1..Len(items) : i > from /\ m \in items[i].messages
LocInv ==
    /\ \A g \in located : g.messages \subseteq Messages
    /\ \A g \in located : \A m \in g.messages : ~Remaining(m)
    /\ \A g, h \in located : g # h => g.messages \cap h.messages = {}
    /\ pc # "failed" =>
          \A m \in Messages \ omitted : Remaining(m) \/ \E g \in located : m \in g.messages
    /\ \A r \in pending : \A c \in DOMAIN held : r \notin held[c]
    /\ \A r \in StoredRecords \ (pending \cup omitted) :
          /\ \E c \in DOMAIN held : r \in held[c]
          /\ \A c, d \in DOMAIN held : r \in held[c] /\ r \in held[d] => c = d

PlacementInv == TreeInv /\ DecideInv /\ CoverInv /\ BatchInv /\ LocInv

--------------------------------------------------------------------------------
(* CasePlacement: every action keeps the invariant.                           *)

LEMMA InitTree ==
  ASSUME PlacementInit
  PROVE  TreeInv /\ CoverInv
<1>1. PICK D \in SUBSET ({<<n, 1>> : n \in Names} \cup {EventCase}) :
         /\ parent \in [D -> D \cup {Top}]
         /\ \A c \in D :
               /\ c = EventCase => parent[c] = Top
               /\ parent[c] # Top => parent[c] \notin {c, EventCase} /\ parent[parent[c]] = Top
  BY DEF PlacementInit, Forests
<1>2. D \subseteq Cases
  BY PlacementAssumption DEF Cases, RoleCases
<1>3. TreeOf(parent)
  BY <1>1, <1>2 DEF TreeOf
<1>4. /\ before[1] = parent /\ before[2] = told /\ created = {} /\ computed = <<>>
      /\ groups = <<>> /\ verdicts = <<>> /\ landed = <<>> /\ pc = "channel"
      /\ held = [c \in DOMAIN parent |-> {c}] /\ told = [c \in DOMAIN parent |-> Subtree(c)]
      /\ before = <<parent, told>>
  BY DEF PlacementInit
<1>5. TreeInv
  BY <1>3, <1>4 DEF TreeInv, InChunk
<1>6. ASSUME NEW c \in DOMAIN parent PROVE held[c] \subseteq told[c]
  BY <1>3, <1>4, SubtreeIs
<1>7. ASSUME NEW c \in DOMAIN parent, NEW d \in DOMAIN parent, parent[d] = c
      PROVE  told[d] \subseteq told[c]
  <2>1. c # Top
    BY <1>1, <1>2, PlacementAssumption
  <2>2. ASSUME NEW x \in Subtree(d) PROVE x \in Subtree(c)
    <3>1. x \in DOMAIN parent /\ (x = d \/ parent[x] = d)
      BY <1>3, SubtreeIs
    <3>2. d # Top
      BY <1>1, <1>2, PlacementAssumption
    <3>3. x = d
      BY <1>1, <1>7, <2>1, <3>1, <3>2
    <3> QED BY <1>3, <1>7, <3>3, SubtreeIs
  <2> QED BY <1>4, <2>2
<1>8. CoverInv
  <2>1. DOMAIN computed = {}
    BY <1>4
  <2> QED BY <1>4, <1>6, <1>7, <2>1 DEF CoverInv
<1> QED BY <1>5, <1>8

LEMMA InitOthers ==
  ASSUME PlacementInit
  PROVE  DecideInv /\ BatchInv /\ LocInv
<1>1. /\ groups = <<>> /\ verdicts = <<>> /\ landed = <<>> /\ pc = "channel"
      /\ before[1] = parent /\ todo = ChannelKeys /\ items = <<>> /\ from = 0
      /\ pending = StoredRecords /\ located = {} /\ inEvent \in BOOLEAN
      /\ held = [c \in DOMAIN parent |-> {c}]
  BY DEF PlacementInit
<1>2. TreeOf(parent)
  BY InitTree DEF TreeInv
<1>3. DecideInv
  <2>1. current \in [ChannelKeys ->
                       {NoCase} \cup {c \in DOMAIN parent \cap OwnCases : IsLeaf(c)}]
    BY DEF PlacementInit
  <2>2. current \in [ChannelKeys -> Cases \cup {NoCase}]
    BY <1>2, <2>1 DEF TreeOf
  <2>3. \A ch \in ChannelKeys :
          current[ch] # NoCase => current[ch] \in OwnCases /\ LeafOf(before[1], current[ch])
    BY <1>1, <2>1 DEF IsLeaf, Children, LeafOf
  <2> QED BY <1>1, <2>2, <2>3 DEF DecideInv, InChunk
<1>4. BatchInv
  BY <1>1 DEF BatchInv, Busy
<1>5. LocInv
  <2>1. \A m \in Messages : Remaining(m)
    BY <1>1, PlacementAssumption DEF Remaining, Inputs
  <2>2. \A r \in pending : \A c \in DOMAIN held : r \notin held[c]
    BY <1>1, <1>2, PlacementAssumption DEF TreeOf
  <2>3. StoredRecords \ (pending \cup omitted) = {}
    BY <1>1
  <2> QED BY <1>1, <2>1, <2>2, <2>3 DEF LocInv
<1> QED BY <1>3, <1>4, <1>5

LEMMA KeptByNextChannel ==
  ASSUME PlacementInv, NEW ch \in ChannelKeys, NextChannel(ch)
  PROVE  PlacementInv'
<1>1. /\ pc = "channel" /\ ch \in todo /\ todo' = todo \ {ch} /\ channel' = ch
      /\ items' = Merged(ch) /\ from' = 0 /\ pc' \in {"channel", "group"}
      /\ (pc' = "channel" <=> Entries(ch) = {})
      /\ UNCHANGED <<parent, held, told, current, pending, idOf, inEvent, groups, verdicts,
                     under, landed, created, computed, before, located, omitted>>
  BY DEF NextChannel, roleState, input
<1>2. TreeInv /\ DecideInv /\ CoverInv /\ BatchInv /\ LocInv
  BY DEF PlacementInv
<1>3. /\ groups = <<>> /\ verdicts = <<>> /\ landed = <<>> /\ created = {} /\ computed = <<>>
      /\ before = <<parent, told>> /\ items = <<>> /\ from = 0
      /\ pending \in SUBSET StoredRecords
  BY <1>1, <1>2 DEF TreeInv, BatchInv, InChunk, Busy
<1>4. TreeInv'
  BY <1>1, <1>2, <1>3 DEF TreeInv, InChunk
<1>5. DecideInv'
  BY <1>1, <1>2, <1>3 DEF DecideInv, InChunk, OwnCases
<1>6. CoverInv'
  <2>1. created' = {} /\ DOMAIN computed' = {}
    BY <1>1, <1>3
  <2> QED BY <1>1, <1>2, <1>3, <2>1 DEF CoverInv
<1>7. /\ Whole(ch, Merged(ch)) /\ Ahead(ch, Merged(ch), 0)
      /\ (Entries(ch) = {} <=> Len(Merged(ch)) = 0)
  BY <1>3, MergedIsWhole
<1>8. Merged(ch) \in Seq(BatchItems) /\ Len(Merged(ch)) \in Nat
  BY <1>7 DEF Whole
<1>9. Whole(ch, Merged(ch))' /\ Ahead(ch, Merged(ch), 0)' /\ Merged(ch)' = Merged(ch)
  <2>1. idOf' = idOf /\ pending' = pending
    BY <1>1
  <2>2. Entries(ch)' = Entries(ch)
    BY <2>1 DEF Entries, Pairs, BatchOf, Matching, Duplicates, MessagesOf, FirstOf
  <2>3. Merged(ch)' = Merged(ch)
    BY <2>2 DEF Merged, Sooner
  <2>4. Whole(ch, Merged(ch))'
    BY <1>7, <2>1, <2>3 DEF Whole, ItemSound, MessagesOf, Duplicates
  <2>5. Ahead(ch, Merged(ch), 0)'
    BY <1>7, <2>1, <2>3 DEF Ahead, BatchOf
  <2> QED BY <2>3, <2>4, <2>5
<1>10. Whole(ch, items') /\ Ahead(ch, items', 0)
  BY <1>1, <1>7
<1>11. BatchInv'
  <2>1. CASE Entries(ch) = {}
    <3>1. Merged(ch) = <<>>
      BY <1>7, <1>8, <2>1
    <3> QED BY <1>1, <1>2, <2>1, <3>1 DEF BatchInv, Busy
  <2>2. CASE Entries(ch) # {}
    <3>1. Len(items') \in Nat /\ 0 < Len(items') /\ from' = 0 /\ pc' = "group"
      BY <1>1, <1>7, <1>8, <2>2
    <3>2. Whole(channel, items)' /\ Ahead(channel, items, from)'
      BY <1>1, <1>10 DEF Whole, Ahead, ItemSound, MessagesOf, BatchOf, Duplicates
    <3> QED BY <1>1, <1>2, <3>1, <3>2 DEF BatchInv, Busy
  <2> QED BY <2>1, <2>2
<1>12. ASSUME NEW m \in Messages PROVE Remaining(m)' <=> Remaining(m)
  <2>1. Remaining(m) <=> InputChannel[m] \in todo
    BY <1>3 DEF Remaining
  <2>2. Remaining(m)' <=> \/ InputChannel[m] \in todo \ {ch}
                          \/ \E i \in 1..Len(Merged(ch)) : i > 0 /\ m \in Merged(ch)[i].messages
    BY <1>1 DEF Remaining
  <2>3. InputChannel[m] = ch <=> \E i \in 1..Len(Merged(ch)) : m \in Merged(ch)[i].messages
    <3>1. ASSUME NEW i \in 1..Len(Merged(ch)), m \in Merged(ch)[i].messages
          PROVE  InputChannel[m] = ch
      BY <1>7, <3>1 DEF Whole, ItemSound, MessagesOf
    <3> QED BY <1>7, <3>1 DEF Whole, MessagesOf
  <2> QED BY <1>1, <1>8, <2>1, <2>2, <2>3
<1>13. LocInv'
  <2>1. pc # "failed"
    BY <1>1
  <2> QED BY <1>1, <1>2, <1>12, <2>1 DEF LocInv
<1> QED BY <1>4, <1>5, <1>6, <1>11, <1>13 DEF PlacementInv

LEMMA KeptByRespond ==
  ASSUME PlacementInv, Respond
  PROVE  PlacementInv'
<1>1. /\ pc = "channel" /\ todo = {} /\ pc' = "done"
      /\ UNCHANGED <<parent, held, told, current, pending, idOf, inEvent, todo, channel, items,
                     from, groups, verdicts, under, landed, created, computed, before, located,
                     omitted>>
  BY DEF Respond, roleState, input
<1>2. TreeInv /\ DecideInv /\ CoverInv /\ BatchInv /\ LocInv
  BY DEF PlacementInv
<1>3. TreeInv'
  BY <1>1, <1>2 DEF TreeInv, InChunk
<1>4. /\ groups = <<>> /\ verdicts = <<>> /\ landed = <<>> /\ created = {} /\ computed = <<>>
  BY <1>1, <1>2 DEF TreeInv, InChunk
<1>5. DecideInv'
  BY <1>1, <1>2, <1>4 DEF DecideInv, InChunk, OwnCases
<1>6. CoverInv'
  <2>1. created' = {} /\ DOMAIN computed' = {}
    BY <1>1, <1>4
  <2> QED BY <1>1, <1>2, <1>4, <2>1 DEF CoverInv
<1>7. BatchInv'
  BY <1>1, <1>2 DEF BatchInv, Busy
<1>8. LocInv'
  BY <1>1, <1>2 DEF LocInv, Remaining
<1> QED BY <1>3, <1>5, <1>6, <1>7, <1>8 DEF PlacementInv

LEMMA VerdictsTyped ==
  ASSUME NEW v, VerdictSound(v)
  PROVE  v \in Verdicts
  BY DEF VerdictSound, Verdicts, OwnCases, Cases

\* What an action leaves alone that only sets the verdicts.
LEMMA KeptWhileDeciding ==
  ASSUME PlacementInv, pc \in {"decide", "level"}, InChunk',
         pc' # "summaries",
         UNCHANGED <<parent, held, told, current, pending, idOf, inEvent, todo, channel, items,
                     from, groups, landed, created, computed, before, located, omitted>>
  PROVE  TreeInv' /\ CoverInv' /\ BatchInv' /\ LocInv'
<1>1. TreeInv /\ DecideInv /\ CoverInv /\ BatchInv /\ LocInv
  BY DEF PlacementInv
<1>2. landed = <<>> /\ computed = <<>>
  BY <1>1 DEF TreeInv, DecideInv
<1>3. TreeInv'
  BY <1>1, <1>2 DEF TreeInv, InChunk
<1>4. CoverInv'
  <2>1. DOMAIN computed = {}
    BY <1>2
  <2>2. \A c : NewRecords(c)' = NewRecords(c)
    BY DEF NewRecords, StoredAt, Item
  <2> QED BY <1>1, <2>1, <2>2 DEF CoverInv
<1>5. BatchInv'
  <2>1. Busy /\ Busy' /\ pc' \in {"decide", "level", "land"}
    BY DEF Busy, InChunk
  <2>2. Whole(channel, items)' /\ Ahead(channel, items, from)'
    BY <1>1, <2>1 DEF BatchInv, Whole, Ahead, ItemSound, MessagesOf, BatchOf, Duplicates
  <2> QED BY <1>1, <2>1, <2>2 DEF BatchInv
<1>6. LocInv'
  BY <1>1 DEF LocInv, Remaining, InChunk
<1> QED BY <1>3, <1>4, <1>5, <1>6

LEMMA KeptByDecided ==
  ASSUME PlacementInv, pc \in {"decide", "level"}, NEW v, VerdictSound(v), Decided(v)
  PROVE  PlacementInv'
<1>1. /\ verdicts' = Append(verdicts, v)
      /\ pc' = IF Len(verdicts) + 1 = Len(groups) THEN "land" ELSE "decide"
      /\ UNCHANGED <<parent, held, told, current, pending, idOf, inEvent, todo, channel, items,
                     from, groups, under, landed, created, computed, before, located, omitted>>
  BY DEF Decided, roleState, input
<1>2. TreeInv' /\ CoverInv' /\ BatchInv' /\ LocInv'
  BY <1>1, KeptWhileDeciding DEF InChunk
<1>3. DecideInv
  BY DEF PlacementInv
<1>4. Size' = Size /\ OwnCases' = OwnCases
  BY <1>1 DEF Size, OwnCases
<1>5. v \in Verdicts /\ verdicts \in Seq(Verdicts)
  BY <1>3, VerdictsTyped DEF DecideInv, Verdicts
<1>6. verdicts' \in Seq(Verdicts) /\ Len(verdicts') = Len(verdicts) + 1 /\ Len(verdicts) \in Nat
  BY <1>1, <1>5
<1>7. ASSUME NEW k \in 1..Len(verdicts') PROVE VerdictSound(verdicts[k])'
  <2>1. verdicts'[k] = IF k = Len(verdicts) + 1 THEN v ELSE verdicts[k]
    BY <1>1, <1>5, <1>6
  <2>2. k # Len(verdicts) + 1 => k \in 1..Len(verdicts)
    BY <1>6
  <2>3. VerdictSound(verdicts'[k])
    BY <1>3, <2>1, <2>2 DEF DecideInv
  <2> QED BY <1>1, <1>4, <2>3 DEF VerdictSound
<1>8. Len(groups) \in Nat /\ Len(verdicts) < Len(groups) /\ landed = <<>> /\ ~inEvent
  BY <1>3 DEF DecideInv
<1>9. /\ pc' \in {"decide", "land"}
      /\ pc' = "decide" => Len(verdicts') < Len(groups)
      /\ pc' = "land" => Len(verdicts') = Len(groups) /\ Len(landed) < Len(groups)
  BY <1>1, <1>6, <1>8
<1>10. DecideInv'
  <2>1. /\ groups' \in Seq([items : SUBSET Nat, current : BOOLEAN])
        /\ landed' \in Seq(OwnCases') /\ inEvent' \in BOOLEAN
        /\ current' \in [ChannelKeys -> Cases \cup {NoCase}]
    BY <1>1, <1>3, <1>4 DEF DecideInv
  <2>2. \A ch \in ChannelKeys : current'[ch] # NoCase =>
           current'[ch] \in OwnCases' /\ LeafOf(before'[1], current'[ch])
    BY <1>1, <1>3, <1>4 DEF DecideInv
  <2>3. \A k \in 1..Len(groups') : groups'[k].items # {} /\ groups'[k].items \subseteq 1..Size'
    BY <1>1, <1>3, <1>4 DEF DecideInv
  <2>4. \A k, j \in 1..Len(groups') : k # j => groups'[k].items \cap groups'[j].items = {}
    BY <1>1, <1>3 DEF DecideInv
  <2>5. \A k \in 1..Len(landed') : LeafOf(parent', landed'[k])
    BY <1>1, <1>8
  <2>6. verdicts' \in Seq(Verdicts)
    BY <1>6
  <2> QED
    BY <1>1, <1>7, <1>8, <1>9, <2>1, <2>2, <2>3, <2>4, <2>5, <2>6 DEF DecideInv, Verdicts
<1> QED BY <1>2, <1>10 DEF PlacementInv

LEMMA KeptByDecideCurrent ==
  ASSUME PlacementInv, DecideCurrent
  PROVE  PlacementInv'
<1> DEFINE v == [kind |-> "case", case |-> current[channel]]
<1>1. pc = "decide" /\ current[channel] # NoCase /\ Decided(v)
  BY DEF DecideCurrent
<1>2. channel \in ChannelKeys
  BY <1>1 DEF PlacementInv, BatchInv, Busy
<1>3. VerdictSound(v)
  BY <1>1, <1>2 DEF PlacementInv, DecideInv, VerdictSound
<1> QED BY <1>1, <1>3, KeptByDecided

LEMMA KeptByLevelNew ==
  ASSUME PlacementInv, NEW n \in Names, LevelNew(n)
  PROVE  PlacementInv'
<1> DEFINE v == [kind |-> "new", under |-> under, name |-> n]
<1>1. pc = "level" /\ Decided(v)
  BY DEF LevelNew
<1>2. VerdictSound(v)
  BY <1>1 DEF PlacementInv, DecideInv, VerdictSound, InnerOf
<1> QED BY <1>1, <1>2, KeptByDecided

\* Going down: the group stays undecided.
LEMMA KeptByGoingDown ==
  ASSUME PlacementInv, pc \in {"decide", "level"}, pc' = "level",
         under' = Top \/ InnerOf(before[1], under'),
         UNCHANGED <<parent, held, told, current, pending, idOf, inEvent, todo, channel, items,
                     from, groups, verdicts, landed, created, computed, before, located, omitted>>
  PROVE  PlacementInv'
<1>1. TreeInv' /\ CoverInv' /\ BatchInv' /\ LocInv'
  BY KeptWhileDeciding DEF InChunk
<1>2. DecideInv
  BY DEF PlacementInv
<1>3. Size' = Size /\ OwnCases' = OwnCases
  BY DEF Size, OwnCases
<1>4. \A w : VerdictSound(w)' <=> VerdictSound(w)
  BY <1>3 DEF VerdictSound
<1>5. DecideInv'
  BY <1>2, <1>3, <1>4 DEF DecideInv, InChunk
<1> QED BY <1>1, <1>5 DEF PlacementInv

LEMMA KeptByDescend ==
  ASSUME PlacementInv, Descend
  PROVE  PlacementInv'
  BY KeptByGoingDown DEF Descend, roleState, input

LEMMA KeptByLevelMerge ==
  ASSUME PlacementInv, NEW c \in Cases, LevelMerge(c)
  PROVE  PlacementInv'
<1>1. pc = "level" /\ c \in RoleCases /\ c \in DOMAIN parent
  BY DEF LevelMerge, Candidates, Children
<1>2. parent = before[1] /\ ~inEvent
  BY <1>1 DEF PlacementInv, TreeInv, DecideInv
<1>3. CASE IsLeaf(c) /\ Decided([kind |-> "case", case |-> c])
  <2>1. VerdictSound([kind |-> "case", case |-> c])
    BY <1>1, <1>2, <1>3 DEF VerdictSound, OwnCases, LeafOf, IsLeaf, Children
  <2> QED BY <1>1, <1>3, <2>1, KeptByDecided
<1>4. CASE ~IsLeaf(c)
  <2>1. InnerOf(before[1], c)
    BY <1>1, <1>2, <1>4 DEF InnerOf, IsLeaf, Children
  <2>2. under' = c /\ pc' = pc
        /\ UNCHANGED <<parent, held, told, current, pending, idOf, inEvent, todo, channel,
                     items, from, groups, verdicts, landed, created, computed, before, located,
                     omitted>>
    BY <1>4 DEF LevelMerge, roleState, input
  <2> QED BY <1>1, <2>1, <2>2, KeptByGoingDown
<1> QED BY <1>3, <1>4 DEF LevelMerge

LEMMA BatchKept ==
  ASSUME UNCHANGED <<channel, items, from, pending, idOf>>,
         Whole(channel, items), Ahead(channel, items, from)
  PROVE  Whole(channel, items)' /\ Ahead(channel, items, from)'
<1>1. Whole(channel, items)'
  BY DEF Whole, ItemSound, MessagesOf, Duplicates
<1>2. Ahead(channel, items, from)'
  BY DEF Ahead, BatchOf
<1> QED BY <1>1, <1>2

\* A chunk starts: the tree is as before, its groups are apart.
LEMMA KeptByStart ==
  ASSUME PlacementInv, pc = "group", NEW gs, NEW vs, StartChunk(gs, vs),
         gs \in Seq([items : SUBSET Nat, current : BOOLEAN]), gs # <<>>,
         \A k \in 1..Len(gs) : gs[k].items # {} /\ gs[k].items \subseteq 1..Size,
         \A k, j \in 1..Len(gs) : k # j => gs[k].items \cap gs[j].items = {},
         inEvent => Len(gs) = 1,
         vs \in Seq(Verdicts), \A k \in 1..Len(vs) : VerdictSound(vs[k]),
         \/ pc' = "decide" /\ ~inEvent /\ vs = <<>>
         \/ pc' = "land" /\ Len(vs) = Len(gs)
  PROVE  PlacementInv'
<1>1. /\ groups' = gs /\ verdicts' = vs /\ before' = <<parent, told>>
      /\ created' = {} /\ computed' = <<>> /\ landed' = <<>>
      /\ UNCHANGED <<parent, held, told, current, pending, idOf, inEvent, todo, channel, items,
                     from, under, located, omitted>>
  BY DEF StartChunk, roleState, input
<1>2. TreeInv /\ DecideInv /\ CoverInv /\ BatchInv /\ LocInv
  BY DEF PlacementInv
<1>3. before = <<parent, told>> /\ created = {} /\ computed = <<>> /\ landed = <<>>
  BY <1>2 DEF TreeInv, InChunk
<1>4. before' = before
  BY <1>1, <1>3
<1>5. TreeInv'
  <2>1. /\ TreeOf(parent') /\ TreeOf(before'[1])
        /\ DOMAIN held' = DOMAIN parent' /\ DOMAIN told' = DOMAIN parent'
        /\ before'[1] = parent' /\ before'[2] = told'
    BY <1>1, <1>2 DEF TreeInv
  <2>2. InChunk' /\ pc' # "summaries"
    BY DEF InChunk
  <2> QED BY <1>1, <2>1, <2>2 DEF TreeInv
<1>6. CoverInv'
  <2>1. created' = {} /\ DOMAIN computed' = {}
    BY <1>1
  <2> QED BY <1>1, <1>2, <1>3, <2>1 DEF CoverInv
<1>7. BatchInv'
  <2>1. Busy /\ Busy' /\ pc' \in {"decide", "land"}
    BY DEF Busy
  <2>2. Whole(channel, items)' /\ Ahead(channel, items, from)'
    <3>1. Whole(channel, items) /\ Ahead(channel, items, from)
      BY <1>2, <2>1 DEF BatchInv
    <3> QED BY <1>1, <3>1, BatchKept
  <2> QED BY <1>1, <1>2, <2>1, <2>2 DEF BatchInv
<1>8. LocInv'
  BY <1>1, <1>2 DEF LocInv, Remaining
<1>9. DecideInv'
  <2>1. Size' = Size /\ OwnCases' = OwnCases
    BY <1>1 DEF Size, OwnCases
  <2>2. \A k \in 1..Len(verdicts') : VerdictSound(verdicts[k])'
    BY <1>1, <1>4, <2>1 DEF VerdictSound
  <2>3. /\ current' \in [ChannelKeys -> Cases \cup {NoCase}] /\ inEvent' \in BOOLEAN
        /\ \A ch \in ChannelKeys : current'[ch] # NoCase =>
              current'[ch] \in OwnCases' /\ LeafOf(before'[1], current'[ch])
    BY <1>1, <1>2, <1>4, <2>1 DEF DecideInv
  <2>4. Len(gs) \in Nat /\ Len(gs) # 0
    OBVIOUS
  <2>5. landed' \in Seq(OwnCases') /\ Len(landed') = 0
    BY <1>1
  <2>6. /\ groups' \in Seq([items : SUBSET Nat, current : BOOLEAN])
        /\ \A k \in 1..Len(groups') : groups'[k].items # {} /\ groups'[k].items \subseteq 1..Size'
        /\ \A k, j \in 1..Len(groups') : k # j => groups'[k].items \cap groups'[j].items = {}
    BY <1>1, <2>1
  <2>7. verdicts' \in Seq(Verdicts)
    BY <1>1
  <2>8. \A k \in 1..Len(landed') : LeafOf(parent', landed'[k])
    BY <2>5
  <2>9. inEvent' = inEvent /\ Len(groups') = Len(gs) /\ Len(verdicts') = Len(vs)
    BY <1>1
  <2>10. pc' = "decide" => ~inEvent /\ Len(verdicts') < Len(groups') /\ landed' = <<>>
    BY <1>1, <2>4
  <2>11. pc' = "land" => Len(verdicts') = Len(groups') /\ Len(landed') < Len(groups')
    BY <1>1, <2>4
  <2> QED
    BY <2>2, <2>3, <2>5, <2>6, <2>7, <2>8, <2>9, <2>10, <2>11 DEF DecideInv, Verdicts
<1> QED BY <1>5, <1>6, <1>7, <1>8, <1>9 DEF PlacementInv

LEMMA KeptByGroupItems ==
  ASSUME PlacementInv, GroupItems
  PROVE  PlacementInv'
<1>1. pc = "group" /\ ~inEvent /\ pc' = "decide"
  BY DEF GroupItems
<1>2. PICK gs \in Groupings(Size) : \E marked \in SUBSET DOMAIN gs :
         StartChunk([k \in DOMAIN gs |-> [items |-> gs[k], current |-> k \in marked]], <<>>)
  BY DEF GroupItems
<1>3. PICK marked \in SUBSET DOMAIN gs :
         StartChunk([k \in DOMAIN gs |-> [items |-> gs[k], current |-> k \in marked]], <<>>)
  BY <1>2
<1> DEFINE xs == [k \in DOMAIN gs |-> [items |-> gs[k], current |-> k \in marked]]
<1>4. Size \in Nat
  BY <1>1, SizeFits DEF PlacementInv, BatchInv, Busy
<1>5. /\ Len(gs) \in Nat \ {0} /\ DOMAIN gs = 1..Len(gs)
      /\ \A k \in 1..Len(gs) : gs[k] # {} /\ gs[k] \in SUBSET (1..Size)
      /\ \A j, k \in 1..Len(gs) : j < k => \A x \in gs[j], y \in gs[k] : x < y
  BY <1>4, GroupsApart
<1>6. xs \in Seq([items : SUBSET Nat, current : BOOLEAN]) /\ Len(xs) = Len(gs) /\ xs # <<>>
  <2>1. \A k \in 1..Len(gs) : [items |-> gs[k], current |-> k \in marked]
                                \in [items : SUBSET Nat, current : BOOLEAN]
    BY <1>4, <1>5
  <2>2. xs = [k \in 1..Len(gs) |-> [items |-> gs[k], current |-> k \in marked]]
    BY <1>5
  <2>3. xs \in [1..Len(gs) -> [items : SUBSET Nat, current : BOOLEAN]]
    BY <2>1, <2>2
  <2> HIDE DEF xs
  <2>4. ASSUME NEW S, NEW n \in Nat \ {0}, NEW x \in [1..n -> S]
        PROVE  x \in Seq(S) /\ Len(x) = n /\ x # <<>>
    OBVIOUS
  <2> QED BY <1>5, <2>3, <2>4
<1>7. \A k \in 1..Len(gs) : xs[k].items = gs[k]
  BY <1>5
<1>8. \A k, j \in 1..Len(gs) : k # j => gs[k] \cap gs[j] = {}
  <2> SUFFICES ASSUME NEW k \in 1..Len(gs), NEW j \in 1..Len(gs), k # j,
                      NEW x, x \in gs[k], x \in gs[j]
               PROVE  FALSE
    OBVIOUS
  <2>1. x \in Nat
    BY <1>4, <1>5
  <2>2. k < j \/ j < k
    BY <1>5
  <2> QED BY <1>5, <2>1, <2>2
<1>9. StartChunk(xs, <<>>)
  BY <1>3
<1> HIDE DEF xs
<1>10. \A k \in 1..Len(xs) : xs[k].items # {} /\ xs[k].items \subseteq 1..Size
  BY <1>5, <1>6, <1>7
<1>11. \A k, j \in 1..Len(xs) : k # j => xs[k].items \cap xs[j].items = {}
  BY <1>6, <1>7, <1>8
<1>12. <<>> \in Seq(Verdicts) /\ \A k \in 1..Len(<<>>) : VerdictSound(<<>>[k])
  OBVIOUS
<1> QED BY <1>1, <1>6, <1>9, <1>10, <1>11, <1>12, KeptByStart

LEMMA KeptByGroupOfEvent ==
  ASSUME PlacementInv, GroupOfEvent
  PROVE  PlacementInv'
<1> DEFINE v == IF EventCase \in DOMAIN parent
                THEN [kind |-> "case", case |-> EventCase] ELSE [kind |-> "event"]
           xs == <<[items |-> 1..Size, current |-> FALSE]>>
<1>1. pc = "group" /\ inEvent /\ pc' = "land" /\ StartChunk(xs, <<v>>)
  BY DEF GroupOfEvent
<1>2. Size \in Nat \ {0}
  BY <1>1, SizeFits DEF PlacementInv, BatchInv, Busy
<1>3. TreeOf(parent) /\ before = <<parent, told>>
  BY <1>1 DEF PlacementInv, TreeInv, InChunk
<1>4. VerdictSound(v)
  <2>1. CASE EventCase \in DOMAIN parent
    <3>1. LeafOf(before[1], EventCase)
      <4> SUFFICES ASSUME NEW d \in DOMAIN parent, parent[d] = EventCase PROVE FALSE
        BY <1>3, <2>1 DEF LeafOf
      <4>1. EventCase # Top
        BY PlacementAssumption DEF Cases
      <4> QED BY <1>3, <4>1 DEF TreeOf
    <3> QED BY <1>1, <2>1, <3>1 DEF VerdictSound, OwnCases
  <2>2. CASE EventCase \notin DOMAIN parent
    BY <1>1, <1>3, <2>2 DEF VerdictSound
  <2> QED BY <2>1, <2>2
<1>5. v \in Verdicts
  BY <1>4, VerdictsTyped
<1> HIDE DEF v
<1>6. <<v>> \in Seq(Verdicts) /\ Len(<<v>>) = 1 /\ \A k \in 1..1 : <<v>>[k] = v
  BY <1>5
<1>7. /\ xs \in Seq([items : SUBSET Nat, current : BOOLEAN]) /\ Len(xs) = 1 /\ xs # <<>>
      /\ \A k \in 1..1 : xs[k].items = 1..Size
  <2>1. 1..Size \in SUBSET Nat
    BY <1>2
  <2> QED BY <2>1
<1>8. 1..Size # {}
  BY <1>2
<1> HIDE DEF xs
<1>9. \A k \in 1..Len(xs) : xs[k].items # {} /\ xs[k].items \subseteq 1..Size
  BY <1>7, <1>8
<1>10. \A k, j \in 1..Len(xs) : k # j => xs[k].items \cap xs[j].items = {}
  BY <1>7
<1>11. \A k \in 1..Len(<<v>>) : VerdictSound(<<v>>[k])
  BY <1>4, <1>6
<1> QED BY <1>1, <1>6, <1>7, <1>9, <1>10, <1>11, KeptByStart

\* A chunk that fails leaves the tree, the records and the summaries it found.
LEMMA KeptByChunkFails ==
  ASSUME PlacementInv, ChunkFails
  PROVE  PlacementInv'
<1>1. /\ Busy /\ parent' = before[1] /\ told' = before[2]
      /\ held' = [c \in DOMAIN before[1] |-> held[c]]
      /\ pc' = "failed" /\ items' = <<>> /\ from' = 0
      /\ groups' = <<>> /\ verdicts' = <<>> /\ landed' = <<>>
      /\ created' = {} /\ computed' = <<>> /\ before' = <<before[1], before[2]>>
      /\ UNCHANGED <<current, pending, idOf, inEvent, todo, channel, located, omitted>>
  BY DEF ChunkFails, ChunkEnds, Busy, input
<1>2. TreeInv /\ DecideInv /\ CoverInv /\ BatchInv /\ LocInv
  BY DEF PlacementInv
<1>3. /\ TreeOf(before[1]) /\ DOMAIN before[2] = DOMAIN before[1]
      /\ DOMAIN before[1] \subseteq DOMAIN parent /\ DOMAIN held = DOMAIN parent
      /\ \A c \in DOMAIN before[1] :
            before[1][c] = parent[c] /\ before[2][c] = told[c] /\ c \notin created
      /\ \A c \in DOMAIN parent \ DOMAIN before[1] : held[c] = {}
  BY <1>2 DEF TreeInv
<1>4. TreeInv'
  <2>1. DOMAIN held' = DOMAIN before[1] /\ before'[1] = parent' /\ before'[2] = told'
        /\ before' = <<parent', told'>> /\ ~InChunk'
    BY <1>1 DEF InChunk
  <2> QED BY <1>1, <1>3, <2>1 DEF TreeInv
<1>5. DecideInv'
  <2>1. OwnCases' = OwnCases /\ before'[1] = before[1] /\ ~InChunk'
    BY <1>1 DEF OwnCases, InChunk
  <2> QED BY <1>1, <1>2, <2>1 DEF DecideInv
<1>6. CoverInv'
  <2>1. created' = {} /\ DOMAIN computed' = {}
    BY <1>1
  <2>2. ASSUME NEW c \in DOMAIN before[1] PROVE held'[c] \subseteq told'[c]
    BY <1>1, <1>2, <1>3 DEF CoverInv
  <2>3. ASSUME NEW c \in DOMAIN before[1], NEW d \in DOMAIN before[1], before[1][d] = c
        PROVE  told'[d] \subseteq told'[c]
    <3>1. parent[d] = c /\ c \in DOMAIN parent \ created /\ d \in DOMAIN parent \ created
      BY <1>3, <2>3
    <3> QED BY <1>1, <1>2, <1>3, <3>1 DEF CoverInv
  <2> QED BY <1>1, <2>1, <2>2, <2>3 DEF CoverInv
<1>7. BatchInv'
  BY <1>1, <1>2 DEF BatchInv, Busy
<1>8. LocInv'
  <2>1. \A m : Remaining(m)' => Remaining(m)
    <3>1. Len(items') = 0
      BY <1>1
    <3> QED BY <1>1, <3>1 DEF Remaining
  <2>2. \A r \in pending : \A c \in DOMAIN held' : r \notin held'[c]
    BY <1>1, <1>2, <1>3 DEF LocInv
  <2>3. ASSUME NEW r \in StoredRecords \ (pending \cup omitted)
        PROVE  /\ \E c \in DOMAIN held' : r \in held'[c]
               /\ \A c, d \in DOMAIN held' : r \in held'[c] /\ r \in held'[d] => c = d
    <3>1. PICK c \in DOMAIN held : r \in held[c]
      BY <1>2 DEF LocInv
    <3>2. c \in DOMAIN before[1]
      BY <1>3, <3>1
    <3>3. \A x, y \in DOMAIN held : r \in held[x] /\ r \in held[y] => x = y
      BY <1>2 DEF LocInv
    <3> QED BY <1>1, <1>3, <3>1, <3>2, <3>3
  <2> QED BY <1>1, <1>2, <2>1, <2>2, <2>3 DEF LocInv
<1> QED BY <1>4, <1>5, <1>6, <1>7, <1>8 DEF PlacementInv

LEMMA NewRecordsAre ==
  ASSUME NEW S, landed \in Seq(S), NEW c
  PROVE  \A r : r \in NewRecords(c) <=>
            \E k \in 1..Len(landed) : landed[k] = c /\ r \in StoredAt(groups[k].items)
<1>1. DOMAIN landed = 1..Len(landed)
  OBVIOUS
<1> QED BY <1>1 DEF NewRecords

LEMMA NewRecordsGrow ==
  ASSUME NEW S, landed \in Seq(S), NEW l, landed' = Append(landed, l), l \in S,
         UNCHANGED <<groups, items, from>>, NEW c
  PROVE  \A r : r \in NewRecords(c)' <=>
            \/ r \in NewRecords(c)
            \/ c = l /\ r \in StoredAt(groups[Len(landed) + 1].items)
<1>1. \A G : StoredAt(G)' = StoredAt(G)
  BY DEF StoredAt, Item
<1>2. landed' \in Seq(S) /\ Len(landed') = Len(landed) + 1 /\ Len(landed) \in Nat
      /\ \A k \in 1..Len(landed') :
            landed'[k] = IF k = Len(landed) + 1 THEN l ELSE landed[k]
  OBVIOUS
<1>3. \A r : r \in NewRecords(c)' <=>
            \E k \in 1..Len(landed') : landed'[k] = c /\ r \in StoredAt(groups[k].items)
  <2>1. DOMAIN landed' = 1..Len(landed')
    BY <1>2
  <2> QED BY <1>1, <2>1 DEF NewRecords
<1> QED BY <1>2, <1>3, NewRecordsAre

\* Land in two parts: the group is landed, and perhaps the tree has a new case.
LandsAt(l) ==
    /\ landed' = Append(landed, l)
    /\ pc' = IF Len(landed) + 1 = Len(groups) THEN "summaries" ELSE "land"
    /\ UNCHANGED <<current, pending, idOf, inEvent, todo, channel, items, from, groups,
                   verdicts, under, computed, before, located, omitted>>
TreeGrows(l, p, T) ==
    /\ parent' = [d \in DOMAIN parent \cup {l} |-> IF d = l THEN p ELSE parent[d]]
    /\ held' = [d \in DOMAIN held \cup {l} |-> IF d = l THEN {} ELSE held[d]]
    /\ told' = [d \in DOMAIN told \cup {l} |-> IF d = l THEN T ELSE told[d]]

\* What landing a group leaves alone, and what it says of the case it lands at.
LEMMA KeptByLanding ==
  ASSUME PlacementInv, pc = "land", NEW l, l \in OwnCases, LandsAt(l),
         TreeInv', LeafOf(parent', l),
         \A c : LeafOf(parent, c) /\ c # l => LeafOf(parent', c)
  PROVE  DecideInv' /\ BatchInv'
<1> USE DEF LandsAt
<1>1. DecideInv /\ BatchInv
  BY DEF PlacementInv
<1>2. BatchInv'
  <2>1. Busy /\ Busy' /\ pc' \in {"land", "summaries"}
    BY DEF Busy
  <2>2. Whole(channel, items) /\ Ahead(channel, items, from)
    BY <1>1, <2>1 DEF BatchInv
  <2>3. Whole(channel, items)' /\ Ahead(channel, items, from)'
    BY <2>2, BatchKept
  <2> QED BY <1>1, <2>1, <2>3 DEF BatchInv
<1>3. Size' = Size /\ OwnCases' = OwnCases
  BY DEF Size, OwnCases
<1>4. \A v : VerdictSound(v)' <=> VerdictSound(v)
  BY <1>3 DEF VerdictSound
<1>5. /\ landed \in Seq(OwnCases) /\ Len(landed) < Len(groups) /\ Len(verdicts) = Len(groups)
      /\ \A k \in 1..Len(landed) : LeafOf(parent, landed[k])
  BY <1>1 DEF DecideInv
<1>6. landed' \in Seq(OwnCases) /\ Len(landed') = Len(landed) + 1 /\ Len(landed) \in Nat
      /\ landed' # <<>>
      /\ \A k \in 1..Len(landed') :
            landed'[k] = IF k = Len(landed) + 1 THEN l ELSE landed[k]
  BY <1>5
<1>7. \A k \in 1..Len(landed') : LeafOf(parent', landed'[k])
  BY <1>5, <1>6
<1>8. /\ pc' = "land" => Len(landed') < Len(groups)
      /\ pc' = "summaries" => Len(landed') = Len(groups)
      /\ pc' \in {"land", "summaries"}
  <2>1. Len(groups) \in Nat
    BY <1>1 DEF DecideInv
  <2> QED BY <1>5, <1>6, <2>1
<1>9. /\ current' \in [ChannelKeys -> Cases \cup {NoCase}] /\ inEvent' \in BOOLEAN
      /\ \A ch \in ChannelKeys : current'[ch] # NoCase =>
            current'[ch] \in OwnCases' /\ LeafOf(before'[1], current'[ch])
  BY <1>1, <1>3 DEF DecideInv
<1>10. /\ groups' \in Seq([items : SUBSET Nat, current : BOOLEAN])
       /\ \A k \in 1..Len(groups') : groups'[k].items # {} /\ groups'[k].items \subseteq 1..Size'
       /\ \A k, j \in 1..Len(groups') : k # j => groups'[k].items \cap groups'[j].items = {}
  BY <1>1, <1>3 DEF DecideInv
<1>11. verdicts' \in Seq(Verdicts) /\ \A k \in 1..Len(verdicts') : VerdictSound(verdicts[k])'
  BY <1>1, <1>4 DEF DecideInv, Verdicts
<1>12. inEvent' /\ InChunk' => Len(groups') = 1
  BY <1>1 DEF DecideInv, InChunk
<1>13. DecideInv'
  BY <1>3, <1>5, <1>6, <1>7, <1>8, <1>9, <1>10, <1>11, <1>12 DEF DecideInv, Verdicts
<1> QED BY <1>2, <1>13

\* No case that was a leaf before the chunk gets a child.
LEMMA LeavesStay ==
  ASSUME TreeInv, NEW c, LeafOf(before[1], c)
  PROVE  LeafOf(parent, c)
<1>1. c \in DOMAIN parent
  BY DEF TreeInv, LeafOf
<1>2. ASSUME NEW d \in DOMAIN parent, parent[d] = c PROVE FALSE
  <2>1. d \notin DOMAIN before[1]
    BY <1>2 DEF TreeInv, LeafOf
  <2>2. parent[d] = Top \/ InnerOf(before[1], parent[d])
    BY <2>1 DEF TreeInv
  <2>3. c # Top
    BY <1>1, PlacementAssumption DEF TreeInv, TreeOf
  <2> QED BY <1>2, <2>2, <2>3 DEF InnerOf, LeafOf
<1> QED BY <1>1, <1>2 DEF LeafOf

\* A group lands at a case there is.
LEMMA KeptByLandingAt ==
  ASSUME PlacementInv, pc = "land", NEW l, l \in OwnCases, LandsAt(l),
         UNCHANGED <<parent, held, told, created>>,
         LeafOf(before[1], l)
  PROVE  PlacementInv'
<1> USE DEF LandsAt
<1>1. TreeInv /\ DecideInv /\ CoverInv /\ BatchInv /\ LocInv
  BY DEF PlacementInv
<1>2. l \in DOMAIN before[1] /\ l \notin created
  BY <1>1 DEF LeafOf, TreeInv
<1>3. landed \in Seq(OwnCases) /\ computed = <<>>
  BY <1>1 DEF DecideInv, TreeInv
<1>4. landed' \in Seq(OwnCases) /\ Len(landed') = Len(landed) + 1 /\ Len(landed) \in Nat
      /\ landed' # <<>>
      /\ \A k \in 1..Len(landed) : landed'[k] = landed[k] /\ k \in 1..Len(landed')
  BY <1>3
<1>5. InChunk' /\ InChunk
  BY DEF InChunk
<1>6. TreeInv'
  <2>1. \A c \in DOMAIN parent \ DOMAIN before[1] : \E k \in 1..Len(landed') : landed'[k] = c
    <3>1. \A c \in DOMAIN parent \ DOMAIN before[1] : \E k \in 1..Len(landed) : landed[k] = c
      BY <1>1 DEF TreeInv
    <3> QED BY <1>4, <3>1
  <2> QED BY <1>1, <1>3, <1>4, <1>5, <2>1 DEF TreeInv
<1>7. \A c : LeafOf(before[1], c) => LeafOf(parent, c)
  BY <1>1, LeavesStay
<1>8. LeafOf(parent', l)
  BY <1>7
<1>9. DecideInv' /\ BatchInv'
  BY <1>6, <1>8, KeptByLanding
<1>10. CoverInv'
  <2>1. DOMAIN computed = {}
    BY <1>3
  <2>2. \A c \in created : \A r : r \in NewRecords(c)' <=> r \in NewRecords(c)
    BY <1>2, <1>3, NewRecordsGrow
  <2>3. \A c \in created : NewRecords(c) \subseteq told[c]
    BY <1>1 DEF CoverInv
  <2>4. \A c \in created' : NewRecords(c)' \subseteq told'[c]
    BY <2>2, <2>3
  <2> QED BY <1>1, <2>1, <2>4 DEF CoverInv
<1>11. LocInv'
  BY <1>1 DEF LocInv, Remaining
<1> QED BY <1>6, <1>9, <1>10, <1>11 DEF PlacementInv

\* A group lands at a new case.
LEMMA KeptByLandingNew ==
  ASSUME PlacementInv, pc = "land", NEW l, l \in OwnCases, LandsAt(l),
         l \notin DOMAIN parent,
         NEW p, p = Top \/ InnerOf(before[1], p), l = EventCase => p = Top,
         NEW T,
         TreeGrows(l, p, T),
         \/ /\ created' = created \cup {l}
            /\ StoredAt(groups[Len(landed) + 1].items) \subseteq T
         \/ created' = created /\ T = {} /\ l = EventCase
  PROVE  PlacementInv'
<1> USE DEF LandsAt
<1>1. TreeInv /\ DecideInv /\ CoverInv /\ BatchInv /\ LocInv
  BY DEF PlacementInv
<1>2. /\ TreeOf(parent) /\ TreeOf(before[1])
      /\ DOMAIN held = DOMAIN parent /\ DOMAIN told = DOMAIN parent
      /\ DOMAIN before[1] \subseteq DOMAIN parent /\ DOMAIN before[2] = DOMAIN before[1]
      /\ \A c \in DOMAIN before[1] : before[1][c] = parent[c] /\ before[2][c] = told[c]
      /\ created \subseteq DOMAIN parent \ DOMAIN before[1]
      /\ computed = <<>>
  BY <1>1 DEF TreeInv
<1>3. l \in Cases /\ Top \notin Cases /\ l # Top /\ EventCase \notin RoleCases
  BY PlacementAssumption DEF OwnCases, Cases
<1>4. /\ DOMAIN parent' = DOMAIN parent \cup {l} /\ DOMAIN held' = DOMAIN parent'
      /\ DOMAIN told' = DOMAIN parent'
      /\ parent'[l] = p /\ held'[l] = {} /\ told'[l] = T
      /\ \A c \in DOMAIN parent :
            /\ c # l /\ parent'[c] = parent[c] /\ held'[c] = held[c] /\ told'[c] = told[c]
  BY <1>2 DEF TreeGrows
<1>5. p = Top \/ (p \in DOMAIN parent /\ p # EventCase /\ p # l /\ parent[p] = Top)
  <2>1. CASE InnerOf(before[1], p)
    <3>1. p \in RoleCases /\ p \in DOMAIN before[1]
      BY <2>1 DEF InnerOf
    <3>2. PICK d \in DOMAIN before[1] : before[1][d] = p
      BY <2>1 DEF InnerOf
    <3>3. p # Top
      BY <1>2, <1>3, <3>1 DEF TreeOf
    <3>4. before[1][p] = Top
      BY <1>2, <3>2, <3>3 DEF TreeOf
    <3> QED BY <1>2, <1>3, <3>1, <3>4
  <2> QED BY <2>1
<1>6. TreeOf(parent')
  <2>1. DOMAIN parent' \subseteq Cases /\ parent' = [c \in DOMAIN parent' |-> parent'[c]]
    BY <1>2, <1>3, <1>4 DEF TreeOf, TreeGrows
  <2>2. ASSUME NEW c \in DOMAIN parent'
        PROVE  /\ parent'[c] \in DOMAIN parent' \cup {Top}
               /\ c = EventCase => parent'[c] = Top
               /\ parent'[c] # Top => parent'[c] \notin {c, EventCase}
                                      /\ parent'[parent'[c]] = Top
    <3>1. CASE c = l
      BY <1>4, <1>5, <3>1
    <3>2. CASE c \in DOMAIN parent
      BY <1>2, <1>4, <3>2 DEF TreeOf
    <3> QED BY <1>4, <3>1, <3>2
  <2> QED BY <2>1, <2>2 DEF TreeOf
<1>7. landed \in Seq(OwnCases) /\ \A k \in 1..Len(landed) : LeafOf(parent, landed[k])
  BY <1>1 DEF DecideInv
<1>8. landed' \in Seq(OwnCases) /\ Len(landed') = Len(landed) + 1 /\ Len(landed) \in Nat
      /\ landed' # <<>> /\ Len(landed') \in 1..Len(landed') /\ landed'[Len(landed')] = l
      /\ \A k \in 1..Len(landed) : landed'[k] = landed[k] /\ k \in 1..Len(landed')
  BY <1>7
<1>9. TreeInv'
  <2>1. created' \subseteq DOMAIN parent' \ DOMAIN before[1]
    BY <1>2, <1>4
  <2>2. ASSUME NEW c \in DOMAIN parent' \ DOMAIN before[1]
        PROVE  /\ held'[c] = {} /\ (\E k \in 1..Len(landed') : landed'[k] = c)
               /\ parent'[c] = Top \/ InnerOf(before[1], parent'[c])
               /\ c \notin created' => told'[c] = {} /\ c = EventCase
    <3>1. CASE c = l
      BY <1>4, <1>8, <3>1
    <3>2. CASE c \in DOMAIN parent \ DOMAIN before[1]
      <4>1. /\ held[c] = {} /\ (\E k \in 1..Len(landed) : landed[k] = c)
            /\ parent[c] = Top \/ InnerOf(before[1], parent[c])
            /\ c \notin created => told[c] = {} /\ c = EventCase
        BY <1>1, <3>2 DEF TreeInv
      <4> QED BY <1>4, <1>8, <3>2, <4>1
    <3> QED BY <1>4, <3>1, <3>2
  <2>3. InChunk' /\ pc' \in {"land", "summaries"}
    BY DEF InChunk
  <2>4. \A c \in DOMAIN before[1] : before[1][c] = parent'[c] /\ before[2][c] = told'[c]
    BY <1>2, <1>4
  <2>5. DOMAIN before[1] \subseteq DOMAIN parent'
    BY <1>2, <1>4
  <2> QED BY <1>2, <1>4, <1>6, <1>8, <2>1, <2>2, <2>3, <2>4, <2>5 DEF TreeInv
<1>10. ASSUME NEW d \in DOMAIN parent' PROVE parent'[d] # l
  BY <1>2, <1>3, <1>4, <1>5 DEF TreeOf
<1>11. LeafOf(parent', l)
  BY <1>4, <1>10 DEF LeafOf
<1>12. ASSUME NEW c, LeafOf(parent, c), c # l PROVE LeafOf(parent', c)
  <2>1. p # c
    <3>1. CASE p = Top
      BY <1>2, <1>3, <1>12, <3>1 DEF LeafOf, TreeOf
    <3>2. CASE InnerOf(before[1], p)
      BY <1>2, <1>12, <3>2 DEF LeafOf, InnerOf
    <3> QED BY <3>1, <3>2
  <2> QED BY <1>4, <1>12, <2>1 DEF LeafOf
<1>13. DecideInv' /\ BatchInv'
  BY <1>9, <1>11, <1>12, KeptByLanding
<1>14. CoverInv'
  <2>1. DOMAIN computed' = {}
    BY <1>2
  <2>2. ASSUME NEW c \in created' PROVE NewRecords(c)' \subseteq told'[c]
    <3>1. \A r : r \in NewRecords(c)' <=>
             r \in NewRecords(c) \/ (c = l /\ r \in StoredAt(groups[Len(landed) + 1].items))
      BY <1>7, NewRecordsGrow
    <3>2. CASE c \in created
      <4>1. NewRecords(c) \subseteq told[c] /\ c # l /\ told'[c] = told[c]
        BY <1>1, <1>2, <1>4, <3>2 DEF CoverInv
      <4> QED BY <3>1, <4>1
    <3>3. CASE c = l /\ c \notin created
      <4>1. \A r : r \notin NewRecords(l)
        BY <1>7, NewRecordsAre DEF LeafOf
      <4>2. StoredAt(groups[Len(landed) + 1].items) \subseteq T
        BY <2>2, <3>3
      <4> QED BY <1>4, <3>1, <3>3, <4>1, <4>2
    <3> QED BY <2>2, <3>2, <3>3
  <2>3. ASSUME NEW c \in DOMAIN parent' \ created' PROVE held'[c] \subseteq told'[c]
    BY <1>1, <1>2, <1>4 DEF CoverInv
  <2>4. ASSUME NEW c \in DOMAIN parent' \ created', NEW d \in DOMAIN parent' \ created',
               parent'[d] = c
        PROVE  told'[d] \subseteq told'[c]
    <3>1. c # l
      BY <1>10, <2>4
    <3>2. CASE d = l
      <4>1. d = EventCase /\ parent'[d] = Top
        BY <1>4, <2>4, <3>2
      <4> QED BY <1>3, <1>6, <2>4, <4>1 DEF TreeOf
    <3>3. CASE d # l
      <4>1. /\ c \in DOMAIN parent \ created /\ d \in DOMAIN parent \ created /\ parent[d] = c
            /\ told'[c] = told[c] /\ told'[d] = told[d]
        BY <1>4, <2>4, <3>1, <3>3
      <4>2. told[d] \subseteq told[c]
        BY <1>1, <4>1 DEF CoverInv
      <4> QED BY <4>1, <4>2
    <3> QED BY <3>2, <3>3
  <2> QED BY <2>1, <2>2, <2>3, <2>4 DEF CoverInv
<1>15. LocInv'
  <2>1. \A m : Remaining(m)' <=> Remaining(m)
    BY DEF Remaining
  <2>2. pc # "failed" /\ pc' # "failed"
    OBVIOUS
  <2>3. \A r \in pending : \A c \in DOMAIN held' : r \notin held'[c]
    BY <1>1, <1>2, <1>4 DEF LocInv
  <2>4. ASSUME NEW r \in StoredRecords \ (pending \cup omitted)
        PROVE  /\ \E c \in DOMAIN held' : r \in held'[c]
               /\ \A c, d \in DOMAIN held' : r \in held'[c] /\ r \in held'[d] => c = d
    <3>1. /\ \E c \in DOMAIN held : r \in held[c]
          /\ \A c, d \in DOMAIN held : r \in held[c] /\ r \in held[d] => c = d
      BY <1>1 DEF LocInv
    <3> QED BY <1>2, <1>4, <3>1
  <2> QED BY <1>1, <2>1, <2>2, <2>3, <2>4 DEF LocInv
<1> QED BY <1>9, <1>13, <1>14, <1>15 DEF PlacementInv

LEMMA KeptByLand ==
  ASSUME PlacementInv, Land
  PROVE  PlacementInv'
<1> DEFINE v == verdicts[Len(landed) + 1]
           G == groups[Len(landed) + 1].items
<1>1. /\ pc = "land" /\ Len(landed) < Len(groups)
      /\ \/ /\ v.kind = "case" /\ landed' = Append(landed, v.case)
            /\ UNCHANGED <<parent, held, told, created>>
         \/ /\ v.kind = "new" /\ NameLeft(v.name)
            /\ landed' = Append(landed, FreeName(v.name))
            /\ Create(FreeName(v.name), v.under, G)
         \/ /\ v.kind = "event" /\ landed' = Append(landed, EventCase)
            /\ \/ StoredAt(G) = {} /\ Create(EventCase, Top, G)
               \/ /\ StoredAt(G) # {}
                  /\ parent' = [d \in DOMAIN parent \cup {EventCase} |->
                                  IF d = EventCase THEN Top ELSE parent[d]]
                  /\ held' = [d \in DOMAIN held \cup {EventCase} |->
                                IF d = EventCase THEN {} ELSE held[d]]
                  /\ told' = [d \in DOMAIN told \cup {EventCase} |->
                                IF d = EventCase THEN {} ELSE told[d]]
                  /\ UNCHANGED created
      /\ pc' = IF Len(landed) + 1 = Len(groups) THEN "summaries" ELSE "land"
      /\ UNCHANGED <<current, pending, idOf, inEvent, todo, channel, items, from, groups,
                     verdicts, under, computed, before, located, omitted>>
  BY DEF Land, input
<1>2. VerdictSound(v)
  <2>1. DecideInv
    BY DEF PlacementInv
  <2>2. Len(landed) + 1 \in 1..Len(verdicts)
    BY <1>1, <2>1 DEF DecideInv
  <2> QED BY <2>1, <2>2 DEF DecideInv
<1>3. StoredAt(G) \subseteq TextOf(G)
  BY DEF StoredAt, TextOf
<1> HIDE DEF v, G
<1>4. CASE v.kind = "case" /\ landed' = Append(landed, v.case)
           /\ UNCHANGED <<parent, held, told, created>>
  <2>1. v.case \in OwnCases /\ LeafOf(before[1], v.case)
    BY <1>2, <1>4 DEF VerdictSound
  <2>2. LandsAt(v.case)
    BY <1>1, <1>4 DEF LandsAt
  <2> QED BY <1>1, <1>4, <2>1, <2>2, KeptByLandingAt
<1>5. CASE v.kind = "new" /\ NameLeft(v.name) /\ landed' = Append(landed, FreeName(v.name))
           /\ Create(FreeName(v.name), v.under, G)
  <2>1. ~inEvent /\ v.name \in Names /\ (v.under = Top \/ InnerOf(before[1], v.under))
    BY <1>2, <1>5 DEF VerdictSound
  <2> DEFINE l == FreeName(v.name)
  <2>2. l \in RoleCases \ DOMAIN parent
    BY <1>5, <2>1, FreeNameIsNew
  <2>3. l \in OwnCases /\ l # EventCase
    BY <2>1, <2>2, PlacementAssumption DEF OwnCases
  <2>4. landed' = Append(landed, l) /\ Create(l, v.under, G)
    BY <1>5
  <2> HIDE DEF l
  <2>5. TreeGrows(l, v.under, TextOf(G)) /\ created' = created \cup {l} /\ LandsAt(l)
    BY <1>1, <2>4 DEF Create, TreeGrows, LandsAt
  <2>6. StoredAt(groups[Len(landed) + 1].items) \subseteq TextOf(G)
    BY <1>3 DEF G
  <2> QED BY <1>1, <2>1, <2>2, <2>3, <2>4, <2>5, <2>6, KeptByLandingNew
<1>6. CASE /\ v.kind = "event" /\ landed' = Append(landed, EventCase)
           /\ \/ StoredAt(G) = {} /\ Create(EventCase, Top, G)
              \/ /\ StoredAt(G) # {}
                 /\ parent' = [d \in DOMAIN parent \cup {EventCase} |->
                                 IF d = EventCase THEN Top ELSE parent[d]]
                 /\ held' = [d \in DOMAIN held \cup {EventCase} |->
                               IF d = EventCase THEN {} ELSE held[d]]
                 /\ told' = [d \in DOMAIN told \cup {EventCase} |->
                               IF d = EventCase THEN {} ELSE told[d]]
                 /\ UNCHANGED created
  <2>1. inEvent /\ EventCase \notin DOMAIN before[1]
    BY <1>2, <1>6 DEF VerdictSound
  <2>2. EventCase \in OwnCases
    BY <2>1 DEF OwnCases
  <2>3. EventCase \notin DOMAIN parent
    <3>1. Len(groups) = 1 /\ landed \in Seq(OwnCases)
      BY <1>1, <2>1 DEF PlacementInv, DecideInv, InChunk
    <3>2. landed = <<>>
      BY <1>1, <3>1
    <3> QED BY <2>1, <3>2 DEF PlacementInv, TreeInv
  <2>4. StoredAt(groups[Len(landed) + 1].items) \subseteq TextOf(G)
    BY <1>3 DEF G
  <2>5. CASE StoredAt(G) = {} /\ Create(EventCase, Top, G)
    <3>1. TreeGrows(EventCase, Top, TextOf(G)) /\ created' = created \cup {EventCase}
          /\ LandsAt(EventCase)
      BY <1>1, <1>6, <2>5 DEF Create, TreeGrows, LandsAt
    <3> QED BY <1>1, <2>2, <2>3, <2>4, <3>1, KeptByLandingNew
  <2>6. CASE StoredAt(G) # {}
    <3>1. TreeGrows(EventCase, Top, {}) /\ created' = created /\ LandsAt(EventCase)
      BY <1>1, <1>6, <2>6 DEF TreeGrows, LandsAt
    <3> QED BY <1>1, <2>2, <2>3, <3>1, KeptByLandingNew
  <2> QED BY <1>6, <2>5, <2>6
<1> QED BY <1>1, <1>4, <1>5, <1>6 DEF v, G

LEMMA AffectedAre ==
  ASSUME TreeInv
  PROVE  /\ Affected \subseteq DOMAIN parent
         /\ \A c \in Touched : c \in Affected
         /\ \A d \in Touched : parent[d] # Top => parent[d] \in Affected
         /\ \A c \in Affected : c \in Touched \/ \E d \in DOMAIN parent : parent[d] = c
         /\ ToSummarise = (Affected \ created) \ DOMAIN computed
<1>1. Touched \subseteq DOMAIN parent
  BY DEF Touched, TreeInv
<1>2. \A d \in Touched : Ancestors(d) = {parent[d]} \cap DOMAIN parent
  BY <1>1, AncestorsAre DEF TreeInv
<1>3. \A d \in Touched : parent[d] # Top => parent[d] \in DOMAIN parent
  BY <1>1 DEF TreeInv, TreeOf
<1>4. \A c : c \in Affected <=> c \in Touched \/ \E d \in Touched : c \in Ancestors(d)
  BY DEF Affected
<1> QED BY <1>1, <1>2, <1>3, <1>4 DEF ToSummarise, Affected

LEMMA KeptBySummarise ==
  ASSUME PlacementInv, NEW c \in Cases, Summarise(c)
  PROVE  PlacementInv'
<1>1. /\ pc = "summaries" /\ c \in ToSummarise /\ IsNext(c)
      /\ computed' = [d \in DOMAIN computed \cup {c} |->
                        IF d = c THEN SummaryOf(c) ELSE computed[d]]
      /\ UNCHANGED <<parent, held, told, current, pending, idOf, inEvent, pc, todo, channel,
                     items, from, groups, verdicts, under, landed, created, before, located,
                     omitted>>
  BY DEF Summarise, roleState, input
<1>2. TreeInv /\ DecideInv /\ CoverInv /\ BatchInv /\ LocInv
  BY DEF PlacementInv
<1>3. TreeInv'
  BY <1>1, <1>2 DEF TreeInv, InChunk
<1>4. DecideInv'
  <2>1. Size' = Size /\ OwnCases' = OwnCases
    BY <1>1 DEF Size, OwnCases
  <2>2. \A v : VerdictSound(v)' <=> VerdictSound(v)
    BY <1>1, <2>1 DEF VerdictSound
  <2> QED BY <1>1, <1>2, <2>1, <2>2 DEF DecideInv, InChunk
<1>5. BatchInv'
  <2>1. Busy /\ Busy'
    BY <1>1 DEF Busy
  <2>2. Whole(channel, items) /\ Ahead(channel, items, from)
    BY <1>2, <2>1 DEF BatchInv
  <2>3. Whole(channel, items)' /\ Ahead(channel, items, from)'
    BY <1>1, <2>2, BatchKept
  <2> QED BY <1>1, <1>2, <2>1, <2>3 DEF BatchInv
<1>6. LocInv'
  BY <1>1, <1>2 DEF LocInv, Remaining
<1>7. /\ \A d : NewRecords(d)' = NewRecords(d) /\ Children(d)' = Children(d)
      /\ Affected' = Affected
  <2>1. \A d : NewRecords(d)' = NewRecords(d)
    BY <1>1 DEF NewRecords, StoredAt, Item
  <2>2. \A d : Children(d)' = Children(d)
    BY <1>1 DEF Children
  <2>3. Touched' = Touched
    BY <1>1, <2>1 DEF Touched
  <2>4. \A d : Ancestors(d)' = Ancestors(d)
    BY <1>1 DEF Ancestors
  <2>5. Affected' = Affected
    BY <2>3, <2>4 DEF Affected
  <2> QED BY <2>1, <2>2, <2>5
<1>8. /\ ToSummarise = (Affected \ created) \ DOMAIN computed
      /\ Affected \subseteq DOMAIN parent
  BY <1>2, AffectedAre
<1>9. ToSummarise' = (Affected \ created) \ DOMAIN computed'
  BY <1>1, <1>7 DEF ToSummarise, Affected
<1>10. /\ DOMAIN computed' = DOMAIN computed \cup {c} /\ c \notin DOMAIN computed
       /\ computed'[c] = SummaryOf(c)
       /\ \A d \in DOMAIN computed : computed'[d] = computed[d]
  BY <1>1, <1>8
<1>11. \A d : d # c => Latest(d)' = Latest(d)
  BY <1>1, <1>10 DEF Latest
<1>12. \A d : d \notin ToSummarise => d \notin ToSummarise' /\ d # c
  BY <1>1, <1>8, <1>9, <1>10
<1>13. c \in Affected /\ c \in DOMAIN parent \ created
  BY <1>1, <1>8
<1>14. \A d \in Children(c) : d \notin ToSummarise /\ d # c
  <2> SUFFICES ASSUME NEW d \in DOMAIN parent, parent[d] = c
               PROVE  d \notin ToSummarise /\ d # c
    BY DEF Children
  <2>1. TreeOf(parent) /\ c # Top
    BY <1>2, <1>13, PlacementAssumption DEF TreeInv, TreeOf
  <2>2. parent[c] = Top /\ d # c
    BY <2>1 DEF TreeOf
  <2>3. Depth(d) = 1 /\ Depth(c) = 0
    BY <1>13, <2>1, <2>2, DepthIs
  <2> QED BY <1>1, <2>2, <2>3 DEF IsNext
<1>15. \A d \in Children(c) : Latest(d) \subseteq SummaryOf(c)
  BY DEF SummaryOf, Latest
<1>16. held[c] \cup NewRecords(c) \subseteq SummaryOf(c)
  BY DEF SummaryOf
<1>17. CoverInv'
  <2>1. ASSUME NEW e \in DOMAIN computed'
        PROVE  /\ e \in Affected /\ e \in DOMAIN parent \ created
               /\ held[e] \cup NewRecords(e) \subseteq computed'[e]
               /\ \A d \in Children(e) : d \notin ToSummarise' /\ Latest(d)' \subseteq computed'[e]
    <3>1. CASE e = c
      BY <1>10, <1>11, <1>12, <1>13, <1>14, <1>15, <1>16, <3>1
    <3>2. CASE e \in DOMAIN computed
      <4>1. /\ e \in Affected /\ e \in DOMAIN parent \ created
            /\ held[e] \cup NewRecords(e) \subseteq computed[e]
            /\ \A d \in Children(e) : d \notin ToSummarise /\ Latest(d) \subseteq computed[e]
        BY <1>2, <3>2 DEF CoverInv
      <4> QED BY <1>10, <1>11, <1>12, <3>2, <4>1
    <3> QED BY <1>10, <3>1, <3>2
  <2> QED BY <1>1, <1>2, <1>7, <2>1 DEF CoverInv
<1> QED BY <1>3, <1>4, <1>5, <1>6, <1>17 DEF PlacementInv

\* When nothing is left to summarise, every case's latest summary tells of its
\* records, old and new, and of what the latest summaries below it tell of.
LEMMA AllSummarised ==
  ASSUME TreeInv, CoverInv, ToSummarise = {}, NEW c \in DOMAIN parent
  PROVE  /\ held[c] \cup NewRecords(c) \subseteq Latest(c)
         /\ \A d \in DOMAIN parent : parent[d] = c => Latest(d) \subseteq Latest(c)
<1>1. /\ TreeOf(parent) /\ TreeOf(before[1])
      /\ DOMAIN before[1] \subseteq DOMAIN parent
      /\ \A x \in DOMAIN before[1] : before[1][x] = parent[x]
      /\ created \subseteq DOMAIN parent \ DOMAIN before[1]
      /\ \A x \in DOMAIN parent \ DOMAIN before[1] :
            held[x] = {} /\ (parent[x] = Top \/ InnerOf(before[1], parent[x]))
  BY DEF TreeInv
<1>2. c # Top /\ \A x \in DOMAIN parent : x # Top
  BY <1>1, PlacementAssumption DEF TreeOf
<1>3. \A x \in DOMAIN computed : x \in Affected /\ x \in DOMAIN parent \ created
  BY DEF CoverInv
<1>4. CASE c \in created
  <2>1. Latest(c) = told[c] /\ held[c] = {} /\ NewRecords(c) \subseteq told[c]
    BY <1>1, <1>3, <1>4 DEF Latest, CoverInv
  <2>2. ASSUME NEW d \in DOMAIN parent, parent[d] = c PROVE FALSE
    <3>1. CASE d \in DOMAIN before[1]
      BY <1>1, <1>2, <1>4, <2>2, <3>1 DEF TreeOf
    <3>2. CASE d \notin DOMAIN before[1]
      BY <1>1, <1>2, <1>4, <2>2, <3>2 DEF InnerOf
    <3> QED BY <3>1, <3>2
  <2> QED BY <2>1, <2>2
<1>5. CASE c \in DOMAIN computed
  BY <1>5 DEF CoverInv, Latest, Children
<1>6. CASE c \notin created /\ c \notin DOMAIN computed
  <2>1. c \notin Affected
    BY <1>6, AffectedAre
  <2>2. c \notin Touched
    BY <2>1, AffectedAre
  <2>3. NewRecords(c) = {} /\ held[c] \subseteq told[c] /\ Latest(c) = told[c]
    BY <1>6, <2>2 DEF Touched, CoverInv, Latest
  <2>4. ASSUME NEW d \in DOMAIN parent, parent[d] = c
        PROVE  Latest(d) \subseteq Latest(c)
    <3>1. d \notin Touched
      BY <1>2, <2>1, <2>4, AffectedAre
    <3>2. d \notin created
      BY <3>1 DEF Touched
    <3>3. d \notin DOMAIN computed
      <4> SUFFICES ASSUME d \in DOMAIN computed PROVE FALSE
        OBVIOUS
      <4>1. PICK e \in DOMAIN parent : parent[e] = d
        BY <1>3, <3>1, AffectedAre
      <4>2. parent[d] = Top
        BY <1>1, <1>2, <4>1 DEF TreeOf
      <4> QED BY <1>2, <2>4, <4>2
    <3> QED BY <1>6, <2>3, <2>4, <3>2, <3>3 DEF Latest, CoverInv
  <2> QED BY <2>3, <2>4
<1> QED BY <1>4, <1>5, <1>6

\* The items of the chunk: each is of the channel, none comes twice.
LEMMA ChunkItems ==
  ASSUME BatchInv, Busy
  PROVE  /\ Size \in Nat \ {0} /\ from + Size <= Len(items)
         /\ from \in Nat /\ Len(items) \in Nat
         /\ \A j \in 1..Size :
               /\ from + j \in 1..Len(items) /\ Item(j) \in BatchItems
               /\ Item(j).messages \subseteq MessagesOf(channel)
               /\ Item(j).of \in StoredRecords => Item(j).of \in pending
         /\ \A i, j \in 1..Len(items) : i # j =>
               items[i].of # items[j].of /\ items[i].messages \cap items[j].messages = {}
<1>1. /\ Whole(channel, items) /\ Ahead(channel, items, from)
      /\ from \in Nat /\ Len(items) \in Nat /\ from < Len(items)
  BY DEF BatchInv
<1>2. Size \in Nat \ {0} /\ from + Size <= Len(items)
  BY <1>1, SizeFits
<1>3. ASSUME NEW j \in 1..Size
      PROVE  /\ from + j \in 1..Len(items) /\ from + j > from
             /\ items[from + j] \in BatchItems
             /\ items[from + j].messages \subseteq MessagesOf(channel)
             /\ items[from + j].of \in StoredRecords => items[from + j].of \in pending
  <2>1. from + j \in 1..Len(items) /\ from + j > from
    BY <1>1, <1>2
  <2>2. items[from + j] \in BatchItems /\ ItemSound(channel, items, from + j)
    BY <1>1, <2>1 DEF Whole
  <2>3. items[from + j].messages \subseteq MessagesOf(channel)
    BY <2>2 DEF ItemSound
  <2>4. items[from + j].of \in StoredRecords => items[from + j].of \in pending
    BY <1>1, <2>1 DEF Ahead, BatchOf
  <2> QED BY <2>1, <2>2, <2>3, <2>4
<1>4. ASSUME NEW i \in 1..Len(items), NEW j \in 1..Len(items), i # j
      PROVE  items[i].of # items[j].of /\ items[i].messages \cap items[j].messages = {}
  <2>1. CASE i < j
    BY <1>1, <2>1 DEF Whole
  <2>2. CASE j < i
    BY <1>1, <2>2 DEF Whole
  <2> QED BY <1>1, <1>4, <2>1, <2>2
<1> QED BY <1>1, <1>2, <1>3, <1>4 DEF Item

LEMMA ChunkSets ==
  ASSUME NEW G
  PROVE  /\ \A r : r \in StoredAt(G) <=> \E j \in G : Item(j).of = r /\ r \in StoredRecords
         /\ \A r : r \in TextOf(G) <=> \E j \in G : Item(j).of = r
         /\ \A m : m \in MessagesAt(G) <=> \E j \in G : m \in Item(j).messages
<1>1. \A r : r \in StoredAt(G) <=> \E j \in G : Item(j).of = r /\ r \in StoredRecords
  BY DEF StoredAt
<1>2. \A r : r \in TextOf(G) <=> \E j \in G : Item(j).of = r
  BY DEF TextOf
<1>3. \A m : m \in MessagesAt(G) <=> \E j \in G : m \in Item(j).messages
  BY DEF MessagesAt
<1> QED BY <1>1, <1>2, <1>3

\* What the chunk adds to the answer, and what messages it has.
LocatedNow ==
    {[messages |-> Answered(groups[k].items), case |-> landed[k], channel |-> channel] :
       k \in {j \in DOMAIN groups : Answered(groups[j].items) # {}}}
ItemOfChunk(m) == \E j \in 1..Size : m \in Item(j).messages

LEMMA ApplyDoes ==
  ASSUME Apply
  PROVE  /\ pc = "summaries" /\ ToSummarise = {}
         /\ held' = [c \in DOMAIN held |-> held[c] \cup NewRecords(c)]
         /\ told' = [c \in DOMAIN told |-> Latest(c)]
         /\ current' = [current EXCEPT ![channel] = landed[Len(landed)]]
         /\ pending' = pending \ StoredAt(1..Size)
         /\ located' = located \cup LocatedNow
         /\ omitted' = omitted \cup TextOf(Skipped) \cup MessagesAt(Skipped)
         /\ \/ /\ from + Size = Len(items) /\ pc' = "channel" /\ items' = <<>> /\ from' = 0
            \/ /\ from + Size # Len(items) /\ pc' = "group" /\ from' = from + Size
               /\ items' = items
         /\ groups' = <<>> /\ verdicts' = <<>> /\ landed' = <<>>
         /\ created' = {} /\ computed' = <<>> /\ before' = <<parent', told'>>
         /\ UNCHANGED <<parent, idOf, inEvent, todo, channel>>
  BY DEF Apply, ChunkEnds, LocatedNow, Latest, input

LEMMA AppliedTree ==
  ASSUME PlacementInv, Apply
  PROVE  TreeInv' /\ CoverInv' /\ DecideInv'
<1>1. TreeInv /\ DecideInv /\ CoverInv /\ BatchInv
  BY DEF PlacementInv
<1>2. /\ pc = "summaries" /\ ToSummarise = {} /\ pc' \in {"channel", "group"}
      /\ held' = [c \in DOMAIN held |-> held[c] \cup NewRecords(c)]
      /\ told' = [c \in DOMAIN told |-> Latest(c)]
      /\ current' = [current EXCEPT ![channel] = landed[Len(landed)]]
      /\ groups' = <<>> /\ verdicts' = <<>> /\ landed' = <<>>
      /\ created' = {} /\ computed' = <<>> /\ before' = <<parent', told'>>
      /\ UNCHANGED <<parent, idOf, inEvent, todo, channel>>
  BY ApplyDoes
<1>3. DOMAIN held = DOMAIN parent /\ DOMAIN told = DOMAIN parent /\ TreeOf(parent)
  BY <1>1 DEF TreeInv
<1>4. TreeInv'
  <2>1. DOMAIN held' = DOMAIN parent /\ DOMAIN told' = DOMAIN parent
        /\ before'[1] = parent' /\ before'[2] = told' /\ ~InChunk'
    BY <1>2, <1>3 DEF InChunk
  <2> QED BY <1>2, <1>3, <2>1 DEF TreeInv
<1>5. CoverInv'
  <2>1. created' = {} /\ DOMAIN computed' = {}
    BY <1>2
  <2>2. \A c \in DOMAIN parent :
           /\ held'[c] = held[c] \cup NewRecords(c) /\ told'[c] = Latest(c)
           /\ held[c] \cup NewRecords(c) \subseteq Latest(c)
           /\ \A d \in DOMAIN parent : parent[d] = c => Latest(d) \subseteq Latest(c)
    BY <1>1, <1>2, <1>3, AllSummarised
  <2> QED BY <1>2, <2>1, <2>2 DEF CoverInv
<1>6. DecideInv'
  <2>1. /\ landed \in Seq(OwnCases) /\ Len(landed) \in 1..Len(landed)
        /\ LeafOf(parent, landed[Len(landed)]) /\ landed[Len(landed)] \in OwnCases
    BY <1>1, <1>2 DEF DecideInv
  <2>2. OwnCases' = OwnCases /\ OwnCases \subseteq Cases
    BY <1>2 DEF OwnCases, Cases
  <2>3. ASSUME NEW ch \in ChannelKeys, current'[ch] # NoCase
        PROVE  current'[ch] \in OwnCases /\ LeafOf(parent, current'[ch])
    <3>1. CASE ch = channel
      BY <1>1, <1>2, <2>1, <3>1 DEF DecideInv
    <3>2. CASE ch # channel
      <4>1. current'[ch] = current[ch]
        BY <1>1, <1>2, <3>2 DEF DecideInv
      <4> QED BY <1>1, <2>3, <4>1, LeavesStay DEF DecideInv
    <3> QED BY <3>1, <3>2
  <2>4. current' \in [ChannelKeys -> Cases \cup {NoCase}]
    BY <1>1, <1>2, <2>1, <2>2 DEF DecideInv
  <2>5. before'[1] = parent /\ ~InChunk' /\ inEvent' \in BOOLEAN
    BY <1>1, <1>2 DEF InChunk, DecideInv
  <2> QED BY <1>2, <2>2, <2>3, <2>4, <2>5 DEF DecideInv
<1> QED BY <1>4, <1>5, <1>6

LEMMA AppliedBatch ==
  ASSUME PlacementInv, Apply
  PROVE  /\ BatchInv'
         /\ \A m \in Messages : /\ Remaining(m)' => Remaining(m) /\ ~ItemOfChunk(m)
                                /\ Remaining(m) => Remaining(m)' \/ ItemOfChunk(m)
                                /\ ItemOfChunk(m) => Remaining(m)
<1>1. BatchInv /\ Busy
  BY ApplyDoes DEF PlacementInv, Busy
<1>2. /\ pending' = pending \ StoredAt(1..Size)
      /\ \/ /\ from + Size = Len(items) /\ pc' = "channel" /\ items' = <<>> /\ from' = 0
         \/ /\ from + Size # Len(items) /\ pc' = "group" /\ from' = from + Size
            /\ items' = items
      /\ UNCHANGED <<parent, idOf, inEvent, todo, channel>>
  BY ApplyDoes
<1>3. /\ Size \in Nat \ {0} /\ from + Size <= Len(items)
      /\ from \in Nat /\ Len(items) \in Nat
      /\ \A j \in 1..Size :
            /\ from + j \in 1..Len(items) /\ Item(j) \in BatchItems
            /\ Item(j).messages \subseteq MessagesOf(channel)
            /\ Item(j).of \in StoredRecords => Item(j).of \in pending
      /\ \A i, j \in 1..Len(items) : i # j =>
            items[i].of # items[j].of /\ items[i].messages \cap items[j].messages = {}
  BY <1>1, ChunkItems
<1>4. \A r : r \in StoredAt(1..Size) <=> \E j \in 1..Size : Item(j).of = r /\ r \in StoredRecords
  BY ChunkSets
<1>5. /\ todo \subseteq ChannelKeys /\ pending \subseteq StoredRecords
      /\ channel \in ChannelKeys \ todo /\ Whole(channel, items) /\ Ahead(channel, items, from)
  BY <1>1 DEF BatchInv
<1>6. BatchInv'
  <2>1. CASE from + Size = Len(items)
    BY <1>2, <1>5, <2>1 DEF BatchInv, Busy
  <2>2. CASE from + Size # Len(items)
    <3>1. Whole(channel, items)'
      <4>1. items' = items /\ UNCHANGED <<channel, idOf>>
        BY <1>2, <2>2
      <4> QED BY <1>5, <4>1 DEF Whole, ItemSound, MessagesOf, Duplicates
    <3>2. ASSUME NEW r \in StoredRecords
          PROVE  r \in BatchOf(channel)' <=>
                    \E i \in 1..Len(items) : i > from + Size /\ items[i].of = r
      <4>1. r \in BatchOf(channel)' <=>
               /\ \E i \in 1..Len(items) : i > from /\ items[i].of = r
               /\ ~\E j \in 1..Size : Item(j).of = r
        BY <1>2, <1>4, <1>5 DEF BatchOf, Ahead
      <4>2. ASSUME NEW i \in 1..Len(items), i > from, items[i].of = r,
                   ~\E j \in 1..Size : Item(j).of = r
            PROVE  i > from + Size
        <5> SUFFICES ASSUME i <= from + Size PROVE FALSE
          BY <1>3
        <5>1. i - from \in 1..Size /\ from + (i - from) = i
          BY <1>3, <4>2
        <5> QED BY <4>2, <5>1 DEF Item
      <4>3. ASSUME NEW i \in 1..Len(items), i > from + Size, items[i].of = r,
                   NEW j \in 1..Size, Item(j).of = r
            PROVE  FALSE
        <5>1. from + j \in 1..Len(items) /\ from + j # i
          BY <1>3, <4>3
        <5> QED BY <1>3, <4>3, <5>1 DEF Item
      <4>4. \A i \in 1..Len(items) : i > from + Size => i > from
        BY <1>3
      <4> QED BY <4>1, <4>2, <4>3, <4>4
    <3>3. Ahead(channel, items, from)'
      BY <1>2, <2>2, <3>2 DEF Ahead
    <3>4. from + Size \in Nat /\ from + Size < Len(items)
      BY <1>3, <2>2
    <3> QED BY <1>2, <1>3, <1>5, <2>2, <3>1, <3>3, <3>4 DEF BatchInv, Busy
  <2> QED BY <2>1, <2>2
<1>7. ASSUME NEW m \in Messages PROVE
        /\ Remaining(m)' => Remaining(m) /\ ~ItemOfChunk(m)
        /\ Remaining(m) => Remaining(m)' \/ ItemOfChunk(m)
        /\ ItemOfChunk(m) => Remaining(m)
  <2>1. Remaining(m)' <=> \/ InputChannel[m] \in todo
                          \/ \E i \in 1..Len(items) : i > from + Size /\ m \in items[i].messages
    <3>1. CASE from + Size = Len(items)
      <4>1. ~\E i \in 1..Len(items) : i > from + Size
        BY <1>3, <3>1
      <4>2. items' = <<>> /\ todo' = todo /\ Len(items') = 0
        BY <1>2, <3>1
      <4>3. Remaining(m)' <=> InputChannel[m] \in todo
        BY <4>2 DEF Remaining
      <4> QED BY <4>1, <4>3
    <3>2. CASE from + Size # Len(items)
      BY <1>2, <3>2 DEF Remaining
    <3> QED BY <3>1, <3>2
  <2>2. ASSUME ItemOfChunk(m)
        PROVE  /\ InputChannel[m] \notin todo
               /\ \E i \in 1..Len(items) : i > from /\ m \in items[i].messages
               /\ ~\E i \in 1..Len(items) : i > from + Size /\ m \in items[i].messages
    <3>1. PICK j \in 1..Size : m \in Item(j).messages
      BY <2>2 DEF ItemOfChunk
    <3>2. InputChannel[m] = channel
      BY <1>3, <3>1 DEF MessagesOf
    <3>3. from + j \in 1..Len(items) /\ from + j > from /\ m \in items[from + j].messages
      BY <1>3, <3>1 DEF Item
    <3>4. ASSUME NEW i \in 1..Len(items), i > from + Size, m \in items[i].messages PROVE FALSE
      <4>1. i # from + j
        BY <1>3, <3>4
      <4> QED BY <1>3, <3>3, <3>4, <4>1
    <3> QED BY <1>5, <3>2, <3>3, <3>4
  <2>3. ASSUME NEW i \in 1..Len(items), i > from, m \in items[i].messages, ~ItemOfChunk(m)
        PROVE  i > from + Size
    <3> SUFFICES ASSUME i <= from + Size PROVE FALSE
      BY <1>3
    <3>1. i - from \in 1..Size /\ from + (i - from) = i
      BY <1>3, <2>3
    <3> QED BY <2>3, <3>1 DEF Item, ItemOfChunk
  <2>4. \A i \in 1..Len(items) : i > from + Size => i > from
    BY <1>3
  <2>5. ItemOfChunk(m) => Remaining(m) /\ ~Remaining(m)'
    BY <2>1, <2>2 DEF Remaining
  <2>6. ~ItemOfChunk(m) => (Remaining(m)' <=> Remaining(m))
    BY <2>1, <2>3, <2>4 DEF Remaining
  <2> QED BY <2>5, <2>6
<1> QED BY <1>6, <1>7

LEMMA AppliedAnswer ==
  ASSUME PlacementInv, Apply
  PROVE  LocInv'
<1>1. TreeInv /\ DecideInv /\ BatchInv /\ LocInv /\ Busy
  BY ApplyDoes DEF PlacementInv, Busy
<1>2. /\ pc = "summaries" /\ pc' # "failed"
      /\ held' = [c \in DOMAIN held |-> held[c] \cup NewRecords(c)]
      /\ pending' = pending \ StoredAt(1..Size)
      /\ located' = located \cup LocatedNow
      /\ omitted' = omitted \cup TextOf(Skipped) \cup MessagesAt(Skipped)
  BY ApplyDoes
<1>3. /\ \A j \in 1..Size :
            /\ from + j \in 1..Len(items) /\ Item(j) \in BatchItems
            /\ Item(j).messages \subseteq MessagesOf(channel)
            /\ Item(j).of \in StoredRecords => Item(j).of \in pending
      /\ \A i, j \in 1..Len(items) : i # j =>
            items[i].of # items[j].of /\ items[i].messages \cap items[j].messages = {}
      /\ Size \in Nat /\ from \in Nat
  BY <1>1, ChunkItems
<1>4. \A i, j \in 1..Size : i # j =>
         Item(i).of # Item(j).of /\ Item(i).messages \cap Item(j).messages = {}
  <2>1. \A i, j \in 1..Size : i # j => from + i # from + j
    BY <1>3
  <2> QED BY <1>3, <2>1 DEF Item
<1>5. /\ DOMAIN groups = 1..Len(groups) /\ Len(landed) = Len(groups)
      /\ landed \in Seq(OwnCases)
      /\ \A k \in 1..Len(groups) : groups[k].items \subseteq 1..Size
                                   /\ landed[k] \in DOMAIN parent
      /\ \A k, j \in 1..Len(groups) : k # j => groups[k].items \cap groups[j].items = {}
  BY <1>1, <1>2 DEF DecideInv, LeafOf
<1>6. \A m \in Messages : /\ Remaining(m)' => Remaining(m) /\ ~ItemOfChunk(m)
                          /\ Remaining(m) => Remaining(m)' \/ ItemOfChunk(m)
                          /\ ItemOfChunk(m) => Remaining(m)
  BY AppliedBatch
<1>7. \A g \in LocatedNow : \E k \in 1..Len(groups) : g.messages = MessagesAt(groups[k].items)
         /\ g = [messages |-> MessagesAt(groups[k].items), case |-> landed[k],
                 channel |-> channel]
  BY <1>5 DEF LocatedNow, Answered
<1>8. ASSUME NEW g \in LocatedNow, NEW m \in g.messages PROVE m \in Messages /\ ItemOfChunk(m)
  <2>1. PICK k \in 1..Len(groups) : g.messages = MessagesAt(groups[k].items)
    BY <1>7
  <2>2. PICK j \in groups[k].items : m \in Item(j).messages
    BY <2>1, ChunkSets
  <2>3. j \in 1..Size
    BY <1>5, <2>2
  <2> QED BY <1>3, <2>2, <2>3 DEF ItemOfChunk, MessagesOf
<1>9. ASSUME NEW g \in located' PROVE g.messages \subseteq Messages
  BY <1>1, <1>2, <1>8 DEF LocInv
<1>10. ASSUME NEW g \in located', NEW m \in g.messages PROVE ~Remaining(m)'
  <2>1. m \in Messages
    BY <1>9
  <2> QED BY <1>1, <1>2, <1>6, <1>8, <2>1 DEF LocInv
<1>11. ASSUME NEW g \in located', NEW h \in located', g # h,
              NEW m, m \in g.messages, m \in h.messages
       PROVE  FALSE
  <2>1. CASE g \in located /\ h \in located
    BY <1>1, <1>11, <2>1 DEF LocInv
  <2>2. ASSUME NEW x \in located, NEW y \in LocatedNow, m \in x.messages, m \in y.messages
        PROVE  FALSE
    BY <1>1, <1>6, <1>8, <2>2 DEF LocInv
  <2>3. CASE g \in LocatedNow /\ h \in LocatedNow
    <3>1. PICK k \in 1..Len(groups) : g.messages = MessagesAt(groups[k].items)
            /\ g = [messages |-> MessagesAt(groups[k].items), case |-> landed[k],
                    channel |-> channel]
      BY <1>7, <2>3
    <3>2. PICK l \in 1..Len(groups) : h.messages = MessagesAt(groups[l].items)
            /\ h = [messages |-> MessagesAt(groups[l].items), case |-> landed[l],
                    channel |-> channel]
      BY <1>7, <2>3
    <3>3. k # l
      BY <1>11, <3>1, <3>2
    <3>4. PICK i \in groups[k].items : m \in Item(i).messages
      BY <1>11, <3>1, ChunkSets
    <3>5. PICK j \in groups[l].items : m \in Item(j).messages
      BY <1>11, <3>2, ChunkSets
    <3>6. i \in 1..Size /\ j \in 1..Size /\ i # j
      BY <1>5, <3>3, <3>4, <3>5
    <3> QED BY <1>4, <3>4, <3>5, <3>6
  <2> QED BY <1>2, <1>11, <2>1, <2>2, <2>3
<1>12. ASSUME NEW j \in 1..Size, \A k \in 1..Len(groups) : j \notin groups[k].items
       PROVE  j \in Skipped
  BY <1>5, <1>12 DEF Skipped
<1>13. ASSUME NEW m \in Messages, m \notin omitted'
       PROVE  Remaining(m)' \/ \E g \in located' : m \in g.messages
  <2>1. CASE Remaining(m)
    <3>1. SUFFICES ASSUME ItemOfChunk(m) PROVE \E g \in located' : m \in g.messages
      BY <1>6, <2>1
    <3>2. PICK j \in 1..Size : m \in Item(j).messages
      BY <3>1 DEF ItemOfChunk
    <3>3. j \notin Skipped
      BY <1>2, <1>13, <3>2, ChunkSets
    <3>4. PICK k \in 1..Len(groups) : j \in groups[k].items
      BY <1>12, <3>3
    <3>5. m \in MessagesAt(groups[k].items)
      BY <3>2, <3>4, ChunkSets
    <3> DEFINE g == [messages |-> MessagesAt(groups[k].items), case |-> landed[k],
                     channel |-> channel]
    <3>6. g \in LocatedNow /\ g.messages = MessagesAt(groups[k].items)
      BY <1>5, <3>5 DEF LocatedNow, Answered
    <3> QED BY <1>2, <3>5, <3>6
  <2>2. CASE ~Remaining(m)
    BY <1>1, <1>2, <1>13, <2>2 DEF LocInv
  <2> QED BY <2>1, <2>2
<1>14. DOMAIN held = DOMAIN parent /\ DOMAIN held' = DOMAIN held
       /\ \A c \in DOMAIN held : held'[c] = held[c] \cup NewRecords(c)
  BY <1>1, <1>2 DEF TreeInv
<1>15. \A c, r : r \in NewRecords(c) <=>
          \E k \in 1..Len(groups) : landed[k] = c /\ r \in StoredAt(groups[k].items)
  BY <1>5, NewRecordsAre
<1>16. ASSUME NEW c, NEW r \in NewRecords(c) PROVE r \in StoredAt(1..Size) /\ r \in pending
  <2>1. PICK k \in 1..Len(groups) : r \in StoredAt(groups[k].items)
    BY <1>15
  <2>2. PICK j \in groups[k].items : Item(j).of = r /\ r \in StoredRecords
    BY <2>1, ChunkSets
  <2>3. j \in 1..Size
    BY <1>5, <2>2
  <2> QED BY <1>3, <2>2, <2>3, ChunkSets
<1>17. ASSUME NEW r \in pending', NEW c \in DOMAIN held' PROVE r \notin held'[c]
  BY <1>1, <1>2, <1>14, <1>16 DEF LocInv
<1>18. ASSUME NEW r \in StoredRecords, r \notin pending', r \notin omitted'
       PROVE  /\ \E c \in DOMAIN held' : r \in held'[c]
              /\ \A c, d \in DOMAIN held' : r \in held'[c] /\ r \in held'[d] => c = d
  <2>1. CASE r \notin pending
    <3>1. r \notin omitted /\ \A c : r \notin NewRecords(c)
      BY <1>2, <1>16, <1>18, <2>1
    <3>2. \A c \in DOMAIN held : r \in held'[c] <=> r \in held[c]
      BY <1>14, <3>1
    <3>3. /\ \E c \in DOMAIN held : r \in held[c]
          /\ \A c, d \in DOMAIN held : r \in held[c] /\ r \in held[d] => c = d
      BY <1>1, <2>1, <3>1 DEF LocInv
    <3> QED BY <1>14, <3>2, <3>3
  <2>2. CASE r \in pending
    <3>1. \A c \in DOMAIN held : r \notin held[c]
      BY <1>1, <2>2 DEF LocInv
    <3>2. \A c \in DOMAIN held : r \in held'[c] <=> r \in NewRecords(c)
      BY <1>14, <3>1
    <3>3. PICK j \in 1..Size : Item(j).of = r
      BY <1>2, <1>18, <2>2, ChunkSets
    <3>4. j \notin Skipped
      BY <1>2, <1>18, <3>3, ChunkSets
    <3>5. PICK k \in 1..Len(groups) : j \in groups[k].items
      BY <1>12, <3>4
    <3>6. r \in NewRecords(landed[k]) /\ landed[k] \in DOMAIN held
      <4>1. r \in StoredAt(groups[k].items)
        BY <3>3, <3>5, ChunkSets
      <4> QED BY <1>5, <1>14, <1>15, <4>1
    <3>7. ASSUME NEW c, r \in NewRecords(c) PROVE c = landed[k]
      <4>1. PICK l \in 1..Len(groups) : landed[l] = c /\ r \in StoredAt(groups[l].items)
        BY <1>15, <3>7
      <4>2. PICK i \in groups[l].items : Item(i).of = r
        BY <4>1, ChunkSets
      <4>3. i = j
        BY <1>4, <1>5, <3>3, <4>2
      <4>4. l = k
        BY <1>5, <3>5, <4>2, <4>3
      <4> QED BY <4>1, <4>4
    <3> QED BY <1>14, <3>2, <3>6, <3>7
  <2> QED BY <2>1, <2>2
<1>19. \A g \in located' : \A m \in g.messages : ~Remaining(m)'
  BY <1>10
<1>20. \A g, h \in located' : g # h => g.messages \cap h.messages = {}
  BY <1>11
<1> QED BY <1>9, <1>13, <1>17, <1>18, <1>19, <1>20 DEF LocInv

LEMMA KeptByApply ==
  ASSUME PlacementInv, Apply
  PROVE  PlacementInv'
  BY AppliedTree, AppliedBatch, AppliedAnswer DEF PlacementInv

--------------------------------------------------------------------------------
(* CasePlacement: the theorems.                                               *)

LEMMA KeptByStuttering ==
  ASSUME PlacementInv,
         UNCHANGED <<parent, held, told, current, pending, idOf, inEvent, pc, todo, channel,
                     items, from, groups, verdicts, under, landed, created, computed, before,
                     located, omitted>>
  PROVE  PlacementInv'
<1>1. TreeInv'
  BY DEF PlacementInv, TreeInv, InChunk
<1>2. DecideInv'
  <2>1. Size' = Size /\ OwnCases' = OwnCases
    BY DEF Size, OwnCases
  <2>2. \A v : VerdictSound(v)' <=> VerdictSound(v)
    BY <2>1 DEF VerdictSound
  <2> QED BY <2>1, <2>2 DEF PlacementInv, DecideInv, InChunk
<1>3. CoverInv'
  <2>1. /\ \A c : NewRecords(c)' = NewRecords(c) /\ Children(c)' = Children(c)
        /\ \A c : Ancestors(c)' = Ancestors(c) /\ Latest(c)' = Latest(c)
    BY DEF NewRecords, StoredAt, Item, Children, Ancestors, Latest
  <2>2. Touched' = Touched
    BY <2>1 DEF Touched
  <2>3. Affected' = Affected /\ ToSummarise' = ToSummarise
    BY <2>1, <2>2 DEF Affected, ToSummarise
  <2> QED BY <2>1, <2>3 DEF PlacementInv, CoverInv
<1>4. BatchInv'
  <2>1. Busy' <=> Busy
    BY DEF Busy
  <2>2. Whole(channel, items) /\ Ahead(channel, items, from) =>
           Whole(channel, items)' /\ Ahead(channel, items, from)'
    BY BatchKept
  <2> QED BY <2>1, <2>2 DEF PlacementInv, BatchInv
<1>5. LocInv'
  BY DEF PlacementInv, LocInv, Remaining
<1> QED BY <1>1, <1>2, <1>3, <1>4, <1>5 DEF PlacementInv

\* The invariant holds of every request.
THEOREM PlacementInvHolds == PlacementSpec => []PlacementInv
<1>1. PlacementInit => PlacementInv
  BY InitTree, InitOthers DEF PlacementInv
<1>2. PlacementInv /\ [PlacementNext]_placementVars => PlacementInv'
  <2> SUFFICES ASSUME PlacementInv, [PlacementNext]_placementVars PROVE PlacementInv'
    OBVIOUS
  <2>1. CASE \E ch \in ChannelKeys : NextChannel(ch)
    BY <2>1, KeptByNextChannel
  <2>2. CASE GroupItems
    BY <2>2, KeptByGroupItems
  <2>3. CASE GroupOfEvent
    BY <2>3, KeptByGroupOfEvent
  <2>4. CASE DecideCurrent
    BY <2>4, KeptByDecideCurrent
  <2>5. CASE Descend
    BY <2>5, KeptByDescend
  <2>6. CASE \E n \in Names : LevelNew(n)
    BY <2>6, KeptByLevelNew
  <2>7. CASE \E c \in Cases : LevelMerge(c)
    BY <2>7, KeptByLevelMerge
  <2>8. CASE Land
    BY <2>8, KeptByLand
  <2>9. CASE \E c \in Cases : Summarise(c)
    BY <2>9, KeptBySummarise
  <2>10. CASE Apply
    BY <2>10, KeptByApply
  <2>11. CASE ChunkFails
    BY <2>11, KeptByChunkFails
  <2>12. CASE Respond
    BY <2>12, KeptByRespond
  <2>13. CASE UNCHANGED placementVars
    <3>1. UNCHANGED <<parent, held, told, current, pending, idOf, inEvent, pc, todo, channel,
                      items, from, groups, verdicts, under, landed, created, computed, before,
                      located, omitted>>
      BY <2>13 DEF placementVars, roleState, request, input
    <3> QED BY <3>1, KeptByStuttering
  <2> QED
    BY <2>1, <2>2, <2>3, <2>4, <2>5, <2>6, <2>7, <2>8, <2>9, <2>10, <2>11, <2>12, <2>13
    DEF PlacementNext
<1> QED BY <1>1, <1>2, PTL DEF PlacementSpec

\* The batch merges the pending records and the messages of its channel: every
\* one is in it once, and a message goes to a record with its id while one is free
\* (merge_batch).
THEOREM BatchesAreExact == PlacementSpec => []MergeExact
<1>1. PlacementInv => MergeExact
  <2> SUFFICES ASSUME PlacementInv, pc = "group", from = 0 PROVE MergeExact
    BY DEF MergeExact
  <2>1. /\ Whole(channel, items) /\ Ahead(channel, items, 0)
        /\ Len(items) \in Nat /\ DOMAIN items = 1..Len(items)
        /\ pending \subseteq StoredRecords
    BY DEF PlacementInv, BatchInv, Busy, Whole
  <2>2. ASSUME NEW i \in 1..Len(items), NEW j \in 1..Len(items), i # j
        PROVE  items[i].of # items[j].of /\ items[i].messages \cap items[j].messages = {}
    <3>1. i < j \/ j < i
      BY <2>2
    <3> QED BY <2>1, <3>1 DEF Whole
  <2>3. ASSUME NEW r \in BatchOf(channel)
        PROVE  Cardinality({i \in DOMAIN items : items[i].of = r}) = 1
    <3>1. PICK i \in 1..Len(items) : items[i].of = r
      BY <2>1 DEF Ahead, BatchOf
    <3>2. {j \in DOMAIN items : items[j].of = r} = {i}
      BY <2>1, <2>2, <3>1
    <3> QED BY <3>2, FS_Singleton
  <2>4. ASSUME NEW m \in MessagesOf(channel)
        PROVE  /\ Cardinality({i \in DOMAIN items : m \in items[i].messages}) = 1
               /\ (\E i \in DOMAIN items : items[i].of = m) =>
                     \A i \in DOMAIN items :
                        items[i].of \in StoredRecords /\ Duplicates(items[i].of, m)
                          => items[i].messages # {}
    <3>1. PICK i \in 1..Len(items) : m \in items[i].messages
      BY <2>1 DEF Whole
    <3>2. {j \in DOMAIN items : m \in items[j].messages} = {i}
      BY <2>1, <2>2, <3>1
    <3>3. ASSUME NEW k \in DOMAIN items, items[k].of = m, NEW j \in DOMAIN items,
                 items[j].of \in StoredRecords, Duplicates(items[j].of, m)
          PROVE  items[j].messages # {}
      <4>1. ItemSound(channel, items, k) /\ m \notin StoredRecords
        BY <2>1, PlacementAssumption DEF Whole, MessagesOf
      <4> QED BY <2>1, <3>3, <4>1 DEF ItemSound
    <3> QED BY <3>2, <3>3, FS_Singleton
  <2>5. ASSUME NEW i \in DOMAIN items, items[i].of \in StoredRecords
        PROVE  Cardinality(items[i].messages) <= 1
    <3>1. ItemSound(channel, items, i) /\ items[i].of \notin MessagesOf(channel)
      BY <2>1, <2>5, PlacementAssumption DEF Whole, MessagesOf
    <3>2. items[i].messages = {} \/ \E m : items[i].messages = {m}
      BY <3>1 DEF ItemSound
    <3>3. CASE items[i].messages = {}
      BY <3>3, FS_EmptySet
    <3>4. CASE \E m : items[i].messages = {m}
      <4>1. PICK m : items[i].messages = {m}
        BY <3>4
      <4>2. Cardinality({m}) = 1
        BY FS_Singleton
      <4> QED BY <4>1, <4>2
    <3> QED BY <3>2, <3>3, <3>4
  <2>6. \A i, j \in DOMAIN items : i < j => InputTime[items[i].of] <= InputTime[items[j].of]
    BY <2>1 DEF Whole
  <2> QED BY <2>3, <2>4, <2>5, <2>6 DEF MergeExact
<1> QED BY <1>1, PlacementInvHolds, PTL

\* Wherever the model leads a group, it lands at a leaf, and the tree that was
\* there before the chunk stays (decide_level, unique_role_case_name).
THEOREM VerdictsAreSound == PlacementSpec => []VerdictsSound
<1>1. PlacementInv => VerdictsSound
  <2> SUFFICES ASSUME PlacementInv PROVE VerdictsSound
    OBVIOUS
  <2>1. /\ TreeOf(parent) /\ DOMAIN before[1] \subseteq DOMAIN parent
        /\ \A c \in DOMAIN before[1] : before[1][c] = parent[c]
        /\ \A c \in DOMAIN parent : c # Top
    BY PlacementAssumption DEF PlacementInv, TreeInv, TreeOf
  <2>2. \A c \in DOMAIN parent : parent[c] \in (DOMAIN parent \ {c}) \cup {Top}
    BY <2>1 DEF TreeOf
  <2>3. ASSUME ~inEvent, NEW k \in DOMAIN verdicts
        PROVE  /\ verdicts[k].kind = "case" => verdicts[k].case \in RoleCases
               /\ verdicts[k].kind = "new" =>
                     verdicts[k].under = Top \/ ~IsLeaf(verdicts[k].under)
    <3>1. VerdictSound(verdicts[k])
      <4>1. DecideInv
        BY DEF PlacementInv
      <4>2. verdicts \in Seq(Verdicts)
        BY <4>1 DEF DecideInv, Verdicts
      <4>3. k \in 1..Len(verdicts)
        BY <4>2
      <4> QED BY <4>1, <4>3 DEF DecideInv
    <3>2. CASE verdicts[k] \in [kind : {"case"}, case : OwnCases]
      BY <2>3, <3>2 DEF OwnCases
    <3>3. CASE /\ verdicts[k] \in [kind : {"new"}, under : RoleCases \cup {Top}, name : Names]
               /\ verdicts[k].under = Top \/ InnerOf(before[1], verdicts[k].under)
      BY <2>1, <3>3 DEF InnerOf, IsLeaf, Children
    <3> QED BY <2>3, <3>1, <3>2, <3>3 DEF VerdictSound
  <2>4. ASSUME NEW c \in DOMAIN parent, pc = "summaries"
        PROVE  NewRecords(c) = {} \/ IsLeaf(c)
    <3> SUFFICES ASSUME NEW r, r \in NewRecords(c) PROVE IsLeaf(c)
      OBVIOUS
    <3>1. landed \in Seq(OwnCases) /\ \A k \in 1..Len(landed) : LeafOf(parent, landed[k])
      BY DEF PlacementInv, DecideInv
    <3>2. LeafOf(parent, c)
      BY <3>1, NewRecordsAre
    <3> QED BY <3>2 DEF LeafOf, IsLeaf, Children
  <2> QED BY <2>1, <2>2, <2>3, <2>4 DEF VerdictsSound
<1> QED BY <1>1, PlacementInvHolds, PTL

\* Told anew from the leaves up, a summary tells of everything in its subtree,
\* after a chunk that failed too (recompute_order, compute_summary).
THEOREM SummariesAreWhole == PlacementSpec => []SummariesCover
<1>1. PlacementInv => SummariesCover
  <2> SUFFICES ASSUME PlacementInv, pc \in {"channel", "group", "done", "failed"},
                      NEW c \in DOMAIN parent
               PROVE  UNION {held[d] : d \in Subtree(c)} \subseteq told[c]
    BY DEF SummariesCover
  <2>1. TreeOf(parent) /\ created = {}
    BY DEF PlacementInv, TreeInv, InChunk
  <2>2. ASSUME NEW d \in Subtree(c) PROVE held[d] \subseteq told[c]
    <3>1. d \in DOMAIN parent /\ (d = c \/ parent[d] = c)
      BY <2>1, SubtreeIs
    <3>2. held[d] \subseteq told[d] /\ (parent[d] = c => told[d] \subseteq told[c])
      BY <2>1, <3>1 DEF PlacementInv, CoverInv
    <3> QED BY <3>1, <3>2
  <2> QED BY <2>2
<1> QED BY <1>1, PlacementInvHolds, PTL

\* Every message is answered once or omitted by an accepted grouping, and a record
\* that is not pending any more is in one case (archive_chunk, locate).
THEOREM EverythingLocated == PlacementSpec => []LocatedOnce
<1>1. PlacementInv => LocatedOnce
  <2> SUFFICES ASSUME PlacementInv PROVE LocatedOnce
    OBVIOUS
  <2>1. LocInv /\ BatchInv
    BY DEF PlacementInv
  <2>2. ASSUME pc = "done", NEW m \in Messages \ omitted
        PROVE  \E g \in located : m \in g.messages
    <3>1. todo = {} /\ items = <<>>
      BY <2>1, <2>2 DEF BatchInv, Busy
    <3>2. ~Remaining(m)
      BY <3>1 DEF Remaining
    <3> QED BY <2>1, <2>2, <3>2 DEF LocInv
  <2>3. ASSUME NEW r \in StoredRecords \ (pending \cup omitted)
        PROVE  Cardinality({c \in DOMAIN held : r \in held[c]}) = 1
    <3>1. PICK c \in DOMAIN held : r \in held[c]
      BY <2>1 DEF LocInv
    <3>2. {d \in DOMAIN held : r \in held[d]} = {c}
      BY <2>1, <3>1 DEF LocInv
    <3> QED BY <3>2, FS_Singleton
  <2>4. \A a, b \in AnsweredCases : a.case = b.case => a = b
    <3> DEFINE Answer(c) == [case |-> c,
                             current |-> \E g \in located : g.case = c /\ IsCurrent(g)]
    <3>1. \A a \in AnsweredCases : \E c : a = Answer(c)
      BY DEF AnsweredCases
    <3>2. \A c : Answer(c).case = c
      OBVIOUS
    <3> HIDE DEF Answer
    <3>3. ASSUME NEW a \in AnsweredCases, NEW b \in AnsweredCases, a.case = b.case
          PROVE  a = b
      <4>1. PICK c : a = Answer(c)
        BY <3>1
      <4>2. PICK d : b = Answer(d)
        BY <3>1
      <4> QED BY <3>2, <3>3, <4>1, <4>2
    <3> QED BY <3>3
  <2> QED BY <2>1, <2>2, <2>3, <2>4 DEF LocatedOnce, LocInv
<1> QED BY <1>1, PlacementInvHolds, PTL

================================================================================
