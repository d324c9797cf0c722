------------------------------- MODULE WebMessenger -------------------------------
(* The messenger of the web channel (kissbot-channel-web): users and groups in *)
(* one structure behind a lock, saved by each change; messages, stored in a    *)
(* file per group and day by an appender and then pushed to the page and to    *)
(* the members; and the pages of a group's messages (message_store.rs).        *)
(*                                                                             *)
(* The users of an agent are bound to it one by one; which connection that is, *)
(* and what becomes of it, is the subject of ChannelLink.  Names, ids and      *)
(* times of messages are left out, a message is its number in order of         *)
(* acceptance.  Every user has a group with the admin that is in no list.      *)
EXTENDS Naturals, Sequences, SequencesExt, FiniteSets

CONSTANTS
    Tasks,               \* changes to users and groups at a time
    InitialConfigs,      \* what the file may hold when the program starts
    MemberLists,         \* the lists of members that requests carry
    Posts,               \* who sends to which group
    Torn,                \* a file cut off in a write, which does not parse
    MaxUsers, MaxGroups, MaxDays, MaxChanges, MaxMessages, MaxFailures   \* bounds

Admin == <<"admin", 0>>
User(n) == <<"u", n>>
Group(n) == <<"g", n>>
DirectTo(u) == <<"a", u[2]>>
NoGroup == <<"none", 0>>
Users == {User(n) : n \in 0..MaxUsers - 1}
Multi == {Group(n) : n \in 0..MaxGroups - 1}
Direct == {DirectTo(u) : u \in Users}
Days == 0..MaxDays - 1
Files == (Multi \cup Direct) \X Days
Ids == 1..MaxMessages
Configs == [users : SUBSET Users, groups : SUBSET Multi,
            members : [Multi -> SUBSET (Users \cup {Admin})],
            nextUser : 0..MaxUsers, nextGroup : 0..MaxGroups]

ASSUME WebAssumption ==
    /\ InitialConfigs \subseteq Configs
    /\ \A c \in InitialConfigs :
          /\ \A n \in 0..MaxUsers - 1 : User(n) \in c.users => n < c.nextUser
          /\ \A n \in 0..MaxGroups - 1 : Group(n) \in c.groups => n < c.nextGroup
          /\ \A g \in Multi \ c.groups : c.members[g] = {}
    /\ MemberLists \subseteq SUBSET (Users \cup {Admin})
    /\ Posts \subseteq (Users \cup {Admin}) \X (Multi \cup Direct)
    /\ MaxUsers \in Nat /\ MaxGroups \in Nat /\ MaxDays \in Nat \ {0}
    /\ MaxChanges \in Nat /\ MaxMessages \in Nat /\ MaxFailures \in Nat

VARIABLES
    up, config, saved,   \* running; in memory and in the file
    phase, notices,      \* of each change: "idle", "saving" under the lock, "telling"
    bound,               \* the users that are bound
    told,                \* the last notice of each user and group: "none", "in", "out"
    message,             \* what was accepted: [from, file]
    today,
    queue, batch, file,  \* of each file: waiting, being written, written
    days,                \* date_sets: the days a group is known to have messages of
    stored, sending,     \* batches to be pushed, and who is still to be sent what
    page, inbox,         \* what the page and each user were sent
    changes, failures,
    changed,             \* memberships that changed since the user was bound
    crossed,             \* memberships that changed while a notice of them was on its way
    untold,              \* memberships a change of which could not be saved
    owed,                \* who was a member since a message was accepted
    lost,                \* messages whose write failed, or that a restart caught on the way
    forgotten            \* files with lines that were not published, or before a restart

settings == <<up, config, saved, phase, notices>>
storage  == <<queue, batch, file, days>>
pushing  == <<stored, sending, page, inbox>>
counters == <<today, changes, failures>>
history  == <<changed, crossed, untold, owed, lost, forgotten>>
webVars  == <<settings, bound, told, message, storage, pushing, counters, history>>

Unlocked == up /\ \A t \in Tasks : phase[t] # "saving"
Fails == failures < MaxFailures /\ failures' = failures + 1
GroupOf(m) == message[m].file[1]
InSending == {sending[i].id : i \in {j \in DOMAIN sending : sending[j].to # {}}}
OnTheWay ==
    (UNION {Range(queue[f]) \cup Range(batch[f].lines) : f \in Files})
    \cup (UNION {Range(stored[i]) : i \in DOMAIN stored}) \cup InSending

Quiet == [lines |-> <<>>, done |-> 0]

--------------------------------------------------------------------------------
(* Who may send to a group, and who is sent what is said there.                *)

MaySend(cfg, s, g) ==
    IF g \in Direct
    THEN \E u \in cfg.users : g = DirectTo(u) /\ s \in {u, Admin}
    ELSE g \in cfg.groups /\ s \in cfg.members[g]

\* The membership is looked at again when the message has been stored.
Recipients(cfg, s, g) ==
    IF ~MaySend(cfg, s, g) THEN {}
    ELSE IF g \in Direct THEN {u \in cfg.users : g = DirectTo(u)}
    ELSE cfg.members[g] \ {Admin}

--------------------------------------------------------------------------------
WebInit ==
    /\ up = TRUE /\ config \in InitialConfigs /\ saved = config
    /\ phase = [t \in Tasks |-> "idle"] /\ notices = [t \in Tasks |-> <<>>]
    /\ bound = {} /\ told = [u \in Users |-> [g \in Multi |-> "none"]]
    /\ message = <<>> /\ today = 0
    /\ queue = [f \in Files |-> <<>>] /\ batch = [f \in Files |-> Quiet]
    /\ file = [f \in Files |-> <<>>] /\ days = [g \in Multi \cup Direct |-> {}]
    /\ stored = <<>> /\ sending = <<>>
    /\ page = <<>> /\ inbox = [u \in Users |-> <<>>]
    /\ changes = 0 /\ failures = 0
    /\ changed = {} /\ crossed = {} /\ untold = {} /\ owed = [m \in Ids |-> {}]
    /\ lost = {} /\ forgotten = {}

--------------------------------------------------------------------------------
(* Changes: write_config, and the notices, which are sent without the lock.    *)

Notice(k, g, u) == [kind |-> k, group |-> g, user |-> u]
Notices(k, g, S) == SetToSeq({Notice(k, g, u) : u \in S})
Pending(t) == {<<n.user, n.group>> : n \in Range(notices[t])}
Memberships(cfg) == {p \in Users \X Multi : p[1] \in cfg.members[p[2]]}

Change(t, new, ns) ==
    LET differ == (Memberships(config) \ Memberships(new))
                  \cup (Memberships(new) \ Memberships(config))
    IN
    /\ phase[t] = "idle" /\ Unlocked
    /\ changes < MaxChanges /\ changes' = changes + 1
    /\ config' = new
    /\ phase' = [phase EXCEPT ![t] = "saving"] /\ notices' = [notices EXCEPT ![t] = ns]
    /\ changed' = changed \cup {p \in differ : p[1] \in bound}
    /\ crossed' = crossed \cup {p \in {<<n.user, n.group>> : n \in Range(ns)} :
                                  \E q \in Tasks \ {t} : p \in Pending(q)}
    /\ owed' = [m \in Ids |-> IF m \in DOMAIN message
                              THEN owed[m] \cap Recipients(new, message[m].from, GroupOf(m))
                              ELSE {}]
    /\ UNCHANGED <<up, saved, bound, told, message, storage, pushing, today, failures,
                   untold, lost, forgotten>>

AddUser(t) ==
    /\ config.nextUser < MaxUsers
    /\ Change(t, [config EXCEPT !.users = @ \cup {User(config.nextUser)},
                                !.nextUser = @ + 1], <<>>)

RemoveUser(t, u) ==
    /\ u \in config.users
    /\ Change(t, [config EXCEPT !.users = @ \ {u},
                                !.members = [g \in Multi |-> @[g] \ {u}]],
              <<Notice("removed", NoGroup, u)>>)

\* The members are not checked; the page offers the users there are.
AddGroup(t, S) ==
    /\ config.nextGroup < MaxGroups
    /\ LET g == Group(config.nextGroup) IN
       Change(t, [config EXCEPT !.groups = @ \cup {g}, !.members[g] = S,
                                !.nextGroup = @ + 1],
              Notices("in", g, S \ {Admin}))

ManageMembers(t, g, A, R) ==
    /\ g \in config.groups
    /\ Change(t, [config EXCEPT !.members[g] = (@ \cup A) \ R],
              Notices("in", g, A) \o Notices("out", g, R))

\* Mutant: the members are taken when the group is gone.
ToldOfEnd(g) == {}
LastMembers(g) == config.members[g] \ {Admin}

DeleteGroup(t, g) ==
    /\ g \in config.groups
    /\ Change(t, [config EXCEPT !.groups = @ \ {g}, !.members[g] = {}],
              Notices("out", g, LastMembers(g)))

Save(t) ==
    /\ phase[t] = "saving"
    /\ saved' = config
    /\ phase' = [phase EXCEPT ![t] = IF notices[t] = <<>> THEN "idle" ELSE "telling"]
    /\ UNCHANGED <<up, config, notices, bound, told, message, storage, pushing,
                   counters, history>>

\* What a write that was cut off leaves of the file.
Remains == saved' \in {saved, Torn}

\* The error is returned: memory keeps the change, and nobody is told.
SaveFails(t) ==
    /\ phase[t] = "saving" /\ Fails
    /\ Remains
    /\ phase' = [phase EXCEPT ![t] = "idle"] /\ notices' = [notices EXCEPT ![t] = <<>>]
    /\ untold' = untold \cup {p \in Users \X Multi :
                                p \in Pending(t) \/ <<p[1], NoGroup>> \in Pending(t)}
    /\ UNCHANGED <<up, config, bound, told, message, storage, pushing, today, changes,
                   changed, crossed, owed, lost, forgotten>>

\* handle_group_change, handle_user_remove; nobody is told for a user that is not
\* bound.
Tell(t) ==
    LET n == Head(notices[t])  end == Len(notices[t]) = 1 IN
    /\ phase[t] = "telling" /\ Unlocked
    /\ IF n.kind = "removed"
       THEN /\ bound' = bound \ {n.user}
            /\ owed' = [m \in Ids |-> owed[m] \ {n.user}]
            /\ UNCHANGED told
       ELSE /\ told' = IF n.user \in bound THEN [told EXCEPT ![n.user][n.group] = n.kind]
                                           ELSE told
            /\ UNCHANGED <<bound, owed>>
    /\ notices' = [notices EXCEPT ![t] = Tail(@)]
    /\ phase' = [phase EXCEPT ![t] = IF end THEN "idle" ELSE @]
    /\ UNCHANGED <<up, config, saved, message, storage, pushing, counters, changed,
                   crossed, untold, lost, forgotten>>

\* The agent binds a user the messenger knows (get_info).
Bind(u) ==
    /\ Unlocked /\ u \in config.users \ bound
    /\ bound' = bound \cup {u}
    /\ told' = [told EXCEPT ![u] = [g \in Multi |-> "none"]]
    /\ changed' = {p \in changed : p[1] # u}
    /\ UNCHANGED <<settings, message, storage, pushing, counters, crossed, untold, owed,
                   lost, forgotten>>

--------------------------------------------------------------------------------
(* Messages.                                                                   *)

\* send: the answer is given when the message is in the queue of its file.
Send(s, g) ==
    LET m == Len(message) + 1  f == <<g, today>> IN
    /\ Unlocked /\ m <= MaxMessages
    /\ MaySend(config, s, g)
    /\ message' = Append(message, [from |-> s, file |-> f])
    /\ queue' = [queue EXCEPT ![f] = Append(@, m)]
    /\ owed' = [owed EXCEPT ![m] = Recipients(config, s, g) \cap bound]
    /\ UNCHANGED <<settings, bound, told, batch, file, days, pushing, counters, changed,
                   crossed, untold, lost, forgotten>>

Midnight ==
    /\ today + 1 < MaxDays /\ today' = today + 1
    /\ UNCHANGED <<settings, bound, told, message, storage, pushing, changes, failures,
                   history>>

\* The appender hands what is queued to the writer of the file, one batch at a time.
Flush(f) ==
    /\ up /\ batch[f] = Quiet /\ queue[f] # <<>>
    /\ batch' = [batch EXCEPT ![f] = [lines |-> queue[f], done |-> 0]]
    /\ queue' = [queue EXCEPT ![f] = <<>>]
    /\ UNCHANGED <<settings, bound, told, message, file, days, pushing, counters, history>>

WriteLine(f) ==
    /\ up /\ batch[f].done < Len(batch[f].lines)
    /\ file' = [file EXCEPT ![f] = Append(@, batch[f].lines[batch[f].done + 1])]
    /\ batch' = [batch EXCEPT ![f].done = @ + 1]
    /\ UNCHANGED <<settings, bound, told, message, queue, days, pushing, counters, history>>

\* Mutant: what the first line was written of is pushed.
Begun(f) == batch[f].done > 0
Written(f) == batch[f].lines # <<>> /\ batch[f].done = Len(batch[f].lines)

\* After the last line: the day is known, the index is to be read again, and the
\* batch is handed on to be pushed.
Publish(f) ==
    /\ up /\ Written(f)
    /\ days' = [days EXCEPT ![f[1]] = @ \cup {f[2]}]
    /\ stored' = Append(stored, batch[f].lines)
    /\ batch' = [batch EXCEPT ![f] = Quiet]
    /\ forgotten' = forgotten \ {f}
    /\ UNCHANGED <<settings, bound, told, message, queue, file, sending, page, inbox,
                   counters, changed, crossed, untold, owed, lost>>

\* NoopErrorHandler: the rest of the batch is dropped, and what was written is
\* not pushed.
WriteFails(f) ==
    /\ up /\ batch[f].done < Len(batch[f].lines) /\ Fails
    /\ batch' = [batch EXCEPT ![f] = Quiet]
    /\ lost' = lost \cup Range(batch[f].lines)
    /\ forgotten' = IF batch[f].done > 0 THEN forgotten \cup {f} ELSE forgotten
    /\ UNCHANGED <<settings, bound, told, message, queue, file, days, pushing, today,
                   changes, changed, crossed, untold, owed>>

\* What is still to be sent, nothing when nobody is left.
StillToSend(s) == IF \A i \in DOMAIN s : s[i].to = {} THEN <<>> ELSE s

\* send_stored: the page first, then the members there are now.
PushStored ==
    /\ Unlocked /\ stored # <<>> /\ sending = <<>>
    /\ page' = page \o Head(stored)
    /\ LET to(m) == Recipients(config, message[m].from, GroupOf(m))
       IN sending' = StillToSend([i \in DOMAIN Head(stored) |->
                                    [id |-> Head(stored)[i], to |-> to(Head(stored)[i])]])
    /\ stored' = Tail(stored)
    /\ UNCHANGED <<settings, bound, told, message, storage, inbox, counters, history>>

\* handle_incoming_message, one after another.
Deliver(u, i) ==
    /\ up /\ u \in sending[i].to
    /\ \A j \in 1..i - 1 : sending[j].to = {}
    /\ inbox' = IF u \in bound THEN [inbox EXCEPT ![u] = Append(@, sending[i].id)] ELSE inbox
    /\ sending' = StillToSend([sending EXCEPT ![i].to = @ \ {u}])
    /\ UNCHANGED <<settings, bound, told, message, storage, stored, page, counters, history>>

\* The process stops and starts again; it does not start with a file that is torn.
Restart ==
    /\ up /\ Fails
    /\ IF \E t \in Tasks : phase[t] = "saving" THEN Remains ELSE UNCHANGED saved
    /\ up' = (saved' # Torn)
    /\ config' = IF up' THEN saved' ELSE config
    /\ phase' = [t \in Tasks |-> "idle"] /\ notices' = [t \in Tasks |-> <<>>]
    /\ bound' = {}
    /\ queue' = [f \in Files |-> <<>>] /\ batch' = [f \in Files |-> Quiet]
    /\ days' = [g \in Multi \cup Direct |-> {}]
    /\ stored' = <<>> /\ sending' = <<>>
    /\ changed' = {} /\ crossed' = {} /\ untold' = {}
    /\ owed' = [m \in Ids |-> {}]
    /\ lost' = lost \cup OnTheWay
    /\ forgotten' = {f \in Files : file[f] # <<>>}
    /\ UNCHANGED <<told, message, file, page, inbox, today, changes>>

ChangeNext(t) ==
    \/ AddUser(t) \/ Save(t) \/ SaveFails(t) \/ Tell(t)
    \/ \E u \in Users : RemoveUser(t, u)
    \/ \E S \in MemberLists : AddGroup(t, S)
    \/ \E g \in Multi : DeleteGroup(t, g)
    \/ \E g \in Multi, A, R \in MemberLists : ManageMembers(t, g, A, R)

MessageNext ==
    \/ \E p \in Posts : Send(p[1], p[2])
    \/ \E f \in Files : Flush(f) \/ WriteLine(f) \/ Publish(f) \/ WriteFails(f)
    \/ Midnight \/ PushStored \/ \E u \in Users, i \in DOMAIN sending : Deliver(u, i)

WebNext ==
    \/ \E t \in Tasks : ChangeNext(t)
    \/ \E u \in Users : Bind(u)
    \/ MessageNext \/ Restart

WebSpec == WebInit /\ [][WebNext]_webVars

--------------------------------------------------------------------------------
(* The pages of a group: message_store.rs.  query_first, query_last,           *)
(* query_before and query_after of the index give lines of one file, counted   *)
(* from 1, the last two with the line they are given.                          *)

Place(f, l) == [file |-> f, line |-> l]
Least(a, b) == IF a < b THEN a ELSE b
LinesFrom(f, a, n) == [i \in 1..Least(n, (Len(file[f]) + 1) - a) |-> Place(f, a + i - 1)]
FirstLines(f, n) == IF file[f] = <<>> THEN <<>> ELSE LinesFrom(f, 1, n)
LinesTo(f, b, n) == LET k == Least(n, b) IN [i \in 1..k |-> Place(f, b - k + i)]
LastLines(f, n) == LinesTo(f, Len(file[f]), n)

\* The files of days before, or after, one by one until there are enough.
Older(g, start, n, first) ==
    LET from[d \in 0..start] ==
            IF d = start THEN first
            ELSE LET r == from[d + 1] IN
                 IF d \in days[g] THEN LastLines(<<g, d>>, n - Len(r)) \o r ELSE r
    IN  from[0]
Newer(g, start, n, first) ==
    LET upTo[d \in start..MaxDays - 1] ==
            IF d = start THEN first
            ELSE LET r == upTo[d - 1] IN
                 IF d \in days[g] THEN r \o FirstLines(<<g, d>>, n - Len(r)) ELSE r
    IN  upTo[MaxDays - 1]

GetRecent(g, n) == Older(g, MaxDays, n, <<>>)

\* Mutant: the line one asks from is given again.
BeforeWithLine(g, d, l, n) == Older(g, d, n, LinesTo(<<g, d>>, l, n))
GetBefore(g, d, l, n) == Older(g, d, n, LinesTo(<<g, d>>, l - 1, n))
GetAfter(g, d, l, n) ==
    Newer(g, d, n, IF l < Len(file[<<g, d>>]) THEN LinesFrom(<<g, d>>, l + 1, n) ELSE <<>>)

--------------------------------------------------------------------------------
(* Properties.                                                                 *)

\* Stored before it is pushed ("the message is stored first, then pushed"), and
\* each once and in the order of its file: what a user or the page was sent.  A
\* message that was accepted and is no longer on its way has been stored, shown
\* and sent to those who could see it from then on, unless its write failed or a
\* restart caught it.
AcceptedDelivered ==
    /\ \A got \in {page} \cup {inbox[u] : u \in Users} :
          \A i, j \in DOMAIN got :
             LET f == message[got[i]].file IN
             /\ got[i] \in Range(file[f])
             /\ i < j => got[i] # got[j]
             /\ i < j /\ message[got[j]].file = f =>
                   \A a, b \in DOMAIN file[f] :
                       file[f][a] = got[i] /\ file[f][b] = got[j] => a < b
    /\ \A f \in Files : IsInjective(file[f])
    /\ \A m \in DOMAIN message :
          m \notin lost \cup OnTheWay =>
             /\ m \in Range(file[message[m].file]) /\ m \in Range(page)
             /\ \A u \in owed[m] : m \in Range(inbox[u])

\* When no change is on its way, the last notice of a bound user and a group says
\* what the groups say, and there was one if that changed since it was bound;
\* excepted are memberships that changed while a notice of them was on its way,
\* and changes that could not be saved.
NoticesTell ==
    (\A t \in Tasks : phase[t] = "idle") =>
        \A u \in bound, g \in Multi :
            <<u, g>> \notin crossed \cup untold =>
                \/ told[u][g] = IF u \in config.members[g] THEN "in" ELSE "out"
                \/ told[u][g] = "none" /\ <<u, g>> \notin changed

\* A group's messages in order of day and line.
Everything(g) ==
    FlattenSeq([d \in 1..MaxDays |-> FirstLines(<<g, d - 1>>, MaxMessages)])

\* Pages of any size, backwards from the end and either way from any line, show
\* the messages next to it, none left out and none twice, across the days; but
\* for days the service does not know of since a restart or a failed write.
PagesComplete ==
    \A g \in Multi \cup Direct :
        (\A d \in Days : <<g, d>> \notin forgotten /\ batch[<<g, d>>].done = 0) =>
        LET all == Everything(g)  N == Len(all) IN
        \A n \in 1..MaxMessages :
            /\ GetRecent(g, n) = SubSeq(all, (N + 1) - Least(n, N), N)
            /\ \A i \in 1..N :
                  LET d == all[i].file[2]  l == all[i].line IN
                  /\ GetBefore(g, d, l, n) = SubSeq(all, i - Least(n, i - 1), i - 1)
                  /\ GetAfter(g, d, l, n) = SubSeq(all, i + 1, Least(N, i + n))
================================================================================
