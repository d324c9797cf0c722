------------------------------- MODULE ChannelLink -------------------------------
(* Which connection speaks for a user of a messenger: the bindings of the      *)
(* channel server (kissbot-channel channel_server.rs), the clients that ask    *)
(* for them (kissbot-channel-client channel_client.rs) and the loop that makes *)
(* and remakes their connections (kissbot-agent channel_manager.rs).           *)
(*                                                                             *)
(* Every request is handled by a task of its own, and the maps are locked for  *)
(* one access at a time.  An answer may come late or not at all (30 s), and    *)
(* the loop ignores it, so a request is one message to the server here.        *)
EXTENDS Naturals, FiniteSets

CONSTANTS
    Clients, Users,
    BindUsers,       \* [Clients -> SUBSET Users]: the configured identities
    MaxConnects,     \* bound on connections
    MaxRequests      \* bound on unbinds and messages

ASSUME LinkAssumption ==
    /\ BindUsers \in [Clients -> SUBSET Users]
    /\ MaxConnects \in Nat /\ MaxRequests \in Nat

VARIABLES
    \* the server
    users,       \* the users the messenger knows
    connects,    \* connect_map: the connections that are registered
    bound,       \* bound_map: the connection of a user, or None
    tasks,       \* requests being handled: [op, user, id, stage]
    closing,     \* connections removed from connect_map, bindings remaining
    sweep,       \* the users their removal has collected
    deleted,     \* users deleted whose binding is still to be removed
    \* the clients
    link,        \* the connection its loop has made, or None while it makes one
    toBind,      \* the users it has still to ask for
    \* the connections
    live,        \* connections that are not broken
    next,        \* global_connect_id
    requests,
    \* history
    told,        \* <<u, n>>: n was told that it is bound to u, and holds it
    robbed,      \* <<u, n>>: u was unbound from n by a removal meant for another
    late         \* <<u, n>>: bound after the removal of n had ended

server  == <<users, connects, bound, tasks, closing, sweep, deleted>>
clients == <<link, toBind>>
history == <<told, robbed, late>>
vars    == <<server, clients, live, next, requests, history>>

Ids == 1..MaxConnects
None == 0
Task(o, u, n, s) == [op |-> o, user |-> u, id |-> n, stage |-> s]
Tasks == [op : {"bind", "unbind"}, user : Users, id : Ids, stage : {"new", "checked"}]

\* The removal of a key, meant for the binding to n.
Unbound(u, n) ==
    /\ bound' = [bound EXCEPT ![u] = None]
    /\ robbed' = robbed \cup ({<<u, bound[u]>>} \ {<<u, n>>, <<u, None>>})
    /\ told' = told \ {<<u, n>>}

--------------------------------------------------------------------------------
Init ==
    /\ users = Users /\ connects = {} /\ bound = [u \in Users |-> None]
    /\ tasks = {} /\ closing = {} /\ sweep = [n \in Ids |-> {}] /\ deleted = {}
    /\ link = [c \in Clients |-> None]
    /\ toBind = [c \in Clients |-> {}]
    /\ live = {} /\ next = 1 /\ requests = 0
    /\ told = {} /\ robbed = {} /\ late = {}

(* The client and its loop.                                                    *)

\* ws_connect, and init on either side; a failure is tried again after a while.
Connect(c) ==
    /\ link[c] = None /\ next <= MaxConnects
    /\ connects' = connects \cup {next} /\ live' = live \cup {next}
    /\ link' = [link EXCEPT ![c] = next] /\ next' = next + 1
    /\ toBind' = [toBind EXCEPT ![c] = BindUsers[c]]
    /\ UNCHANGED <<users, bound, tasks, closing, sweep, deleted, requests, history>>

\* One bind request after another; over a broken connection it is only lost.
AskBind(c, u) ==
    /\ u \in toBind[c]
    /\ toBind' = [toBind EXCEPT ![c] = @ \ {u}]
    /\ tasks' = IF link[c] \in live
                THEN tasks \cup {Task("bind", u, link[c], "new")} ELSE tasks
    /\ UNCHANGED <<users, connects, bound, closing, sweep, deleted, link,
                   live, next, requests, history>>

\* closed() wakes the loop, which connects again at once.
Closed(c) ==
    /\ link[c] # None /\ toBind[c] = {} /\ link[c] \notin live
    /\ link' = [link EXCEPT ![c] = None]
    /\ UNCHANGED <<server, toBind, live, next, requests, history>>

AskUnbind(c, u) ==
    /\ link[c] \in live /\ requests < MaxRequests /\ requests' = requests + 1
    /\ tasks' = tasks \cup {Task("unbind", u, link[c], "new")}
    /\ UNCHANGED <<users, connects, bound, closing, sweep, deleted, clients, live,
                   next, history>>

Break(n) ==
    /\ n \in live /\ live' = live \ {n}
    /\ UNCHANGED <<server, clients, next, requests, history>>

--------------------------------------------------------------------------------
(* The server.                                                                 *)

Drop(t) == tasks' = tasks \ {t}
Advance(t) == tasks' = (tasks \ {t}) \cup {[t EXCEPT !.stage = "checked"]}

\* The context of the connection is kept by the map, by its removal and by the
\* requests that are past this point.
Alive(n) == n \in connects \cup closing \/ \E t \in tasks : t.id = n /\ t.stage = "checked"

\* A request to bind: the connection is still there, and the messenger, which is
\* asked and awaited, knows the user.
BindCheck(t) ==
    /\ t \in tasks /\ t.op = "bind" /\ t.stage = "new"
    /\ IF Alive(t.id) /\ t.user \in users THEN Advance(t) ELSE Drop(t)
    /\ UNCHANGED <<users, connects, bound, closing, sweep, deleted, clients, live,
                   next, requests, history>>

\* Mutant: the last one who asks gets the user.
MayBindAny(u, n) == TRUE
MayBind(u, n) == bound[u] \in {None, n}

\* entry().or_insert: a user that is bound to another connection stays there.
BindInsert(t) ==
    /\ t \in tasks /\ t.op = "bind" /\ t.stage = "checked"
    /\ Drop(t)
    /\ IF MayBind(t.user, t.id)
       THEN /\ bound' = [bound EXCEPT ![t.user] = t.id]
            /\ told' = told \cup {<<t.user, t.id>>}
            /\ robbed' = robbed \ {<<t.user, t.id>>}
            /\ late' = IF t.id \in connects \cup closing THEN late
                       ELSE late \cup {<<t.user, t.id>>}
       ELSE UNCHANGED <<bound, history>>
    /\ UNCHANGED <<users, connects, closing, sweep, deleted, clients, live, next,
                   requests>>

\* A request to unbind compares, lets go of the entry, and then removes it.
UnbindCheck(t) ==
    /\ t \in tasks /\ t.op = "unbind" /\ t.stage = "new"
    /\ IF Alive(t.id) /\ bound[t.user] = t.id THEN Advance(t) ELSE Drop(t)
    /\ UNCHANGED <<users, connects, bound, closing, sweep, deleted, clients, live,
                   next, requests, history>>

UnbindRemove(t) ==
    /\ t \in tasks /\ t.op = "unbind" /\ t.stage = "checked"
    /\ Drop(t) /\ Unbound(t.user, t.id)
    /\ UNCHANGED <<users, connects, closing, sweep, deleted, clients, live, next,
                   requests, late>>

\* Mutant: the connection is looked up and not removed.
UnregisterCopy(n) ==
    /\ n \in connects \ live
    /\ closing' = closing \cup {n}
    /\ UNCHANGED <<users, connects, bound, tasks, sweep, deleted, clients, live, next,
                   requests, history>>

\* close_connect: the connection leaves connect_map,
Unregister(n) ==
    /\ n \in connects \ live
    /\ connects' = connects \ {n} /\ closing' = closing \cup {n}
    /\ UNCHANGED <<users, bound, tasks, sweep, deleted, clients, live, next, requests,
                   history>>

BoundTo(n) == {u \in Users : bound[u] = n}

\* ... then its users are collected and removed until none is found.
Collect(n) ==
    /\ n \in closing /\ sweep[n] = {} /\ BoundTo(n) # {}
    /\ sweep' = [sweep EXCEPT ![n] = BoundTo(n)]
    /\ UNCHANGED <<users, connects, bound, tasks, closing, deleted, clients, live,
                   next, requests, history>>

SweepUser(n, u) ==
    /\ n \in closing /\ u \in sweep[n]
    /\ sweep' = [sweep EXCEPT ![n] = @ \ {u}]
    /\ Unbound(u, n)
    /\ UNCHANGED <<users, connects, tasks, closing, deleted, clients, live, next, requests, late>>

\* Mutant: the removal ends when what it collected first is removed.
SweptOnce(n) == sweep[n] = {}
NothingLeft(n) == sweep[n] = {} /\ BoundTo(n) = {}

Swept(n) ==
    /\ n \in closing /\ NothingLeft(n)
    /\ closing' = closing \ {n}
    /\ told' = {p \in told : p[2] # n \/ p \notin robbed}
    /\ robbed' = {p \in robbed : p[2] # n}
    /\ UNCHANGED <<users, connects, bound, tasks, sweep, deleted, clients, live, next,
                   requests, late>>

\* The messenger deletes a user, and then tells the server, which removes the
\* binding whatever it is and tells its connection.
DeleteUser(u) ==
    /\ u \in users /\ users' = users \ {u} /\ deleted' = deleted \cup {u}
    /\ UNCHANGED <<connects, bound, tasks, closing, sweep, clients, live, next,
                   requests, history>>

ForgetUser(u) ==
    /\ u \in deleted /\ deleted' = deleted \ {u}
    /\ Unbound(u, bound[u])
    /\ UNCHANGED <<users, connects, tasks, closing, sweep, clients, live, next,
                   requests, late>>

--------------------------------------------------------------------------------
ClientNext ==
    \/ \E c \in Clients :
         \/ Connect(c) \/ Closed(c)
         \/ \E u \in Users : AskBind(c, u) \/ AskUnbind(c, u)
    \/ \E n \in Ids : Break(n)

ServerNext ==
    \/ \E t \in tasks : BindCheck(t) \/ BindInsert(t) \/ UnbindCheck(t) \/ UnbindRemove(t)
    \/ \E n \in Ids :
         \/ Unregister(n) \/ Collect(n) \/ Swept(n)
         \/ \E u \in Users : SweepUser(n, u)
    \/ \E u \in Users : DeleteUser(u) \/ ForgetUser(u)

Next == ClientNext \/ ServerNext
Spec == Init /\ [][Next]_vars

--------------------------------------------------------------------------------
\* Every variable has its type; a connection that works is registered, and only
\* the removal of a connection collects users.
TypeOK ==
    /\ users \subseteq Users /\ deleted \subseteq Users \ users
    /\ connects \subseteq Ids /\ live \subseteq connects
    /\ closing \subseteq Ids \ connects
    /\ bound \in [Users -> Ids \cup {None}]
    /\ tasks \subseteq Tasks
    /\ sweep \in [Ids -> SUBSET Users] /\ \A n \in Ids \ closing : sweep[n] = {}
    /\ link \in [Clients -> Ids \cup {None}]
    /\ toBind \in [Clients -> SUBSET Users]
    /\ next \in 1..MaxConnects + 1 /\ requests \in 0..MaxRequests
    /\ told \subseteq Users \X Ids /\ robbed \subseteq Users \X Ids /\ late \subseteq Users \X Ids

\* A connection that was told it is bound to a user, and did not let go of it,
\* is the one its messages go to, whatever the other clients ask for, break or
\* clean up meanwhile (docs: a user is bound to one connection).  Only a removal
\* that was decided for another connection and came after a change of hands
\* takes a user away.
ToldIsBound ==
    \A u \in Users, n \in Ids :
        <<u, n>> \in told \ robbed => bound[u] = n

\* A user is never left with a connection that is gone, where no one else could
\* be bound to it: while a connection is being removed, what is bound to it is
\* still found, however many requests are under way.  Only a request that began
\* before and ended after the whole removal strands its user.
NoneStranded ==
    \A u \in Users :
        bound[u] # None =>
            \/ bound[u] \in connects \cup closing
            \/ <<u, bound[u]>> \in late
================================================================================
