--------------------------- MODULE ChannelServer_proofs ---------------------------
(***************************************************************************)
(* Proofs about the channel server.  ChannelLink, for any clients and users *)
(* and any number of connections and requests: who was told it is bound is  *)
(* bound, and no user is stranded, but for the removals and the late        *)
(* requests that the properties name.  AttachmentTransfer, for any          *)
(* attachments, sizes, downloads and faults: uploads and downloads are      *)
(* kept, but for those the properties name.                                 *)
(***************************************************************************)
EXTENDS ChannelLink, AttachmentTransfer, FiniteSetTheorems, TLAPS

-------------------------------------------------------------------------------
(* The inductive invariant.                                                   *)

(* A number is given to one connection.                                       *)
Numbered == \A n \in connects \union closing : n < next

Inv == TypeOK /\ Numbered /\ ToldIsBound /\ NoneStranded

LEMMA InitInv == Init => Inv
  BY LinkAssumption
     DEF Init, Inv, TypeOK, Numbered, ToldIsBound, NoneStranded, Ids, None, Tasks

-------------------------------------------------------------------------------
(* A step is one of the actions.                                              *)
LEMMA NextSplits ==
    ASSUME Next
    PROVE  \/ \E c \in Clients : \/ Connect(c) \/ Closed(c)
                                 \/ \E u \in Users : AskBind(c, u) \/ AskUnbind(c, u)
           \/ \E t \in tasks : \/ BindCheck(t) \/ BindInsert(t)
                               \/ UnbindCheck(t) \/ UnbindRemove(t)
           \/ \E n \in Ids : \/ Break(n) \/ Unregister(n) \/ Collect(n) \/ Swept(n)
                             \/ \E u \in Users : SweepUser(n, u)
           \/ \E u \in Users : DeleteUser(u) \/ ForgetUser(u)
  BY DEF Next, ClientNext, ServerNext

(* What a removal does to the binding of one user and to the history.         *)
LEMMA Removal ==
    ASSUME TypeOK, ToldIsBound, NoneStranded,
           NEW u \in Users, NEW n \in Ids \union {None}, Unbound(u, n),
           UNCHANGED <<connects, closing, late>>
    PROVE  /\ bound' \in [Users -> Ids \union {None}]
           /\ told' \subseteq Users \X Ids /\ robbed' \subseteq Users \X Ids
           /\ ToldIsBound' /\ NoneStranded'
<1>1. bound' \in [Users -> Ids \union {None}] /\ bound'[u] = None
  BY DEF TypeOK, Unbound
<1>2. \A v \in Users \ {u} : bound'[v] = bound[v]
  BY DEF TypeOK, Unbound
<1>3. told' \subseteq Users \X Ids
  BY DEF TypeOK, Unbound
<1>4. robbed' \subseteq Users \X Ids
  <2>1. bound[u] \in Ids \union {None}
    BY DEF TypeOK
  <2>2. {<<u, bound[u]>>} \ {<<u, n>>, <<u, None>>} \subseteq Users \X Ids
    BY <2>1
  <2>3. QED
    BY <2>2 DEF TypeOK, Unbound
<1>5. ToldIsBound'
  <2> SUFFICES ASSUME NEW v \in Users, NEW m \in Ids, <<v, m>> \in told' \ robbed'
               PROVE  bound'[v] = m
    BY DEF ToldIsBound
  <2>1. <<v, m>> \in told \ robbed /\ bound[v] = m /\ m # None
    BY DEF Unbound, ToldIsBound, Ids, None
  <2>2. CASE v = u
    <3>1. m # n
      BY <2>2 DEF Unbound
    <3>2. <<v, m>> \in robbed'
      BY <2>1, <2>2, <3>1 DEF Unbound
    <3>3. QED
      BY <3>2
  <2>3. QED
    BY <1>2, <2>1, <2>2
<1>6. NoneStranded'
  BY <1>1, <1>2 DEF NoneStranded
<1>7. QED
  BY <1>1, <1>3, <1>4, <1>5, <1>6

(* Numbers of connections.                                                    *)
LEMMA NextId ==
    ASSUME TypeOK, next <= MaxConnects
    PROVE  next \in Ids /\ next + 1 \in 1..MaxConnects + 1
  BY LinkAssumption DEF TypeOK, Ids

-------------------------------------------------------------------------------
(* The clients.                                                               *)

LEMMA ConnectStep ==
    ASSUME Inv, NEW c \in Clients, Connect(c)
    PROVE  Inv'
<1> USE LinkAssumption DEF Inv, Connect
<1>0. next \in Ids /\ next + 1 \in 1..MaxConnects + 1
  BY NextId
<1>1. next \in Ids /\ next + 1 \in 1..MaxConnects + 1 /\ next \notin closing
  BY <1>0 DEF Numbered, Ids
<1>2. connects' \subseteq Ids /\ live' \subseteq connects' /\ closing' \subseteq Ids \ connects'
  BY <1>1 DEF TypeOK
<1>3. link' \in [Clients -> Ids \union {None}] /\ toBind' \in [Clients -> SUBSET Users]
  BY <1>1 DEF TypeOK
<1>4. TypeOK'
  BY <1>1, <1>2, <1>3 DEF TypeOK, history
<1>5. Numbered'
  <2> SUFFICES ASSUME NEW n \in connects' \union closing' PROVE n < next'
    BY DEF Numbered
  <2>1. n \in Nat /\ next \in Nat /\ (n = next \/ n < next)
    BY <1>1 DEF TypeOK, Numbered, Ids
  <2>2. QED
    BY <2>1
<1>6. ToldIsBound' /\ NoneStranded'
  BY DEF ToldIsBound, NoneStranded, history
<1>7. QED
  BY <1>4, <1>5, <1>6

(* Steps that change neither connections, bindings nor the history.           *)
LEMMA Undisturbed ==
    ASSUME Inv, TypeOK', UNCHANGED <<bound, connects, closing, next, told, robbed, late>>
    PROVE  Inv'
  BY DEF Inv, Numbered, ToldIsBound, NoneStranded

LEMMA ClosedStep ==
    ASSUME Inv, NEW c \in Clients, Closed(c)
    PROVE  Inv'
<1> USE LinkAssumption
<1>1. TypeOK
  BY DEF Inv
<1>2. link' \in [Clients -> Ids \union {None}]
  BY <1>1 DEF TypeOK, Closed
<1>3. TypeOK'
  BY <1>1, <1>2 DEF TypeOK, Closed, history, server
<1>4. QED
  BY <1>3, Undisturbed DEF Closed, history, server

LEMMA ClientStep ==
    ASSUME Inv, NEW c \in Clients, NEW u \in Users, AskBind(c, u) \/ AskUnbind(c, u)
    PROVE  Inv'
<1> USE LinkAssumption
<1>0. TypeOK
  BY DEF Inv
<1>1. CASE AskBind(c, u)
  <2>1. link[c] \in live => Task("bind", u, link[c], "new") \in Tasks
    BY <1>0 DEF TypeOK, Task, Tasks
  <2>2. tasks' \subseteq Tasks /\ toBind' \in [Clients -> SUBSET Users]
    BY <1>0, <1>1, <2>1 DEF TypeOK, AskBind
  <2>3. TypeOK'
    BY <1>0, <1>1, <2>2 DEF TypeOK, AskBind, history
  <2>4. QED
    BY <1>1, <2>3, Undisturbed DEF AskBind, history
<1>2. CASE AskUnbind(c, u)
  <2>1. Task("unbind", u, link[c], "new") \in Tasks
    BY <1>0, <1>2 DEF TypeOK, Task, Tasks, AskUnbind
  <2>2. tasks' \subseteq Tasks /\ requests' \in 0..MaxRequests
    BY <1>0, <1>2, <2>1 DEF TypeOK, AskUnbind
  <2>3. TypeOK'
    BY <1>0, <1>2, <2>2 DEF TypeOK, AskUnbind, history, clients
  <2>4. QED
    BY <1>2, <2>3, Undisturbed DEF AskUnbind, history
<1>3. QED
  BY <1>1, <1>2

-------------------------------------------------------------------------------
(* The requests.                                                              *)

LEMMA CheckStep ==
    ASSUME Inv, NEW t \in tasks, BindCheck(t) \/ UnbindCheck(t)
    PROVE  Inv'
<1> USE LinkAssumption
<1>0. TypeOK /\ t \in Tasks
  BY DEF Inv, TypeOK
<1>1. [t EXCEPT !.stage = "checked"] \in Tasks
  BY <1>0 DEF Tasks
<1>2. tasks' \subseteq Tasks
  BY <1>0, <1>1 DEF TypeOK, BindCheck, UnbindCheck, Advance, Drop
<1>3. TypeOK'
  BY <1>0, <1>2 DEF TypeOK, BindCheck, UnbindCheck, history, clients
<1>4. QED
  BY <1>3, Undisturbed DEF BindCheck, UnbindCheck, history

(* A binding goes to a user that has none, or stays where it is.              *)
LEMMA BindStep ==
    ASSUME Inv, NEW t \in tasks, BindInsert(t)
    PROVE  Inv'
<1> USE LinkAssumption
<1>0. /\ TypeOK /\ t \in Tasks
      /\ t.user \in Users /\ t.id \in Ids
      /\ tasks' \subseteq Tasks
  BY DEF Inv, TypeOK, Tasks, BindInsert, Drop
<1>1. CASE ~MayBind(t.user, t.id)
  <2>1. TypeOK'
    BY <1>0, <1>1 DEF TypeOK, BindInsert, history, clients
  <2>2. QED
    BY <1>1, <2>1, Undisturbed DEF BindInsert, history
<1>2. CASE MayBind(t.user, t.id)
  <2> DEFINE u == t.user
             n == t.id
  <2>1. /\ bound' = [bound EXCEPT ![u] = n]
        /\ told' = told \union {<<u, n>>} /\ robbed' = robbed \ {<<u, n>>}
        /\ late' \subseteq late \union {<<u, n>>} /\ late \subseteq late'
        /\ n \in connects \union closing \/ <<u, n>> \in late'
        /\ UNCHANGED <<connects, closing, next>>
    BY <1>2 DEF BindInsert
  <2>2. bound' \in [Users -> Ids \union {None}] /\ bound'[u] = n
    BY <1>0, <2>1 DEF TypeOK
  <2>3. \A v \in Users \ {u} : bound'[v] = bound[v]
    BY <1>0, <2>1 DEF TypeOK
  <2>4. told' \subseteq Users \X Ids /\ robbed' \subseteq Users \X Ids /\ late' \subseteq Users \X Ids
    BY <1>0, <2>1 DEF TypeOK
  <2>5. TypeOK'
    BY <1>0, <1>2, <2>2, <2>4 DEF TypeOK, BindInsert, clients
  <2>6. ToldIsBound'
    <3> SUFFICES ASSUME NEW v \in Users, NEW m \in Ids, <<v, m>> \in told' \ robbed'
                 PROVE  bound'[v] = m
      BY DEF ToldIsBound
    <3>1. CASE v = u /\ m = n
      BY <2>2, <3>1
    <3>2. CASE ~(v = u /\ m = n)
      <4>1. <<v, m>> \in told \ robbed
        BY <2>1, <3>2
      <4>2. bound[v] = m /\ m # None
        BY <4>1 DEF Inv, ToldIsBound, Ids, None
      <4>3. v # u
        BY <1>2, <3>2, <4>2 DEF MayBind
      <4>4. QED
        BY <2>3, <4>2, <4>3
    <3>3. QED
      BY <3>1, <3>2
  <2>7. NoneStranded'
    <3> SUFFICES ASSUME NEW v \in Users, bound'[v] # None
                 PROVE  bound'[v] \in connects' \union closing' \/ <<v, bound'[v]>> \in late'
      BY DEF NoneStranded
    <3>1. CASE v = u
      BY <2>1, <2>2, <3>1
    <3>2. CASE v # u
      BY <2>1, <2>3, <3>2 DEF Inv, NoneStranded
    <3>3. QED
      BY <3>1, <3>2
  <2>8. QED
    BY <2>1, <2>5, <2>6, <2>7 DEF Inv, Numbered
<1>3. QED
  BY <1>1, <1>2

LEMMA UnbindStep ==
    ASSUME Inv, NEW t \in tasks, UnbindRemove(t)
    PROVE  Inv'
<1> USE LinkAssumption
<1>0. /\ TypeOK /\ t.user \in Users /\ t.id \in Ids \union {None}
      /\ tasks' \subseteq Tasks
  BY DEF Inv, TypeOK, Tasks, UnbindRemove, Drop
<1>1. /\ bound' \in [Users -> Ids \union {None}]
      /\ told' \subseteq Users \X Ids /\ robbed' \subseteq Users \X Ids
      /\ ToldIsBound' /\ NoneStranded'
  BY <1>0, Removal DEF Inv, UnbindRemove
<1>2. TypeOK'
  BY <1>0, <1>1 DEF TypeOK, UnbindRemove, clients
<1>3. QED
  BY <1>1, <1>2 DEF Inv, Numbered, UnbindRemove

-------------------------------------------------------------------------------
(* The removal of a connection.                                               *)

LEMMA UnregisterStep ==
    ASSUME Inv, NEW n \in Ids, Unregister(n) \/ Break(n) \/ Collect(n)
    PROVE  Inv'
<1> USE LinkAssumption DEF Inv
<1>1. CASE Unregister(n)
  <2>1. /\ connects' \subseteq Ids /\ live' \subseteq connects'
        /\ closing' \subseteq Ids \ connects'
    BY <1>1 DEF TypeOK, Unregister
  <2>2. TypeOK'
    BY <1>1, <2>1 DEF TypeOK, Unregister, history, clients
  <2>3. Numbered' /\ ToldIsBound' /\ NoneStranded'
    BY <1>1 DEF Numbered, ToldIsBound, NoneStranded, Unregister, history
  <2>4. QED
    BY <2>2, <2>3
<1>2. CASE Break(n)
  <2>1. TypeOK'
    BY <1>2 DEF TypeOK, Break, server, clients, history
  <2>2. QED
    BY <1>2, <2>1, Undisturbed DEF Break, server, history
<1>3. CASE Collect(n)
  <2>1. BoundTo(n) \subseteq Users
    BY DEF BoundTo
  <2>2. /\ sweep' \in [Ids -> SUBSET Users]
        /\ \A m \in Ids \ closing' : sweep'[m] = {}
    BY <1>3, <2>1 DEF TypeOK, Collect
  <2>3. TypeOK'
    BY <1>3, <2>2 DEF TypeOK, Collect, clients, history
  <2>4. QED
    BY <1>3, <2>3, Undisturbed DEF Collect, history
<1>4. QED
  BY <1>1, <1>2, <1>3

LEMMA SweepStep ==
    ASSUME Inv, NEW n \in Ids, NEW u \in Users, SweepUser(n, u)
    PROVE  Inv'
<1> USE LinkAssumption
<1>0. TypeOK
  BY DEF Inv
<1>1. /\ bound' \in [Users -> Ids \union {None}]
      /\ told' \subseteq Users \X Ids /\ robbed' \subseteq Users \X Ids
      /\ ToldIsBound' /\ NoneStranded'
  BY Removal DEF Inv, SweepUser
<1>2. /\ sweep' \in [Ids -> SUBSET Users]
      /\ \A m \in Ids \ closing' : sweep'[m] = {}
  BY <1>0 DEF TypeOK, SweepUser
<1>3. TypeOK'
  BY <1>0, <1>1, <1>2 DEF TypeOK, SweepUser, clients
<1>4. QED
  BY <1>1, <1>3 DEF Inv, Numbered, SweepUser

(* The removal ends only when nothing is bound to the connection.             *)
LEMMA SweptStep ==
    ASSUME Inv, NEW n \in Ids, Swept(n)
    PROVE  Inv'
<1> USE LinkAssumption
<1>0. TypeOK /\ sweep[n] = {} /\ \A u \in Users : bound[u] # n
  BY DEF Inv, Swept, NothingLeft, BoundTo
<1>1. /\ closing' \subseteq Ids \ connects'
      /\ \A m \in Ids \ closing' : sweep'[m] = {}
      /\ told' \subseteq Users \X Ids /\ robbed' \subseteq Users \X Ids
  BY <1>0 DEF TypeOK, Swept
<1>2. TypeOK'
  BY <1>0, <1>1 DEF TypeOK, Swept, clients
<1>3. ToldIsBound'
  <2> SUFFICES ASSUME NEW u \in Users, NEW m \in Ids, <<u, m>> \in told' \ robbed'
               PROVE  bound'[u] = m
    BY DEF ToldIsBound
  <2>1. <<u, m>> \in told /\ (<<u, m>>[2] # n \/ <<u, m>> \notin robbed)
    BY DEF Swept
  <2>2. <<u, m>> \notin robbed
    BY <2>1 DEF Swept
  <2>3. QED
    BY <2>1, <2>2 DEF Inv, ToldIsBound, Swept
<1>4. NoneStranded'
  BY <1>0 DEF Inv, NoneStranded, Swept
<1>5. QED
  BY <1>2, <1>3, <1>4 DEF Inv, Numbered, Swept

(* The deletion of a user.                                                    *)
LEMMA DeleteStep ==
    ASSUME Inv, NEW u \in Users, DeleteUser(u) \/ ForgetUser(u)
    PROVE  Inv'
<1> USE LinkAssumption
<1>0. TypeOK
  BY DEF Inv
<1>1. CASE DeleteUser(u)
  <2>1. TypeOK'
    BY <1>0, <1>1 DEF TypeOK, DeleteUser, clients, history
  <2>2. QED
    BY <1>1, <2>1, Undisturbed DEF DeleteUser, history
<1>2. CASE ForgetUser(u)
  <2>1. bound[u] \in Ids \union {None}
    BY <1>0 DEF TypeOK
  <2>2. /\ bound' \in [Users -> Ids \union {None}]
        /\ told' \subseteq Users \X Ids /\ robbed' \subseteq Users \X Ids
        /\ ToldIsBound' /\ NoneStranded'
    BY <1>2, <2>1, Removal DEF Inv, ForgetUser
  <2>3. TypeOK'
    BY <1>0, <1>2, <2>2 DEF TypeOK, ForgetUser, clients
  <2>4. QED
    BY <1>2, <2>2, <2>3 DEF Inv, Numbered, ForgetUser
<1>3. QED
  BY <1>1, <1>2

-------------------------------------------------------------------------------
LEMMA InvStep == Inv /\ [Next]_vars => Inv'
<1> SUFFICES ASSUME Inv, [Next]_vars PROVE Inv'
  OBVIOUS
<1>1. CASE UNCHANGED vars
  BY <1>1 DEF Inv, TypeOK, Numbered, ToldIsBound, NoneStranded, vars, server, clients, history
<1>2. CASE Next
  <2>1. ASSUME NEW c \in Clients,
               Connect(c) \/ Closed(c) \/ \E u \in Users : AskBind(c, u) \/ AskUnbind(c, u)
        PROVE  Inv'
    BY <2>1, ConnectStep, ClosedStep, ClientStep
  <2>2. ASSUME NEW t \in tasks,
               BindCheck(t) \/ BindInsert(t) \/ UnbindCheck(t) \/ UnbindRemove(t)
        PROVE  Inv'
    BY <2>2, CheckStep, BindStep, UnbindStep
  <2>3. ASSUME NEW n \in Ids,
               \/ Break(n) \/ Unregister(n) \/ Collect(n) \/ Swept(n)
               \/ \E u \in Users : SweepUser(n, u)
        PROVE  Inv'
    BY <2>3, UnregisterStep, SweepStep, SweptStep
  <2>4. ASSUME NEW u \in Users, DeleteUser(u) \/ ForgetUser(u) PROVE Inv'
    BY <2>4, DeleteStep
  <2>5. QED
    BY <1>2, <2>1, <2>2, <2>3, <2>4, NextSplits
<1>3. QED
  BY <1>1, <1>2

LEMMA InvHolds == Spec => []Inv
  BY InitInv, InvStep, PTL DEF Spec

(* Every variable keeps its type (connect_map, bound_map and the requests     *)
(* under way), for any numbers of clients, connections and users.             *)
THEOREM LinkTypes == Spec => []TypeOK
<1>1. Inv => TypeOK
  BY DEF Inv
<1>2. QED
  BY <1>1, InvHolds, PTL

(* or_insert never takes a user from a connection that was told it has it;    *)
(* only a removal that was decided for another connection does.               *)
THEOREM ToldAreBound == Spec => []ToldIsBound
<1>1. Inv => ToldIsBound
  BY DEF Inv
<1>2. QED
  BY <1>1, InvHolds, PTL

(* close_connect leaves no user with the connection it removes.               *)
THEOREM NobodyStranded == Spec => []NoneStranded
<1>1. Inv => NoneStranded
  BY DEF Inv
<1>2. QED
  BY <1>1, InvHolds, PTL

--------------------------------------------------------------------------------
(* The invariant of the attachments.                                            *)

UploadSteps == {"none", "run", "finishing", "ended"}
Pieces == Attachments \X Nat
UploadRecords == [att : Attachments \cup {Absent}, pc : UploadSteps, cur : Nat,
                  queue : Seq(Nat), route : BOOLEAN]
Chunks == [no : Nat, att : Attachments, id : TransferIds, pos : Nat, len : Nat, upto : Nat,
           stage : {"sent", "queued", "ok", "ahead", "error"}]
Pushers == [att : Attachments \cup {Absent}, id : Nat,
            pc : {"none", "push", "wait", "ended"}, pos : Nat, live : BOOLEAN]

UploadTypes ==
    /\ seq \in Nat /\ sent \in Nat
    /\ uploads \in [TransferIds -> UploadRecords]
    /\ temp \in [Attachments -> Seq(Pieces)]
    /\ files \in [Attachments -> Seq(Pieces) \cup {Absent}]
    /\ tid \in [Attachments -> TransferIds \cup {Absent}]
    /\ acked \in [Attachments -> Nat]
    /\ posted \subseteq Chunks
    /\ mixed \subseteq Attachments \cup Downloads

DownloadTypes ==
    /\ down \in [Downloads -> Pushers]
    /\ info \in [Downloads -> {"none", "wire", "lost", "known"}]
    /\ transfers \in [TransferIds -> Downloads \cup {Absent}]
    /\ chunks \subseteq Downloads \X Nat
    /\ ack \in [Downloads -> {Absent, "ok", "error"}]
    /\ sink \in [Downloads -> Seq(Pieces)]
    /\ printed \subseteq Downloads

\* An id is given to one upload or download; what has none has not begun.
Used == {a \in Attachments : tid[a] # Absent} \cup {d \in Downloads : down[d].pc # "none"}
Numbers ==
    /\ seq <= Cardinality(Used)
    /\ \A i \in TransferIds : i >= seq => uploads[i] = NoUpload
    /\ \A i \in TransferIds : uploads[i].pc = "none" <=> uploads[i].att = Absent
    /\ \A i \in TransferIds : uploads[i].att # Absent => tid[uploads[i].att] = i
    /\ \A a \in Attachments :
          tid[a] = Absent => files[a] = Absent /\ temp[a] = <<>> /\ acked[a] = 0

\* What a worker has written of the upload it works on.
Running(i) == uploads[i].pc \in {"run", "finishing"}
Writes(i) ==
    LET u == uploads[i] IN
    /\ files[u.att] = Absent /\ u.cur <= Len(temp[u.att])
    /\ u.att \notin mixed =>
          /\ u.cur <= Size[u.att]
          /\ u.pc = "run" \/ Filled(u.cur, u.att) => u.cur = Len(temp[u.att])
Workers ==
    /\ \A a \in Attachments : files[a] # Absent => Size[a] <= Len(files[a])
    /\ \A i \in TransferIds : Running(i) => Writes(i)

Beginning(a) ==
    /\ temp[a] = Blocks(a, 0, Len(temp[a]))
    /\ files[a] \in {Absent, Whole(a)}
    /\ acked[a] <= Len(Content(a))
Beginnings == \A a \in Attachments \ mixed : Beginning(a)

\* A chunk is in the queue of its own upload, unless both are mixed.
Placed(r) ==
    /\ tid[r.att] # Absent /\ 1 <= r.len /\ r.pos + r.len <= Size[r.att]
    /\ r.stage = "queued" =>
          /\ uploads[r.id].att # Absent
          /\ uploads[r.id].att = r.att \/ {uploads[r.id].att, r.att} \subseteq mixed
    /\ r.stage = "ok" /\ r.att \notin mixed => r.upto <= Len(Content(r.att))
Asked == \A r \in posted : Placed(r)

UploadInv == UploadTypes /\ Numbers /\ Workers /\ Beginnings /\ Asked

\* A download has one block at a time on its way, the next one to be written.
Flight(c) ==
    LET d == c[1]  a == down[d].att IN
    /\ down[d].pc \in {"wait", "ended"} /\ c[2] < Size[a] /\ files[a] # Absent
    /\ d \notin mixed => Len(sink[d]) = c[2]
    /\ \A e \in chunks : e[1] = d => e = c
    /\ down[d].pc = "wait" => ack[d] = Absent /\ c[2] = down[d].pos
Flights == \A c \in chunks : Flight(c)

Pushed(d) ==
    /\ down[d].pc = "none" <=> down[d].att = Absent
    /\ down[d].pc = "none" => info[d] = "none" /\ sink[d] = <<>> /\ d \notin printed
    /\ down[d].pc # "none" => down[d].id \in TransferIds
    /\ down[d].pc \in {"none", "push"} => ack[d] = Absent
    /\ down[d].pc = "push" /\ d \notin mixed => Len(sink[d]) = down[d].pos
    /\ down[d].pc = "wait" /\ ack[d] = "ok" /\ d \notin mixed => Len(sink[d]) = down[d].pos + 1
Pushes == \A d \in Downloads : Pushed(d)

Holds(d) ==
    LET a == down[d].att IN
    /\ sink[d] # <<>> => /\ files[a] # Absent /\ Len(sink[d]) <= Size[a]
                         /\ \A k \in 1..Len(sink[d]) : sink[d][k] = files[a][k]
    /\ d \in printed => Len(sink[d]) = Size[a]
Sinks == \A d \in Downloads \ mixed : Holds(d)

\* The client has a file only for a download that has begun.
Known == \A i \in TransferIds : transfers[i] # Absent => down[transfers[i]].pc # "none"

DownloadInv == DownloadTypes /\ Flights /\ Pushes /\ Sinks /\ Known
TransferInv == UploadInv /\ DownloadInv

--------------------------------------------------------------------------------
(* Blocks.                                                                      *)

LEMMA BlocksType ==
    ASSUME NEW a \in Attachments, NEW p \in Nat, NEW n \in Nat
    PROVE  Blocks(a, p, n) \in Seq(Pieces) /\ Len(Blocks(a, p, n)) = n
<1>1. \A k \in 1..n : <<a, p + k>> \in Pieces
  BY DEF Pieces
<1>2. Blocks(a, p, n) \in [1..n -> Pieces]
  BY <1>1 DEF Blocks
<1>3. QED
  BY <1>2

LEMMA SameBlocks ==
    ASSUME NEW s \in Seq(Pieces), NEW t \in Seq(Pieces), Len(s) = Len(t),
           \A k \in 1..Len(s) : s[k] = t[k]
    PROVE  s = t
  OBVIOUS

LEMMA BlocksJoin ==
    ASSUME NEW a \in Attachments, NEW m \in Nat, NEW n \in Nat
    PROVE  Blocks(a, 0, m) \o Blocks(a, m, n) = Blocks(a, 0, m + n)
<1> DEFINE s == Blocks(a, 0, m)
           t == Blocks(a, m, n)
           w == Blocks(a, 0, m + n)
<1>1. s \in Seq(Pieces) /\ t \in Seq(Pieces) /\ Len(s) = m /\ Len(t) = n
  BY BlocksType
<1>2. w \in Seq(Pieces) /\ Len(w) = m + n
  BY BlocksType
<1>3. s \o t \in Seq(Pieces) /\ Len(s \o t) = m + n
  BY <1>1
<1>4. ASSUME NEW k \in 1..(m + n) PROVE (s \o t)[k] = w[k]
  <2>1. CASE k <= m
    BY <2>1, <1>1, <1>4 DEF Blocks
  <2>2. CASE k > m
    <3>1. k - m \in 1..n
      BY <2>2, <1>4
    <3>2. (s \o t)[k] = t[k - m]
      BY <2>2, <1>1, <1>4
    <3>3. t[k - m] = <<a, m + (k - m)>> /\ w[k] = <<a, 0 + k>> /\ m + (k - m) = 0 + k
      BY <3>1, <1>4 DEF Blocks
    <3>4. QED
      BY <3>2, <3>3
  <2>3. k <= m \/ k > m
    BY <1>4
  <2>. HIDE DEF s, t, w
  <2>4. QED
    BY <2>1, <2>2, <2>3
<1> HIDE DEF s, t, w
<1>5. s \o t = w
  BY <1>2, <1>3, <1>4, SameBlocks
<1>6. QED
  BY <1>5 DEF s, t, w

LEMMA BlocksBeginning ==
    ASSUME NEW a \in Attachments, NEW m \in Nat, NEW n \in 0..m
    PROVE  SubSeq(Blocks(a, 0, m), 1, n) = Blocks(a, 0, n)
<1>1. Blocks(a, 0, m) \in Seq(Pieces) /\ Len(Blocks(a, 0, m)) = m
  BY BlocksType
<1>2. \A k \in 1..n : Blocks(a, 0, m)[k] = <<a, 0 + k>>
  BY DEF Blocks
<1>3. SubSeq(Blocks(a, 0, m), 1, n) = [k \in 1..n |-> Blocks(a, 0, m)[k]]
  BY <1>1
<1>4. QED
  BY <1>2, <1>3 DEF Blocks

LEMMA SizeType == \A a \in Attachments : Size[a] \in Nat
  BY TransferAssumption

\* Absent is no id, text or answer.
LEMMA AbsentApart ==
    /\ Absent \notin Attachments /\ Absent \notin Downloads /\ Absent \notin TransferIds
    /\ Absent # "ok" /\ Absent # "error" /\ Absent \notin Seq(Pieces)
  BY TransferAssumption DEF TransferIds, Pieces

LEMMA WholeFacts ==
    ASSUME NEW a \in Attachments
    PROVE  /\ Size[a] \in Nat
           /\ Whole(a) = Blocks(a, 0, Size[a]) /\ Whole(a) \in Seq(Pieces)
           /\ Len(Whole(a)) = Size[a] /\ Whole(a) # Absent
  BY BlocksType, SizeType, AbsentApart DEF Whole

LEMMA CountIds == Cardinality(Attachments \cup Downloads) \in Nat /\ 0 \in TransferIds
<1>1. IsFiniteSet(Attachments \cup Downloads)
  BY FS_Union, TransferAssumption
<1>2. QED
  BY <1>1, FS_CardinalityType DEF TransferIds

\* As long as something has no id, there is one left.
LEMMA IdLeft ==
    ASSUME UploadTypes, Numbers, NEW x \in Attachments \cup Downloads, x \notin Used
    PROVE  /\ seq \in TransferIds
           /\ seq + 1 <= Cardinality(Used \cup {x})
<1>1. IsFiniteSet(Attachments \cup Downloads) /\ Used \cup {x} \subseteq Attachments \cup Downloads
  BY FS_Union, TransferAssumption DEF Used
<1>2. IsFiniteSet(Used \cup {x}) /\ Cardinality(Used \cup {x}) <= Cardinality(Attachments \cup Downloads)
  BY <1>1, FS_Subset
<1>3. IsFiniteSet(Used)
  BY <1>1, FS_Subset
<1>4. Cardinality(Used \cup {x}) = Cardinality(Used) + 1 /\ Cardinality(Used) \in Nat
  BY <1>3, FS_AddElement, FS_CardinalityType
<1>5. seq \in Nat /\ seq <= Cardinality(Used)
  BY DEF UploadTypes, Numbers
<1>6. QED
  BY <1>2, <1>4, <1>5, CountIds DEF TransferIds

--------------------------------------------------------------------------------
LEMMA TransferStart == TransferInit => TransferInv
<1> SUFFICES ASSUME TransferInit PROVE TransferInv
  OBVIOUS
<1> USE TransferAssumption DEF TransferInit, NoUpload, NoDownload
<1>1. UploadTypes
  BY CountIds DEF UploadTypes, UploadRecords, UploadSteps
<1>2. DownloadTypes
  BY CountIds DEF DownloadTypes, Pushers
<1>3. Numbers
  <2>1. \A a \in Attachments : tid[a] = Absent
    OBVIOUS
  <2>2. Used = {}
    BY DEF Used
  <2>3. Cardinality(Used) = 0
    BY <2>2, FS_EmptySet
  <2>4. QED
    BY <2>3 DEF Numbers
<1>4. Workers /\ Asked
  BY DEF Workers, Running, Asked
<1>5. Beginnings
  <2> SUFFICES ASSUME NEW a \in Attachments PROVE Beginning(a)
    BY DEF Beginnings
  <2>1. Blocks(a, 0, 0) \in Seq(Pieces) /\ Len(Blocks(a, 0, 0)) = 0
    BY BlocksType
  <2>2. Blocks(a, 0, 0) = <<>>
    BY <2>1
  <2>3. QED
    BY <2>2 DEF Beginning, Content
<1>6. Flights /\ Pushes /\ Sinks /\ Known
  BY DEF Flights, Pushes, Pushed, Sinks, Holds, Known
<1>7. QED
  BY <1>1, <1>2, <1>3, <1>4, <1>5, <1>6 DEF TransferInv, UploadInv, DownloadInv

\* The uploads do not notice what becomes of the downloads, but for an id,
LEMMA UploadStays ==
    ASSUME UploadInv, UNCHANGED <<seq, sent, uploads, temp, files, tid, acked, posted>>,
           Used' = Used, mixed \subseteq mixed', mixed' \subseteq Attachments \cup Downloads
    PROVE  UploadInv'
<1>1. UploadTypes' /\ Numbers'
  BY DEF UploadInv, UploadTypes, Numbers
<1>2. Workers' /\ Beginnings'
  BY DEF UploadInv, Workers, Running, Writes, Filled, Beginnings, Beginning, Content
<1>3. Asked'
  BY DEF UploadInv, Asked, Placed, Content
<1>4. QED
  BY <1>1, <1>2, <1>3 DEF UploadInv

\* ... nor the downloads what becomes of the uploads, as files stay.
LEMMA DownloadStays ==
    ASSUME DownloadInv, UNCHANGED pulls, mixed \subseteq mixed',
           \A a \in Attachments : files[a] # Absent => files'[a] = files[a]
    PROVE  DownloadInv'
<1> USE DEF pulls, serving, client
<1>1. DownloadTypes'
  BY DEF DownloadInv, DownloadTypes
<1>2. \A d \in Downloads : down[d].pc # "none" => down[d].att \in Attachments
  BY DEF DownloadInv, Pushes, Pushed, DownloadTypes, Pushers
<1>3. Flights'
  BY <1>2 DEF DownloadInv, DownloadTypes, Flights, Flight
<1>4. Pushes'
  BY DEF DownloadInv, Pushes, Pushed
<1>5. Sinks'
  <2> SUFFICES ASSUME NEW d \in Downloads, d \notin mixed' PROVE Holds(d)'
    BY DEF Sinks
  <2>1. Holds(d)
    BY DEF DownloadInv, Sinks
  <2>2. sink[d] # <<>> => down[d].att \in Attachments
    BY <1>2 DEF DownloadInv, Pushes, Pushed
  <2>3. QED
    BY <2>1, <2>2 DEF Holds
<1>6. Known'
  BY DEF DownloadInv, Known
<1>7. QED
  BY <1>1, <1>3, <1>4, <1>5, <1>6 DEF DownloadInv

--------------------------------------------------------------------------------
(* Uploads.                                                                     *)

LEMMA RegisterStep ==
    ASSUME UploadInv, NEW a \in Attachments, RegisterUpload(a)
    PROVE  UploadInv'
<1> DEFINE n == [att |-> a, pc |-> "run", cur |-> 0, queue |-> <<>>, route |-> a \notin PageUploads]
<1> USE TransferAssumption
<1>0. UploadTypes /\ Numbers /\ Workers /\ Beginnings /\ Asked
  BY DEF UploadInv
<1>1. tid[a] = Absent /\ a \notin Used
  BY DEF RegisterUpload, Used
<1>2. seq \in TransferIds /\ seq + 1 <= Cardinality(Used \cup {a})
  BY <1>0, <1>1, IdLeft
<1>3. /\ tid' = [tid EXCEPT ![a] = seq] /\ seq' = seq + 1
      /\ uploads' = [uploads EXCEPT ![seq] = n]
      /\ UNCHANGED <<temp, files, posted, sent, acked, down, mixed>>
  BY DEF RegisterUpload, pulls, serving
<1>4. n \in UploadRecords
  BY DEF UploadRecords, UploadSteps
<1>5. UploadTypes'
  BY <1>0, <1>2, <1>3, <1>4 DEF UploadTypes
<1>6. uploads[seq].att = Absent /\ seq \in Nat /\ files[a] = Absent /\ temp[a] = <<>> /\ acked[a] = 0
  BY <1>0, <1>1, <1>2 DEF Numbers, NoUpload, UploadTypes
<1>7. /\ tid'[a] = seq /\ \A b \in Attachments : b # a => tid'[b] = tid[b]
      /\ uploads'[seq] = n /\ \A i \in TransferIds : i # seq => uploads'[i] = uploads[i]
  BY <1>0, <1>2, <1>3 DEF UploadTypes
<1>8. Used' = Used \cup {a}
  BY <1>3, <1>7, <1>6 DEF Used
<1>9. Numbers'
  <2>1. seq' <= Cardinality(Used')
    BY <1>2, <1>3, <1>8
  <2>2. \A i \in TransferIds : i >= seq' => uploads'[i] = NoUpload
    <3> SUFFICES ASSUME NEW i \in TransferIds, i >= seq + 1 PROVE uploads'[i] = NoUpload
      BY <1>3
    <3>1. i # seq /\ i >= seq
      BY <1>6 DEF TransferIds
    <3>2. QED
      BY <3>1, <1>0, <1>7 DEF Numbers
  <2>3. \A i \in TransferIds : uploads'[i].pc = "none" <=> uploads'[i].att = Absent
    BY <1>0, <1>7 DEF Numbers
  <2>4. \A i \in TransferIds : uploads'[i].att # Absent => tid'[uploads'[i].att] = i
    <3> SUFFICES ASSUME NEW i \in TransferIds, uploads'[i].att # Absent
                 PROVE  tid'[uploads'[i].att] = i
      OBVIOUS
    <3>1. CASE i = seq
      BY <3>1, <1>7
    <3>2. CASE i # seq
      <4>1. uploads'[i] = uploads[i] /\ tid[uploads[i].att] = i /\ uploads[i].att \in Attachments
        BY <3>2, <1>0, <1>7 DEF Numbers, UploadTypes, UploadRecords
      <4>2. i # Absent
        BY DEF TransferIds
      <4>3. QED
        BY <4>1, <4>2, <1>1, <1>7
    <3>3. QED
      BY <3>1, <3>2
  <2>5. \A b \in Attachments :
            tid'[b] = Absent => files'[b] = Absent /\ temp'[b] = <<>> /\ acked'[b] = 0
    BY <1>0, <1>3, <1>6, <1>7 DEF Numbers
  <2>6. QED
    BY <2>1, <2>2, <2>3, <2>4, <2>5 DEF Numbers
<1>10. Workers'
  <2>1. ASSUME NEW i \in TransferIds, i = seq PROVE Writes(i)'
    BY <2>1, <1>3, <1>6, <1>7 DEF Writes
  <2>2. ASSUME NEW i \in TransferIds, i # seq, Running(i)' PROVE Writes(i)'
    BY <2>2, <1>0, <1>3, <1>7 DEF Workers, Running, Writes, Filled
  <2>3. QED
    BY <2>1, <2>2, <1>0, <1>3 DEF Workers
<1>11. Beginnings'
  BY <1>0, <1>3 DEF Beginnings, Beginning, Content
<1>12. Asked'
  <2> SUFFICES ASSUME NEW r \in posted PROVE Placed(r)'
    BY <1>3 DEF Asked
  <2>1. Placed(r) /\ r.id \in TransferIds /\ r.att \in Attachments
    BY <1>0 DEF Asked, UploadTypes, Chunks
  <2>2. tid'[r.att] # Absent
    BY <2>1, <1>6, <1>7 DEF Placed
  <2>3. uploads[r.id].att # Absent => uploads'[r.id] = uploads[r.id]
    BY <2>1, <1>6, <1>7
  <2>4. QED
    BY <2>1, <2>2, <2>3, <1>3 DEF Placed, Content
<1>13. QED
  BY <1>5, <1>9, <1>10, <1>11, <1>12 DEF UploadInv

\* Requests that come, fail or are done with, and nothing else.
LEMMA RequestStep ==
    ASSUME UploadInv, UNCHANGED <<seq, uploads, temp, files, tid, acked, down, mixed>>,
           sent' \in Nat, posted' \subseteq Chunks, \A r \in posted' : Placed(r)
    PROVE  UploadInv'
<1>1. UploadTypes'
  BY DEF UploadInv, UploadTypes
<1>2. Numbers'
  BY DEF UploadInv, Numbers, Used
<1>3. Workers' /\ Beginnings'
  BY DEF UploadInv, Workers, Running, Writes, Filled, Beginnings, Beginning, Content
<1>4. Asked'
  BY DEF Asked, Placed, Content
<1>5. QED
  BY <1>1, <1>2, <1>3, <1>4 DEF UploadInv

\* A step of an upload that has begun.
Steps(i, u) ==
    /\ uploads[i].att # Absent /\ u \in UploadRecords
    /\ u.att = uploads[i].att /\ u.pc # "none"
    /\ uploads' = [uploads EXCEPT ![i] = u]
    /\ UNCHANGED <<seq, tid, down>>

LEMMA StepFacts ==
    ASSUME UploadInv, NEW i \in TransferIds, NEW u, Steps(i, u),
           \A a \in Attachments :
              tid[a] = Absent => UNCHANGED <<files[a], temp[a], acked[a]>>
    PROVE  /\ uploads[i].att \in Attachments /\ tid[uploads[i].att] = i /\ i # Absent
           /\ uploads' \in [TransferIds -> UploadRecords]
           /\ uploads'[i] = u /\ \A j \in TransferIds \ {i} : uploads'[j] = uploads[j]
           /\ \A j \in TransferIds : uploads'[j].att = uploads[j].att
           /\ \A j \in TransferIds \ {i} : uploads[j].att # uploads[i].att
           /\ Numbers'
<1>0. UploadTypes /\ Numbers
  BY DEF UploadInv
<1>1. /\ uploads' \in [TransferIds -> UploadRecords]
      /\ uploads'[i] = u /\ \A j \in TransferIds \ {i} : uploads'[j] = uploads[j]
  BY <1>0 DEF Steps, UploadTypes
<1>2. uploads[i].att \in Attachments /\ tid[uploads[i].att] = i
  BY <1>0 DEF Steps, UploadTypes, UploadRecords, Numbers
<1>3. i # Absent
  BY AbsentApart
<1>4. \A j \in TransferIds : uploads'[j].att = uploads[j].att
  BY <1>1 DEF Steps
<1>5. \A j \in TransferIds \ {i} : uploads[j].att # uploads[i].att
  BY <1>0, <1>2, <1>3 DEF Numbers, Steps
<1>6. i < seq
  <2>1. NoUpload.att = Absent
    BY DEF NoUpload
  <2>2. ~ i >= seq
    BY <1>0, <2>1 DEF Numbers, Steps
  <2>3. QED
    BY <1>0, <2>2, CountIds DEF UploadTypes, TransferIds
<1>7. Numbers'
  <2>1. seq' <= Cardinality(Used')
    BY <1>0 DEF Numbers, Used, Steps
  <2>2. \A j \in TransferIds : j >= seq' => uploads'[j] = NoUpload
    <3> SUFFICES ASSUME NEW j \in TransferIds, j >= seq PROVE uploads'[j] = NoUpload
      BY DEF Steps
    <3>1. j # i
      BY <1>6, <1>0, CountIds DEF UploadTypes, TransferIds
    <3>2. QED
      BY <3>1, <1>0, <1>1 DEF Numbers
  <2>3. \A j \in TransferIds : uploads'[j].pc = "none" <=> uploads'[j].att = Absent
    BY <1>0, <1>1 DEF Numbers, Steps
  <2>4. \A j \in TransferIds : uploads'[j].att # Absent => tid'[uploads'[j].att] = j
    BY <1>0, <1>4 DEF Numbers, Steps
  <2>5. \A a \in Attachments :
            tid'[a] = Absent => files'[a] = Absent /\ temp'[a] = <<>> /\ acked'[a] = 0
    BY <1>0 DEF Numbers, Steps
  <2>6. QED
    BY <2>1, <2>2, <2>3, <2>4, <2>5 DEF Numbers
<1>8. QED
  BY <1>1, <1>2, <1>3, <1>4, <1>5, <1>7

LEMMA PlacedStays ==
    ASSUME NEW r \in Chunks, Placed(r), tid' = tid, mixed \subseteq mixed',
           \A j \in TransferIds : uploads'[j].att = uploads[j].att,
           \A a \in Attachments \ mixed' : Len(Content(a)) <= Len(Content(a)'),
           \A a \in Attachments : Len(Content(a)) \in Nat /\ Len(Content(a)') \in Nat
    PROVE  Placed(r)'
  BY DEF Placed, Chunks

LEMMA ContentType ==
    ASSUME UploadTypes, NEW a \in Attachments
    PROVE  Content(a) \in Seq(Pieces) /\ Len(Content(a)) \in Nat
  BY DEF UploadTypes, Content

LEMMA SendStep ==
    ASSUME UploadInv, NEW a \in Attachments, NEW p \in 0..Size[a], NEW n \in 1..Size[a] - p,
           SendChunk(a, p, n)
    PROVE  UploadInv'
<1> DEFINE r == [no |-> sent, att |-> a, id |-> tid[a], pos |-> p, len |-> n, upto |-> 0,
                 stage |-> "sent"]
<1>0. UploadTypes /\ Asked /\ Size[a] \in Nat
  BY SizeType DEF UploadInv
<1>1. r \in Chunks /\ Placed(r)
  BY <1>0 DEF UploadTypes, Chunks, SendChunk, Placed
<1>2. posted' = posted \cup {r} /\ sent' = sent + 1
  BY DEF SendChunk
<1>3. UNCHANGED <<seq, uploads, temp, files, tid, acked, down, mixed>>
  BY DEF SendChunk, store, pulls, serving
<1> HIDE DEF r
<1>4. sent' \in Nat /\ posted' \subseteq Chunks /\ \A q \in posted' : Placed(q)
  BY <1>0, <1>1, <1>2 DEF UploadTypes, Asked
<1>5. QED
  BY <1>3, <1>4, RequestStep

LEMMA DropStep ==
    ASSUME UploadInv, NEW r \in posted, NotFound(r) \/ Abandon(r)
    PROVE  UploadInv'
<1> DEFINE q == [r EXCEPT !.stage = "error"]
<1>0. UploadTypes /\ Asked /\ r \in Chunks /\ Placed(r)
  BY DEF UploadInv, UploadTypes, Asked
<1>1. q \in Chunks /\ Placed(q)
  BY <1>0 DEF Chunks, Placed
<1>2. posted' \subseteq posted \cup {q}
  BY DEF NotFound, Abandon, Becomes
<1>3. UNCHANGED <<seq, uploads, temp, files, tid, acked, down, mixed, sent>>
  BY DEF NotFound, Abandon, store, pulls, serving
<1> HIDE DEF q
<1>4. sent' \in Nat /\ posted' \subseteq Chunks /\ \A z \in posted' : Placed(z)
  BY <1>0, <1>1, <1>2, <1>3 DEF UploadTypes, Asked
<1>5. QED
  BY <1>3, <1>4, RequestStep

LEMMA WriteChunkStep ==
    ASSUME UploadInv, NEW r \in posted, WriteChunk(r)
    PROVE  UploadInv'
<1> DEFINE i == r.id
           u == [uploads[i] EXCEPT !.queue = Append(@, r.no)]
<1>0. UploadTypes /\ Workers /\ Beginnings /\ Asked /\ Numbers /\ r \in Chunks /\ Placed(r)
  BY DEF UploadInv, UploadTypes, Asked
<1>1. i \in TransferIds
  BY <1>0 DEF Chunks
<1>2. /\ r.stage = "sent"
      /\ UNCHANGED <<seq, temp, files, tid, sent, acked, down>>
  BY DEF WriteChunk, pulls, serving
<1>3. CASE ~Running(i)
  <2> DEFINE q == [r EXCEPT !.stage = "error"]
  <2>1. q \in Chunks /\ Placed(q)
    BY <1>0 DEF Chunks, Placed
  <2>2. posted' \subseteq posted \cup {q} /\ UNCHANGED <<uploads, mixed>>
    BY <1>3 DEF WriteChunk, Becomes, Running
  <2> HIDE DEF q
  <2>3. sent' \in Nat /\ posted' \subseteq Chunks /\ \A z \in posted' : Placed(z)
    BY <1>0, <1>2, <2>1, <2>2 DEF UploadTypes, Asked
  <2>4. QED
    BY <1>2, <2>2, <2>3, RequestStep
<1>4. CASE Running(i)
  <2> DEFINE q == [r EXCEPT !.stage = "queued"]
  <2>0. uploads[i] \in UploadRecords /\ uploads[i].pc \in {"run", "finishing"}
    BY <1>0, <1>1, <1>4 DEF UploadTypes, Running
  <2>1. /\ posted' = (posted \ {r}) \cup {q}
        /\ uploads' = [uploads EXCEPT ![i] = u]
        /\ mixed' = IF uploads[i].att = r.att THEN mixed
                    ELSE mixed \cup {uploads[i].att, r.att}
    BY <2>0 DEF WriteChunk, Becomes
  <2>2. /\ u \in UploadRecords /\ u.att = uploads[i].att /\ u.pc = uploads[i].pc
        /\ u.cur = uploads[i].cur
    <3>1. Append(uploads[i].queue, r.no) \in Seq(Nat)
      BY <2>0, <1>0 DEF UploadRecords, Chunks
    <3>2. QED
      BY <2>0, <3>1 DEF UploadRecords
  <2>3. uploads[i].att # Absent
    BY <1>0, <1>1, <2>0 DEF Numbers
  <2> HIDE DEF u, i
  <2>4. Steps(i, u)
    BY <1>2, <2>0, <2>1, <2>2, <2>3 DEF Steps
  <2>5. /\ uploads[i].att \in Attachments
        /\ uploads' \in [TransferIds -> UploadRecords]
        /\ uploads'[i] = u /\ \A j \in TransferIds \ {i} : uploads'[j] = uploads[j]
        /\ \A j \in TransferIds : uploads'[j].att = uploads[j].att
        /\ Numbers'
    BY <1>1, <1>2, <2>4, StepFacts
  <2>6. mixed \subseteq mixed' /\ mixed' \subseteq Attachments \cup Downloads
    BY <1>0, <2>1, <2>5 DEF UploadTypes, Chunks
  <2>7. q \in Chunks
    BY <1>0 DEF Chunks
  <2>8. UploadTypes'
    BY <1>0, <1>2, <2>1, <2>5, <2>6, <2>7 DEF UploadTypes
  <2>9. Workers'
    <3>1. ASSUME NEW j \in TransferIds
          PROVE  /\ uploads'[j].att = uploads[j].att /\ uploads'[j].pc = uploads[j].pc
                 /\ uploads'[j].cur = uploads[j].cur
      BY <2>2, <2>5
    <3>2. QED
      BY <1>0, <1>2, <2>6, <3>1 DEF Workers, Running, Writes, Filled
  <2>10. Beginnings'
    BY <1>0, <1>2, <2>6 DEF Beginnings, Beginning, Content
  <2>11. Asked'
    <3>1. \A a \in Attachments : Content(a)' = Content(a) /\ Len(Content(a)) \in Nat
      BY <1>0, <1>2, ContentType DEF Content
    <3>2. ASSUME NEW z \in posted PROVE Placed(z)'
      <4>1. z \in Chunks /\ Placed(z)
        BY <1>0 DEF UploadTypes, Asked
      <4>2. QED
        BY <4>1, <3>1, <1>2, <2>5, <2>6, PlacedStays
    <3>3. /\ q.att = r.att /\ q.len = r.len /\ q.pos = r.pos /\ q.id = i /\ q.stage = "queued"
      BY <1>0 DEF Chunks, i
    <3> HIDE DEF q
    <3>4. ASSUME NEW z, z = q PROVE Placed(z)'
      BY <1>0, <1>1, <1>2, <2>1, <2>3, <2>5, <3>3, <3>4 DEF Placed
    <3>5. QED
      BY <2>1, <3>2, <3>4 DEF Asked
  <2>12. QED
    BY <2>5, <2>8, <2>9, <2>10, <2>11 DEF UploadInv
<1>5. QED
  BY <1>3, <1>4

\* The worker writes n blocks of a chunk, or none, answers it and goes on or ends.
Works(i, r, n, u, stage, p) ==
    LET a == uploads[i].att IN
    /\ temp' = IF n = 0 THEN temp ELSE [temp EXCEPT ![a] = @ \o Blocks(r.att, r.pos, n)]
    /\ posted' = Answer(r, stage, p)
    /\ UNCHANGED <<files, acked, sent, mixed>>
    /\ Steps(i, u)

LEMMA BlocksMore ==
    ASSUME NEW s \in Seq(Pieces), NEW a \in Attachments, NEW p \in Nat, NEW n \in Nat
    PROVE  s \o Blocks(a, p, n) \in Seq(Pieces) /\ Len(s \o Blocks(a, p, n)) = Len(s) + n
<1>1. Blocks(a, p, n) \in Seq(Pieces) /\ Len(Blocks(a, p, n)) = n
  BY BlocksType
<1> HIDE DEF Blocks
<1>2. QED
  BY <1>1

LEMMA BlocksNone ==
    ASSUME NEW s \in Seq(Pieces), NEW a \in Attachments, NEW p \in Nat
    PROVE  s \o Blocks(a, p, 0) = s
<1>1. Blocks(a, p, 0) \in Seq(Pieces) /\ Len(Blocks(a, p, 0)) = 0
  BY BlocksType
<1> HIDE DEF Blocks
<1>2. QED
  BY <1>1

LEMMA WorksStep ==
    ASSUME UploadInv, NEW i \in TransferIds, uploads[i].pc = "run",
           NEW a, a = uploads[i].att,
           NEW r \in posted, r.stage = "queued", r.id = i,
           NEW n \in 0..r.len, n # 0 => r.pos = uploads[i].cur,
           NEW u, NEW stage \in {"ok", "ahead", "error"},
           NEW p \in Nat, p <= u.cur, Works(i, r, n, u, stage, p),
           u.cur <= uploads[i].cur + n,
           uploads[i].att \notin mixed /\ (u.pc = "run" \/ Filled(u.cur, u.att)) =>
               u.cur = uploads[i].cur + n
    PROVE  UploadInv'
<1> DEFINE q == [r EXCEPT !.stage = stage, !.upto = p]
<1>0. UploadTypes /\ Numbers /\ Workers /\ Beginnings /\ Asked /\ r \in Chunks /\ Placed(r)
  BY DEF UploadInv, UploadTypes, Asked
<1>1. /\ posted' = (posted \ {r}) \cup {q} /\ Steps(i, u)
      /\ UNCHANGED <<files, acked, sent, mixed, seq, tid, down>>
  BY DEF Works, Answer, Steps
<1>2. u \in UploadRecords /\ u.att = a /\ u.cur \in Nat
  BY <1>1 DEF Steps, UploadRecords
<1>3. /\ Writes(i) /\ files[a] = Absent /\ uploads[i].cur <= Len(temp[a])
      /\ uploads[i].cur \in Nat /\ a \in Attachments /\ tid[a] # Absent
  <2>1. Writes(i)
    BY <1>0 DEF Workers, Running
  <2>2. a \in Attachments /\ tid[a] = i /\ uploads[i].cur \in Nat
    BY <1>0, <1>1 DEF UploadTypes, UploadRecords, Steps, Numbers
  <2>3. QED
    BY <2>1, <2>2, AbsentApart DEF Writes
<1>4. r.att \in Attachments /\ r.pos \in Nat /\ r.len \in Nat /\ n \in Nat /\ n <= r.len
  BY <1>0 DEF Chunks
<1>5. /\ temp'[a] = temp[a] \o Blocks(r.att, r.pos, n)
      /\ temp' \in [Attachments -> Seq(Pieces)]
      /\ \A b \in Attachments \ {a} : temp'[b] = temp[b]
      /\ Len(temp'[a]) = Len(temp[a]) + n
  <2>2. temp[a] \in Seq(Pieces)
    BY <1>0, <1>3 DEF UploadTypes
  <2> HIDE DEF Blocks
  <2>3. CASE n = 0
    <3>1. temp' = temp /\ temp[a] \o Blocks(r.att, r.pos, n) = temp[a]
      BY <2>3, <2>2, <1>4, BlocksNone DEF Works
    <3>2. QED
      BY <3>1, <2>2, <2>3, <1>0 DEF UploadTypes
  <2>4. CASE n # 0
    <3>1. temp' = [temp EXCEPT ![a] = temp[a] \o Blocks(r.att, r.pos, n)]
      BY <2>4 DEF Works
    <3>2. /\ temp[a] \o Blocks(r.att, r.pos, n) \in Seq(Pieces)
          /\ Len(temp[a] \o Blocks(r.att, r.pos, n)) = Len(temp[a]) + n
      BY <2>2, <1>4, BlocksMore
    <3>3. QED
      BY <3>1, <3>2, <1>0, <1>3 DEF UploadTypes
  <2>5. QED
    BY <2>3, <2>4
<1>6. /\ uploads' \in [TransferIds -> UploadRecords]
      /\ uploads'[i] = u /\ \A j \in TransferIds \ {i} : uploads'[j] = uploads[j]
      /\ \A j \in TransferIds : uploads'[j].att = uploads[j].att
      /\ \A j \in TransferIds \ {i} : uploads[j].att # a
      /\ Numbers'
  <2>1. \A b \in Attachments : tid[b] = Absent => UNCHANGED <<files[b], temp[b], acked[b]>>
    BY <1>1, <1>3, <1>5
  <2>2. QED
    BY <1>1, <2>1, StepFacts
<1>7. q \in Chunks
  BY <1>0, <1>2 DEF Chunks
<1>8. UploadTypes'
  BY <1>0, <1>1, <1>5, <1>6, <1>7 DEF UploadTypes
<1>9. a \notin mixed => r.att = a
  BY <1>0 DEF Placed
<1>10. a \notin mixed => /\ uploads[i].cur = Len(temp[a]) /\ uploads[i].cur <= Size[a]
                         /\ n = 0 \/ r.pos = Len(temp[a])
                         /\ Len(temp[a]) + n <= Size[a]
  <2>1. a \notin mixed => uploads[i].cur = Len(temp[a]) /\ uploads[i].cur <= Size[a]
    BY <1>3 DEF Writes
  <2>2. r.pos + r.len <= Size[r.att] /\ Size[a] \in Nat /\ Len(temp[a]) \in Nat
    BY <1>0, <1>3, SizeType DEF Placed, UploadTypes
  <2>3. QED
    <3>1. a \notin mixed => n = 0 \/ r.pos = Len(temp[a])
      BY <2>1
    <3>2. a \notin mixed => Len(temp[a]) + n <= Size[a]
      <4> SUFFICES ASSUME a \notin mixed PROVE Len(temp[a]) + n <= Size[a]
        OBVIOUS
      <4>1. r.pos + n <= Size[a] /\ Len(temp[a]) <= Size[a]
        BY <2>1, <2>2, <1>4, <1>9
      <4>2. QED
        BY <4>1, <3>1, <2>2, <1>4
    <3>3. QED
      BY <2>1, <3>1, <3>2
<1>11. Workers'
  <2>1. ASSUME NEW j \in TransferIds, j # i, Running(j)' PROVE Writes(j)'
    <3>1. Running(j) /\ uploads'[j] = uploads[j] /\ uploads[j].att # a
      BY <2>1, <1>6 DEF Running
    <3>2. uploads[j].att \in Attachments
      BY <3>1, <1>0 DEF Running, Numbers, UploadTypes, UploadRecords
    <3>3. QED
      BY <3>1, <3>2, <1>0, <1>1, <1>5 DEF Workers, Writes, Filled
  <2>2. Writes(i)'
    <3>1. files'[a] = Absent /\ u.cur <= Len(temp'[a])
      BY <1>0, <1>1, <1>2, <1>3, <1>4, <1>5, ContentType DEF UploadTypes
    <3>2. a \notin mixed' => /\ u.cur <= Size[a]
                             /\ u.pc = "run" \/ Filled(u.cur, a) => u.cur = Len(temp'[a])
      <4> SUFFICES ASSUME a \notin mixed
                   PROVE  /\ u.cur <= Size[a]
                          /\ u.pc = "run" \/ Filled(u.cur, a) => u.cur = Len(temp'[a])
        BY <1>1
      <4>1. Size[a] \in Nat /\ Len(temp[a]) \in Nat
        BY <1>0, <1>3, SizeType DEF UploadTypes
      <4>2. u.cur <= Size[a]
        BY <4>1, <1>2, <1>3, <1>4, <1>10, SMTT(60)
      <4>3. u.pc = "run" \/ Filled(u.cur, a) => u.cur = Len(temp'[a])
        BY <1>2, <1>5, <1>10
      <4>4. QED
        BY <4>2, <4>3
    <3>3. QED
      BY <3>1, <3>2, <1>2, <1>6 DEF Writes, Filled
  <2>3. QED
    BY <2>1, <2>2, <1>0, <1>1 DEF Workers
<1>12. Beginnings'
  <2> SUFFICES ASSUME NEW b \in Attachments, b \notin mixed PROVE Beginning(b)'
    BY <1>1 DEF Beginnings
  <2>0. Beginning(b)
    BY <1>0 DEF Beginnings
  <2>1. CASE b # a
    BY <2>0, <2>1, <1>1, <1>5 DEF Beginning, Content
  <2>2. CASE b = a
    <3>1. temp[a] = Blocks(a, 0, Len(temp[a])) /\ acked[a] <= Len(temp[a]) /\ Len(temp[a]) \in Nat
      BY <2>0, <2>2, <1>0, <1>3 DEF Beginning, Content, UploadTypes
    <3>2. temp'[a] = temp[a] \o Blocks(a, Len(temp[a]), n)
      <4>1. CASE n = 0
        <5>1. temp[a] \in Seq(Pieces)
          BY <1>0, <1>3 DEF UploadTypes
        <5>2. /\ temp[a] \o Blocks(r.att, r.pos, 0) = temp[a]
              /\ temp[a] \o Blocks(a, Len(temp[a]), 0) = temp[a]
          BY <5>1, <1>3, <1>4, <3>1, BlocksNone
        <5>3. QED
          BY <4>1, <5>2, <1>5
      <4>2. CASE n # 0
        BY <4>2, <2>2, <1>5, <1>9, <1>10
      <4>3. QED
        BY <4>1, <4>2
    <3>3. Blocks(a, 0, Len(temp[a])) \o Blocks(a, Len(temp[a]), n) = Blocks(a, 0, Len(temp[a]) + n)
      BY <1>3, <1>4, <3>1, BlocksJoin
    <3>4. temp'[a] = Blocks(a, 0, Len(temp'[a]))
      BY <3>1, <3>2, <3>3, <1>5
    <3>5. files'[a] = Absent /\ acked'[a] <= Len(temp'[a])
      BY <3>1, <1>0, <1>1, <1>3, <1>4, <1>5 DEF UploadTypes
    <3>6. QED
      BY <3>4, <3>5, <2>2 DEF Beginning, Content
  <2>3. QED
    BY <2>1, <2>2
<1>13. Asked'
  <2>0. \A b \in Attachments : Len(Content(b)) \in Nat /\ Len(Content(b)') \in Nat
    <3>1. \A b \in Attachments : Len(Content(b)) \in Nat
      BY <1>0, ContentType
    <3>2. \A b \in Attachments : Content(b)' \in Seq(Pieces)
      BY <1>8 DEF UploadTypes, Content
    <3>3. QED
      BY <3>1, <3>2
  <2>1. \A b \in Attachments : Len(Content(b)) <= Len(Content(b)')
    <3> SUFFICES ASSUME NEW b \in Attachments PROVE Len(Content(b)) <= Len(Content(b)')
      OBVIOUS
    <3>1. CASE b # a
      BY <2>0, <3>1, <1>1, <1>5 DEF Content
    <3>2. CASE b = a
      <4>1. Content(b) = temp[a] /\ Content(b)' = temp'[a]
        BY <3>2, <1>1, <1>3 DEF Content
      <4>2. QED
        BY <4>1, <2>0, <1>4, <1>5
    <3>3. QED
      BY <3>1, <3>2
  <2>2. ASSUME NEW z \in posted PROVE Placed(z)'
    <3>1. z \in Chunks /\ Placed(z)
      BY <1>0 DEF UploadTypes, Asked
    <3>2. tid' = tid /\ mixed \subseteq mixed'
      BY <1>1
    <3>3. QED
      BY <3>1, <3>2, <2>0, <2>1, <1>6, PlacedStays
  <2>3. /\ q.att = r.att /\ q.len = r.len /\ q.pos = r.pos /\ q.id = r.id
        /\ q.stage = stage /\ q.upto = p
    BY <1>0 DEF Chunks
  <2>4. r.att \notin mixed => r.att = a
    BY <1>0 DEF Placed
  <2>5. p <= Len(temp'[a]) /\ Content(a)' = temp'[a]
    <3>1. Len(temp[a]) \in Nat
      BY <1>0, <1>3 DEF UploadTypes
    <3>2. p <= Len(temp'[a])
      BY <3>1, <1>2, <1>3, <1>4, <1>5, SMTT(60)
    <3>3. Content(a)' = temp'[a]
      BY <1>1, <1>3 DEF Content
    <3>4. QED
      BY <3>2, <3>3
  <2> HIDE DEF q
  <2>6. ASSUME NEW z, z = q PROVE Placed(z)'
    BY <2>2, <2>3, <2>4, <2>5, <2>6, <1>1 DEF Placed
  <2>7. QED
    BY <1>1, <2>2, <2>6 DEF Asked
<1>14. QED
  BY <1>6, <1>8, <1>11, <1>12, <1>13 DEF UploadInv

LEMMA WorkStep ==
    ASSUME UploadInv, NEW i \in TransferIds, Work(i)
    PROVE  UploadInv'
<1>0. UploadTypes /\ Numbers /\ Asked /\ uploads[i].pc = "run" /\ uploads[i].queue # <<>>
  BY DEF UploadInv, Work
<1>1. uploads[i] \in UploadRecords /\ uploads[i].att # Absent
  BY <1>0 DEF UploadTypes, Numbers
<1> DEFINE a == uploads[i].att
           cur(r) == IF WritesAt(r.pos, uploads[i].cur) THEN uploads[i].cur + r.len
                     ELSE uploads[i].cur
           u(r) == [uploads[i] EXCEPT !.cur = cur(r), !.queue = Tail(@),
                                      !.pc = IF Filled(cur(r), a) THEN "finishing" ELSE @]
           stage(r) == IF r.pos > uploads[i].cur THEN "ahead" ELSE "ok"
           n(r) == IF WritesAt(r.pos, uploads[i].cur) THEN r.len ELSE 0
<1>a. PICK r \in posted :
        /\ r.stage = "queued" /\ r.id = i
        /\ temp' = IF WritesAt(r.pos, uploads[i].cur)
                   THEN [temp EXCEPT ![a] = @ \o Blocks(r.att, r.pos, r.len)] ELSE temp
        /\ uploads' = [uploads EXCEPT ![i].cur = cur(r), ![i].queue = Tail(@),
                            ![i].pc = IF Filled(cur(r), a) THEN "finishing" ELSE @]
        /\ posted' = Answer(r, stage(r), cur(r))
  <2> HIDE DEF a, cur, stage
  <2>1. QED
    BY Zenon DEF Work, a, cur, stage
<1>b. uploads' = [uploads EXCEPT ![i] = u(r)]
  <2> HIDE DEF a, cur
  <2>1. QED
    BY <1>a, <1>0 DEF UploadTypes, UploadRecords
<1>2. /\ r.stage = "queued" /\ r.id = i
      /\ temp' = IF WritesAt(r.pos, uploads[i].cur)
                 THEN [temp EXCEPT ![a] = @ \o Blocks(r.att, r.pos, r.len)] ELSE temp
      /\ uploads' = [uploads EXCEPT ![i] = u(r)]
      /\ posted' = Answer(r, stage(r), cur(r))
  <2> HIDE DEF a, cur, stage, u
  <2>1. QED
    BY <1>a, <1>b
<1>3. r.pos \in Nat /\ r.len \in Nat /\ 1 <= r.len /\ uploads[i].cur \in Nat
  BY <1>0, <1>1 DEF UploadTypes, Chunks, Asked, Placed, UploadRecords
<1>4. cur(r) \in Nat /\ cur(r) = uploads[i].cur + n(r) /\ n(r) \in 0..r.len
  BY <1>3
<1>5. /\ u(r) \in UploadRecords /\ u(r).att = a /\ u(r).cur = cur(r) /\ u(r).pc # "none"
  <2>1. Tail(uploads[i].queue) \in Seq(Nat)
    BY <1>0, <1>1 DEF UploadRecords
  <2> HIDE DEF cur
  <2>2. QED
    BY <1>0, <1>1, <1>4, <2>1 DEF UploadRecords, UploadSteps
<1>6. UNCHANGED <<seq, files, tid, sent, acked, down, mixed>>
  BY DEF Work, pulls, serving
<1>7. Steps(i, u(r))
  <2> HIDE DEF u
  <2>1. QED
    BY <1>1, <1>2, <1>5, <1>6 DEF Steps
<1>8. n(r) # 0 => r.pos = uploads[i].cur
  BY DEF WritesAt
<1>9. Works(i, r, n(r), u(r), stage(r), cur(r))
  <2>1. temp' = IF n(r) = 0 THEN temp
                ELSE [temp EXCEPT ![a] = @ \o Blocks(r.att, r.pos, n(r))]
    <3> HIDE DEF u, stage, cur
    <3>1. CASE WritesAt(r.pos, uploads[i].cur)
      <4>1. n(r) = r.len /\ r.len # 0
        BY <3>1, <1>3
      <4>2. QED
        BY <4>1, <3>1, <1>2
    <3>2. CASE ~WritesAt(r.pos, uploads[i].cur)
      BY <3>2, <1>2
    <3>3. QED
      BY <3>1, <3>2
  <2> HIDE DEF u, n, stage, cur
  <2>2. QED
    BY <1>2, <1>5, <1>6, <1>7, <2>1 DEF Works
<1>10. stage(r) \in {"ok", "ahead", "error"}
  OBVIOUS
<1> HIDE DEF u, n, stage, cur
<1>11. QED
  BY <1>0, <1>2, <1>3, <1>4, <1>5, <1>8, <1>9, <1>10, WorksStep

LEMMA WorkFailsStep ==
    ASSUME UploadInv, NEW i \in TransferIds, WorkFails(i)
    PROVE  UploadInv'
<1>0. UploadTypes /\ Numbers /\ Asked /\ Workers /\ uploads[i].pc = "run" /\ uploads[i].queue # <<>>
  BY DEF UploadInv, WorkFails
<1>1. uploads[i] \in UploadRecords /\ uploads[i].att # Absent /\ Writes(i)
  BY <1>0 DEF UploadTypes, Numbers, Workers, Running
<1> DEFINE a == uploads[i].att
           u == [uploads[i] EXCEPT !.queue = Tail(@), !.pc = "finishing"]
<1>2. PICK r \in posted :
        /\ r.stage = "queued" /\ r.id = i /\ r.pos = uploads[i].cur
        /\ \E n \in 0..r.len : temp' = [temp EXCEPT ![a] = @ \o Blocks(r.att, r.pos, n)]
        /\ uploads' = [uploads EXCEPT ![i] = u]
        /\ posted' = Answer(r, "error", 0)
  BY DEF WorkFails
<1>3. PICK n \in 0..r.len : temp' = [temp EXCEPT ![a] = @ \o Blocks(r.att, r.pos, n)]
  BY <1>2
<1>4. /\ r \in Chunks /\ Placed(r) /\ r.pos \in Nat /\ r.len \in Nat /\ 1 <= r.len
      /\ uploads[i].cur \in Nat /\ r.att \in Attachments /\ a \in Attachments
  BY <1>0, <1>1 DEF UploadTypes, Chunks, Asked, Placed, UploadRecords
<1>5. /\ u \in UploadRecords /\ u.att = a /\ u.cur = uploads[i].cur /\ u.pc = "finishing"
  <2>1. Tail(uploads[i].queue) \in Seq(Nat)
    BY <1>0, <1>1 DEF UploadRecords
  <2>2. QED
    BY <1>1, <2>1 DEF UploadRecords, UploadSteps
<1>6. UNCHANGED <<seq, files, tid, sent, acked, down, mixed>>
  BY DEF WorkFails, pulls, serving
<1> HIDE DEF u
<1>7. Steps(i, u)
  BY <1>1, <1>2, <1>5, <1>6 DEF Steps
<1>8. a \notin mixed => ~Filled(u.cur, u.att)
  <2>1. a \notin mixed => r.att = a
    BY <1>2, <1>4 DEF Placed
  <2>2. r.pos + r.len <= Size[r.att] /\ Size[a] \in Nat
    BY <1>4, SizeType DEF Placed
  <2>3. QED
    BY <2>1, <2>2, <1>2, <1>4, <1>5 DEF Filled
<1>9. Works(i, r, n, u, "error", 0)
  <2>1. CASE n = 0
    <3>1. temp[a] \in Seq(Pieces) /\ temp[a] \o Blocks(r.att, r.pos, 0) = temp[a]
      BY <1>0, <1>4, BlocksNone DEF UploadTypes
    <3>2. temp' = temp
      BY <2>1, <3>1, <1>0, <1>3 DEF UploadTypes
    <3>3. QED
      BY <2>1, <3>2, <1>2, <1>6, <1>7 DEF Works
  <2>2. CASE n # 0
    BY <2>2, <1>2, <1>3, <1>6, <1>7 DEF Works
  <2>3. QED
    BY <2>1, <2>2
<1>10. u.cur <= uploads[i].cur + n /\ 0 <= u.cur
  BY <1>3, <1>4, <1>5
<1>11. QED
  BY <1>0, <1>2, <1>3, <1>5, <1>8, <1>9, <1>10, WorksStep

LEMMA FinishStep ==
    ASSUME UploadInv, NEW i \in TransferIds, Finish(i) \/ RenameFails(i)
    PROVE  UploadInv'
<1> DEFINE u == Ended(uploads[i])
<1>0. /\ UploadTypes /\ Numbers /\ Asked /\ Workers /\ Beginnings
      /\ uploads[i].pc = "finishing"
  BY DEF UploadInv, Finish, RenameFails
<1>1. PICK a : a = uploads[i].att
  OBVIOUS
<1>2. /\ uploads[i] \in UploadRecords /\ a \in Attachments /\ Writes(i)
      /\ tid[a] = i /\ i # Absent
  <2>1. uploads[i] \in UploadRecords /\ Writes(i) /\ a # Absent
    BY <1>0, <1>1 DEF UploadTypes, Numbers, Workers, Running
  <2>2. a \in Attachments /\ tid[a] = i
    BY <2>1, <1>0, <1>1 DEF UploadRecords, Numbers
  <2>3. i # Absent
    BY AbsentApart
  <2>4. QED
    BY <2>1, <2>2, <2>3
<1>3. u \in UploadRecords /\ u.att = a /\ u.pc = "ended"
  <2>1. <<>> \in Seq(Nat)
    OBVIOUS
  <2>2. QED
    BY <2>1, <1>1, <1>2 DEF Ended, UploadRecords, UploadSteps
<1>4. /\ uploads' = [uploads EXCEPT ![i] = u]
      /\ UNCHANGED <<seq, tid, posted, sent, acked, down, mixed>>
  BY DEF Finish, RenameFails, senders, pulls, serving
<1> HIDE DEF u
<1>5. Steps(i, u)
  BY <1>0, <1>1, <1>2, <1>3, <1>4, AbsentApart DEF Steps
<1>6. \/ UNCHANGED <<temp, files>>
      \/ /\ Filled(uploads[i].cur, a)
         /\ files' = [files EXCEPT ![a] = temp[a]] /\ temp' = [temp EXCEPT ![a] = <<>>]
  BY <1>1 DEF Finish, RenameFails, Complete
<1>7. /\ temp' \in [Attachments -> Seq(Pieces)]
      /\ files' \in [Attachments -> Seq(Pieces) \cup {Absent}]
      /\ \A b \in Attachments \ {a} : temp'[b] = temp[b] /\ files'[b] = files[b]
      /\ Content(a)' = Content(a)
  <2>1. CASE UNCHANGED <<temp, files>>
    BY <2>1, <1>0 DEF UploadTypes, Content
  <2>2. CASE /\ Filled(uploads[i].cur, a)
             /\ files' = [files EXCEPT ![a] = temp[a]] /\ temp' = [temp EXCEPT ![a] = <<>>]
    <3>1. files[a] = Absent /\ temp[a] \in Seq(Pieces)
      BY <1>0, <1>1, <1>2 DEF Writes, UploadTypes
    <3>2. /\ temp' \in [Attachments -> Seq(Pieces)]
          /\ files' \in [Attachments -> Seq(Pieces) \cup {Absent}]
          /\ \A b \in Attachments \ {a} : temp'[b] = temp[b] /\ files'[b] = files[b]
          /\ files'[a] = temp[a] /\ temp'[a] = <<>>
      BY <2>2, <3>1, <1>0, <1>2 DEF UploadTypes
    <3>3. Content(a)' = temp[a] /\ temp[a] # Absent
      BY <3>1, <3>2, AbsentApart DEF Content
    <3>4. QED
      BY <3>1, <3>2, <3>3 DEF Content
  <2>3. QED
    BY <2>1, <2>2, <1>6
<1>8. /\ uploads' \in [TransferIds -> UploadRecords]
      /\ uploads'[i] = u /\ \A j \in TransferIds \ {i} : uploads'[j] = uploads[j]
      /\ \A j \in TransferIds : uploads'[j].att = uploads[j].att
      /\ \A j \in TransferIds \ {i} : uploads[j].att # a
      /\ Numbers'
  <2>1. \A b \in Attachments : tid[b] = Absent => UNCHANGED <<files[b], temp[b], acked[b]>>
    BY <1>2, <1>4, <1>7
  <2>2. QED
    BY <1>1, <1>5, <2>1, StepFacts
<1>9. UploadTypes'
  BY <1>0, <1>4, <1>7, <1>8 DEF UploadTypes
<1>10. Workers'
  <2>1. files'[a] # Absent => Size[a] <= Len(files'[a])
    <3>1. CASE UNCHANGED <<temp, files>>
      BY <3>1, <1>0, <1>2 DEF Workers
    <3>2. CASE Filled(uploads[i].cur, a) /\ files' = [files EXCEPT ![a] = temp[a]]
      <4>1. files'[a] = temp[a] /\ Len(temp[a]) \in Nat
        BY <3>2, <1>0, <1>2 DEF UploadTypes
      <4>2. uploads[i].cur <= Len(temp[a]) /\ uploads[i].cur >= Size[a]
        BY <3>2, <1>1, <1>2 DEF Filled, Writes
      <4>3. Size[a] \in Nat /\ uploads[i].cur \in Nat
        BY <1>2, SizeType DEF UploadRecords
      <4>4. QED
        BY <4>1, <4>2, <4>3
    <3>3. QED
      BY <3>1, <3>2, <1>6
  <2>2. ASSUME NEW j \in TransferIds, Running(j)' PROVE Writes(j)'
    <3>1. j # i
      BY <2>2, <1>3, <1>8 DEF Running
    <3>2. Running(j) /\ uploads'[j] = uploads[j] /\ uploads[j].att # a
      BY <2>2, <3>1, <1>8 DEF Running
    <3>3. uploads[j].att \in Attachments
      BY <3>2, <1>0 DEF Running, Numbers, UploadTypes, UploadRecords
    <3>4. QED
      BY <3>2, <3>3, <1>0, <1>4, <1>7 DEF Workers, Writes, Filled
  <2>3. QED
    BY <2>1, <2>2, <1>0, <1>7 DEF Workers
<1>11. Beginnings'
  <2> SUFFICES ASSUME NEW b \in Attachments, b \notin mixed PROVE Beginning(b)'
    BY <1>4 DEF Beginnings
  <2>0. Beginning(b)
    BY <1>0 DEF Beginnings
  <2>1. CASE b # a
    BY <2>0, <2>1, <1>4, <1>7 DEF Beginning, Content
  <2>2. CASE b = a /\ UNCHANGED <<temp, files>>
    BY <2>0, <2>2, <1>4 DEF Beginning, Content
  <2>3. CASE /\ b = a /\ Filled(uploads[i].cur, a)
             /\ files' = [files EXCEPT ![a] = temp[a]] /\ temp' = [temp EXCEPT ![a] = <<>>]
    <3>1. files'[a] = temp[a] /\ temp'[a] = <<>> /\ Len(temp[a]) \in Nat
      BY <2>3, <1>0, <1>2 DEF UploadTypes
    <3>2. Size[a] \in Nat /\ uploads[i].cur \in Nat
      BY <1>2, SizeType DEF UploadRecords
    <3>3. Len(temp[a]) = Size[a]
      BY <2>3, <3>1, <3>2, <1>1, <1>2 DEF Filled, Writes
    <3>4. files'[a] = Whole(a)
      BY <2>0, <2>3, <3>1, <3>3 DEF Beginning, Whole
    <3>5. temp'[a] = Blocks(a, 0, Len(temp'[a]))
      <4>1. <<>> \in Seq(Pieces) /\ Len(<<>>) = 0
        OBVIOUS
      <4>2. Blocks(a, 0, 0) \in Seq(Pieces) /\ Len(Blocks(a, 0, 0)) = 0
        BY <1>2, BlocksType
      <4>3. <<>> = Blocks(a, 0, 0)
        BY <4>2
      <4>4. QED
        BY <3>1, <4>1, <4>3
    <3>6. acked'[a] <= Len(Content(a)')
      BY <2>0, <2>3, <1>4, <1>7 DEF Beginning
    <3>7. QED
      BY <2>3, <3>4, <3>5, <3>6 DEF Beginning
  <2>4. QED
    BY <2>1, <2>2, <2>3, <1>6
<1>12. Asked'
  <2>0. \A b \in Attachments : Content(b)' = Content(b) /\ Len(Content(b)) \in Nat
    BY <1>0, <1>7, ContentType DEF Content
  <2>1. ASSUME NEW z \in posted PROVE Placed(z)'
    <3>1. z \in Chunks /\ Placed(z)
      BY <1>0 DEF UploadTypes, Asked
    <3>2. tid' = tid /\ mixed \subseteq mixed'
      BY <1>4
    <3>3. QED
      BY <3>1, <3>2, <2>0, <1>8, PlacedStays
  <2>2. QED
    BY <2>1, <1>4 DEF Asked
<1>13. QED
  BY <1>8, <1>9, <1>10, <1>11, <1>12 DEF UploadInv

LEMMA ConcludeStep ==
    ASSUME UploadInv, NEW r \in posted, Conclude(r)
    PROVE  UploadInv'
<1>0. /\ UploadTypes /\ Numbers /\ Workers /\ Beginnings /\ Asked
      /\ r \in Chunks /\ Placed(r) /\ r.id \in TransferIds /\ r.att \in Attachments
      /\ r.upto \in Nat
  BY DEF UploadInv, UploadTypes, Asked, Chunks
<1>1. /\ posted' = posted \ {r}
      /\ acked' = IF r.stage # "ok" THEN acked
                  ELSE [acked EXCEPT ![r.att] = IF r.upto > @ THEN r.upto ELSE @]
      /\ UNCHANGED <<seq, temp, files, tid, sent, down, mixed>>
  BY DEF Conclude, pulls, serving
<1>2. \/ UNCHANGED uploads
      \/ /\ uploads[r.id].att # Absent
         /\ uploads' = [uploads EXCEPT ![r.id] = [@ EXCEPT !.route = FALSE]]
  BY DEF Conclude
<1>3. /\ acked' \in [Attachments -> Nat]
      /\ \A a \in Attachments : tid[a] = Absent => acked'[a] = acked[a]
      /\ \A a \in Attachments : acked'[a] = acked[a] \/
            (a = r.att /\ r.stage = "ok" /\ acked'[a] = r.upto)
  BY <1>0, <1>1 DEF UploadTypes, Placed
<1>4. /\ uploads' \in [TransferIds -> UploadRecords] /\ Numbers'
      /\ \A j \in TransferIds : /\ uploads'[j].att = uploads[j].att
                                /\ uploads'[j].pc = uploads[j].pc
                                /\ uploads'[j].cur = uploads[j].cur
  <2>1. CASE UNCHANGED uploads
    BY <2>1, <1>0, <1>1, <1>3 DEF UploadTypes, Numbers, Used
  <2>2. CASE /\ uploads[r.id].att # Absent
             /\ uploads' = [uploads EXCEPT ![r.id] = [@ EXCEPT !.route = FALSE]]
    <3> DEFINE u == [uploads[r.id] EXCEPT !.route = FALSE]
    <3>1. /\ u \in UploadRecords /\ u.att = uploads[r.id].att /\ u.pc = uploads[r.id].pc
          /\ u.cur = uploads[r.id].cur
      BY <1>0 DEF UploadTypes, UploadRecords
    <3>2. u.pc # "none"
      BY <2>2, <3>1, <1>0 DEF Numbers
    <3>3. uploads' = [uploads EXCEPT ![r.id] = u]
      BY <2>2
    <3> HIDE DEF u
    <3>4. Steps(r.id, u)
      BY <2>2, <3>1, <3>2, <3>3, <1>1 DEF Steps
    <3>5. \A a \in Attachments : tid[a] = Absent => UNCHANGED <<files[a], temp[a], acked[a]>>
      BY <1>1, <1>3
    <3>6. /\ uploads' \in [TransferIds -> UploadRecords]
          /\ uploads'[r.id] = u /\ \A j \in TransferIds \ {r.id} : uploads'[j] = uploads[j]
          /\ Numbers'
      BY <3>4, <3>5, <1>0, StepFacts
    <3>7. QED
      BY <3>1, <3>6
  <2>3. QED
    BY <2>1, <2>2, <1>2
<1>5. UploadTypes'
  BY <1>0, <1>1, <1>3, <1>4 DEF UploadTypes
<1>6. Workers'
  BY <1>0, <1>1, <1>4 DEF Workers, Running, Writes, Filled
<1>7. Beginnings'
  <2> SUFFICES ASSUME NEW a \in Attachments, a \notin mixed PROVE Beginning(a)'
    BY <1>1 DEF Beginnings
  <2>1. Beginning(a)
    BY <1>0 DEF Beginnings
  <2>2. acked'[a] <= Len(Content(a))
    BY <2>1, <1>0, <1>3 DEF Beginning, Placed
  <2>3. QED
    BY <2>1, <2>2, <1>1 DEF Beginning, Content
<1>8. Asked'
  <2>1. ASSUME NEW z \in posted PROVE Placed(z)'
    <3>1. z \in Chunks /\ Placed(z)
      BY <1>0 DEF UploadTypes, Asked
    <3>2. \A a \in Attachments : Content(a)' = Content(a) /\ Len(Content(a)) \in Nat
      BY <1>0, <1>1, ContentType DEF Content
    <3>3. tid' = tid /\ mixed \subseteq mixed'
      BY <1>1
    <3>4. QED
      BY <3>1, <3>2, <3>3, <1>4, PlacedStays
  <2>2. QED
    BY <2>1, <1>1 DEF Asked
<1>9. QED
  BY <1>4, <1>5, <1>6, <1>7, <1>8 DEF UploadInv

\* The header of a download takes an id.
LEMMA HeaderId ==
    ASSUME UploadInv, DownloadTypes, NEW d \in Downloads, NEW a \in Attachments, Header(d, a)
    PROVE  UploadInv' /\ seq \in TransferIds
<1>0. /\ UploadTypes /\ Numbers /\ Workers /\ Beginnings /\ Asked
      /\ down[d].pc = "none" /\ d \notin Attachments
  BY TransferAssumption DEF UploadInv, Header
<1>1. /\ seq' = seq + 1
      /\ UNCHANGED <<uploads, temp, files, tid, posted, sent, acked, mixed>>
  BY DEF Header, senders
<1>2. /\ down'[d].pc = "push" /\ \A e \in Downloads \ {d} : down'[e] = down[e]
  BY DEF Header, DownloadTypes
<1>3. Used' = Used \cup {d} /\ d \notin Used
  BY <1>0, <1>1, <1>2 DEF Used
<1>4. seq \in TransferIds /\ seq + 1 <= Cardinality(Used')
  BY <1>0, <1>3, IdLeft
<1>5. Numbers'
  <2>1. \A i \in TransferIds : i >= seq' => uploads'[i] = NoUpload
    <3> SUFFICES ASSUME NEW i \in TransferIds, i >= seq + 1 PROVE uploads'[i] = NoUpload
      BY <1>1
    <3>1. i >= seq
      BY <1>0, CountIds DEF TransferIds, UploadTypes
    <3>2. QED
      BY <3>1, <1>0, <1>1 DEF Numbers
  <2>2. QED
    BY <2>1, <1>0, <1>1, <1>4 DEF Numbers
<1>6. UploadTypes'
  BY <1>0, <1>1 DEF UploadTypes
<1>7. Workers' /\ Beginnings'
  BY <1>0, <1>1 DEF Workers, Running, Writes, Filled, Beginnings, Beginning, Content
<1>8. Asked'
  BY <1>0, <1>1 DEF Asked, Placed, Content
<1>9. QED
  BY <1>4, <1>5, <1>6, <1>7, <1>8 DEF UploadInv

\* A restart forgets the uploads; their files and senders stay.
LEMMA RestartUploads ==
    ASSUME UploadInv, ServerRestarts
    PROVE  UploadInv'
<1>0. UploadTypes /\ Numbers /\ Workers /\ Beginnings
  BY DEF UploadInv
<1>1. /\ seq' = 0 /\ uploads' = [i \in TransferIds |-> NoUpload] /\ posted' = {}
      /\ UNCHANGED <<temp, files, tid, sent, acked, mixed>>
  BY DEF ServerRestarts
<1>2. NoUpload \in UploadRecords /\ NoUpload.att = Absent /\ NoUpload.pc = "none"
  <2>1. <<>> \in Seq(Nat)
    OBVIOUS
  <2>2. QED
    BY <2>1 DEF NoUpload, UploadRecords, UploadSteps
<1>3. \A i \in TransferIds : uploads'[i] = NoUpload
  BY <1>1
<1>4. UploadTypes'
  BY <1>0, <1>1, <1>2 DEF UploadTypes
<1>5. Numbers'
  <2>1. IsFiniteSet(Used') /\ Cardinality(Used') \in Nat
    <3>1. IsFiniteSet(Attachments \cup Downloads) /\ Used' \subseteq Attachments \cup Downloads
      BY FS_Union, TransferAssumption DEF Used
    <3>2. QED
      BY <3>1, FS_Subset, FS_CardinalityType
  <2>2. QED
    BY <2>1, <1>0, <1>1, <1>2, <1>3 DEF Numbers
<1>6. Workers' /\ Beginnings' /\ Asked'
  BY <1>0, <1>1, <1>2, <1>3 DEF Workers, Running, Beginnings, Beginning, Content, Asked
<1>7. QED
  BY <1>4, <1>5, <1>6 DEF UploadInv

--------------------------------------------------------------------------------
(* Downloads.                                                                   *)

\* What an action leaves of the other downloads.
OthersStay(d) ==
    /\ \A e \in Downloads \ {d} : UNCHANGED <<down[e], info[e], ack[e], sink[e]>>
    /\ \A e \in Downloads \ {d} : e \in printed' <=> e \in printed
    /\ \A c \in Downloads \X Nat : c[1] # d => (c \in chunks' <=> c \in chunks)
    /\ UNCHANGED files /\ mixed \subseteq mixed'

LEMMA Others ==
    ASSUME DownloadInv, DownloadTypes', NEW d \in Downloads, OthersStay(d)
    PROVE  /\ \A c \in chunks' : c[1] # d => Flight(c)'
           /\ \A e \in Downloads \ {d} : Pushed(e)'
           /\ \A e \in Downloads \ {d} : e \notin mixed' => Holds(e)'
<1>0. DownloadTypes /\ Flights /\ Pushes /\ Sinks
  BY DEF DownloadInv
<1>1. ASSUME NEW c \in chunks', c[1] # d PROVE Flight(c)'
  <2>1. c \in Downloads \X Nat /\ c[1] \in Downloads
    BY DEF DownloadTypes
  <2>2. c \in chunks /\ Flight(c)
    BY <1>0, <1>1, <2>1 DEF Flights, OthersStay
  <2>3. \A b \in chunks' : b[1] = c[1] => b \in chunks
    BY <1>1 DEF OthersStay, DownloadTypes
  <2>4. UNCHANGED <<down[c[1]], ack[c[1]], sink[c[1]], files>> /\ mixed \subseteq mixed'
    BY <1>1, <2>1 DEF OthersStay
  <2>5. QED
    BY <2>2, <2>3, <2>4 DEF Flight
<1>2. ASSUME NEW e \in Downloads \ {d} PROVE Pushed(e)'
  <2>1. Pushed(e) /\ UNCHANGED <<down[e], info[e], ack[e], sink[e]>> /\ mixed \subseteq mixed'
    BY <1>0, <1>2 DEF Pushes, OthersStay
  <2>2. e \in printed' <=> e \in printed
    BY <1>2 DEF OthersStay
  <2>3. QED
    BY <2>1, <2>2 DEF Pushed
<1>3. ASSUME NEW e \in Downloads \ {d}, e \notin mixed' PROVE Holds(e)'
  <2>1. Holds(e) /\ UNCHANGED <<down[e], sink[e], files>>
    BY <1>0, <1>3 DEF Sinks, OthersStay
  <2>2. e \in printed' <=> e \in printed
    BY <1>3 DEF OthersStay
  <2>3. QED
    BY <2>1, <2>2 DEF Holds
<1>4. QED
  BY <1>1, <1>2, <1>3

LEMMA OneDownload ==
    ASSUME DownloadInv, DownloadTypes', NEW d \in Downloads, OthersStay(d),
           \A c \in chunks' : c[1] = d => Flight(c)',
           Pushed(d)', d \notin mixed' => Holds(d)', Known'
    PROVE  DownloadInv'
<1>1. /\ \A c \in chunks' : c[1] # d => Flight(c)'
      /\ \A e \in Downloads \ {d} : Pushed(e)'
      /\ \A e \in Downloads \ {d} : e \notin mixed' => Holds(e)'
  BY Others
<1>2. Flights' /\ Pushes' /\ Sinks'
  BY <1>1 DEF Flights, Pushes, Sinks
<1>3. QED
  BY <1>2 DEF DownloadInv

\* What a download that has begun is known to be.
LEMMA Begun ==
    ASSUME DownloadInv, NEW d \in Downloads
    PROVE  /\ down[d] \in Pushers /\ Pushed(d)
           /\ down[d].pc # "none" => down[d].att \in Attachments /\ down[d].id \in TransferIds
           /\ d \notin mixed => Holds(d)
           /\ sink[d] \in Seq(Pieces) /\ Len(sink[d]) \in Nat
  BY DEF DownloadInv, DownloadTypes, Pushes, Pushed, Pushers, Sinks

LEMMA HeaderStep ==
    ASSUME UploadInv, DownloadInv, NEW d \in Downloads, NEW a \in Attachments, Header(d, a)
    PROVE  DownloadInv'
<1> DEFINE n == [att |-> a, id |-> seq, pc |-> "push", pos |-> 0, live |-> TRUE]
<1>0. DownloadTypes /\ Flights /\ Known /\ seq \in TransferIds /\ seq \in Nat
  BY HeaderId DEF DownloadInv, UploadInv, UploadTypes
<1>1. /\ down[d].pc = "none" /\ down' = [down EXCEPT ![d] = n]
      /\ info' = [info EXCEPT ![d] = "wire"]
      /\ UNCHANGED <<files, ack, transfers, chunks, sink, printed, mixed>>
  BY DEF Header
<1>2. n \in Pushers /\ n.pc = "push" /\ n.att = a /\ n.id = seq /\ n.pos = 0
  BY <1>0 DEF Pushers
<1> HIDE DEF n
<1>3. DownloadTypes'
  BY <1>0, <1>1, <1>2 DEF DownloadTypes
<1>4. down'[d] = n /\ \A e \in Downloads \ {d} : down'[e] = down[e]
  BY <1>0, <1>1 DEF DownloadTypes
<1>5. OthersStay(d)
  BY <1>0, <1>1, <1>4 DEF OthersStay, DownloadTypes
<1>6. Pushed(d) /\ sink[d] = <<>> /\ d \notin printed /\ ack[d] = Absent
  BY <1>1, Begun DEF Pushed
<1>7. \A c \in chunks' : c[1] # d
  BY <1>0, <1>1 DEF Flights, Flight
<1>8. Pushed(d)'
  BY <1>0, <1>1, <1>2, <1>4, <1>6, AbsentApart DEF Pushed
<1>9. Holds(d)'
  BY <1>1, <1>6 DEF Holds
<1>10. Known'
  BY <1>0, <1>1, <1>2, <1>4 DEF Known, DownloadTypes
<1>11. QED
  BY <1>3, <1>5, <1>7, <1>8, <1>9, <1>10, OneDownload

LEMMA PushStep ==
    ASSUME UploadInv, DownloadInv, NEW d \in Downloads, PushBlock(d)
    PROVE  DownloadInv'
<1>0. DownloadTypes /\ Flights /\ Known /\ Pushed(d) /\ down[d] \in Pushers
  BY Begun DEF DownloadInv
<1>1. /\ down[d].pc = "push"
      /\ UNCHANGED <<files, ack, info, transfers, sink, printed, mixed>>
  BY DEF PushBlock, store, client
<1>2. /\ down[d].att \in Attachments /\ down[d].id \in TransferIds /\ ack[d] = Absent
      /\ d \notin mixed => Len(sink[d]) = down[d].pos
  BY <1>1, Begun DEF Pushed
<1>3. \A c \in chunks : c[1] # d
  BY <1>0, <1>1 DEF Flights, Flight
<1>4. CASE /\ down[d].pos < Size[down[d].att] /\ files[down[d].att] # Absent
           /\ down' = [down EXCEPT ![d].pc = "wait"]
           /\ chunks' = chunks \cup {<<d, down[d].pos>>}
  <2> DEFINE n == [down[d] EXCEPT !.pc = "wait"]
  <2>1. /\ n \in Pushers /\ n.pc = "wait" /\ n.att = down[d].att /\ n.id = down[d].id
        /\ n.pos = down[d].pos /\ down[d].pos \in Nat
    BY <1>0 DEF Pushers
  <2>2. down' = [down EXCEPT ![d] = n]
    BY <1>4
  <2> HIDE DEF n
  <2>3. DownloadTypes'
    <3>1. down' \in [Downloads -> Pushers]
      BY <1>0, <2>1, <2>2 DEF DownloadTypes
    <3>2. chunks' \subseteq Downloads \X Nat
      BY <1>0, <1>4, <2>1 DEF DownloadTypes
    <3>3. QED
      BY <1>0, <1>1, <3>1, <3>2 DEF DownloadTypes
  <2>4. down'[d] = n /\ \A e \in Downloads \ {d} : down'[e] = down[e]
    BY <1>0, <2>2 DEF DownloadTypes
  <2>5. OthersStay(d)
    BY <1>0, <1>1, <1>4, <2>4 DEF OthersStay, DownloadTypes
  <2>6. ASSUME NEW c \in chunks', c[1] = d PROVE Flight(c)'
    <3>1. \A b \in chunks' : b[1] = d => b = <<d, down[d].pos>>
      BY <1>3, <1>4
    <3>2. c = <<d, down[d].pos>> /\ c[2] = down[d].pos
      BY <2>6, <3>1
    <3>3. QED
      BY <1>1, <1>2, <1>4, <2>1, <2>4, <2>6, <3>1, <3>2 DEF Flight
  <2>7. Pushed(d)'
    BY <1>0, <1>1, <1>2, <2>1, <2>4, AbsentApart DEF Pushed
  <2>8. d \notin mixed' => Holds(d)'
    BY <1>1, <2>1, <2>4, Begun DEF Holds
  <2>9. Known'
    BY <1>0, <1>1, <2>1, <2>4 DEF Known, DownloadTypes
  <2>10. QED
    BY <2>3, <2>5, <2>6, <2>7, <2>8, <2>9, OneDownload
<1>5. CASE UNCHANGED chunks /\ down' = [down EXCEPT ![d] = Over(@)]
  <2> DEFINE n == Over(down[d])
  <2>1. n \in Pushers /\ n.pc = "ended" /\ n.att = down[d].att /\ n.id = down[d].id
    BY <1>0 DEF Pushers, Over
  <2>2. down' = [down EXCEPT ![d] = n]
    BY <1>5
  <2> HIDE DEF n
  <2>3. DownloadTypes'
    BY <1>0, <1>1, <1>5, <2>1, <2>2 DEF DownloadTypes
  <2>4. down'[d] = n /\ \A e \in Downloads \ {d} : down'[e] = down[e]
    BY <1>0, <2>2 DEF DownloadTypes
  <2>5. OthersStay(d)
    BY <1>0, <1>1, <1>5, <2>4 DEF OthersStay, DownloadTypes
  <2>6. Pushed(d)'
    BY <1>0, <1>1, <1>2, <2>1, <2>4, AbsentApart DEF Pushed
  <2>7. d \notin mixed' => Holds(d)'
    BY <1>1, <2>1, <2>4, Begun DEF Holds
  <2>8. Known'
    BY <1>0, <1>1, <2>1, <2>4 DEF Known, DownloadTypes
  <2>9. QED
    BY <1>3, <1>5, <2>3, <2>5, <2>6, <2>7, <2>8, OneDownload
<1>6. QED
  BY <1>4, <1>5 DEF PushBlock

LEMMA AckedStep ==
    ASSUME UploadInv, DownloadInv, NEW d \in Downloads, Acked(d)
    PROVE  DownloadInv'
<1> DEFINE n == IF ack[d] = "error" \/ down[d].pos + 1 >= Size[down[d].att] THEN Over(down[d])
                ELSE [down[d] EXCEPT !.pos = down[d].pos + 1, !.pc = "push"]
<1>0. DownloadTypes /\ Flights /\ Known /\ Pushed(d) /\ down[d] \in Pushers
  BY Begun DEF DownloadInv
<1>1. /\ down[d].pc = "wait" /\ ack[d] # Absent
      /\ ack' = [ack EXCEPT ![d] = Absent] /\ down' = [down EXCEPT ![d] = n]
      /\ UNCHANGED <<files, info, transfers, chunks, sink, printed, mixed>>
  BY DEF Acked, Confirmed, store, client
<1>2. /\ n \in Pushers /\ n.att = down[d].att /\ n.id = down[d].id
      /\ n.pc = "ended" \/ (n.pc = "push" /\ ack[d] # "error" /\ n.pos = down[d].pos + 1)
  <2>1. CASE ack[d] = "error" \/ down[d].pos + 1 >= Size[down[d].att]
    <3>1. n = Over(down[d])
      BY <2>1
    <3> HIDE DEF n
    <3>2. QED
      BY <3>1, <1>0 DEF Pushers, Over
  <2>2. CASE ~(ack[d] = "error" \/ down[d].pos + 1 >= Size[down[d].att])
    <3>1. n = [down[d] EXCEPT !.pos = down[d].pos + 1, !.pc = "push"] /\ ack[d] # "error"
      BY <2>2
    <3> HIDE DEF n
    <3>2. down[d].pos + 1 \in Nat
      BY <1>0 DEF Pushers
    <3>3. QED
      BY <3>1, <3>2, <1>0 DEF Pushers
  <2>3. QED
    BY <2>1, <2>2
<1> HIDE DEF n
<1>3. DownloadTypes'
  BY <1>0, <1>1, <1>2 DEF DownloadTypes
<1>4. /\ down'[d] = n /\ \A e \in Downloads \ {d} : down'[e] = down[e] /\ ack'[e] = ack[e]
      /\ ack'[d] = Absent /\ ack[d] \in {"ok", "error"}
  BY <1>0, <1>1 DEF DownloadTypes
<1>5. OthersStay(d)
  BY <1>1, <1>4 DEF OthersStay
<1>6. \A c \in chunks' : c[1] # d
  BY <1>0, <1>1 DEF Flights, Flight
<1>7. Pushed(d)'
  BY <1>0, <1>1, <1>2, <1>4, AbsentApart DEF Pushed
<1>8. d \notin mixed' => Holds(d)'
  BY <1>1, <1>2, <1>4, Begun DEF Holds
<1>9. Known'
  BY <1>0, <1>1, <1>2, <1>4 DEF Known, DownloadTypes
<1>10. QED
  BY <1>3, <1>5, <1>6, <1>7, <1>8, <1>9, OneDownload

LEMMA LearnStep ==
    ASSUME UploadInv, DownloadInv, NEW d \in Downloads, Learn(d)
    PROVE  DownloadInv'
<1>0. /\ DownloadTypes /\ Flights /\ Known /\ Pushed(d) /\ down[d] \in Pushers
      /\ d \notin mixed => Holds(d)
  BY Begun DEF DownloadInv
<1>1. /\ info[d] = "wire" /\ info' = [info EXCEPT ![d] = "known"]
      /\ transfers' = [transfers EXCEPT ![down[d].id] = d]
      /\ UNCHANGED <<files, down, ack, chunks, sink, printed, mixed>>
  BY DEF Learn, store, serving
<1>2. down[d].pc # "none" /\ down[d].id \in TransferIds
  BY <1>0, <1>1 DEF Pushed
<1>3. DownloadTypes' /\ Known'
  BY <1>0, <1>1, <1>2 DEF DownloadTypes, Known
<1>4. OthersStay(d)
  BY <1>0, <1>1 DEF OthersStay, DownloadTypes
<1>5. ASSUME NEW c \in chunks', c[1] = d PROVE Flight(c)'
  BY <1>0, <1>1 DEF Flights, Flight
<1>6. Pushed(d)' /\ (d \notin mixed' => Holds(d)')
  BY <1>0, <1>1, <1>2 DEF Pushed, Holds
<1>7. QED
  BY <1>3, <1>4, <1>5, <1>6, OneDownload

LEMMA ClearStep ==
    ASSUME UploadInv, DownloadInv, NEW d \in Downloads, Clear(d)
    PROVE  DownloadInv'
<1>0. /\ DownloadTypes /\ Flights /\ Known /\ Pushed(d)
      /\ d \notin mixed => Holds(d)
  BY Begun DEF DownloadInv
<1>1. /\ sink' = [sink EXCEPT ![d] = <<>>] /\ info[d] = "known"
      /\ mixed' = IF sink[d] = <<>> THEN mixed ELSE mixed \cup {d}
      /\ UNCHANGED <<files, down, info, transfers, ack, chunks, printed>>
  BY DEF Clear, store, serving
<1>2. <<>> \in Seq(Pieces)
  OBVIOUS
<1>3. /\ sink' \in [Downloads -> Seq(Pieces)] /\ sink'[d] = <<>>
      /\ \A e \in Downloads \ {d} : sink'[e] = sink[e]
      /\ mixed \subseteq mixed'
      /\ d \notin mixed' => sink'[d] = sink[d] /\ d \notin mixed
  BY <1>0, <1>1, <1>2 DEF DownloadTypes
<1>4. DownloadTypes' /\ Known'
  BY <1>0, <1>1, <1>3 DEF DownloadTypes, Known
<1>5. OthersStay(d)
  BY <1>1, <1>3 DEF OthersStay
<1>6. ASSUME NEW c \in chunks', c[1] = d PROVE Flight(c)'
  BY <1>0, <1>1, <1>3, <1>6 DEF Flights, Flight
<1>7. Pushed(d)' /\ (d \notin mixed' => Holds(d)')
  BY <1>0, <1>1, <1>3 DEF Pushed, Holds
<1>8. QED
  BY <1>4, <1>5, <1>6, <1>7, OneDownload

\* The pusher is told what became of its block.
LEMMA ConfirmFacts ==
    ASSUME DownloadInv, NEW d \in Downloads, NEW p, <<d, p>> \in chunks,
           NEW s \in {"ok", "error"}, Confirm(d, s), chunks' = chunks \ {<<d, p>>}
    PROVE  /\ ack' \in [Downloads -> {Absent, "ok", "error"}]
           /\ ack'[d] = IF down[d].pc = "wait" THEN s ELSE Absent
           /\ \A e \in Downloads \ {d} : ack'[e] = ack[e]
           /\ chunks' \subseteq chunks /\ \A c \in chunks' : c[1] # d
           /\ \A c \in Downloads \X Nat : c[1] # d => (c \in chunks' <=> c \in chunks)
           /\ p \in Nat /\ down[d].pc \in {"wait", "ended"} /\ p < Size[down[d].att]
           /\ files[down[d].att] # Absent
           /\ down[d].pc = "wait" => p = down[d].pos
           /\ d \notin mixed => Len(sink[d]) = p
           /\ down[d].att \in Attachments /\ down[d].id \in TransferIds
<1>0. DownloadTypes /\ Flights
  BY DEF DownloadInv
<1>1. Flight(<<d, p>>) /\ <<d, p>>[1] = d /\ <<d, p>>[2] = p /\ p \in Nat
  BY <1>0 DEF Flights, DownloadTypes
<1>2. /\ down[d].pc \in {"wait", "ended"} /\ p < Size[down[d].att]
      /\ files[down[d].att] # Absent
      /\ down[d].pc = "wait" => p = down[d].pos
      /\ d \notin mixed => Len(sink[d]) = p
      /\ \A e \in chunks : e[1] = d => e = <<d, p>>
  BY <1>1 DEF Flight
<1>3. down[d].att \in Attachments /\ down[d].id \in TransferIds
  BY <1>2, Begun
<1>4. /\ ack' \in [Downloads -> {Absent, "ok", "error"}]
      /\ ack'[d] = IF down[d].pc = "wait" THEN s ELSE Absent
      /\ \A e \in Downloads \ {d} : ack'[e] = ack[e]
  BY <1>0 DEF DownloadTypes, Confirm
<1>5. \A c \in Downloads \X Nat : c[1] # d => (c \in chunks' <=> c \in chunks)
  BY <1>1
<1>6. QED
  BY <1>1, <1>2, <1>3, <1>4, <1>5

\* A block that is refused.
LEMMA RefusedStep ==
    ASSUME UploadInv, DownloadInv, NEW d \in Downloads, NEW p, TakeFails(d, p) \/ Unknown(d, p)
    PROVE  DownloadInv'
<1>0. /\ DownloadTypes /\ Known /\ Pushed(d)
      /\ d \notin mixed => Holds(d)
  BY Begun DEF DownloadInv
<1>1. /\ <<d, p>> \in chunks /\ chunks' = chunks \ {<<d, p>>} /\ Confirm(d, "error")
      /\ transfers' = [transfers EXCEPT ![down[d].id] = Absent] \/ UNCHANGED transfers
      /\ UNCHANGED <<files, down, info, sink, printed, mixed>>
  BY DEF TakeFails, Unknown, store, client
<1>2. /\ ack' \in [Downloads -> {Absent, "ok", "error"}]
      /\ ack'[d] = IF down[d].pc = "wait" THEN "error" ELSE Absent
      /\ \A e \in Downloads \ {d} : ack'[e] = ack[e]
      /\ chunks' \subseteq chunks /\ \A c \in chunks' : c[1] # d
      /\ \A c \in Downloads \X Nat : c[1] # d => (c \in chunks' <=> c \in chunks)
      /\ down[d].pc \in {"wait", "ended"} /\ down[d].id \in TransferIds
  BY <1>1, ConfirmFacts
<1>3. DownloadTypes' /\ Known'
  <2>1. /\ transfers' \in [TransferIds -> Downloads \cup {Absent}]
        /\ \A i \in TransferIds : transfers'[i] = Absent \/ transfers'[i] = transfers[i]
    BY <1>0, <1>1, <1>2 DEF DownloadTypes
  <2>2. DownloadTypes'
    BY <2>1, <1>0, <1>1, <1>2 DEF DownloadTypes
  <2>3. QED
    BY <2>1, <2>2, <1>0, <1>1 DEF Known
<1>4. OthersStay(d)
  BY <1>1, <1>2 DEF OthersStay
<1>5. Pushed(d)' /\ (d \notin mixed' => Holds(d)')
  <2>1. UNCHANGED <<down[d], sink[d], info[d], files, mixed>> /\ printed' = printed
    BY <1>1
  <2>2. Pushed(d)'
    BY <2>1, <1>0, <1>2 DEF Pushed
  <2>3. d \notin mixed' => Holds(d)'
    BY <2>1, <1>0 DEF Holds
  <2>4. QED
    BY <2>2, <2>3
<1>6. QED
  BY <1>2, <1>3, <1>4, <1>5, OneDownload

\* A block is written.
LEMMA TakeStep ==
    ASSUME UploadInv, DownloadInv, NEW d \in Downloads, NEW p, Take(d, p)
    PROVE  DownloadInv'
<1>0. /\ DownloadTypes /\ Flights /\ Known /\ Pushed(d) /\ down[d] \in Pushers
      /\ d \notin mixed => Holds(d)
  BY Begun DEF DownloadInv
<1>1. PICK e : e = transfers[down[d].id]
  OBVIOUS
<1>2. PICK b : b = files[down[d].att][p + 1]
  OBVIOUS
<1>3. /\ <<d, p>> \in chunks /\ e # Absent
      /\ chunks' = chunks \ {<<d, p>>} /\ Confirm(d, "ok")
      /\ sink' = [sink EXCEPT ![e] = Append(sink[e], b)]
      /\ mixed' = IF e = d THEN mixed ELSE mixed \cup {d, e}
      /\ \/ /\ p + 1 >= Size[down[e].att] /\ printed' = printed \cup {e}
            /\ transfers' = [transfers EXCEPT ![down[d].id] = Absent]
         \/ UNCHANGED <<printed, transfers>>
      /\ UNCHANGED <<files, down, info>>
  BY <1>1, <1>2 DEF Take, store
<1>4. /\ ack' \in [Downloads -> {Absent, "ok", "error"}]
      /\ ack'[d] = IF down[d].pc = "wait" THEN "ok" ELSE Absent
      /\ \A x \in Downloads \ {d} : ack'[x] = ack[x]
      /\ chunks' \subseteq chunks /\ \A c \in chunks' : c[1] # d
      /\ \A c \in Downloads \X Nat : c[1] # d => (c \in chunks' <=> c \in chunks)
      /\ p \in Nat /\ down[d].pc \in {"wait", "ended"} /\ p < Size[down[d].att]
      /\ files[down[d].att] # Absent
      /\ down[d].pc = "wait" => p = down[d].pos
      /\ d \notin mixed => Len(sink[d]) = p
      /\ down[d].att \in Attachments /\ down[d].id \in TransferIds
  BY <1>3, ConfirmFacts
<1>5. e \in Downloads /\ down[e].pc # "none"
  BY <1>0, <1>1, <1>3, <1>4 DEF DownloadTypes, Known
<1>6. b \in Pieces
  <2>1. files[down[d].att] \in Seq(Pieces) /\ Size[down[d].att] <= Len(files[down[d].att])
    BY <1>4 DEF UploadInv, UploadTypes, Workers
  <2>2. Size[down[d].att] \in Nat
    BY <1>4, SizeType
  <2>3. p + 1 \in 1..Len(files[down[d].att])
    BY <1>4, <2>1, <2>2
  <2>4. QED
    BY <1>2, <2>1, <2>3
<1>7. /\ sink' \in [Downloads -> Seq(Pieces)] /\ sink'[e] = Append(sink[e], b)
      /\ \A x \in Downloads \ {e} : sink'[x] = sink[x]
  <2>1. Append(sink[e], b) \in Seq(Pieces)
    BY <1>0, <1>5, <1>6 DEF DownloadTypes
  <2>2. QED
    BY <2>1, <1>0, <1>3, <1>5 DEF DownloadTypes
<1>8. /\ transfers' \in [TransferIds -> Downloads \cup {Absent}]
      /\ \A i \in TransferIds : transfers'[i] = Absent \/ transfers'[i] = transfers[i]
  BY <1>0, <1>3, <1>4 DEF DownloadTypes
<1>9. printed' \subseteq printed \cup {e} /\ printed \subseteq printed'
  BY <1>3
<1>10. DownloadTypes'
  BY <1>0, <1>3, <1>4, <1>5, <1>7, <1>8, <1>9 DEF DownloadTypes
<1>11. Known'
  BY <1>0, <1>3, <1>8 DEF Known
<1>12. CASE e = d
  <2>1. OthersStay(d)
    BY <1>3, <1>4, <1>7, <1>9, <1>12 DEF OthersStay
  <2>2. Len(sink'[d]) = Len(sink[d]) + 1 /\ sink'[d] # <<>>
    <3>1. sink[d] \in Seq(Pieces)
      BY <1>0 DEF DownloadTypes
    <3>2. QED
      BY <3>1, <1>6, <1>7, <1>12
  <2>3. Pushed(d)'
    <3>1. UNCHANGED <<down[d], info[d], mixed>>
      BY <1>3, <1>12
    <3>2. QED
      BY <3>1, <2>2, <1>0, <1>4 DEF Pushed
  <2>4. ASSUME d \notin mixed' PROVE Holds(d)'
    <3>1. d \notin mixed /\ Holds(d) /\ Len(sink[d]) = p /\ sink[d] \in Seq(Pieces)
      BY <2>4, <1>0, <1>3, <1>4, <1>12 DEF DownloadTypes
    <3>2. PICK a : a = down[d].att
      OBVIOUS
    <3>3. a \in Attachments /\ Size[a] \in Nat /\ p < Size[a] /\ files[a] # Absent
      BY <1>4, <3>2, SizeType
    <3>4. Len(sink'[d]) = p + 1 /\ p + 1 <= Size[a]
      BY <2>2, <3>1, <3>3, <1>4
    <3>5. ASSUME NEW k \in 1..(p + 1) PROVE sink'[d][k] = files[a][k]
      <4>1. CASE k = p + 1
        BY <4>1, <1>2, <1>4, <1>6, <1>7, <1>12, <3>1, <3>2
      <4>2. CASE k # p + 1
        <5>1. k \in 1..Len(sink[d]) /\ sink[d] # <<>>
          BY <4>2, <3>1, <3>5, <1>4
        <5>2. sink'[d][k] = sink[d][k]
          BY <5>1, <1>6, <1>7, <1>12, <3>1, SMTT(60)
        <5>3. QED
          BY <5>1, <5>2, <3>1, <3>2 DEF Holds
      <4>3. QED
        BY <4>1, <4>2
    <3>6. d \in printed' => p + 1 = Size[a]
      <4>1. CASE d \in printed
        BY <4>1, <3>1, <3>2, <3>3 DEF Holds
      <4>2. CASE d \notin printed
        BY <4>2, <1>3, <1>12, <3>2, <3>3, <3>4
      <4>3. QED
        BY <4>1, <4>2
    <3>7. UNCHANGED <<down[d], files>>
      BY <1>3
    <3>8. QED
      BY <3>2, <3>3, <3>4, <3>5, <3>6, <3>7 DEF Holds
  <2>5. QED
    BY <1>4, <1>10, <1>11, <2>1, <2>3, <2>4, OneDownload
<1>13. CASE e # d
  <2>1. d \in mixed' /\ e \in mixed' /\ mixed \subseteq mixed'
    BY <1>3, <1>13
  <2>2. Flights'
    <3> SUFFICES ASSUME NEW c \in chunks' PROVE Flight(c)'
      BY DEF Flights
    <3>1. c \in chunks /\ Flight(c) /\ c[1] \in Downloads /\ c[1] # d
      BY <1>0, <1>4 DEF Flights, DownloadTypes
    <3>2. UNCHANGED <<down[c[1]], ack[c[1]], files>> /\ (c[1] # e => UNCHANGED sink[c[1]])
      BY <3>1, <1>3, <1>4, <1>7
    <3>3. QED
      BY <3>1, <3>2, <2>1, <1>4 DEF Flight
  <2>3. Pushes'
    <3> SUFFICES ASSUME NEW x \in Downloads PROVE Pushed(x)'
      BY DEF Pushes
    <3>1. Pushed(x) /\ UNCHANGED <<down[x], info[x]>>
      BY <1>3, Begun
    <3>2. x # e => UNCHANGED sink[x] /\ (x \in printed' <=> x \in printed)
      BY <1>3, <1>7
    <3>3. CASE x = d
      BY <3>1, <3>2, <3>3, <1>4, <1>13, <2>1 DEF Pushed
    <3>4. CASE x = e
      BY <3>1, <3>4, <1>4, <1>5, <1>13, <2>1 DEF Pushed
    <3>5. CASE x # d /\ x # e
      BY <3>1, <3>2, <3>5, <1>4, <2>1 DEF Pushed
    <3>6. QED
      BY <3>3, <3>4, <3>5
  <2>4. Sinks'
    <3> SUFFICES ASSUME NEW x \in Downloads, x \notin mixed' PROVE Holds(x)'
      BY DEF Sinks
    <3>1. x # e /\ x # d /\ Holds(x)
      BY <2>1, Begun
    <3>2. UNCHANGED <<down[x], sink[x], files>> /\ (x \in printed' <=> x \in printed)
      BY <3>1, <1>3, <1>7
    <3>3. QED
      BY <3>1, <3>2 DEF Holds
  <2>5. QED
    BY <1>10, <1>11, <2>2, <2>3, <2>4 DEF DownloadInv
<1>14. QED
  BY <1>12, <1>13

LEMMA OverFacts ==
    ASSUME NEW e \in Pushers
    PROVE  /\ Over(e) \in Pushers /\ Over(e).att = e.att /\ Over(e).id = e.id
           /\ Over(e).pc = "ended"
           /\ [e EXCEPT !.live = FALSE] \in Pushers /\ [e EXCEPT !.live = FALSE].att = e.att
           /\ [e EXCEPT !.live = FALSE].id = e.id /\ [e EXCEPT !.live = FALSE].pc = e.pc
           /\ [e EXCEPT !.live = FALSE].pos = e.pos
  BY DEF Over, Pushers

\* The pushers that a lost connection or a restart ends or cuts off.
LEMMA CutStep ==
    ASSUME UploadInv, DownloadInv, LoseConnection \/ ServerRestarts
    PROVE  DownloadInv'
<1>0. DownloadTypes /\ Flights /\ Pushes /\ Sinks /\ Known
  BY DEF DownloadInv
<1>1. /\ ack' = [d \in Downloads |-> Absent]
      /\ info' = [d \in Downloads |-> IF info[d] = "wire" THEN "lost" ELSE info[d]]
      /\ UNCHANGED <<files, transfers, chunks, sink, printed, mixed>>
  BY DEF LoseConnection, ServerRestarts, Unanswered, Unheard, store
<1>2. ASSUME NEW d \in Downloads
      PROVE  /\ down'[d] \in Pushers /\ down'[d].att = down[d].att /\ down'[d].id = down[d].id
             /\ down'[d].pc = "none" <=> down[d].pc = "none"
             /\ down'[d].pc # "wait" /\ (down[d].pc = "wait" => down'[d].pc = "ended")
             /\ (down[d].pc = "ended" => down'[d].pc = "ended")
             /\ (down'[d].pc = "push" => down[d].pc = "push" /\ down'[d].pos = down[d].pos)
  <2>0. down[d] \in Pushers
    BY <1>0, <1>2 DEF DownloadTypes
  <2>1. CASE LoseConnection
    <3>1. down'[d] = Cut(d)
      BY <2>1 DEF LoseConnection
    <3>2. CASE down[d].pc = "wait"
      BY <3>1, <3>2, <2>0, OverFacts, ZenonT(60) DEF Cut
    <3>3. CASE down[d].pc # "wait"
      BY <3>1, <3>3, <2>0, OverFacts DEF Cut
    <3>4. QED
      BY <3>2, <3>3
  <2>2. CASE ServerRestarts
    <3>1. down'[d] = IF down[d].pc = "none" THEN down[d] ELSE Over(down[d])
      BY <2>2 DEF ServerRestarts
    <3>2. CASE down[d].pc = "none"
      BY <3>1, <3>2, <2>0
    <3>3. CASE down[d].pc # "none"
      <4>1. /\ Over(down[d]) \in Pushers /\ Over(down[d]).att = down[d].att
            /\ Over(down[d]).id = down[d].id /\ Over(down[d]).pc = "ended"
        BY <2>0, OverFacts
      <4>2. down'[d] = Over(down[d])
        BY <3>1, <3>3
      <4>3. QED
        BY <3>3, <4>1, <4>2
    <3>4. QED
      BY <3>2, <3>3
  <2>3. QED
    BY <2>1, <2>2
<1>3. down' = [d \in Downloads |-> down'[d]]
  BY DEF LoseConnection, ServerRestarts
<1>4. down' \in [Downloads -> Pushers]
  BY <1>2, <1>3
<1>5. DownloadTypes'
  BY <1>0, <1>1, <1>4 DEF DownloadTypes
<1>6. Flights'
  <2> SUFFICES ASSUME NEW c \in chunks PROVE Flight(c)'
    BY <1>1 DEF Flights
  <2>1. Flight(c) /\ c[1] \in Downloads
    BY <1>0 DEF Flights, DownloadTypes
  <2>2. /\ down'[c[1]].pc = "ended" /\ down'[c[1]].att = down[c[1]].att
        /\ UNCHANGED <<sink[c[1]], files, mixed, chunks>>
    BY <2>1, <1>1, <1>2 DEF Flight
  <2>3. QED
    BY <2>1, <2>2 DEF Flight
<1>7. Pushes'
  <2> SUFFICES ASSUME NEW d \in Downloads PROVE Pushed(d)'
    BY DEF Pushes
  <2>1. Pushed(d) /\ ack'[d] = Absent /\ (info[d] = "none" => info'[d] = "none")
    BY <1>0, <1>1 DEF Pushes
  <2>2. QED
    BY <2>1, <1>1, <1>2 DEF Pushed
<1>8. Sinks'
  BY <1>0, <1>1, <1>2 DEF Sinks, Holds
<1>9. Known'
  BY <1>0, <1>1, <1>2 DEF Known, DownloadTypes
<1>10. QED
  BY <1>5, <1>6, <1>7, <1>8, <1>9 DEF DownloadInv

--------------------------------------------------------------------------------
(* The theorems.                                                                *)

\* A file that has its name stays as it is.
LEMMA FilesStay ==
    ASSUME UploadInv, TransferNext
    PROVE  \A a \in Attachments : files[a] # Absent => files'[a] = files[a]
<1>0. UploadTypes /\ Workers
  BY DEF UploadInv
<1>1. CASE \E i \in TransferIds : Finish(i)
  <2>1. PICK i \in TransferIds : Finish(i)
    BY <1>1
  <2>2. Running(i) /\ files[uploads[i].att] = Absent
    BY <2>1, <1>0 DEF Finish, Running, Workers, Writes
  <2>3. files' = files \/ \E s : files' = [files EXCEPT ![uploads[i].att] = s]
    BY <2>1 DEF Finish
  <2>4. QED
    BY <2>2, <2>3, <1>0 DEF UploadTypes
<1>2. CASE UNCHANGED files
  BY <1>2
<1>3. QED
  BY <1>1, <1>2, ZenonT(60)
     DEF TransferNext, UploadNext, DownloadNext, RegisterUpload, SendChunk, WriteChunk, NotFound,
         Abandon, Conclude, Work, WorkFails, RenameFails, Header, PushBlock, Acked, Learn, Clear,
         Take, TakeFails, Unknown, LoseConnection, ServerRestarts, store

\* Which downloads have begun.
LEMMA BegunStays ==
    ASSUME NEW d \in Downloads, DownloadTypes,
           \/ UNCHANGED down
           \/ \E n \in Pushers : down[d].pc # "none" /\ n.pc # "none"
                                 /\ down' = [down EXCEPT ![d] = n],
           UNCHANGED tid
    PROVE  Used' = Used
<1>1. \A e \in Downloads : down'[e].pc # "none" <=> down[e].pc # "none"
  BY DEF DownloadTypes
<1>2. QED
  BY <1>1 DEF Used

\* Actions of the downloads but for the header leave what the uploads have.
LEMMA DownloadActions ==
    ASSUME UploadInv, DownloadInv, NEW d \in Downloads,
           \/ PushBlock(d) \/ Acked(d) \/ Learn(d) \/ Clear(d)
           \/ \E p \in Nat : Take(d, p) \/ TakeFails(d, p) \/ Unknown(d, p)
    PROVE  /\ UNCHANGED <<seq, sent, uploads, temp, files, tid, acked, posted>>
           /\ Used' = Used /\ mixed \subseteq mixed'
           /\ mixed' \subseteq Attachments \cup Downloads
<1>0. /\ DownloadTypes /\ down[d] \in Pushers /\ mixed \subseteq Attachments \cup Downloads
  BY Begun DEF DownloadInv, UploadInv, UploadTypes
<1>1. UNCHANGED <<seq, sent, uploads, temp, files, tid, acked, posted>>
  BY DEF PushBlock, Acked, Learn, Clear, Take, TakeFails, Unknown, store, senders
<1>2. Used' = Used
  <2>1. CASE UNCHANGED down
    BY <2>1, <1>0, <1>1, BegunStays
  <2>2. CASE PushBlock(d)
    <3>1. Over(down[d]) \in Pushers /\ Over(down[d]).pc = "ended"
      BY <1>0, OverFacts
    <3>2. [down[d] EXCEPT !.pc = "wait"] \in Pushers /\ [down[d] EXCEPT !.pc = "wait"].pc = "wait"
      BY <1>0 DEF Pushers
    <3>3. \/ down' = [down EXCEPT ![d] = [down[d] EXCEPT !.pc = "wait"]]
          \/ down' = [down EXCEPT ![d] = Over(down[d])]
      BY <2>2, <1>0 DEF PushBlock, DownloadTypes
    <3>4. down[d].pc # "none"
      BY <2>2 DEF PushBlock
    <3>5. QED
      BY <3>1, <3>2, <3>3, <3>4, <1>0, <1>1, BegunStays
  <2>3. CASE Acked(d)
    <3>1. Over(down[d]) \in Pushers /\ Over(down[d]).pc = "ended"
      BY <1>0, OverFacts
    <3>2. PICK n : n = [down[d] EXCEPT !.pos = down[d].pos + 1, !.pc = "push"]
      OBVIOUS
    <3>0. down[d].pos + 1 \in Nat
      BY <1>0 DEF Pushers
    <3>3. n \in Pushers /\ n.pc = "push"
      BY <3>0, <3>2, <1>0 DEF Pushers
    <3>4. down' = [down EXCEPT ![d] = n] \/ down' = [down EXCEPT ![d] = Over(down[d])]
      BY <2>3, <3>2 DEF Acked
    <3>5. down[d].pc # "none"
      BY <2>3 DEF Acked
    <3>6. QED
      BY <3>1, <3>3, <3>4, <3>5, <1>0, <1>1, BegunStays
  <2>4. QED
    BY <2>1, <2>2, <2>3 DEF Learn, Clear, Take, TakeFails, Unknown, serving
<1>3. mixed \subseteq mixed' /\ mixed' \subseteq Attachments \cup Downloads
  <2>1. CASE UNCHANGED mixed
    BY <2>1, <1>0
  <2>2. CASE Clear(d)
    BY <2>2, <1>0 DEF Clear
  <2>3. CASE \E p \in Nat : Take(d, p)
    <3>1. PICK p \in Nat : Take(d, p)
      BY <2>3
    <3>2. <<d, p>> \in chunks /\ transfers[down[d].id] # Absent
      BY <3>1 DEF Take
    <3>3. down[d].id \in TransferIds
      BY <3>2, Begun DEF DownloadInv, Flights, Flight
    <3>4. transfers[down[d].id] \in Downloads
      BY <3>2, <3>3, <1>0 DEF DownloadTypes
    <3>5. mixed' = mixed \/ mixed' = mixed \cup {d, transfers[down[d].id]}
      BY <3>1 DEF Take
    <3>6. QED
      BY <3>4, <3>5, <1>0
  <2>4. QED
    BY <2>1, <2>2, <2>3 DEF PushBlock, Acked, Learn, TakeFails, Unknown
<1>4. QED
  BY <1>1, <1>2, <1>3

LEMMA UploadNextStep ==
    ASSUME UploadInv, DownloadInv, UploadNext
    PROVE  UploadInv' /\ DownloadInv'
<1>1. UploadInv'
  <2>1. ASSUME NEW a \in Attachments, RegisterUpload(a) PROVE UploadInv'
    BY <2>1, RegisterStep
  <2>2. ASSUME NEW a \in Attachments, NEW p \in 0..Size[a], NEW n \in 1..Size[a] - p,
               SendChunk(a, p, n)
        PROVE  UploadInv'
    BY <2>2, SendStep
  <2>3. ASSUME NEW r \in posted, WriteChunk(r) \/ NotFound(r) \/ Abandon(r) \/ Conclude(r)
        PROVE  UploadInv'
    BY <2>3, WriteChunkStep, DropStep, ConcludeStep
  <2>4. ASSUME NEW i \in TransferIds, Work(i) \/ WorkFails(i) \/ Finish(i) \/ RenameFails(i)
        PROVE  UploadInv'
    BY <2>4, WorkStep, WorkFailsStep, FinishStep
  <2>5. QED
    BY <2>1, <2>2, <2>3, <2>4 DEF UploadNext
<1>2. UNCHANGED pulls /\ mixed \subseteq mixed'
  BY DEF UploadNext, RegisterUpload, SendChunk, WriteChunk, NotFound, Abandon, Conclude, Work,
         WorkFails, Finish, RenameFails
<1>3. DownloadInv'
  BY <1>2, FilesStay, DownloadStays DEF TransferNext
<1>4. QED
  BY <1>1, <1>3

LEMMA DownloadNextStep ==
    ASSUME UploadInv, DownloadInv, DownloadNext
    PROVE  UploadInv' /\ DownloadInv'
<1>1. PICK d \in Downloads :
          \/ \E a \in Attachments : Header(d, a)
          \/ PushBlock(d) \/ Acked(d) \/ Learn(d) \/ Clear(d)
          \/ \E c \in chunks : c[1] = d /\
               (Take(d, c[2]) \/ TakeFails(d, c[2]) \/ Unknown(d, c[2]))
  BY DEF DownloadNext
<1>2. CASE \E a \in Attachments : Header(d, a)
  BY <1>2, HeaderId, HeaderStep DEF DownloadInv
<1>3. CASE PushBlock(d) \/ Acked(d) \/ Learn(d) \/ Clear(d)
  <2>1. UploadInv'
    BY <1>3, DownloadActions, UploadStays
  <2>2. DownloadInv'
    BY <1>3, PushStep, AckedStep, LearnStep, ClearStep
  <2>3. QED
    BY <2>1, <2>2
<1>4. CASE \E c \in chunks : c[1] = d /\
               (Take(d, c[2]) \/ TakeFails(d, c[2]) \/ Unknown(d, c[2]))
  <2>1. PICK p \in Nat : Take(d, p) \/ TakeFails(d, p) \/ Unknown(d, p)
    BY <1>4 DEF DownloadInv, DownloadTypes
  <2>2. UploadInv'
    BY <2>1, DownloadActions, UploadStays
  <2>3. DownloadInv'
    BY <2>1, TakeStep, RefusedStep
  <2>4. QED
    BY <2>2, <2>3
<1>5. QED
  BY <1>1, <1>2, <1>3, <1>4

LEMMA LoseStep ==
    ASSUME UploadInv, DownloadInv, LoseConnection
    PROVE  UploadInv' /\ DownloadInv'
<1>1. UNCHANGED <<seq, sent, uploads, temp, files, tid, acked, posted, mixed>>
  BY DEF LoseConnection, store, senders
<1>2. ASSUME NEW d \in Downloads PROVE down'[d].pc # "none" <=> down[d].pc # "none"
  <2>1. down[d] \in Pushers /\ down'[d] = Cut(d)
    BY <1>2, Begun DEF LoseConnection
  <2>2. CASE down[d].pc = "wait"
    BY <2>1, <2>2, OverFacts DEF Cut
  <2>3. CASE down[d].pc # "wait"
    BY <2>1, <2>3, OverFacts DEF Cut
  <2>4. QED
    BY <2>2, <2>3
<1>3. Used' = Used
  BY <1>1, <1>2 DEF Used
<1>4. UploadInv'
  BY <1>1, <1>3, UploadStays DEF UploadInv, UploadTypes
<1>5. QED
  BY <1>4, CutStep

LEMMA TransferStep == TransferInv /\ [TransferNext]_transferVars => TransferInv'
<1> SUFFICES ASSUME UploadInv, DownloadInv, [TransferNext]_transferVars
             PROVE  UploadInv' /\ DownloadInv'
  BY DEF TransferInv
<1>1. CASE UploadNext
  BY <1>1, UploadNextStep
<1>2. CASE DownloadNext
  BY <1>2, DownloadNextStep
<1>3. CASE LoseConnection
  BY <1>3, LoseStep
<1>4. CASE ServerRestarts
  BY <1>4, RestartUploads, CutStep
<1>5. CASE UNCHANGED transferVars
  <2>1. UNCHANGED <<seq, sent, uploads, temp, files, tid, acked, posted, down, mixed, pulls>>
    BY <1>5 DEF transferVars, store, senders, pulls, serving
  <2>2. Used' = Used
    BY <2>1 DEF Used
  <2>3. UploadInv'
    BY <2>1, <2>2, UploadStays DEF UploadInv, UploadTypes
  <2>4. DownloadInv'
    BY <2>1, DownloadStays
  <2>5. QED
    BY <2>3, <2>4
<1>6. QED
  BY <1>1, <1>2, <1>3, <1>4, <1>5 DEF TransferNext

LEMMA TransferInvHolds == TransferSpec => []TransferInv
  BY TransferStart, TransferStep, PTL DEF TransferSpec

\* Types of every variable of the transfers; in particular a transfer id never
\* leaves the range that the attachments and downloads need.
THEOREM TransferTypes == TransferSpec => [](UploadTypes /\ DownloadTypes)
  BY TransferInvHolds, PTL DEF TransferInv, UploadInv, DownloadInv

\* What a sender was told is written, in the right order and once, and a file
\* that has its name is whole: whatever is repeated, sent ahead, handled late,
\* written in part, or lost with a connection or a restart.
THEOREM UploadsAreKept == TransferSpec => []UploadKept
<1>1. TransferInv => UploadKept
  <2> SUFFICES ASSUME UploadInv, NEW a \in Attachments, a \notin mixed
               PROVE  /\ files[a] # Absent => files[a] = Whole(a)
                      /\ SubSeq(Content(a), 1, acked[a]) = Blocks(a, 0, acked[a])
    BY DEF TransferInv, UploadKept
  <2>1. Beginning(a) /\ temp[a] \in Seq(Pieces) /\ acked[a] \in Nat
    BY DEF UploadInv, Beginnings, UploadTypes
  <2>2. PICK m \in Nat : Content(a) = Blocks(a, 0, m)
    <3>1. CASE files[a] = Absent
      BY <2>1, <3>1 DEF Content, Beginning
    <3>2. CASE files[a] # Absent
      BY <2>1, <3>2, WholeFacts DEF Content, Beginning
    <3>3. QED
      BY <3>1, <3>2
  <2>3. acked[a] \in 0..m
    BY <2>1, <2>2, BlocksType DEF Beginning
  <2>4. QED
    BY <2>1, <2>2, <2>3, BlocksBeginning DEF Beginning
<1>2. QED
  BY <1>1, TransferInvHolds, PTL

\* What a client has of an attachment is its beginning, and all of it when the
\* download is reported, however confirmations, headers and connections are lost.
THEOREM DownloadsAreKept == TransferSpec => []DownloadKept
<1>1. TransferInv => DownloadKept
  <2> SUFFICES ASSUME UploadInv, DownloadInv, NEW d \in Downloads, d \notin mixed, NEW a,
                      a = down[d].att
               PROVE  /\ sink[d] # <<>> => IsPrefix(sink[d], files[a])
                      /\ d \in printed => sink[d] = SubSeq(files[a], 1, Size[a])
    BY DEF TransferInv, DownloadKept
  <2>1. Holds(d) /\ Pushed(d) /\ sink[d] \in Seq(Pieces)
        /\ (down[d].pc # "none" => a \in Attachments)
    BY Begun
  <2>2. CASE sink[d] # <<>>
    <3>1. a \in Attachments
      BY <2>1, <2>2 DEF Pushed
    <3>2. /\ files[a] \in Seq(Pieces) /\ Size[a] <= Len(files[a]) /\ Size[a] \in Nat
          /\ Len(sink[d]) <= Size[a] /\ \A k \in 1..Len(sink[d]) : sink[d][k] = files[a][k]
      BY <3>1, <2>1, <2>2, SizeType DEF Holds, UploadInv, UploadTypes, Workers
    <3>3. SubSeq(files[a], 1, Len(sink[d])) \in Seq(Pieces)
          /\ Len(SubSeq(files[a], 1, Len(sink[d]))) = Len(sink[d])
          /\ \A k \in 1..Len(sink[d]) : SubSeq(files[a], 1, Len(sink[d]))[k] = files[a][k]
      BY <3>2, <2>1
    <3>4. sink[d] = SubSeq(files[a], 1, Len(sink[d]))
      BY <3>2, <3>3, <2>1, SameBlocks
    <3>5. SubSeq(sink[d], 1, Len(sink[d])) = sink[d]
      BY <2>1
    <3>6. IsPrefix(sink[d], files[a])
      BY <3>2, <3>4, <3>5, <2>1 DEF IsPrefix
    <3>7. d \in printed => Len(sink[d]) = Size[a]
      BY <2>1 DEF Holds
    <3>8. QED
      BY <3>4, <3>6, <3>7
  <2>3. CASE sink[d] = <<>>
    <3> SUFFICES ASSUME d \in printed PROVE sink[d] = SubSeq(files[a], 1, Size[a])
      BY <2>3
    <3>1. Size[a] = 0
      BY <2>1, <2>3 DEF Holds
    <3>2. SubSeq(files[a], 1, 0) = <<>>
      OBVIOUS
    <3>3. QED
      BY <3>1, <3>2, <2>3
  <2>4. QED
    BY <2>2, <2>3
<1>2. QED
  BY <1>1, TransferInvHolds, PTL
===============================================================================
