----------------------------- MODULE StationRouting -----------------------------
(* Stations and their tools (kissbot-agent station.rs) behind the MCP endpoint  *)
(* of kissbot-mcp (client.rs, http.rs, server.rs).  A station lists its own     *)
(* tools and, by asking them one after another, those of its direct             *)
(* sub-stations; each listing leaves a table of routes that later calls follow. *)
(*                                                                              *)
(* A name is a sequence: the prefixes it was given on its way, then what the    *)
(* tool is called where it is.  Arguments and results of tools are left out.    *)
EXTENDS Naturals, Sequences, SequencesExt, FiniteSets

CONSTANTS
    Stations,      \* hosts that run this code, each with a Nexus of its own
    Servers,       \* other MCP servers: tools without groups, no sub-stations
    Native,        \* the names each host has implementations for
    Prefix,        \* <<host, sub-station>> -> the prefix configured, or NoPrefix
    NoPrefix,
    OddNames,      \* names that cannot be read back from a header
    Given,         \* the group a station's own tool carries
    Listings, Calls,   \* tasks that list, tasks that call
    Idle,
    MaxListings,   \* bound on the listings sessions ask for
    MaxLosses      \* bound on lost requests, lost answers and restarts

Hosts == Stations \cup Servers

ASSUME StationAssumption ==
    /\ IsFiniteSet(Stations) /\ Stations \cap Servers = {}
    /\ Idle \notin Hosts /\ Given # Idle
    /\ \A h \in Hosts : \A n \in Native[h] : n \in Seq(Range(n))
    /\ MaxListings \in Nat /\ MaxLosses \in Nat

VARIABLES
    subs,      \* the sub-stations of each station, in the order of its map
    routes,    \* station -> name -> sub-station
    stack,     \* listing -> the stations that are listing for one another
    awaited,   \* listings a session waits for; nobody waits for the others
    shown,     \* what each station's sessions were shown last
    call,      \* what each calling task is at
    begun, losses,
    moved      \* <<station, name>> whose route has changed or gone

stationVars == <<subs, routes, stack, awaited, shown, call, begun, losses, moved>>

NoRoutes == [n \in {} |-> Idle]
NoCall == [at |-> Idle, name |-> <<>>, chain |-> <<>>, visited |-> {},
           wanted |-> <<>>, lost |-> FALSE, answer |-> "none", ran |-> <<>>]

Tool(h, n) == <<h, n>>
Entry(n, h, m, g) == [name |-> n, tool |-> Tool(h, m), group |-> g]
Names(entries) == {e.name : e \in entries}
NativeEntries(s) == {Entry(n, s, n, Given) : n \in Native[s]}

--------------------------------------------------------------------------------
(* The endpoint: what becomes of one POST.                                      *)

Methods == {"discover", "list", "call"}
\* McpClient::send: the headers repeat the body.
Request(method, name) ==
    [origin |-> "none", body |-> "json", version |-> "supported", meta |-> TRUE,
     method |-> method, name |-> name,
     headerVersion |-> "supported", headerMethod |-> method,
     headerName |-> IF name \in OddNames THEN <<>> ELSE name]

\* router/handle: the first check that fails decides, then the method is
\* dispatched to the handler.
Handle(q) ==
    CASE q.origin \notin {"none", "allowed"} -> 403
      [] \/ q.body # "json"
         \/ q.headerVersion = "none" \/ q.headerMethod = "none"
         \/ q.headerMethod # q.method
         \/ ~q.meta \/ q.headerVersion # q.version
         \/ q.version # "supported"
         \/ q.method = "call" /\ q.headerName # q.name -> 400
      [] q.method \notin Methods -> 404
      [] OTHER -> 200

Reaches(method, name) == Handle(Request(method, name)) = 200

--------------------------------------------------------------------------------
(* Names.                                                                       *)

GlobalName(s, c, n) ==
    IF Prefix[<<s, c>>] = NoPrefix THEN n ELSE <<Prefix[<<s, c>>]>> \o n
\* Mutant: the name goes on as it came.
NameAsItCame(s, c, n) == n
LocalName(s, c, n) ==
    IF Prefix[<<s, c>>] # NoPrefix /\ n # <<>> /\ Head(n) = Prefix[<<s, c>>]
    THEN Tail(n) ELSE n

--------------------------------------------------------------------------------
(* Listings.                                                                    *)

Top(t) == Last(stack[t])
\* Station::list_tools up to its first await: its own tools, and the
\* sub-stations in the order of the map.
Frame(s, chain) ==
    [at |-> s, chain |-> chain, left |-> subs[s], found |-> NativeEntries(s),
     table |-> NoRoutes, whole |-> TRUE]

\* Mutant: names are compared before they get their prefix.
AbsorbedUnprefixed(f, tools) ==
    LET c == Head(f.left)
        kept == {[e EXCEPT !.name = GlobalName(f.at, c, e.name),
                           !.group = IF @ = Idle THEN c ELSE @] :
                    e \in {g \in tools : g.name \notin Names(f.found)}}
    IN [f EXCEPT !.left = Tail(@), !.found = @ \cup kept,
                 !.table = [n \in DOMAIN @ \cup Names(kept) |->
                              IF n \in DOMAIN @ THEN @[n] ELSE c]]
\* What a frame makes of the tools of the next sub-station: the first to come
\* keeps a name; what has no group gets that of the sub-station.
Absorbed(f, tools) ==
    LET c == Head(f.left)
        taken == Names(f.found)
        new == {[e EXCEPT !.name = GlobalName(f.at, c, e.name),
                          !.group = IF @ = Idle THEN c ELSE @] : e \in tools}
        kept == {e \in new : e.name \notin taken}
    IN [f EXCEPT !.left = Tail(@), !.found = @ \cup kept,
                 !.table = [n \in DOMAIN @ \cup Names(kept) |->
                              IF n \in DOMAIN @ THEN @[n] ELSE c]]

\* An error of a sub-station is logged, and the listing goes on without it.
Skipped(f, whole) == [f EXCEPT !.left = Tail(@), !.whole = @ /\ whole]

Replaced(s, table) ==
    {<<s, n>> : n \in {m \in DOMAIN routes[s] :
                          m \notin DOMAIN table \/ table[m] # routes[s][m]}}
\* The table of a listing takes the place of the one before.
StoreTable(s, table) == routes' = [routes EXCEPT ![s] = table]

Loses == losses < MaxLosses /\ losses' = losses + 1

\* Station::from_repo: the sub-stations configured, each of them once.
StationInit ==
    /\ subs \in [Stations -> Seq(Hosts)] /\ \A s \in Stations : IsInjective(subs[s])
    /\ routes = [s \in Stations |-> NoRoutes]
    /\ stack = [t \in Listings |-> <<>>] /\ awaited = {}
    /\ shown = [s \in Stations |-> [tools |-> {}, whole |-> FALSE]]
    /\ call = [c \in Calls |-> NoCall]
    /\ begun = 0 /\ losses = 0 /\ moved = {}

\* tools_for_session: a session of the station asks for its tools.  Its group
\* set decides which of them the model is shown (list_tools_local).
BeginListing(t, s) ==
    /\ stack[t] = <<>> /\ begun < MaxListings
    /\ begun' = begun + 1
    /\ stack' = [stack EXCEPT ![t] = <<Frame(s, <<>>)>>]
    /\ awaited' = awaited \cup {t}
    /\ UNCHANGED <<subs, routes, shown, call, losses, moved>>

NextOf(f) == Head(f.left)
ChainOf(f) == Append(f.chain, f.at)
\* Station::list_tools, Station::call_tool: the station is in the chain already.
Cycle(s, chain) == s \in Range(chain)

SetTop(t, f) == stack' = [stack EXCEPT ![t] = Append(Front(@), f)]

\* The sub-station lists in its turn, with the chain so far.
AskStation(t) ==
    /\ stack[t] # <<>> /\ Top(t).left # <<>>
    /\ LET f == Top(t) s == NextOf(f) IN
       /\ s \in Stations /\ ~Cycle(s, ChainOf(f)) /\ Reaches("list", <<>>)
       /\ stack' = [stack EXCEPT ![t] = Append(@, Frame(s, ChainOf(f)))]
    /\ UNCHANGED <<subs, routes, awaited, shown, call, begun, losses, moved>>

\* It refuses: it is in the chain.
Refused(t) ==
    /\ stack[t] # <<>> /\ Top(t).left # <<>>
    /\ LET f == Top(t) s == NextOf(f) IN
       /\ s \in Stations /\ Cycle(s, ChainOf(f))
       /\ SetTop(t, Skipped(f, TRUE))
    /\ UNCHANGED <<subs, routes, awaited, shown, call, begun, losses, moved>>

AskServer(t) ==
    /\ stack[t] # <<>> /\ Top(t).left # <<>>
    /\ LET f == Top(t) s == NextOf(f) IN
       /\ s \in Servers
       /\ SetTop(t, Absorbed(f, {Entry(n, s, n, Idle) : n \in Native[s]}))
    /\ UNCHANGED <<subs, routes, awaited, shown, call, begun, losses, moved>>

\* The request does not arrive.
Unreachable(t) ==
    /\ stack[t] # <<>> /\ Top(t).left # <<>> /\ Loses
    /\ SetTop(t, Skipped(Top(t), FALSE))
    /\ UNCHANGED <<subs, routes, awaited, shown, call, begun, moved>>

\* The end of Station::list_tools, and its answer.
Finish(t) ==
    /\ stack[t] # <<>> /\ Top(t).left = <<>>
    /\ LET f == Top(t) rest == Front(stack[t]) IN
       /\ StoreTable(f.at, f.table)
       /\ moved' = moved \cup Replaced(f.at, f.table)
       /\ IF rest # <<>>
          THEN /\ stack' = [stack EXCEPT ![t] = Append(Front(rest),
                    [Absorbed(Last(rest), f.found) EXCEPT !.whole = @ /\ f.whole])]
               /\ UNCHANGED <<shown, awaited>>
          ELSE /\ stack' = [stack EXCEPT ![t] = <<>>]
               /\ shown' = IF t \in awaited
                           THEN [shown EXCEPT ![f.at] =
                                    [tools |-> f.found, whole |-> f.whole]]
                           ELSE shown
               /\ awaited' = awaited \ {t}
    /\ UNCHANGED <<subs, call, begun, losses>>

\* A request times out or its connection breaks: the station that asked goes
\* on without it.  The one that was asked goes on too, until it notices; its
\* answer, if it comes to one, is lost.
Abandon(t, d) ==
    /\ d < Len(stack[t]) /\ Loses
    /\ LET parent == Append(SubSeq(stack[t], 1, d - 1), Skipped(stack[t][d], FALSE))
           child == SubSeq(stack[t], d + 1, Len(stack[t]))
       IN \/ stack' = [stack EXCEPT ![t] = parent]
          \/ \E u \in Listings \ {t} :
                /\ stack[u] = <<>>
                /\ stack' = [stack EXCEPT ![t] = parent, ![u] = child]
    /\ UNCHANGED <<subs, routes, awaited, shown, call, begun, moved>>

\* A station starts again; requests it was handling were abandoned.  The order
\* of its map is another one.
StationRestarts(s) ==
    /\ Loses
    /\ \A t \in Listings : \A i \in 2..Len(stack[t]) : stack[t][i].at # s
    /\ \A c \in Calls : call[c].at # s
    /\ LET here == {t \in Listings : stack[t] # <<>> /\ stack[t][1].at = s} IN
       /\ stack' = [t \in Listings |-> IF t \in here THEN <<>> ELSE stack[t]]
       /\ awaited' = awaited \ here
    /\ \E order \in [DOMAIN subs[s] -> Range(subs[s])] :
          /\ Range(order) = Range(subs[s])
          /\ subs' = [subs EXCEPT ![s] = order]
    /\ StoreTable(s, NoRoutes)
    /\ moved' = moved \cup Replaced(s, NoRoutes)
    /\ shown' = [shown EXCEPT ![s] = [tools |-> {}, whole |-> FALSE]]
    /\ UNCHANGED <<call, begun>>

--------------------------------------------------------------------------------
(* Calls.                                                                       *)

\* call_tool_local: the model calls a tool it was shown.
BeginCall(c, s) ==
    /\ call[c].at = Idle /\ call[c].answer = "none"
    /\ \E e \in shown[s].tools :
          call' = [call EXCEPT ![c] = [NoCall EXCEPT !.at = s, !.name = e.name,
                                                     !.wanted = e.tool]]
    /\ UNCHANGED <<subs, routes, stack, awaited, shown, begun, losses, moved>>

Here(c) == call[c].at
Answer(c, a, tool) ==
    call' = [call EXCEPT ![c] = [@ EXCEPT !.at = Idle, !.answer = a, !.ran = tool]]

\* The station, or the server, has the tool.
Runs(c) == call[c].name \in Native[Here(c)]
Routed(c) ==
    /\ Here(c) \in Stations /\ ~Runs(c)
    /\ call[c].name \in DOMAIN routes[Here(c)]

RunTool(c) ==
    /\ Here(c) # Idle /\ Runs(c) /\ ~Cycle(Here(c), call[c].chain)
    /\ Answer(c, "ran", Tool(Here(c), call[c].name))
    /\ UNCHANGED <<subs, routes, stack, awaited, shown, begun, losses, moved>>

\* McpClient::call_tool.  A name that the header cannot carry is refused by the
\* endpoint; the error is reported as one of transport.
Forward(c) ==
    /\ Here(c) # Idle /\ ~Cycle(Here(c), call[c].chain) /\ Routed(c)
    /\ LET s == Here(c)
           next == routes[s][call[c].name]
           n == LocalName(s, next, call[c].name)
       IN IF Reaches("call", n)
          THEN call' = [call EXCEPT ![c] = [@ EXCEPT !.at = next, !.name = n,
                            !.chain = Append(call[c].chain, s),
                            !.visited = call[c].visited \cup {<<s, call[c].name>>}]]
          ELSE call' = [call EXCEPT ![c] = [@ EXCEPT !.at = Idle, !.name = n,
                            !.answer = "internal"]]
    /\ UNCHANGED <<subs, routes, stack, awaited, shown, begun, losses, moved>>

\* The errors of the protocol are passed on by every station on the way back.
RefuseCall(c) ==
    /\ Here(c) # Idle
    /\ \/ Cycle(Here(c), call[c].chain) /\ Answer(c, "cycle", <<>>)
       \/ /\ ~Cycle(Here(c), call[c].chain) /\ ~Runs(c) /\ ~Routed(c)
          /\ call' = [call EXCEPT ![c] = [@ EXCEPT !.at = Idle, !.answer = "unknown",
                         !.visited = call[c].visited \cup {<<Here(c), call[c].name>>}]]
    /\ UNCHANGED <<subs, routes, stack, awaited, shown, begun, losses, moved>>

LoseCall(c) ==
    /\ Here(c) # Idle /\ call[c].chain # <<>> /\ Loses
    /\ call' = [call EXCEPT ![c] = [@ EXCEPT !.at = Idle, !.lost = TRUE,
                                             !.answer = "internal"]]
    /\ UNCHANGED <<subs, routes, stack, awaited, shown, begun, moved>>

StationNext ==
    \/ \E t \in Listings :
        \/ \E s \in Stations : BeginListing(t, s)
        \/ AskStation(t) \/ Refused(t) \/ AskServer(t) \/ Unreachable(t)
        \/ Finish(t)
        \/ \E d \in 1..Cardinality(Stations) : Abandon(t, d)
    \/ \E s \in Stations : StationRestarts(s)
    \/ \E c \in Calls :
        \/ \E s \in Stations : BeginCall(c, s)
        \/ RunTool(c) \/ Forward(c) \/ RefuseCall(c) \/ LoseCall(c)

StationSpec == StationInit /\ [][StationNext]_stationVars

--------------------------------------------------------------------------------
(* What the listings and the calls promise.                                     *)

\* The ways from a station to another host that pass no station twice.
IsWay(w) ==
    /\ \A i \in 1..(Len(w) - 1) : w[i] \in Stations /\ w[i + 1] \in Range(subs[w[i]])
    /\ IsInjective(w)
Ways(s) ==
    {w \in UNION {[1..m -> Hosts] : m \in 1..(Cardinality(Stations) + 1)} :
        w[1] = s /\ IsWay(w)}
NameAlong(w, n) ==
    LET Along[v \in Seq(Hosts)] ==
            IF Len(v) < 2 THEN n ELSE GlobalName(v[1], v[2], Along[Tail(v)])
    IN Along[w]
Host(w) == Last(w)
EntriesAlong(w) ==
    {Entry(NameAlong(w, n), Host(w), n,
           IF Host(w) \in Servers THEN Host(w) ELSE Given) : n \in Native[Host(w)]}
AllTools(s) == UNION {EntriesAlong(w) : w \in Ways(s)}

\* A listing that nothing failed in names every tool that can be reached
\* without passing a station twice, each name once, with the group of the host
\* that has the tool, and a station's own tools keep their names.  A listing
\* another station asks for in between, or a cycle of stations, takes nothing
\* away (station.rs:158-228).
ListingComplete ==
    \A s \in Stations : shown[s].whole =>
        LET L == shown[s].tools
            all == AllTools(s)
        IN
        /\ L \subseteq all /\ Names(L) = Names(all)
        /\ \A e, g \in L : e.name = g.name => e = g
        /\ NativeEntries(s) \subseteq L

Reachable(s) == {w[Len(w)] : w \in Ways(s)}
Acyclic == \A s \in Stations : \A r \in Range(subs[s]) : s \notin
              (IF r \in Stations THEN Reachable(r) ELSE {})
\* Where no stations form a cycle and nothing fails, a route never changes:
\* listings for different stations, one within another or at once, come to the
\* same tables (station.rs:185-215).
RoutesStable == moved # {} /\ losses = 0 => ~Acyclic

\* A call runs the very tool the session was shown, under whatever names it has
\* on the way, unless the call was lost, its name cannot be put in a header, or
\* a route it took has changed since it was first stored: the tables of all
\* stations on the way are those of their latest listings, whoever asked for
\* them (station.rs:212-215, 230-290); without cycles and losses they never do.
ListedToolRuns ==
    /\ \A c \in Calls : call[c].answer # "none" =>
          \/ call[c].answer = "ran" /\ call[c].ran = call[c].wanted
          \/ call[c].lost
          \/ call[c].answer = "internal" /\ call[c].name \in OddNames
          \/ call[c].visited \cap moved # {}
    /\ RoutesStable
================================================================================
