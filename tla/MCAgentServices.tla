----------------------------- MODULE MCAgentServices -----------------------------
(* What the agent talks to, one at a time.                                      *)
(* The web channel: one user, and no group yet, when the program starts.        *)
(* Its echoes: two replies and a post, the agent being two users of a group.    *)
(* Three stations and another server of tools: in a row, as two ways to one     *)
(* station, with a way back to the first, and with two that are each other's    *)
(* sub; tools of one name, a prefix, and a name that no header carries.         *)
(* Two providers of models, at first one of the first protocol and one of any.  *)
EXTENDS WebMessenger, EchoFilter, StationRouting, ModelCalls, TLC

CONSTANTS t1, t2, l1, l2, r1, r2, p1, u, v, a, b, h1, p, x, y, z, q, k1, one, two
CONSTANT MaxWebEvents   \* bound on changes, messages and failures together
VARIABLE part   \* which of the four it is

With(S, G) ==
    [users |-> {User(0)}, groups |-> G,
     members |-> [g \in Multi |-> IF g \in G THEN S ELSE {}],
     nextUser |-> 1, nextGroup |-> Cardinality(G)]
MCConfigs == {With({}, {})}
MCMemberLists == {{}, {User(0)}}
MCPosts == {<<User(0), Group(0)>>, <<Admin, DirectTo(User(0))>>}

MCNative == [h \in {a, b, h1, p} |->
    CASE h \in {a, h1} -> {<<x>>} [] h = b -> {<<x>>, <<z>>} [] OTHER -> {<<y>>}]
MCPrefix == [e \in {a, b, h1, p} \X {a, b, h1, p} |->
    IF e \in {<<a, b>>, <<b, a>>} THEN q ELSE NoPrefix]
MCOddNames == {<<z>>}
Subs(f, g, h) == [e \in {a, b, h1} |-> CASE e = a -> f [] e = b -> g [] OTHER -> h]
Row == Subs(<<b, p>>, <<h1>>, <<>>)
Topologies == {Row, Subs(<<b, h1>>, <<h1>>, <<p>>), Subs(<<b>>, <<a, h1>>, <<a>>),
               Subs(<<>>, <<h1, p>>, <<b, p>>)}

MCInit ==
    /\ part \in {"web", "echo", "stations", "models"}
    /\ subs \in IF part = "stations" THEN Topologies ELSE {Row}
    /\ WebInit /\ EchoInit /\ StationInit /\ CallsInit
    /\ part # "echo" => kind[p1] = "words"
    /\ model = one /\ registered[one] = [type |-> "openai", url |-> u]
    /\ registered[two].url = v /\ (part # "models" => registered[two].type = "other")
MCNext ==
    \/ part = "web" /\ WebNext /\ changes' + Len(message') + failures' <= MaxWebEvents
       /\ UNCHANGED <<echoVars, stationVars, callsVars, part>>
    \/ part = "echo" /\ EchoNext /\ UNCHANGED <<webVars, stationVars, callsVars, part>>
    \/ part = "stations" /\ StationNext /\ UNCHANGED <<webVars, echoVars, callsVars, part>>
    \/ part = "models" /\ CallsNext /\ UNCHANGED <<webVars, echoVars, stationVars, part>>
MCSpec == MCInit /\ [][MCNext]_<<webVars, echoVars, stationVars, callsVars, part>>
Symmetry == Permutations({t1, t2}) \cup Permutations({r1, r2}) \cup Permutations({l1, l2})
================================================================================
