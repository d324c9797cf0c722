----------------------------- MODULE MCAgentConfig -----------------------------
(* A channel, two agents and a role of the first; commands that meet.          *)
EXTENDS AgentConfig, TLC

CONSTANTS home, ann, ben, boss, u, v, w, one, two

MCEgo == {<<ann, NoRole>>, <<ben, NoRole>>, <<ann, boss>>}
MCModels == one :> {one, two}
Cmd(op, by) == [op |-> op, ch |-> home, by |-> by]
Bind(x) == [user |-> x] @@ Cmd("bind", w)
Unbind(x) == [user |-> x] @@ Cmd("unbind", w)
Out(x) == [user |-> x] @@ Cmd("bindOut", w)
Agent(x, r) == [key |-> <<x, r>>] @@ Cmd("agent", w)
Role(r) == [role |-> r] @@ Cmd("role", w)
Model(p) == [provider |-> p, model |-> two] @@ Cmd("model", w)
Send(k) == [op |-> "send", key |-> k]
Use(k, kind) == [op |-> "use", key |-> k, kind |-> kind]
Home(S, a) == [bound |-> S, admins |-> {w}, agent |-> a, role |-> boss]
MCWorkloads == {
    {Unbind(u), Out(u), Out(v), Send(<<ann, boss>>), Cmd("unbindOut", w)},
    {Unbind(u), Bind(u), Out(u), Send(<<ann, boss>>), Role(NoRole)},
    {Agent(ben, NoRole), Role(boss), Role(NoRole), Out(u), Model(one)},
    {Model(one), Use(<<ann, boss>>, "llm"), Use(<<ann, boss>>, "groups"),
        [op |-> "removeProvider", provider |-> one],
        [op |-> "addProvider", provider |-> one, config |-> two]},
    {[op |-> "addChannel", ch |-> home, config |-> Home({v}, ben)],
        [op |-> "removeChannel", ch |-> home], Out(u), Send(<<ann, boss>>),
        Agent(ben, boss)},
    {[user |-> u] @@ Cmd("addAdmin", w), [user |-> w] @@ Cmd("removeAdmin", w),
        [op |-> "apiAddAdmin", ch |-> home, user |-> v],
        [op |-> "apiRemoveAdmin", ch |-> home, user |-> u],
        [user |-> v] @@ Cmd("bind", u)}}
Llm(m) == [provider |-> one, model |-> m]
MCInit ==
    /\ mem \in [channels : {home :> Home({u, v}, ann)},
                providers : {one :> one},
                levels : {<< >>, <<ann, NoRole>> :> ("llm" :> Llm(one) @@ "groups" :> {one})
                                 @@ <<ann, boss>> :> ("llm" :> [provider |-> Unset, model |-> two]
                                       @@ "groups" :> {two})},
                sessions : {<< >>}]
    /\ Init
MCSpec == MCInit /\ [][Next]_vars
================================================================================
