------------------------------- MODULE ModelCalls -------------------------------
(* The calls of models: the provider a session is configured with                *)
(* (kissbot-agent provider.rs), the request made of the context in its protocol, *)
(* the attempts, and what an answer leaves in the context (kissbot-llm           *)
(* provider.rs), round after round (pipelines.rs).                               *)
EXTENDS Naturals, Sequences, SequencesExt, FiniteSets

CONSTANTS
    Providers,     \* names of providers
    Urls,          \* where they may be
    CallIds,           \* ids of tool calls
    RetryCount,    \* retry_count
    MaxToolRounds, \* MAX_TOOL_ROUNDS
    MaxSends,      \* bound on requests
    MaxEdits       \* bound on changes of the configuration

ASSUME CallsAssumption ==
    /\ Providers # {} /\ Urls # {}
    /\ IsFiniteSet(CallIds)
    /\ {RetryCount, MaxToolRounds, MaxSends, MaxEdits} \subseteq Nat

Protocols == {"openai", "anthropic"}
Unnamed == "unnamed"        \* a tool call without an id or a name
NotConfigured == [type |-> "none", url |-> "none"]
Settings == [type : Protocols \cup {"other"}, url : Urls]

VARIABLES
    registered,    \* the configuration of each provider
    instances,     \* the url of the instance kept for each name and protocol
    model,        \* the provider of the session
    context,       \* the messages of the session
    request,       \* the request in progress
    sends, edits,
    replaced,      \* ghost: providers configured anew while there was an instance, or a
                   \* request about to make one
    toolFailed     \* ghost: a tool has failed; nothing is returned for its call

callsVars == <<registered, instances, model, context, request, sends, edits, replaced,
               toolFailed>>

Said(role, form, calls) == [role |-> role, form |-> form, calls |-> calls]
NoRequest == [step |-> "idle", name |-> "none", config |-> NotConfigured, at |-> "none",
           messages |-> <<>>, left |-> 0, round |-> 0, calls |-> {}]

\* Mutant: the factory forgets the name.
KeyOfType(type, name) == <<type>>
Key(type, name) == <<type, name>>

CallsInit ==
    /\ registered \in [Providers -> Settings] /\ model \in Providers
    /\ instances = [k \in {} |-> "none"]
    /\ context = <<Said("system", "text", {})>> /\ request = NoRequest
    /\ sends = 0 /\ edits = 0 /\ replaced = {} /\ toolFailed = FALSE

--------------------------------------------------------------------------------
(* The configuration: models and providers are set by others while calls run.   *)

Edits == edits < MaxEdits /\ edits' = edits + 1

SetModel(n) ==
    /\ model # n /\ Edits
    /\ model' = n
    /\ UNCHANGED <<registered, instances, context, request, sends, replaced, toolFailed>>

SetProvider(n, c) ==
    /\ registered[n] # c /\ Edits
    /\ registered' = [registered EXCEPT ![n] = c]
    /\ replaced' = IF \/ \E t \in Protocols : Key(t, n) \in DOMAIN instances
                      \/ request.step = "configured" /\ request.name = n
                   THEN replaced \cup {n} ELSE replaced
    /\ UNCHANGED <<instances, model, context, request, sends, toolFailed>>

\* AsyncCacheFactory::get_or_create: the instance that is there, or a new one.
Instance(c, n) ==
    [k \in DOMAIN instances \cup {Key(c.type, n)} |->
        IF k \in DOMAIN instances THEN instances[k] ELSE c.url]

\* list_models takes its instance from the same factory.
ListModels(n) ==
    /\ registered[n].type \in Protocols /\ Edits
    /\ instances' = Instance(registered[n], n)
    /\ UNCHANGED <<registered, model, context, request, sends, replaced, toolFailed>>

--------------------------------------------------------------------------------
(* A request.                                                                   *)

Say ==
    /\ request.step = "idle" /\ sends < MaxSends
    /\ context' = Append(context, Said("user", "text", {}))
    /\ request' = [NoRequest EXCEPT !.step = "ask"]
    /\ UNCHANGED <<registered, instances, model, sends, edits, replaced, toolFailed>>

\* send_messages: the session's model is read, then the provider's configuration.
Choose ==
    /\ request.step = "ask" /\ sends < MaxSends
    /\ sends' = sends + 1
    /\ request' = [request EXCEPT !.step = "named", !.name = model]
    /\ UNCHANGED <<registered, instances, model, context, edits, replaced, toolFailed>>

Configure ==
    /\ request.step = "named"
    /\ LET c == registered[request.name] IN
         request' = IF c.type \in Protocols
                 THEN [request EXCEPT !.step = "configured", !.config = c] ELSE NoRequest
    /\ UNCHANGED <<registered, instances, model, context, sends, edits, replaced, toolFailed>>

\* build_request: one protocol takes the messages as they are, the other has the
\* system text apart and leaves out what tools returned.
Nth(S, i) == CHOOSE n \in S : Cardinality({k \in S : k <= n}) = i
Body(type) ==
    IF type = "openai" THEN context
    ELSE LET spoken == {i \in DOMAIN context : context[i].role \in {"user", "assistant"}}
         IN  [i \in 1..Cardinality(spoken) |-> context[Nth(spoken, i)]]

BuildRequest ==
    /\ request.step = "configured"
    /\ instances' = Instance(request.config, request.name)
    /\ request' = [request EXCEPT !.step = "sending", !.left = RetryCount,
                            !.at = instances'[Key(request.config.type, request.name)],
                            !.messages = Body(request.config.type)]
    /\ UNCHANGED <<registered, model, context, sends, edits, replaced, toolFailed>>

\* An attempt fails: the same request is sent again, until none is left.
AttemptFails ==
    /\ request.step = "sending"
    /\ request' = IF request.left = 0 THEN NoRequest ELSE [request EXCEPT !.left = @ - 1]
    /\ UNCHANGED <<registered, instances, model, context, sends, edits, replaced, toolFailed>>

\* parse_response: the calls are kept as they came; those with an id and a name
\* are run.  An answer of success may have nothing in it.
ModelAnswers(form, calls) ==
    /\ request.step = "sending"
    /\ form \in {request.config.type, "hollow"}
    /\ calls # {} => form = "openai"
    /\ context' = Append(context, Said("assistant", form, calls))
    /\ request' = IF calls \ {Unnamed} = {} THEN NoRequest
               ELSE [request EXCEPT !.step = "tools", !.calls = calls \ {Unnamed}]
    /\ UNCHANGED <<registered, instances, model, sends, edits, replaced, toolFailed>>

\* retrieve_tool_messages: what came of the tools that ran; and the next round,
\* unless one has failed.
ReturnTools(failed) ==
    /\ request.step = "tools"
    /\ LET ran == SetToSeq(request.calls \ failed) IN
         context' = context \o [i \in DOMAIN ran |-> Said("tool", "text", {ran[i]})]
    /\ request' = IF failed # {} \/ request.round >= MaxToolRounds THEN NoRequest
               ELSE [NoRequest EXCEPT !.step = "ask", !.round = request.round + 1]
    /\ toolFailed' = (toolFailed \/ failed # {})
    /\ UNCHANGED <<registered, instances, model, sends, edits, replaced>>

CallsNext ==
    \/ \E n \in Providers : SetModel(n) \/ ListModels(n)
    \/ \E n \in Providers, c \in Settings \cup {NotConfigured} : SetProvider(n, c)
    \/ Say \/ Choose \/ Configure \/ BuildRequest \/ AttemptFails
    \/ \E form \in Protocols \cup {"hollow"}, calls \in SUBSET (CallIds \cup {Unnamed}) :
         ModelAnswers(form, calls)
    \/ \E failed \in SUBSET request.calls : ReturnTools(failed)

CallsSpec == CallsInit /\ [][CallsNext]_callsVars

--------------------------------------------------------------------------------
Assistants(s) == {s[i] : i \in {j \in DOMAIN s : s[j].role = "assistant"}}

\* What a provider rejects: calls that are not answered right after, a message
\* that is not of its protocol, and roles it does not know.
Answered(s) == \A i \in DOMAIN s :
    s[i].role = "assistant" =>
        LET n == Cardinality(s[i].calls) IN
        /\ i + n <= Len(s)
        /\ s[i].calls = UNION {s[j].calls : j \in (i + 1)..(i + n)}
        /\ \A j \in (i + 1)..(i + n) : s[j].role = "tool"
Fits(type, s) ==
    /\ s # <<>> /\ Last(s).role \in {"user", "tool"}
    /\ \A m \in Assistants(s) : m.form = type
    /\ IF type = "openai" THEN Answered(s)
       ELSE \A i \in DOMAIN s : s[i].role \in {"user", "assistant"}

\* Every attempt of a request is made where the provider the request was configured with
\* is, unless that was configured anew since its instance, or the request, took its
\* configuration (provider.rs:31-39 of the agent), and sends what the provider's protocol takes,
\* for any changes of model, failed attempts, tools and rounds, unless a tool has
\* failed, or the context has an answer of the other protocol, one with nothing in
\* it, or a call without an id or a name, which are kept as they came
\* (pipelines.rs:181-187, 317-343).
CallsAsConfigured ==
    request.step = "sending" =>
        /\ request.at = request.config.url \/ request.name \in replaced
        /\ \/ Fits(request.config.type, request.messages)
           \/ toolFailed
           \/ \E m \in Assistants(context) : m.form # request.config.type \/ Unnamed \in m.calls
================================================================================
