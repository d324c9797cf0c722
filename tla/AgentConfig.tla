------------------------------ MODULE AgentConfig ------------------------------
(* The configuration of the agent (kissbot-agent config_manager.rs and          *)
(* configs/), the commands of administrators and the management API that change *)
(* it (command_router.rs, http_server.rs), and the replies and sessions that    *)
(* work from it (nexus.rs, pipelines.rs).                                       *)
(*                                                                              *)
(* The configuration is one value in memory behind a lock.  A change is made in *)
(* memory and then written to the file, all with the lock held; what the change *)
(* depends on was read before, under a lock that was given back.                *)
EXTENDS FiniteSets, Functions

CONSTANTS
    NoRole,        \* the empty role name: the settings of the agent itself
    Ego,           \* the <<agent, role>> the ego memory knows
    Models,        \* provider name -> the models its API lists
    Unset,         \* a setting that is not there
    Nobody,
    Workloads,     \* sets of commands that meet one another
    MaxFailures    \* bound on writes that fail and on restarts

VARIABLES
    mem, file,     \* the configuration, in memory and in nexus.json
    up,            \* the program runs
    writer,        \* who holds the lock for writing
    pc, got,       \* where each command is, what it has read
    failures,
    \* history of what was asked for
    wanted,        \* the reply channels commands have set, by <<agent, role>>
    late,          \* replies that had read the reply channel before it was set anew
    erased,        \* reply channels that such a reply removed
    chosen,        \* the models commands have set, by session
    unsure,        \* sessions whose model was changed though the answer was an error
    unverified,    \* channels whose agent and role were not verified together
    unsaved        \* a change is in memory that could not be written

history == <<wanted, late, erased, chosen, unsure, unverified, unsaved>>
vars == <<mem, file, up, writer, pc, got, failures, history>>

ASSUME ConfigAssumption ==
    /\ \A w \in Workloads : IsFiniteSet(w) /\ Nobody \notin w
    /\ \A w \in Workloads : \A c \in w :
          c.op = "addChannel" => DOMAIN c.config = {"bound", "admins", "agent", "role"}
    /\ \A k \in Ego : k = <<k[1], k[2]>>

\* NexusRepo, and what is left of its file when the write was cut off.
IsConfig(repo) ==
    /\ repo = [f \in {"channels", "providers", "levels", "sessions"} |-> repo[f]]
    /\ \A ch \in DOMAIN repo.channels :
          DOMAIN repo.channels[ch] = {"bound", "admins", "agent", "role"}
Torn == [torn |-> TRUE]

Work == DOMAIN pc
At(step) == {c \in Work : pc[c] = step}

--------------------------------------------------------------------------------
(* Settings and their levels.  A kind is a type of settings: of "llm" every     *)
(* field may be left unset, "out" is the reply channel, "groups" are the tools. *)

Empty(kind) == CASE kind = "llm" -> [provider |-> Unset, model |-> Unset]
                 [] kind = "out" -> Unset
                 [] kind = "groups" -> {}

Merge(kind, old, new) ==
    CASE kind = "llm" -> [f \in DOMAIN old |-> IF new[f] = Unset THEN old[f] ELSE new[f]]
      [] kind = "out" -> new
      [] kind = "groups" -> old \cup new

Has(f, x) == x \in DOMAIN f
Get(repo, level, kind) == repo.levels[level][kind]
Sets(repo, level, kind) == Has(repo.levels, level) /\ Has(repo.levels[level], kind)

\* Mutant: the role's settings first.
BuildAgentLast(repo, key, kind) ==
    LET agent == <<key[1], NoRole>>
        base == IF key[2] # NoRole /\ Sets(repo, key, kind)
                THEN Merge(kind, Empty(kind), Get(repo, key, kind)) ELSE Empty(kind)
    IN  IF Sets(repo, agent, kind) THEN Merge(kind, base, Get(repo, agent, kind)) ELSE base

\* AgentRoleConfig::build: the agent's settings, then the role's.
Build(repo, key, kind) ==
    LET agent == <<key[1], NoRole>>
        base == IF Sets(repo, agent, kind)
                THEN Merge(kind, Empty(kind), Get(repo, agent, kind)) ELSE Empty(kind)
    IN  IF key[2] # NoRole /\ Sets(repo, key, kind)
        THEN Merge(kind, base, Get(repo, key, kind)) ELSE base

Put(f, x, y) == [z \in DOMAIN f \cup {x} |-> IF z = x THEN y ELSE f[z]]
Inner(f, x) == IF Has(f, x) THEN f[x] ELSE << >>

\* SessionConfigMergeMap::set
SetLevel(repo, level, kind, value) ==
    [repo EXCEPT !.levels = Put(@, level, Put(Inner(@, level), kind,
        IF Sets(repo, level, kind) THEN Merge(kind, Get(repo, level, kind), value) ELSE value))]

HasSnapshot(repo, key, kind) == Has(repo.sessions, key) /\ Has(repo.sessions[key], kind)
\* What a session works with: its own settings, copied from the levels at its first use.
InForce(repo, key, kind) ==
    IF HasSnapshot(repo, key, kind) THEN repo.sessions[key][kind] ELSE Build(repo, key, kind)
Snapshot(repo, key, kind, value) ==
    [repo EXCEPT !.sessions = Put(@, key, Put(Inner(@, key), kind, value))]

Channel(c) == mem.channels[c.ch]
Configured(c) == Has(mem.channels, c.ch)
KeyOf(ch) == <<mem.channels[ch].agent, mem.channels[ch].role>>
Bound(repo, out) == Has(repo.channels, out[1]) /\ out[2] \in repo.channels[out[1]].bound

--------------------------------------------------------------------------------
(* Before a change: what a command reads.                                       *)

Commands == {"bind", "unbind", "addAdmin", "removeAdmin", "agent", "role",
             "bindOut", "unbindOut", "model"}
FromApi == {"apiAddAdmin", "apiRemoveAdmin", "addChannel", "removeChannel",
            "addProvider", "removeProvider"}

Goes(c, step) == pc' = [pc EXCEPT ![c] = step]
Reads(c, from) == c \in At(from) /\ writer = Nobody /\ UNCHANGED <<mem, file, up, writer, failures, history>>

\* The channel is read twice, for its administrators and for the command itself.
AcceptCommand(c) ==
    /\ Reads(c, "idle") /\ up /\ c.op \in Commands
    /\ Goes(c, IF ~(Configured(c) /\ c.by \in Channel(c).admins) THEN "ignored"
               ELSE IF c.op \in {"role", "bindOut", "unbindOut", "model"} THEN "accepted"
               ELSE IF c.op = "agent" /\ c.key \notin Ego THEN "refused"
               ELSE "ready")
    /\ UNCHANGED got

Receive(c) ==
    /\ Reads(c, "idle") /\ up /\ c.op \in FromApi
    /\ Goes(c, "ready") /\ UNCHANGED got

\* Mutant: the name of the role is looked for with any agent.
RoleNameKnown(c) == \E k \in Ego : k[2] = c.role
\* verify_role_exists_for_channel
RoleKnown(c) == <<Channel(c).agent, c.role>> \in Ego

\* /bind-outgoing, /unbind-outgoing and /role: the settings are those of the key
\* the channel has now.
LookUp(c) ==
    /\ Reads(c, "accepted") /\ c.op # "model"
    /\ LET fits == /\ Configured(c)
                   /\ c.op = "bindOut" => c.user \in Channel(c).bound
                   /\ c.op = "role" => RoleKnown(c)
       IN  /\ Goes(c, IF fits THEN "ready" ELSE "refused")
           /\ got' = [got EXCEPT ![c] = IF fits THEN KeyOf(c.ch) ELSE @]

\* /model: the session first, then the provider, whose API is asked for its models.
FindSession(c) ==
    /\ Reads(c, "accepted") /\ c.op = "model"
    /\ Goes(c, IF Configured(c) THEN "asking" ELSE "refused")
    /\ got' = [got EXCEPT ![c] = IF Configured(c) THEN KeyOf(c.ch) ELSE @]

\* The name of the provider is passed for the model, too.
AskedModel(c) == c.provider
AskModels(c) ==
    /\ Reads(c, "asking")
    /\ \E answered \in {TRUE, FALSE} :
         Goes(c, IF Has(mem.providers, c.provider) /\ answered
                    /\ AskedModel(c) \in Models[c.provider] THEN "ready" ELSE "refused")
    /\ UNCHANGED got

\* A reply: the channel to send it to, then whether that is still bound.
FindOut(c) ==
    /\ Reads(c, "idle") /\ up /\ c.op = "send"
    /\ LET out == Build(mem, c.key, "out") IN
         /\ Goes(c, IF out = Unset THEN "done" ELSE "found")
         /\ got' = [got EXCEPT ![c] = out]
\* Mutant: the identity is looked for among the administrators.
IsAdmin(out) == Has(mem.channels, out[1]) /\ out[2] \in mem.channels[out[1]].admins
StillBound(out) == Bound(mem, out)
CheckOut(c) ==
    /\ Reads(c, "found")
    /\ Goes(c, IF StillBound(got[c]) THEN "done" ELSE "ready")
    /\ UNCHANGED got

\* The first use of a kind of settings by a session.
ReadSetting(c) ==
    /\ Reads(c, "idle") /\ up /\ c.op = "use"
    /\ Goes(c, IF HasSnapshot(mem, c.key, c.kind) THEN "done" ELSE "missed")
    /\ UNCHANGED got
\* In memory only: the copy reaches the file with the next change.
TakeSnapshot(c) ==
    /\ c \in At("missed") /\ writer = Nobody
    /\ mem' = Snapshot(mem, c.key, c.kind, InForce(mem, c.key, c.kind))
    /\ Goes(c, "done")
    /\ UNCHANGED <<file, up, writer, got, failures, history>>

--------------------------------------------------------------------------------
(* The change: write_nexus_config.                                              *)

Refuses(c) ==
    \/ c.op \in {"bind", "unbind", "addAdmin", "removeAdmin", "apiAddAdmin",
                 "apiRemoveAdmin", "agent", "role"} /\ ~Configured(c)
    \/ c.op = "addProvider" /\ Has(mem.providers, c.provider)
    \/ c.op = "removeProvider" /\ ~Has(mem.providers, c.provider)

Without(f, x) == Restrict(f, DOMAIN f \ {x})

Changed(c) ==
    CASE c.op = "bind" -> [mem EXCEPT !.channels[c.ch].bound = @ \cup {c.user}]
      [] c.op = "unbind" -> [mem EXCEPT !.channels[c.ch].bound = @ \ {c.user}]
      [] c.op \in {"addAdmin", "apiAddAdmin"} -> [mem EXCEPT !.channels[c.ch].admins = @ \cup {c.user}]
      [] c.op \in {"removeAdmin", "apiRemoveAdmin"} -> [mem EXCEPT !.channels[c.ch].admins = @ \ {c.user}]
      [] c.op = "agent" -> [mem EXCEPT !.channels[c.ch] = [@ EXCEPT !.agent = c.key[1], !.role = c.key[2]]]
      [] c.op = "role" -> [mem EXCEPT !.channels[c.ch].role = c.role]
      [] c.op = "addChannel" -> [mem EXCEPT !.channels = Put(@, c.ch, c.config)]
      [] c.op = "removeChannel" -> [mem EXCEPT !.channels = Without(@, c.ch)]
      [] c.op = "addProvider" -> [mem EXCEPT !.providers = Put(@, c.provider, c.config)]
      [] c.op = "removeProvider" -> [mem EXCEPT !.providers = Without(@, c.provider)]
      [] c.op = "bindOut" -> SetLevel(mem, got[c], "out", <<c.ch, c.user>>)
      [] c.op = "unbindOut" -> SetLevel(mem, got[c], "out", Unset)
      [] c.op = "send" -> SetLevel(mem, c.key, "out", Unset)
      [] c.op = "model" -> Snapshot(mem, got[c], "llm", Merge("llm", InForce(mem, got[c], "llm"),
                               [provider |-> c.provider, model |-> AskedModel(c)]))

Refuse(c) ==
    /\ c \in At("ready") /\ writer = Nobody /\ Refuses(c)
    /\ Goes(c, "refused")
    /\ UNCHANGED <<mem, file, up, writer, got, failures, history>>

Apply(c) ==
    /\ c \in At("ready") /\ writer = Nobody /\ ~Refuses(c)
    /\ mem' = Changed(c) /\ writer' = c /\ Goes(c, "changed")
    /\ wanted' = Restrict(wanted, {k \in DOMAIN wanted :
           ~(c.op \in {"bindOut", "unbindOut"} /\ k = got[c]) /\ Bound(mem', wanted[k])})
    /\ late' = IF c.op = "bindOut"
               THEN late \cup {r \in At("found") \cup At("ready") : r.op = "send" /\ r.key = got[c]}
               ELSE late
    /\ erased' = CASE c.op = "send" /\ c \in late -> erased \cup {c.key}
                   [] c.op = "bindOut" -> erased \ {got[c]}
                   [] OTHER -> erased
    /\ unverified' = IF \/ c.op = "role" /\ got[c][1] # Channel(c).agent
                        \/ c.op = "addChannel" /\ <<c.config.agent, c.config.role>> \notin Ego
                     THEN unverified \cup {c.ch} ELSE unverified
    /\ UNCHANGED <<file, up, got, failures, chosen, unsure, unsaved>>

Truncate(c) ==
    /\ c \in At("changed")
    /\ file' = Torn /\ Goes(c, "filling")
    /\ UNCHANGED <<mem, up, writer, got, failures, history>>

Fill(c) ==
    /\ c \in At("filling")
    /\ file' = mem /\ writer' = Nobody /\ unsaved' = FALSE /\ Goes(c, "done")
    /\ wanted' = IF c.op = "bindOut" /\ Bound(mem, <<c.ch, c.user>>) THEN Put(wanted, got[c], <<c.ch, c.user>>) ELSE wanted
    /\ chosen' = IF c.op = "model" THEN Put(chosen, got[c], mem.sessions[got[c]]["llm"]) ELSE chosen
    /\ unsure' = IF c.op = "model" THEN unsure \ {got[c]} ELSE unsure
    /\ UNCHANGED <<mem, up, got, failures, late, erased, unverified>>

\* Mutant: the error is not told.
WriteErrorIgnored(c) ==
    /\ c \in At("changed") \cup At("filling") /\ failures < MaxFailures
    /\ failures' = failures + 1
    /\ writer' = Nobody /\ Goes(c, "done")
    /\ UNCHANGED <<mem, file, up, got, history>>
WriteFails(c) ==
    /\ c \in At("changed") \cup At("filling") /\ failures < MaxFailures
    /\ failures' = failures + 1
    /\ writer' = Nobody /\ unsaved' = TRUE /\ Goes(c, "failed")
    /\ unsure' = IF c.op = "model" THEN unsure \cup {got[c]} ELSE unsure
    /\ UNCHANGED <<mem, file, up, got, wanted, late, erased, chosen, unverified>>

--------------------------------------------------------------------------------
Restart ==
    /\ up /\ failures < MaxFailures
    /\ failures' = failures + 1
    /\ up' = (file # Torn)
    /\ mem' = IF file # Torn THEN file ELSE mem
    /\ writer' = Nobody /\ unsaved' = FALSE
    /\ pc' = [c \in Work |-> IF pc[c] \in {"idle", "done", "refused", "failed", "ignored"} THEN pc[c] ELSE "gone"]
    /\ UNCHANGED <<file, got, wanted, late, erased, chosen, unsure, unverified>>

Init ==
    /\ IsConfig(mem) /\ mem.sessions = << >>
    /\ file = mem /\ up = TRUE /\ writer = Nobody /\ failures = 0
    /\ pc \in UNION {[w -> {"idle"}] : w \in Workloads}
    /\ got = [c \in Work |-> Nobody]
    /\ wanted = << >> /\ chosen = << >>
    /\ late = {} /\ erased = {} /\ unsure = {} /\ unsaved = FALSE
    /\ unverified = {ch \in DOMAIN mem.channels : KeyOf(ch) \notin Ego}

Next ==
    \/ \E c \in Work : AcceptCommand(c) \/ Receive(c) \/ LookUp(c) \/ FindSession(c) \/ AskModels(c)
    \/ \E c \in Work : FindOut(c) \/ CheckOut(c) \/ ReadSetting(c) \/ TakeSnapshot(c)
    \/ \E c \in Work : Refuse(c) \/ Apply(c) \/ Truncate(c) \/ Fill(c) \/ WriteFails(c)
    \/ Restart

Spec == Init /\ [][Next]_vars

--------------------------------------------------------------------------------
\* A restart changes nothing: between changes the file holds what is in memory,
\* but for copies of settings that sessions took since, and these it would yield
\* again.  A change that could not be written is in memory only; until the next
\* one is written, a restart takes it back.
RestartChangesNothing ==
    up /\ writer = Nobody /\ ~unsaved =>
        /\ file # Torn
        /\ [file EXCEPT !.sessions = mem.sessions] = mem
        /\ \A k \in DOMAIN mem.sessions : \A kind \in DOMAIN mem.sessions[k] :
              InForce(file, k, kind) = mem.sessions[k][kind]
        /\ \A k \in DOMAIN file.sessions : \A kind \in DOMAIN file.sessions[k] :
              HasSnapshot(mem, k, kind)

\* What the levels say of a session's model, the role before the agent.
LevelsSay(key, f) ==
    LET says == {l \in {key, <<key[1], NoRole>>} :
                    Sets(mem, l, "llm") /\ Get(mem, l, "llm")[f] # Unset}
    IN  IF key \in says THEN Get(mem, key, "llm")[f]
        ELSE IF says # {} THEN Get(mem, <<key[1], NoRole>>, "llm")[f] ELSE Unset

\* A session works with the model that was last set for it with success, whatever
\* happened to its channel, to the file or to the program since, and before with
\* that of its role, else of its agent.  A change whose write failed is excepted:
\* its answer is an error, and yet it is in force, and the next write saves it.
ModelInForce ==
    up /\ writer = Nobody =>
        \A k \in Ego \ unsure :
            LET model == InForce(mem, k, "llm") IN
            IF k \in DOMAIN chosen THEN model = chosen[k]
            ELSE \A f \in DOMAIN model : model[f] = LevelsSay(k, f)

\* The reply channel set for an agent and role stays until it is set anew or
\* cleared, or its identity is unbound.  Only a reply that had read an older one
\* before can erase it, when it finds that one unbound.
ReplyChannelKept ==
    up /\ writer = Nobody =>
        \A k \in DOMAIN wanted \ erased : Build(mem, k, "out") = wanted[k]

\* A channel's session works with the model an administrator asked for when the
\* answer says so: command_router.rs, "switches the model of the session".
ModelAsAnswered ==
    \A c \in Work : c.op = "model" /\ pc[c] = "done" => chosen[got[c]].model = c.model

\* The agent and role of a channel are a pair the ego memory knows, unless the
\* channel was added with another, or its agent was changed while a change of the
\* role was being verified.
KeysVerified ==
    \A ch \in DOMAIN mem.channels : KeyOf(ch) \in Ego \/ ch \in unverified

\* What commands have bound or chosen for a channel stays as it was verified.
ChoicesKept == ReplyChannelKept /\ KeysVerified
================================================================================
