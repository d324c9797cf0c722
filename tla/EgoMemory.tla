-------------------------------- MODULE EgoMemory --------------------------------
(* The ego memory (kissbot-memory-ego): agents, the roles they play and the    *)
(* individuals they know, each thing a file with a copy in memory behind a     *)
(* lock, and the index that searches agents and roles.  The three managers     *)
(* read and write alike; requests run beside each other.                       *)
(*                                                                             *)
(* What a thing holds is two texts: the one that is searched, and the rest     *)
(* (other roles, individuals, relations), which changes in ways no other part  *)
(* depends on.  Names are never searched for alone.                            *)
EXTENDS Naturals, FiniteSets

CONSTANTS
    Agents, Roles,
    Individuals,   \* what one agent knows of individuals is one thing
    AgentOf,       \* of a role
    Texts, Empty,
    Tasks,         \* requests at a time
    None, TornFile,    \* no file; a file cut off in a write, which does not parse
    MaxRequests, MaxFaults   \* bounds of a run

ASSUME EgoAssumption ==
    /\ AgentOf \in [Roles -> Agents]
    /\ Empty \in Texts
    /\ Agents \cap (Roles \cup Individuals) = {} /\ Roles \cap Individuals = {}
    /\ None \notin Agents \cup Roles \cup Individuals \cup Tasks \cup Texts
    /\ TornFile # None /\ {None, TornFile} \cap [text : Texts, rest : Texts] = {}
    /\ MaxRequests \in Nat /\ MaxFaults \in Nat

Things == Agents \cup Roles \cup Individuals
Searched == Agents \cup Roles

VARIABLES
    saved, cache,  \* of each key
    holder,        \* the task that holds the write lock of each key
    registered,    \* the agents whose directory has its marker file
    instance,      \* SEARCH_MANAGER_INSTANCE: "none", "loading" or "ready"
    dirty,         \* identity_dirty and role_dirty
    metadata,      \* search_metadata: what the index should hold of each key
    texts,         \* the texts the index finds each key by
    pc, job,       \* the step and the request of each task
    begun, faults,
    created,       \* how many creations of each key succeeded
    raced,         \* agents two of whose creations overlapped
    unsaved,       \* keys whose last write failed after the change in memory
    missed,        \* keys whose change, file or directory the index did not see,
                   \* until the next mark
    crossed        \* keys of which two synchronisations overlapped

things == <<saved, cache, holder, registered>>
search == <<instance, dirty, metadata, texts>>
tasks  == <<pc, job>>
history == <<created, raced, unsaved, missed, crossed>>
egoVars == <<things, search, tasks, begun, faults, history>>

NoJob == [key |-> None, op |-> "none", text |-> Empty, new |-> None,
          load |-> FALSE, todo |-> {}, at |-> None, old |-> None]

Writing(t) == pc[t] \in {"truncate", "fill"}
Syncing(t, k) == pc[t] \in {"fetch", "reindex"} /\ job[t].at = k
Rests(t) == pc' = [pc EXCEPT ![t] = "idle"] /\ job' = [job EXCEPT ![t] = NoJob]
Goto(t, step) == pc' = [pc EXCEPT ![t] = step] /\ UNCHANGED job
MayFail == faults < MaxFaults /\ faults' = faults + 1

\* What whoever has the lock of k finds.
Stored(k) == IF cache[k] # None THEN cache[k] ELSE saved[k]
\* The same for a reader, who is told an error when it does not parse.
Readable(k) == IF Stored(k) = TornFile THEN None ELSE Stored(k)
Register(k) == registered' = registered \cup ({k} \cap Agents)

--------------------------------------------------------------------------------
\* Nothing is stored yet, or what earlier requests stored.
EgoInit ==
    /\ \/ saved = [k \in Things |-> None] /\ registered = {}
       \/ saved = [k \in Things |-> [text |-> Empty, rest |-> Empty]] /\ registered = Agents
    /\ cache = [k \in Things |-> None] /\ holder = [k \in Things |-> None]
    /\ instance = "none" /\ dirty = {}
    /\ metadata = [k \in Searched |-> None] /\ texts = [k \in Searched |-> {}]
    /\ pc = [t \in Tasks |-> "idle"] /\ job = [t \in Tasks |-> NoJob]
    /\ begun = 0 /\ faults = 0
    /\ created = [k \in Things |-> 0]
    /\ raced = {} /\ unsaved = {} /\ missed = {} /\ crossed = {}

--------------------------------------------------------------------------------
(* Writing: write_agent_metadata_ref, write_role_play_ref and                  *)
(* write_individual_recognition_ref.                                           *)

Request(t, k, op, v) ==
    /\ pc[t] = "idle" /\ begun < MaxRequests /\ begun' = begun + 1
    /\ job' = [job EXCEPT ![t] = [NoJob EXCEPT !.key = k, !.op = op, !.text = v]]
    /\ pc' = [pc EXCEPT ![t] = "begin"]
    /\ UNCHANGED <<search, faults>>

Creating(t, k) == job[t].key = k /\ job[t].op = "create" /\ pc[t] # "mark"

\* create_agent and copy_agent: a file that exists is refused, before the lock
\* is taken.
CreateAgent(t, k, v) ==
    /\ k \in Agents /\ saved[k] = None
    /\ Request(t, k, "create", v)
    /\ Register(k)
    /\ raced' = IF \E q \in Tasks : Creating(q, k) THEN raced \cup {k} ELSE raced
    /\ UNCHANGED <<saved, cache, holder, created, unsaved, missed, crossed>>

\* create_role and create_role_from.
CreateRole(t, k, v) ==
    /\ k \in Roles /\ Request(t, k, "create", v)
    /\ UNCHANGED <<things, history>>

\* The description of an agent, the description and the full name of a role.
Update(t, k, v) ==
    /\ k \in Searched /\ Request(t, k, "update", v)
    /\ Register(k)
    /\ UNCHANGED <<saved, cache, holder, history>>

\* Other roles, individuals and what is kept of them: replaced, renamed, changed.
Edit(t, k, v) ==
    /\ k \in Roles \cup Individuals /\ Request(t, k, "edit", v)
    /\ UNCHANGED <<things, history>>

\* get_individuals of an agent nothing is known about writes the empty file.
OpenIndividuals(t, k) ==
    /\ k \in Individuals /\ Request(t, k, "open", Empty)
    /\ UNCHANGED <<things, history>>

\* Mutant: the creation of a role does not look at what is stored.
RefusesLess(t, old) == job[t].op \in {"update", "edit"} /\ old = None
\* The closure: which changes it refuses, and what it makes of what is stored.
\* An edit may also be refused for a name that exists, or does not.
Refuses(t, old) ==
    CASE job[t].op = "create" -> job[t].key \in Roles /\ old # None
      [] job[t].op = "open"   -> old # None
      [] OTHER                -> old = None

Change(t, old) ==
    CASE job[t].op \in {"create", "open"} -> [text |-> job[t].text, rest |-> Empty]
      [] job[t].op = "update" -> [old EXCEPT !.text = job[t].text]
      [] job[t].op = "edit"   -> [old EXCEPT !.rest = job[t].text]

\* The lock, the file if memory has no copy, and the closure.
BeginWrite(t) ==
    /\ pc[t] = "begin"
    /\ LET k == job[t].key
           old == Stored(k)
           new == Change(t, old)
       IN
       /\ holder[k] = None /\ old # TornFile /\ ~Refuses(t, old)
       /\ holder' = [holder EXCEPT ![k] = t]
       /\ cache' = IF job[t].op = "open" THEN cache ELSE [cache EXCEPT ![k] = new]
       /\ job' = [job EXCEPT ![t].new = new]
       /\ unsaved' = unsaved \ {k}
    /\ pc' = [pc EXCEPT ![t] = "truncate"]
    /\ UNCHANGED <<saved, registered, search, begun, faults, created, raced,
                   missed, crossed>>

\* A refusal leaves what was loaded in memory, a file that does not parse nothing.
Refuse(t) ==
    /\ pc[t] = "begin"
    /\ LET k == job[t].key IN
       /\ holder[k] = None
       /\ Stored(k) = TornFile \/ Refuses(t, Stored(k)) \/ job[t].op = "edit"
       /\ cache' = IF Stored(k) = TornFile THEN cache ELSE [cache EXCEPT ![k] = Stored(k)]
    /\ Rests(t)
    /\ UNCHANGED <<saved, holder, registered, search, begun, faults, history>>

\* tokio::fs::write opens the file, which cuts it off, and fills it.
Truncate(t) ==
    /\ pc[t] = "truncate"
    /\ saved' = [saved EXCEPT ![job[t].key] = TornFile]
    /\ Goto(t, "fill")
    /\ UNCHANGED <<cache, holder, registered, search, begun, faults, history>>

\* Mutant: only a creation is marked.
CreateMarked == {"create"}
\* The changes the index follows.
Marked == {"create", "update"}

Fill(t) ==
    /\ pc[t] = "fill"
    /\ LET k == job[t].key IN
       /\ saved' = [saved EXCEPT ![k] = job[t].new]
       /\ cache' = [cache EXCEPT ![k] = job[t].new]
       /\ holder' = [holder EXCEPT ![k] = None]
       /\ created' = IF job[t].op = "create" THEN [created EXCEPT ![k] = @ + 1]
                                             ELSE created
    /\ IF job[t].op \in Marked THEN Goto(t, "mark") ELSE Rests(t)
    /\ UNCHANGED <<registered, search, begun, faults, raced, unsaved, missed,
                   crossed>>

\* The error is returned; memory keeps the change, and nothing marks it.
SaveFails(t) ==
    /\ Writing(t)
    /\ MayFail
    /\ LET k == job[t].key IN
       /\ holder' = [holder EXCEPT ![k] = None]
       /\ unsaved' = IF job[t].op = "open" THEN unsaved ELSE unsaved \cup {k}
       /\ missed' = IF job[t].op \in Marked THEN missed \cup {k} ELSE missed
    /\ Rests(t)
    /\ UNCHANGED <<saved, cache, registered, search, begun, created, raced, crossed>>

\* mark_identity_dirty, mark_role_dirty: after the write, and after the index
\* has been loaded.
MarkDirty(t) ==
    /\ pc[t] = "mark" /\ instance = "ready"
    /\ dirty' = dirty \cup {job[t].key}
    /\ missed' = missed \ {job[t].key}
    /\ Rests(t)
    /\ UNCHANGED <<things, instance, metadata, texts, begun, faults, created,
                   raced, unsaved, crossed>>

\* get_agent, get_role and what reads them: memory keeps what was read, and an
\* agent that is only asked for gets its directory.
Get(k) ==
    /\ holder[k] = None /\ cache[k] = None
    /\ cache' = [cache EXCEPT ![k] = Readable(k)]
    /\ Register(k)
    /\ UNCHANGED <<saved, holder, search, tasks, begun, faults, history>>

--------------------------------------------------------------------------------
(* Searching: search.rs.                                                       *)

FindAgents == "find agents"
FindRoles  == "find roles"
Finds(t) == job[t].op \in {FindAgents, FindRoles}
Wanted(t) == dirty \cap (IF job[t].op = FindAgents THEN Agents ELSE Roles)

\* search_by_description and name_completion, for agents and for roles.
Search(t, op) ==
    /\ pc[t] = "idle" /\ begun < MaxRequests /\ begun' = begun + 1
    /\ pc' = [pc EXCEPT ![t] = "search"]
    /\ job' = [job EXCEPT ![t] = [NoJob EXCEPT !.op = op]]
    /\ UNCHANGED <<things, search, faults, history>>

\* SearchManager::get, the first time: list_agents and list_roles, which pass
\* over the roles of agents without a marker file.
Listed == {k \in Searched : saved[k] # None
                            /\ (IF k \in Agents THEN k ELSE AgentOf[k]) \in registered}

LoadIndex(t, S) ==
    /\ pc[t] \in {"search", "mark"} /\ instance = "none"
    /\ Listed \subseteq S      \* what comes while it lists may be found too
    /\ instance' = "loading"
    /\ job' = [job EXCEPT ![t].load = TRUE, ![t].todo = S]
    /\ pc' = [pc EXCEPT ![t] = "sync"]
    /\ missed' = missed \cup {k \in Roles \ S : saved[k] # None}
    /\ UNCHANGED <<things, dirty, metadata, texts, begun, faults, created,
                   raced, unsaved, crossed>>

\* sync_all_identity, sync_all_roles: what is dirty is synchronised, until
\* nothing is.
SyncAll(t) ==
    /\ pc[t] = "search" /\ instance = "ready" /\ Wanted(t) # {}
    /\ job' = [job EXCEPT ![t].todo = Wanted(t)]
    /\ pc' = [pc EXCEPT ![t] = "sync"]
    /\ UNCHANGED <<things, search, begun, faults, history>>

Answer(t) ==
    /\ pc[t] = "search" /\ instance = "ready" /\ Wanted(t) = {}
    /\ Rests(t)
    /\ UNCHANGED <<things, search, begun, faults, history>>

\* sync_identity, sync_role up to the await: the mark and the old text are taken.
TakeMark(t, k) ==
    /\ pc[t] = "sync" /\ k \in job[t].todo
    /\ job[t].load \/ k \in dirty
    /\ dirty' = dirty \ {k}
    /\ metadata' = [metadata EXCEPT ![k] = None]
    /\ job' = [job EXCEPT ![t].todo = @ \ {k}, ![t].at = k, ![t].old = metadata[k]]
    /\ pc' = [pc EXCEPT ![t] = "fetch"]
    /\ crossed' = IF \E q \in Tasks : Syncing(q, k) THEN crossed \cup {k} ELSE crossed
    /\ UNCHANGED <<things, instance, texts, begun, faults, created, raced,
                   unsaved, missed>>

\* Another search was faster.
Skip(t, k) ==
    /\ pc[t] = "sync" /\ k \in job[t].todo \ dirty /\ ~job[t].load
    /\ job' = [job EXCEPT ![t].todo = @ \ {k}]
    /\ UNCHANGED <<things, search, pc, begun, faults, history>>

Fetch(t) ==
    /\ pc[t] = "fetch"
    /\ LET k == job[t].at IN
       /\ holder[k] = None
       /\ cache' = [cache EXCEPT ![k] = Readable(k)]
       /\ job' = [job EXCEPT ![t].new = Readable(k)]
       /\ Register(k)
    /\ pc' = [pc EXCEPT ![t] = "reindex"]
    /\ UNCHANGED <<saved, holder, search, begun, faults, history>>

\* The file cannot be read: the thing is taken for gone.
FetchFails(t) ==
    /\ pc[t] = "fetch"
    /\ MayFail
    /\ LET k == job[t].at IN
       /\ holder[k] = None /\ cache[k] = None /\ saved[k] # None
       /\ job' = [job EXCEPT ![t].new = None]
       /\ missed' = missed \cup {k}
    /\ pc' = [pc EXCEPT ![t] = "reindex"]
    /\ UNCHANGED <<things, search, begun, created, raced, unsaved, crossed>>

\* The rest of force_sync_identity and force_sync_role.
Reindex(t) ==
    /\ pc[t] = "reindex"
    /\ LET k == job[t].at  old == job[t].old  new == job[t].new IN
       IF new = None
       THEN /\ texts' = [texts EXCEPT ![k] = @ \ {old}]
            /\ UNCHANGED metadata
       ELSE /\ texts' = IF new.text = old THEN texts
                        ELSE [texts EXCEPT ![k] = (@ \ {old}) \cup {new.text}]
            /\ metadata' = [metadata EXCEPT ![k] = new.text]
    /\ job' = [job EXCEPT ![t].at = None, ![t].old = None, ![t].new = None]
    /\ pc' = [pc EXCEPT ![t] = "sync"]
    /\ UNCHANGED <<things, instance, dirty, begun, faults, history>>

\* The loop asks again what is dirty; the load goes on to what it was for.
EndSync(t) ==
    /\ pc[t] = "sync" /\ job[t].todo = {}
    /\ instance' = IF job[t].load THEN "ready" ELSE instance
    /\ job' = [job EXCEPT ![t].load = FALSE]
    /\ pc' = [pc EXCEPT ![t] = IF Finds(t) THEN "search" ELSE "mark"]
    /\ UNCHANGED <<things, dirty, metadata, texts, begun, faults, history>>

\* The process stops and starts again.
Restart ==
    /\ MayFail
    /\ cache' = [k \in Things |-> None] /\ holder' = [k \in Things |-> None]
    /\ instance' = "none" /\ dirty' = {}
    /\ metadata' = [k \in Searched |-> None] /\ texts' = [k \in Searched |-> {}]
    /\ pc' = [t \in Tasks |-> "idle"] /\ job' = [t \in Tasks |-> NoJob]
    /\ unsaved' = {} /\ missed' = {} /\ crossed' = {}
    /\ UNCHANGED <<saved, registered, begun, created, raced>>

WriteNext(t) ==
    \/ \E k \in Things, v \in Texts :
          CreateAgent(t, k, v) \/ CreateRole(t, k, v) \/ Update(t, k, v) \/ Edit(t, k, v)
    \/ \E k \in Individuals : OpenIndividuals(t, k)
    \/ BeginWrite(t) \/ Refuse(t) \/ Truncate(t) \/ Fill(t) \/ SaveFails(t) \/ MarkDirty(t)

SearchNext(t) ==
    \/ \E op \in {FindAgents, FindRoles} : Search(t, op)
    \/ \E S \in SUBSET Searched : LoadIndex(t, S)
    \/ \E k \in Searched : TakeMark(t, k) \/ Skip(t, k)
    \/ SyncAll(t) \/ Answer(t) \/ Fetch(t) \/ FetchFails(t) \/ Reindex(t) \/ EndSync(t)

EgoNext ==
    \/ \E t \in Tasks : WriteNext(t) \/ SearchNext(t)
    \/ \E k \in Things : Get(k)
    \/ Restart

EgoSpec == EgoInit /\ [][EgoNext]_egoVars

--------------------------------------------------------------------------------
(* Properties.                                                                 *)

\* Nothing on its way changes k or what the index holds of it.
Settled(k) ==
    /\ instance = "ready" /\ k \notin dirty
    /\ \A t \in Tasks :
          /\ ~(job[t].key = k /\ pc[t] \in {"truncate", "fill", "mark"})
          /\ ~Syncing(t, k)

\* Then a search finds k by the text a reader is shown and by no other, through
\* writes, restarts and searches in any order ("search results are always
\* accurate").  Excepted are keys of which two synchronisations overlapped, and
\* those whose write or read failed since the last mark, or whose agent was never
\* created.
SearchAccurate ==
    \A k \in Searched \ (crossed \cup missed) :
        Settled(k) =>
            texts[k] = IF Readable(k) = None THEN {} ELSE {Readable(k).text}

\* What memory shows is what a restart would show, unless a write failed; and
\* what was created is not created again, but for agents whose creations
\* overlapped.
WritesKept ==
    \A k \in Things :
        /\ holder[k] = None /\ cache[k] # None /\ k \notin unsaved => cache[k] = saved[k]
        /\ created[k] > 1 => k \in raced
================================================================================
