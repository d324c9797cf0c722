----------------------------- MODULE NexusSessions -----------------------------
(***************************************************************************)
(* The sessions of the agent and their pipelines (kissbot-agent, nexus.rs, *)
(* session_manager.rs, channel_manager.rs and the PipelineManager of       *)
(* pipelines.rs).  A channel is bound to a session key: the agent and role *)
(* of its configuration and the event of its runtime entry.  Messages come *)
(* in on tasks of their own, each finds the session of its channel's key,  *)
(* creating it when there is none, and hands itself to the pipeline of     *)
(* that key.  Changes of binding are applied one at a time by the consumer *)
(* of the change queue, which then drops the sessions no channel is bound  *)
(* to, and creates the new one.                                            *)
(*                                                                         *)
(* Both maps are sharded maps whose guards block the thread that waits for *)
(* them.  Two of them are held across an await: the entry of a session     *)
(* that recovers its context, and the read guard of a pipeline that runs.  *)
(* A task that waits at an await needs no worker thread; one that waits    *)
(* for a guard keeps the worker it runs on (`blocked`).                    *)
(***************************************************************************)
EXTENDS Naturals, FiniteSets

CONSTANTS
    Channels,    (* the channels                                                   *)
    Bindings,    (* the pairs of agent and role                                    *)
    Absent,      (* the configuration of a channel that is not configured          *)
    Events,      (* the events a channel may be in, RoleMode included              *)
    RoleMode,    (* no event: the channel is in role mode                          *)
    Unknown,     (* the keys whose configured pipeline name is unknown             *)
    Messages,    (* the messages, each handled by a task                           *)
    Changer,     (* the task that consumes the change queue                        *)
    None,        (* no task, no channel                                            *)
    Workers,     (* the worker threads of the runtime                              *)
    MaxChanges,  (* bound: changes taken from the queue                            *)
    MaxEdits     (* bound: channels added or removed by the management API         *)

Keys == Bindings \X Events
Tasks == Messages \union {Changer}
NoKey == <<>>

ASSUME NexusAssumption ==
    /\ Absent \notin Bindings
    /\ RoleMode \in Events
    /\ Unknown \subseteq Keys
    /\ Changer \notin Messages
    /\ None \notin Tasks \union Channels
    /\ Workers \in Nat \ {0}
    /\ MaxChanges \in Nat
    /\ MaxEdits \in Nat

VARIABLES
    config,      (* the configured binding of each channel                         *)
    running,     (* the channels that have a runtime entry: those run() connected  *)
    event,       (* Channel.event                                                  *)
    sessions,    (* the sessions map: the number of the session of a key, 0: none  *)
    opening,     (* the task that holds the entry of a key while it recovers       *)
    born,        (* the number of sessions created for a key so far                *)
    evicted,     (* ghost: how often the session of a key was dropped              *)
    pipelines,   (* the pipelines map: the session the pipeline of a key works on  *)
    readers,     (* the tasks that hold a read guard of a key's pipeline           *)
    batching,    (* the sessions that a batching task of a key works on            *)
    doing,       (* where each task is                                             *)
    key,         (* the session key each task found                                *)
    session,     (* the session each task found or created                         *)
    blocked,     (* the tasks that keep a worker while they wait for a guard       *)
    target,      (* the channel of the change being applied                        *)
    unread,      (* the channels prune_sessions has still to ask for their key     *)
    keep,        (* the keys it found                                              *)
    changes,     (* the number of changes taken                                    *)
    edits,       (* the number of edits by the management API                      *)
    applied      (* ghost: the channels whose last edit was a change that ended    *)

bindVars == <<config, running, event, edits>>
mapVars == <<sessions, opening, born, evicted>>
pipeVars == <<pipelines, readers, batching>>
pruneVars == <<target, unread, keep, changes>>
nexusVars == <<bindVars, mapVars, pipeVars, doing, key, session, blocked, pruneVars, applied>>

Ensuring == {"ensure", "recovering", "sync", "prompt", "prompting", "ensured"}
MessageSteps == Ensuring \union {"idle", "batching", "queued", "dropped", "ignored"}
ChangeSteps == Ensuring \union {"idle", "channels", "keys", "retain", "retain pipelines"}

(* memory_key of a channel.                                                   *)
KeyOf(c) == <<config[c], event[c]>>

(* After run(): the enabled channels have a runtime entry, which connecting   *)
(* them made.  There is no session: when run() asks for the keys of the       *)
(* channels, before it connects them, none of them has a runtime entry.       *)
NexusInit ==
    /\ config \in [Channels -> Bindings \union {Absent}]
    /\ running = {c \in Channels : config[c] # Absent}
    /\ event = [c \in Channels |-> RoleMode]
    /\ sessions = [k \in Keys |-> 0]
    /\ opening = [k \in Keys |-> None]
    /\ born = [k \in Keys |-> 0]
    /\ evicted = [k \in Keys |-> 0]
    /\ pipelines = [k \in Keys |-> 0]
    /\ readers = [k \in Keys |-> {}]
    /\ batching = [k \in Keys |-> {}]
    /\ doing = [t \in Tasks |-> "idle"]
    /\ key = [t \in Tasks |-> NoKey]
    /\ session = [t \in Tasks |-> 0]
    /\ blocked = {}
    /\ target = None
    /\ unread = {}
    /\ keep = {}
    /\ changes = 0
    /\ edits = 0
    /\ applied = {}

-------------------------------------------------------------------------------
(* A task that is not waiting for a guard needs a worker to take a step.      *)
CanRun(t) == t \in blocked \/ Cardinality(blocked) < Workers

Goto(t, step) == doing' = [doing EXCEPT ![t] = step]

(* Mutant: the entry is not locked while the session recovers.                *)
WaitsNotForEntry(t) ==
    \/ doing[t] = "sync" /\ readers[key[t]] # {}
    \/ doing[t] = "retain pipelines" /\ \E k \in Keys : readers[k] # {}

(* The guard a task needs next is held by somebody else.                      *)
Waits(t) ==
    \/ doing[t] = "ensure" /\ opening[key[t]] # None
    \/ doing[t] = "sync" /\ readers[key[t]] # {}
    \/ doing[t] = "retain" /\ \E k \in Keys : opening[k] # None
    \/ doing[t] = "retain pipelines" /\ \E k \in Keys : readers[k] # {}

(* The thread blocks in the map, with the task on it.                         *)
Block(t) ==
    /\ t \notin blocked
    /\ CanRun(t)
    /\ Waits(t)
    /\ blocked' = blocked \union {t}
    /\ UNCHANGED <<bindVars, mapVars, pipeVars, doing, key, session, pruneVars, applied>>

(* A task at `step`, with what it needs to go on.                             *)
Runs(t, step) ==
    /\ doing[t] = step
    /\ CanRun(t)
    /\ ~Waits(t)
    /\ blocked' = blocked \ {t}

-------------------------------------------------------------------------------
(* ensure_session, by any task.                                               *)

(* get_or_create finds the session: nothing is left to initialise.            *)
FindSession(t) ==
    /\ Runs(t, "ensure")
    /\ sessions[key[t]] # 0
    /\ session' = [session EXCEPT ![t] = sessions[key[t]]]
    /\ Goto(t, "ensured")
    /\ UNCHANGED <<bindVars, mapVars, pipeVars, key, pruneVars, applied>>

(* The entry is vacant: it stays locked while the session reads its cache.    *)
OpenEntry(t) ==
    /\ Runs(t, "ensure")
    /\ sessions[key[t]] = 0
    /\ opening' = [opening EXCEPT ![key[t]] = t]
    /\ Goto(t, "recovering")
    /\ UNCHANGED <<bindVars, sessions, born, evicted, pipeVars, key, session, pruneVars, applied>>

InsertSession(t) ==
    /\ Runs(t, "recovering")
    /\ born' = [born EXCEPT ![key[t]] = @ + 1]
    /\ sessions' = [sessions EXCEPT ![key[t]] = born'[key[t]]]
    /\ session' = [session EXCEPT ![t] = born'[key[t]]]
    /\ opening' = [opening EXCEPT ![key[t]] = None]
    /\ Goto(t, "sync")
    /\ UNCHANGED <<bindVars, evicted, pipeVars, key, pruneVars, applied>>

(* sync_pipeline: a pipeline that is there has the same configuration, which  *)
(* a session fixes when it is first read, and stays.  A new one spawns its    *)
(* batching task.  The error of an unknown pipeline name is ignored.          *)
SyncPipeline(t) ==
    /\ Runs(t, "sync")
    /\ IF pipelines[key[t]] = 0 /\ key[t] \notin Unknown
       THEN /\ pipelines' = [pipelines EXCEPT ![key[t]] = session[t]]
            /\ batching' = [batching EXCEPT ![key[t]] = @ \union {session[t]}]
       ELSE UNCHANGED <<pipelines, batching>>
    /\ Goto(t, "prompt")
    /\ UNCHANGED <<bindVars, mapVars, readers, key, session, pruneVars, applied>>

(* reset_system_prompt keeps the guard while it asks the ego memory.          *)
StartPrompt(t) ==
    /\ Runs(t, "prompt")
    /\ IF pipelines[key[t]] = 0
       THEN Goto(t, "ensured") /\ UNCHANGED readers
       ELSE /\ readers' = [readers EXCEPT ![key[t]] = @ \union {t}]
            /\ Goto(t, "prompting")
    /\ UNCHANGED <<bindVars, mapVars, pipelines, batching, key, session, pruneVars, applied>>

EndPrompt(t) ==
    /\ Runs(t, "prompting")
    /\ readers' = [readers EXCEPT ![key[t]] = @ \ {t}]
    /\ Goto(t, "ensured")
    /\ UNCHANGED <<bindVars, mapVars, pipelines, batching, key, session, pruneVars, applied>>

-------------------------------------------------------------------------------
(* Nexus::incoming_message of an ordinary message.                            *)

(* Mutant: the configuration is not looked up.                                *)
LocateUnconfigured(m, c) ==
    /\ c \in running
    /\ Runs(m, "idle")
    /\ Goto(m, "ensure")
    /\ key' = [key EXCEPT ![m] = KeyOf(c)]
    /\ UNCHANGED <<bindVars, mapVars, pipeVars, session, pruneVars, applied>>

(* The message comes in and finds the key of its channel.                     *)
Locate(m, c) ==
    /\ c \in running
    /\ Runs(m, "idle")
    /\ IF config[c] = Absent
       THEN Goto(m, "ignored") /\ UNCHANGED key
       ELSE Goto(m, "ensure") /\ key' = [key EXCEPT ![m] = KeyOf(c)]
    /\ UNCHANGED <<bindVars, mapVars, pipeVars, session, pruneVars, applied>>

(* PipelineManager::incoming_message: no pipeline, no message.  The guard     *)
(* is kept while the configuration of the batching is read.                   *)
Dispatch(m) ==
    /\ Runs(m, "ensured")
    /\ IF pipelines[key[m]] = 0
       THEN /\ Goto(m, "dropped")
            /\ UNCHANGED readers
       ELSE /\ Goto(m, "batching")
            /\ readers' = [readers EXCEPT ![key[m]] = @ \union {m}]
    /\ session' = [session EXCEPT ![m] = 0]
    /\ UNCHANGED <<bindVars, mapVars, pipelines, batching, key, pruneVars, applied>>

(* Mutant: the guard is never released.                                       *)
EnqueueKeepGuard(m) ==
    /\ Runs(m, "batching")
    /\ Goto(m, "queued")
    /\ key' = [key EXCEPT ![m] = NoKey]
    /\ UNCHANGED <<bindVars, mapVars, pipeVars, session, pruneVars, applied>>

(* The producer of the batching queue takes the message.                      *)
Enqueue(m) ==
    /\ Runs(m, "batching")
    /\ readers' = [readers EXCEPT ![key[m]] = @ \ {m}]
    /\ Goto(m, "queued")
    /\ key' = [key EXCEPT ![m] = NoKey]
    /\ UNCHANGED <<bindVars, mapVars, pipelines, batching, session, pruneVars, applied>>

-------------------------------------------------------------------------------
(* apply_channel_key, by the consumer of the change queue.                    *)

TakeChange ==
    /\ changes < MaxChanges
    /\ changes' = changes + 1

(* A connected channel asks for another agent and role.  The change fails     *)
(* when the channel is not configured, and when the file cannot be written,   *)
(* which leaves the configuration in memory changed.                          *)
ChangeBinding(c, b) ==
    /\ TakeChange
    /\ Runs(Changer, "idle")
    /\ c \in running
    /\ config[c] # Absent
    /\ config' = [config EXCEPT ![c] = b]
    /\ applied' = applied \ {c}
    /\ \/ /\ target' = c
          /\ key' = [key EXCEPT ![Changer] = <<b, event[c]>>]
          /\ Goto(Changer, "channels")
       \/ UNCHANGED <<target, key, doing>>
    /\ UNCHANGED <<running, event, edits, mapVars, pipeVars, session, unread, keep>>

(* The channel enters an event, or goes back to role mode.                    *)
ChangeEvent(c, e) ==
    /\ TakeChange
    /\ Runs(Changer, "idle")
    /\ c \in running
    /\ config[c] # Absent
    /\ event' = [event EXCEPT ![c] = e]
    /\ target' = c
    /\ key' = [key EXCEPT ![Changer] = <<config[c], e>>]
    /\ Goto(Changer, "channels")
    /\ applied' = applied \ {c}
    /\ UNCHANGED <<config, running, edits, mapVars, pipeVars, session, unread, keep>>

(* prune_sessions lists the channels, then asks for the key of each.          *)
ListChannels ==
    /\ Runs(Changer, "channels")
    /\ unread' = {c \in Channels : config[c] # Absent}
    /\ keep' = {}
    /\ Goto(Changer, IF unread' = {} THEN "retain" ELSE "keys")
    /\ UNCHANGED <<bindVars, mapVars, pipeVars, key, session, target, changes, applied>>

(* Mutant: the event of the channel is left out of its key.                   *)
ReadRoleKey(c) ==
    /\ c \in unread
    /\ Runs(Changer, "keys")
    /\ unread' = unread \ {c}
    /\ keep' = IF c \in running /\ config[c] # Absent THEN keep \union {<<config[c], RoleMode>>}
                ELSE keep
    /\ Goto(Changer, IF unread' = {} THEN "retain" ELSE "keys")
    /\ UNCHANGED <<bindVars, mapVars, pipeVars, key, session, target, changes, applied>>

(* memory_key of a channel that is configured and has a runtime entry.        *)
ReadKey(c) ==
    /\ c \in unread
    /\ Runs(Changer, "keys")
    /\ unread' = unread \ {c}
    /\ keep' = IF c \in running /\ config[c] # Absent THEN keep \union {KeyOf(c)} ELSE keep
    /\ Goto(Changer, IF unread' = {} THEN "retain" ELSE "keys")
    /\ UNCHANGED <<bindVars, mapVars, pipeVars, key, session, target, changes, applied>>

(* SessionManager::retain.                                                    *)
RetainSessions ==
    /\ Runs(Changer, "retain")
    /\ sessions' = [k \in Keys |-> IF k \in keep THEN sessions[k] ELSE 0]
    /\ evicted' = [k \in Keys |-> IF sessions'[k] = sessions[k] THEN evicted[k] ELSE evicted[k] + 1]
    /\ Goto(Changer, "retain pipelines")
    /\ UNCHANGED <<bindVars, opening, born, pipeVars, key, session, target, unread, keep, changes,
                   applied>>

(* PipelineManager::retain.  The batching task of a pipeline that is dropped  *)
(* holds the pipeline, and the pipeline the sender of the channel whose end   *)
(* would make the task return: the task stays.                                *)
RetainPipelines ==
    /\ Runs(Changer, "retain pipelines")
    /\ pipelines' = [k \in Keys |-> IF k \in keep THEN pipelines[k] ELSE 0]
    /\ keep' = {}
    /\ Goto(Changer, "ensure")
    /\ UNCHANGED <<bindVars, mapVars, readers, batching, key, session, target, unread, changes,
                   applied>>

(* The change is answered.                                                    *)
Answer ==
    /\ Runs(Changer, "ensured")
    /\ applied' = IF KeyOf(target) = key[Changer] THEN applied \union {target} ELSE applied
    /\ target' = None
    /\ key' = [key EXCEPT ![Changer] = NoKey]
    /\ session' = [session EXCEPT ![Changer] = 0]
    /\ Goto(Changer, "idle")
    /\ UNCHANGED <<bindVars, mapVars, pipeVars, unread, keep, changes>>

-------------------------------------------------------------------------------
(* The management API adds a channel, which has no runtime entry unless it    *)
(* had one before, or removes one, whose runtime entry stays.                 *)
EditChannel(c, b) ==
    /\ edits < MaxEdits
    /\ (config[c] = Absent) # (b = Absent)
    /\ config' = [config EXCEPT ![c] = b]
    /\ edits' = edits + 1
    /\ applied' = applied \ {c}
    /\ UNCHANGED <<running, event, mapVars, pipeVars, doing, key, session, blocked, pruneVars>>

-------------------------------------------------------------------------------
Ensure(t) ==
    \/ FindSession(t)
    \/ OpenEntry(t)
    \/ InsertSession(t)
    \/ SyncPipeline(t)
    \/ StartPrompt(t)
    \/ EndPrompt(t)

HandleMessage(m) == Block(m) \/ Ensure(m) \/ Dispatch(m) \/ Enqueue(m)

ApplyChange ==
    \/ Block(Changer)
    \/ Ensure(Changer)
    \/ ListChannels
    \/ \E c \in Channels : ReadKey(c)
    \/ RetainSessions
    \/ RetainPipelines
    \/ Answer

NexusNext ==
    \/ \E m \in Messages : HandleMessage(m) \/ \E c \in Channels : Locate(m, c)
    \/ ApplyChange
    \/ \E c \in Channels : \/ \E b \in Bindings : ChangeBinding(c, b)
                           \/ \E e \in Events : ChangeEvent(c, e)
                           \/ \E b \in Bindings \union {Absent} : EditChannel(c, b)

NexusSpec == NexusInit /\ [][NexusNext]_nexusVars

-------------------------------------------------------------------------------
(* Every variable has its type.                                               *)
NexusTypeOK ==
    /\ config \in [Channels -> Bindings \union {Absent}]
    /\ running \subseteq Channels
    /\ event \in [Channels -> Events]
    /\ sessions \in [Keys -> Nat]
    /\ opening \in [Keys -> Tasks \union {None}]
    /\ born \in [Keys -> Nat]
    /\ evicted \in [Keys -> Nat]
    /\ pipelines \in [Keys -> Nat]
    /\ readers \in [Keys -> SUBSET Tasks]
    /\ batching \in [Keys -> SUBSET Nat]
    /\ doing \in [Tasks -> MessageSteps \union ChangeSteps]
    /\ key \in [Tasks -> Keys \union {NoKey}]
    /\ session \in [Tasks -> Nat]
    /\ blocked \subseteq Tasks
    /\ target \in Channels \union {None}
    /\ unread \subseteq Channels
    /\ keep \subseteq Keys
    /\ changes \in Nat
    /\ edits \in Nat
    /\ applied \subseteq Channels

(* Tasks that look for the same session at once share one: as long as the     *)
(* session of a key was dropped n times, no more than n + 1 were created, and *)
(* everyone who holds one holds the one in the map unless it was dropped.     *)
(* Two sessions of a key would both write its cache file.                     *)
OneSessionPerKey ==
    \A k \in Keys :
        /\ born[k] = evicted[k] + (IF sessions[k] = 0 THEN 0 ELSE 1)
        /\ \A t \in Tasks : key[t] = k /\ session[t] # 0 /\ session[t] # sessions[k]
                                => session[t] <= evicted[k]

(* Once a change of a channel is answered, the session of the channel's key   *)
(* is there, and stays until the channel is bound to another key, whatever    *)
(* changes of other channels are applied: pruning spares it.                  *)
BoundSessionStays ==
    \A c \in applied : KeyOf(c) \in Keys /\ sessions[KeyOf(c)] # 0

InProgress(t) == doing[t] \notin {"idle", "queued", "dropped", "ignored"}

CanGoOn(t) == InProgress(t) /\ CanRun(t) /\ ~Waits(t) /\ (doing[t] = "keys" => unread # {})

(* Nobody waits for a guard in a circle, or for a worker that somebody who    *)
(* waits keeps: as long as anything is in progress some task can go on, if    *)
(* the runtime has a worker for every task.                                   *)
NoStandstill == (\E t \in Tasks : InProgress(t)) => \E t \in Tasks : CanGoOn(t)
===============================================================================
