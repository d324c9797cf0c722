--------------------------- MODULE Sessions_proofs ---------------------------
(***************************************************************************)
(* Proofs about NexusSessions, for any channels, bindings, events and      *)
(* messages: at most one live session per key, a bound session is not      *)
(* pruned, and, with a worker for every task, no standstill.               *)
(*                                                                         *)
(* Then about SessionContext, the context of one session, for any          *)
(* messages, system texts and bounds: nothing appended is ever lost, and   *)
(* the cache file mirrors the memory.  The faults a theorem excludes are   *)
(* in its statement.  The two modules share no variable and no constant.   *)
(***************************************************************************)
EXTENDS NexusSessions, SessionContext, FiniteSetTheorems, SequenceTheorems, TLAPS

-------------------------------------------------------------------------------
(* The inductive invariant.                                                   *)

(* A task that has found a key is at a step of its own kind with that key;    *)
(* a change is about a channel that was connected; a task holds no session    *)
(* before it found or created one, nor after it is done.                      *)
TaskState ==
    /\ doing[Changer] \in ChangeSteps
    /\ doing[Changer] # "idle" => target \in running
    /\ doing[Changer] = "keys" => unread # {}
    /\ \A m \in Messages : doing[m] \in MessageSteps
    /\ \A t \in Tasks :
        /\ InProgress(t) => key[t] \in Keys
        /\ doing[t] \notin {"sync", "prompt", "prompting", "ensured"} => session[t] = 0

(* Who holds a guard is at a step that holds it, and asks for no other.       *)
GuardsHeld ==
    /\ \A k \in Keys : opening[k] # None =>
        doing[opening[k]] = "recovering" /\ key[opening[k]] = k
    /\ \A t \in Tasks : doing[t] = "recovering" => opening[key[t]] = t
    /\ \A k \in Keys : \A t \in readers[k] : doing[t] \in {"prompting", "batching"} /\ key[t] = k

(* A locked entry is vacant, and the session in the map is the last created.  *)
MapState ==
    \A k \in Keys :
        /\ opening[k] # None => sessions[k] = 0
        /\ sessions[k] # 0 => sessions[k] = born[k]

(* What pruning has already decided about the channels whose change ended,    *)
(* and what the change in progress has already ensured.                       *)
PruneState ==
    /\ \A c \in applied :
        /\ c \in running
        /\ config[c] # Absent
        /\ doing[Changer] = "keys" => c \in unread \/ KeyOf(c) \in keep
        /\ doing[Changer] = "retain" => KeyOf(c) \in keep
    /\ doing[Changer] \in {"sync", "prompt", "prompting", "ensured"} => sessions[key[Changer]] # 0

NexusInv == NexusTypeOK /\ TaskState /\ GuardsHeld /\ MapState /\ OneSessionPerKey
          /\ PruneState /\ BoundSessionStays

LEMMA NexusInitInv == NexusInit => NexusInv
<1> SUFFICES ASSUME NexusInit PROVE NexusInv
  OBVIOUS
<1> USE NexusAssumption DEF NexusInit
<1>1. NexusTypeOK
  BY DEF NexusTypeOK, Tasks, MessageSteps
<1>2. TaskState /\ GuardsHeld
  BY DEF TaskState, GuardsHeld, Tasks, MessageSteps, ChangeSteps, InProgress
<1>3. MapState /\ OneSessionPerKey
  BY DEF MapState, OneSessionPerKey
<1>4. PruneState /\ BoundSessionStays
  BY DEF PruneState, BoundSessionStays, Tasks
<1>5. QED
  BY <1>1, <1>2, <1>3, <1>4 DEF NexusInv

-------------------------------------------------------------------------------
(* A step is one of the actions of one task.                                  *)
LEMMA NextSplits ==
    ASSUME NexusNext
    PROVE  \/ \E t \in Tasks : \/ Block(t) \/ FindSession(t) \/ OpenEntry(t) \/ InsertSession(t)
                               \/ SyncPipeline(t) \/ StartPrompt(t) \/ EndPrompt(t)
           \/ \E m \in Messages : Dispatch(m) \/ Enqueue(m) \/ \E c \in Channels : Locate(m, c)
           \/ ListChannels \/ RetainSessions \/ RetainPipelines \/ Answer
           \/ \E c \in Channels : \/ ReadKey(c)
                                  \/ \E b \in Bindings : ChangeBinding(c, b)
                                  \/ \E e \in Events : ChangeEvent(c, e)
                                  \/ \E b \in Bindings \union {Absent} : EditChannel(c, b)
  BY DEF NexusNext, HandleMessage, ApplyChange, Ensure, Tasks

LEMMA StepNames ==
    \A step \in {"idle", "ensure", "recovering", "sync", "prompt", "prompting", "ensured", "batching",
                 "queued", "dropped", "ignored", "channels", "keys", "retain", "retain pipelines"} :
        step \in MessageSteps \union ChangeSteps
  BY DEF MessageSteps, ChangeSteps, Ensuring

LEMMA KeyTyped ==
    ASSUME NexusTypeOK, NEW c \in Channels, config[c] # Absent
    PROVE  KeyOf(c) \in Keys /\ \A e \in Events : <<config[c], e>> \in Keys
  BY DEF NexusTypeOK, KeyOf, Keys

LEMMA NexusTypeStep ==
    ASSUME NexusInv, [NexusNext]_nexusVars
    PROVE  NexusTypeOK'
<1> USE NexusAssumption
<1>0. /\ NexusTypeOK /\ TaskState
      /\ Changer \in Tasks /\ Messages \subseteq Tasks
  BY DEF NexusInv, Tasks
<1>doing. doing \in [Tasks -> MessageSteps \union ChangeSteps]
  BY <1>0 DEF NexusTypeOK
<1>1. CASE UNCHANGED nexusVars
  BY <1>0, <1>1, StepNames DEF NexusTypeOK, nexusVars, Runs, bindVars, mapVars, pipeVars, pruneVars
<1> USE DEF bindVars, mapVars, pipeVars, pruneVars, Goto
<1>2. ASSUME NEW t \in Tasks, Block(t) PROVE NexusTypeOK'
  BY <1>0, <1>2, StepNames DEF NexusTypeOK, Block, Runs
<1>3. ASSUME NEW t \in Tasks, FindSession(t) PROVE NexusTypeOK'
  BY <1>0, <1>3, StepNames DEF NexusTypeOK, FindSession, Runs, TaskState, InProgress
<1>4. ASSUME NEW t \in Tasks, OpenEntry(t) PROVE NexusTypeOK'
  BY <1>0, <1>4, StepNames DEF NexusTypeOK, OpenEntry, Runs, TaskState, InProgress
<1>5. ASSUME NEW t \in Tasks, InsertSession(t) PROVE NexusTypeOK'
  <2>1. key[t] \in Keys /\ born[key[t]] \in Nat /\ born[key[t]] + 1 \in Nat
    BY <1>0, <1>5 DEF NexusTypeOK, InsertSession, Runs, TaskState, InProgress
  <2>2. born' \in [Keys -> Nat] /\ born'[key[t]] \in Nat
    BY <1>0, <1>5, <2>1 DEF NexusTypeOK, InsertSession
  <2>3. sessions' \in [Keys -> Nat]
    BY <1>0, <1>5, <2>2 DEF NexusTypeOK, InsertSession
  <2>4. session' \in [Tasks -> Nat]
    BY <1>0, <1>5, <2>2 DEF NexusTypeOK, InsertSession
  <2>5. opening' \in [Keys -> Tasks \union {None}]
    BY <1>0, <1>5, StepNames DEF NexusTypeOK, InsertSession, Runs, TaskState, InProgress
  <2>6. doing' \in [Tasks -> MessageSteps \union ChangeSteps]
    BY <1>0, <1>doing, <1>5, StepNames DEF InsertSession
  <2>7. QED
    BY <1>0, <1>5, <2>2, <2>3, <2>4, <2>5, <2>6 DEF NexusTypeOK, InsertSession, Runs
<1>6. ASSUME NEW t \in Tasks, SyncPipeline(t) PROVE NexusTypeOK'
  <2>1. pipelines' \in [Keys -> Nat]
    BY <1>0, <1>6, StepNames DEF NexusTypeOK, SyncPipeline, Runs, TaskState, InProgress
  <2>2. key[t] \in Keys /\ batching[key[t]] \union {session[t]} \in SUBSET Nat
    BY <1>0, <1>6 DEF NexusTypeOK, SyncPipeline, Runs, TaskState, InProgress
  <2>3. batching' \in [Keys -> SUBSET Nat]
    BY <1>0, <1>6, <2>2 DEF NexusTypeOK, SyncPipeline
  <2>4. doing' \in [Tasks -> MessageSteps \union ChangeSteps]
    BY <1>0, <1>doing, <1>6, StepNames DEF SyncPipeline
  <2>5. QED
    BY <1>0, <1>6, <2>1, <2>3, <2>4 DEF NexusTypeOK, SyncPipeline, Runs
<1>7. ASSUME NEW t \in Tasks, StartPrompt(t) PROVE NexusTypeOK'
  <2>1. key[t] \in Keys /\ readers[key[t]] \union {t} \in SUBSET Tasks
    BY <1>0, <1>7 DEF NexusTypeOK, StartPrompt, Runs, TaskState, InProgress
  <2>2. readers' \in [Keys -> SUBSET Tasks]
    BY <1>0, <1>7, <2>1 DEF NexusTypeOK, StartPrompt
  <2>3. doing' \in [Tasks -> MessageSteps \union ChangeSteps]
    BY <1>0, <1>doing, <1>7, StepNames DEF StartPrompt
  <2>4. QED
    BY <1>0, <1>7, <2>2, <2>3 DEF NexusTypeOK, StartPrompt, Runs
<1>8. ASSUME NEW t \in Tasks, EndPrompt(t) PROVE NexusTypeOK'
  BY <1>0, <1>8, StepNames DEF NexusTypeOK, EndPrompt, Runs, TaskState, InProgress
<1>9. ASSUME NEW m \in Messages, Dispatch(m) PROVE NexusTypeOK'
  <2>1. key[m] \in Keys /\ readers[key[m]] \union {m} \in SUBSET Tasks
    BY <1>0, <1>9 DEF NexusTypeOK, Dispatch, Runs, TaskState, InProgress
  <2>2. readers' \in [Keys -> SUBSET Tasks]
    BY <1>0, <1>9, <2>1 DEF NexusTypeOK, Dispatch
  <2>3. doing' \in [Tasks -> MessageSteps \union ChangeSteps]
    BY <1>0, <1>doing, <1>9, StepNames DEF Dispatch
  <2>4. session' \in [Tasks -> Nat]
    BY <1>0, <1>9, StepNames DEF NexusTypeOK, Dispatch, Runs, TaskState, InProgress
  <2>5. QED
    BY <1>0, <1>9, <2>2, <2>3, <2>4 DEF NexusTypeOK, Dispatch, Runs
<1>10. ASSUME NEW m \in Messages, Enqueue(m) PROVE NexusTypeOK'
  BY <1>0, <1>10, StepNames DEF NexusTypeOK, Enqueue, Runs, TaskState, InProgress
<1>11. ASSUME NEW m \in Messages, NEW c \in Channels, Locate(m, c) PROVE NexusTypeOK'
  <2>1. doing' \in [Tasks -> MessageSteps \union ChangeSteps]
    BY <1>0, <1>doing, <1>11, StepNames DEF Locate
  <2>2. config[c] # Absent => KeyOf(c) \in Keys
    BY <1>0, KeyTyped
  <2>3. key' \in [Tasks -> Keys \union {NoKey}]
    BY <1>0, <1>11, <2>2 DEF NexusTypeOK, Locate
  <2>4. QED
    BY <1>0, <1>11, <2>1, <2>3 DEF NexusTypeOK, Locate, Runs
<1>12. ASSUME ListChannels PROVE NexusTypeOK'
  BY <1>0, <1>12, StepNames DEF NexusTypeOK, ListChannels, Runs
<1>13. ASSUME RetainSessions PROVE NexusTypeOK'
  <2>1. sessions' \in [Keys -> Nat]
    BY <1>0, <1>13, StepNames DEF NexusTypeOK, RetainSessions, Runs
  <2>2. \A k \in Keys : evicted[k] \in Nat /\ evicted[k] + 1 \in Nat
    BY <1>0 DEF NexusTypeOK
  <2>3. evicted' \in [Keys -> Nat]
    BY <1>0, <1>13, <2>2 DEF NexusTypeOK, RetainSessions
  <2>4. doing' \in [Tasks -> MessageSteps \union ChangeSteps]
    BY <1>0, <1>doing, <1>13, StepNames DEF RetainSessions
  <2>5. QED
    BY <1>0, <1>13, <2>1, <2>3, <2>4 DEF NexusTypeOK, RetainSessions, Runs
<1>14. ASSUME RetainPipelines PROVE NexusTypeOK'
  BY <1>0, <1>14, StepNames DEF NexusTypeOK, RetainPipelines, Runs
<1>15. ASSUME Answer PROVE NexusTypeOK'
  BY <1>0, <1>15, StepNames DEF NexusTypeOK, Answer, Runs, TaskState
<1>16. ASSUME NEW c \in Channels, ReadKey(c) PROVE NexusTypeOK'
  <2>1. doing' \in [Tasks -> MessageSteps \union ChangeSteps]
    BY <1>0, <1>doing, <1>16, StepNames DEF ReadKey
  <2>2. unread' \subseteq Channels /\ keep' \subseteq Keys
    BY <1>0, <1>16, KeyTyped DEF NexusTypeOK, ReadKey
  <2>3. QED
    BY <1>0, <1>16, <2>1, <2>2 DEF NexusTypeOK, ReadKey, Runs
<1>17. ASSUME NEW c \in Channels, NEW b \in Bindings, ChangeBinding(c, b) PROVE NexusTypeOK'
  <2>1. config' \in [Channels -> Bindings \union {Absent}]
    BY <1>0, <1>17, StepNames DEF NexusTypeOK, ChangeBinding, Runs, TakeChange, Keys
  <2>2. target' \in Channels \union {None}
    BY <1>0, <1>17, StepNames DEF NexusTypeOK, ChangeBinding, Runs, TakeChange, Keys
  <2>3. <<b, event[c]>> \in Keys
    BY <1>0 DEF NexusTypeOK, Keys
  <2>4. key' \in [Tasks -> Keys \union {NoKey}]
    BY <1>0, <1>17, <2>3 DEF NexusTypeOK, ChangeBinding
  <2>5. doing' \in [Tasks -> MessageSteps \union ChangeSteps]
    <3>1. doing' = doing \/ doing' = [doing EXCEPT ![Changer] = "channels"]
      BY <1>17 DEF ChangeBinding
    <3>2. QED
      BY <1>0, <1>doing, <3>1, StepNames
  <2>6. QED
    BY <1>0, <1>17, <2>1, <2>2, <2>4, <2>5 DEF NexusTypeOK, ChangeBinding, Runs, TakeChange
<1>18. ASSUME NEW c \in Channels, NEW e \in Events, ChangeEvent(c, e) PROVE NexusTypeOK'
  <2>1. event' \in [Channels -> Events]
    BY <1>0, <1>18, StepNames DEF NexusTypeOK, ChangeEvent, Runs, TakeChange, Keys
  <2>2. target' \in Channels \union {None}
    BY <1>0, <1>18, StepNames DEF NexusTypeOK, ChangeEvent, Runs, TakeChange, Keys
  <2>3. key' \in [Tasks -> Keys \union {NoKey}]
    BY <1>0, <1>18, StepNames DEF NexusTypeOK, ChangeEvent, Runs, TakeChange, Keys
  <2>4. doing' \in [Tasks -> MessageSteps \union ChangeSteps]
    BY <1>0, <1>doing, <1>18, StepNames DEF ChangeEvent
  <2>5. QED
    BY <1>0, <1>18, <2>1, <2>2, <2>3, <2>4 DEF NexusTypeOK, ChangeEvent, Runs, TakeChange
<1>19. ASSUME NEW c \in Channels, NEW b \in Bindings \union {Absent}, EditChannel(c, b) PROVE NexusTypeOK'
  <2>1. config' \in [Channels -> Bindings \union {Absent}]
    BY <1>0, <1>19, StepNames DEF NexusTypeOK, EditChannel, Runs
  <2>2. QED
    BY <1>0, <1>19, <2>1 DEF NexusTypeOK, EditChannel
<1>20. QED
  BY <1>1, <1>2, <1>3, <1>4, <1>5, <1>6, <1>7, <1>8, <1>9, <1>10, <1>11, <1>12, <1>13, <1>14,
     <1>15, <1>16, <1>17, <1>18, <1>19, NextSplits

LEMMA TaskStep ==
    ASSUME NexusInv, [NexusNext]_nexusVars, NexusTypeOK'
    PROVE  TaskState'
<1> USE NexusAssumption
<1>0. /\ NexusTypeOK /\ TaskState /\ PruneState
      /\ Changer \in Tasks /\ Messages \subseteq Tasks /\ Changer \notin Messages
      /\ doing \in [Tasks -> MessageSteps \union ChangeSteps] /\ session \in [Tasks -> Nat]
      /\ key \in [Tasks -> Keys \union {NoKey}]
  BY DEF NexusInv, Tasks, NexusTypeOK
<1> USE DEF TaskState, InProgress
<1>1. CASE UNCHANGED nexusVars
  BY <1>0, <1>1 DEF nexusVars, bindVars, mapVars, pipeVars, pruneVars
<1> USE DEF bindVars, mapVars, pipeVars, pruneVars, Runs, Goto, MessageSteps, ChangeSteps, Ensuring
<1>2. ASSUME NEW t \in Tasks, Block(t) PROVE TaskState'
  BY <1>0, <1>2 DEF Block
<1>3. ASSUME NEW t \in Tasks, FindSession(t) PROVE TaskState'
  BY <1>0, <1>3 DEF FindSession, Tasks
<1>4. ASSUME NEW t \in Tasks, OpenEntry(t) PROVE TaskState'
  BY <1>0, <1>4 DEF OpenEntry, Tasks
<1>5. ASSUME NEW t \in Tasks, InsertSession(t) PROVE TaskState'
  BY <1>0, <1>5 DEF InsertSession, Tasks
<1>6. ASSUME NEW t \in Tasks, SyncPipeline(t) PROVE TaskState'
  BY <1>0, <1>6 DEF SyncPipeline, Tasks
<1>7. ASSUME NEW t \in Tasks, StartPrompt(t) PROVE TaskState'
  <2>1. /\ doing[t] = "prompt" /\ UNCHANGED <<key, session, target, running, unread>>
        /\ \/ doing' = [doing EXCEPT ![t] = "ensured"]
           \/ doing' = [doing EXCEPT ![t] = "prompting"]
    BY <1>7 DEF StartPrompt
  <2>2. /\ doing'[t] \in {"ensured", "prompting"}
        /\ \A u \in Tasks : u # t => doing'[u] = doing[u]
    BY <1>0, <2>1
  <2>3. key[t] \in Keys
    BY <1>0, <2>1
  <2>4. QED
    BY <1>0, <2>1, <2>2, <2>3 DEF Tasks
<1>8. ASSUME NEW t \in Tasks, EndPrompt(t) PROVE TaskState'
  BY <1>0, <1>8 DEF EndPrompt, Tasks
<1>9. ASSUME NEW m \in Messages, Dispatch(m) PROVE TaskState'
  BY <1>0, <1>9 DEF Dispatch
<1>10. ASSUME NEW m \in Messages, Enqueue(m) PROVE TaskState'
  BY <1>0, <1>10 DEF Enqueue
<1>11. ASSUME NEW m \in Messages, NEW c \in Channels, Locate(m, c) PROVE TaskState'
  <2>1. config[c] # Absent => KeyOf(c) \in Keys
    BY <1>0, KeyTyped
  <2>2. QED
    BY <1>0, <1>11, <2>1 DEF Locate
<1>12. ASSUME ListChannels PROVE TaskState'
  BY <1>0, <1>12 DEF ListChannels
<1>13. ASSUME RetainSessions PROVE TaskState'
  BY <1>0, <1>13 DEF RetainSessions
<1>14. ASSUME RetainPipelines PROVE TaskState'
  BY <1>0, <1>14 DEF RetainPipelines
<1>15. ASSUME Answer PROVE TaskState'
  BY <1>0, <1>15 DEF Answer
<1>16. ASSUME NEW c \in Channels, ReadKey(c) PROVE TaskState'
  BY <1>0, <1>16 DEF ReadKey
<1>17. ASSUME NEW c \in Channels, NEW b \in Bindings, ChangeBinding(c, b) PROVE TaskState'
  <2>1. <<b, event[c]>> \in Keys
    BY <1>0 DEF NexusTypeOK, Keys
  <2>2. QED
    BY <1>0, <1>17, <2>1 DEF ChangeBinding, TakeChange
<1>18. ASSUME NEW c \in Channels, NEW e \in Events, ChangeEvent(c, e) PROVE TaskState'
  <2>1. <<config[c], e>> \in Keys
    BY <1>0, <1>18, KeyTyped DEF ChangeEvent
  <2>2. QED
    BY <1>0, <1>18, <2>1 DEF ChangeEvent, TakeChange
<1>19. ASSUME NEW c \in Channels, NEW b \in Bindings \union {Absent}, EditChannel(c, b)
       PROVE  TaskState'
  BY <1>0, <1>19 DEF EditChannel
<1>20. QED
  BY <1>1, <1>2, <1>3, <1>4, <1>5, <1>6, <1>7, <1>8, <1>9, <1>10, <1>11, <1>12, <1>13, <1>14,
     <1>15, <1>16, <1>17, <1>18, <1>19, NextSplits

(* A step of a task that neither takes nor returns a guard leaves them alone.  *)
LEMMA GuardsKept ==
    ASSUME NexusInv, NEW u \in Tasks, NEW step,
           doing[u] \notin {"recovering", "prompting", "batching"}, step # "recovering",
           Goto(u, step), UNCHANGED <<opening, readers, key>>
    PROVE  GuardsHeld'
<1>1. /\ GuardsHeld /\ None \notin Tasks
      /\ doing \in [Tasks -> MessageSteps \union ChangeSteps]
      /\ opening \in [Keys -> Tasks \union {None}]
      /\ readers \in [Keys -> SUBSET Tasks]
      /\ key \in [Tasks -> Keys \union {NoKey}]
  BY NexusAssumption DEF NexusInv, NexusTypeOK
<1>2. QED
  BY <1>1 DEF GuardsHeld, Goto

LEMMA GuardStep ==
    ASSUME NexusInv, [NexusNext]_nexusVars
    PROVE  GuardsHeld'
<1> USE NexusAssumption
<1>0. /\ TaskState /\ GuardsHeld
      /\ Messages \subseteq Tasks /\ Changer \in Tasks /\ None \notin Tasks
      /\ doing \in [Tasks -> MessageSteps \union ChangeSteps]
      /\ key \in [Tasks -> Keys \union {NoKey}]
      /\ opening \in [Keys -> Tasks \union {None}]
      /\ readers \in [Keys -> SUBSET Tasks]
      /\ \A t \in Tasks : InProgress(t) => key[t] \in Keys
  BY DEF NexusInv, Tasks, NexusTypeOK, TaskState
<1>1. CASE UNCHANGED nexusVars
  BY <1>0, <1>1 DEF GuardsHeld, nexusVars, bindVars, mapVars, pipeVars, pruneVars
<1>13. ASSUME RetainSessions PROVE GuardsHeld'
  <2>1. /\ doing[Changer] = "retain" /\ Goto(Changer, "retain pipelines")
        /\ UNCHANGED <<opening, readers, key>>
    BY <1>13 DEF RetainSessions, Runs, pipeVars, mapVars
  <2>2. QED
    BY <1>0, <2>1, GuardsKept
<1>14. ASSUME RetainPipelines PROVE GuardsHeld'
  <2>1. /\ doing[Changer] = "retain pipelines" /\ Goto(Changer, "ensure")
        /\ UNCHANGED <<opening, readers, key>>
    BY <1>14 DEF RetainPipelines, Runs, pipeVars, mapVars
  <2>2. QED
    BY <1>0, <2>1, GuardsKept
<1> USE DEF GuardsHeld, InProgress, bindVars, mapVars, pipeVars, pruneVars, Runs, Goto
<1>2. ASSUME NEW t \in Tasks, Block(t) PROVE GuardsHeld'
  BY <1>0, <1>2 DEF Block
<1>3. ASSUME NEW t \in Tasks, FindSession(t) PROVE GuardsHeld'
  BY <1>0, <1>3 DEF FindSession
<1>4. ASSUME NEW t \in Tasks, OpenEntry(t) PROVE GuardsHeld'
  BY <1>0, <1>4 DEF OpenEntry, Waits
<1>5. ASSUME NEW t \in Tasks, InsertSession(t) PROVE GuardsHeld'
  BY <1>0, <1>5 DEF InsertSession
<1>6. ASSUME NEW t \in Tasks, SyncPipeline(t) PROVE GuardsHeld'
  BY <1>0, <1>6 DEF SyncPipeline
<1>7. ASSUME NEW t \in Tasks, StartPrompt(t) PROVE GuardsHeld'
  BY <1>0, <1>7 DEF StartPrompt
<1>8. ASSUME NEW t \in Tasks, EndPrompt(t) PROVE GuardsHeld'
  BY <1>0, <1>8 DEF EndPrompt
<1>9. ASSUME NEW m \in Messages, Dispatch(m) PROVE GuardsHeld'
  BY <1>0, <1>9 DEF Dispatch
<1>10. ASSUME NEW m \in Messages, Enqueue(m) PROVE GuardsHeld'
  BY <1>0, <1>10 DEF Enqueue
<1>11. ASSUME NEW m \in Messages, NEW c \in Channels, Locate(m, c) PROVE GuardsHeld'
  BY <1>0, <1>11 DEF Locate
<1>12. ASSUME ListChannels PROVE GuardsHeld'
  BY <1>0, <1>12 DEF ListChannels
<1>15. ASSUME Answer PROVE GuardsHeld'
  BY <1>0, <1>15 DEF Answer
<1>16. ASSUME NEW c \in Channels, ReadKey(c) PROVE GuardsHeld'
  BY <1>0, <1>16 DEF ReadKey
<1>17. ASSUME NEW c \in Channels, NEW b \in Bindings, ChangeBinding(c, b) PROVE GuardsHeld'
  BY <1>0, <1>17 DEF ChangeBinding
<1>18. ASSUME NEW c \in Channels, NEW e \in Events, ChangeEvent(c, e) PROVE GuardsHeld'
  BY <1>0, <1>18 DEF ChangeEvent
<1>19. ASSUME NEW c \in Channels, NEW b \in Bindings \union {Absent}, EditChannel(c, b) PROVE GuardsHeld'
  BY <1>0, <1>19 DEF EditChannel
<1>20. QED
  BY <1>1, <1>2, <1>3, <1>4, <1>5, <1>6, <1>7, <1>8, <1>9, <1>10, <1>11, <1>12, <1>13, <1>14,
     <1>15, <1>16, <1>17, <1>18, <1>19, NextSplits

LEMMA SessionStep ==
    ASSUME NexusInv, [NexusNext]_nexusVars
    PROVE  MapState' /\ OneSessionPerKey'
<1> USE NexusAssumption
<1>0. /\ TaskState /\ GuardsHeld /\ MapState /\ OneSessionPerKey
      /\ Messages \subseteq Tasks /\ Changer \in Tasks /\ None \notin Tasks
      /\ doing \in [Tasks -> MessageSteps \union ChangeSteps]
      /\ key \in [Tasks -> Keys \union {NoKey}] /\ session \in [Tasks -> Nat]
      /\ opening \in [Keys -> Tasks \union {None}]
      /\ sessions \in [Keys -> Nat] /\ born \in [Keys -> Nat] /\ evicted \in [Keys -> Nat]
      /\ \A t \in Tasks : /\ InProgress(t) => key[t] \in Keys
                          /\ doing[t] \notin {"sync", "prompt", "prompting", "ensured"}
                                => session[t] = 0
  BY DEF NexusInv, Tasks, NexusTypeOK, TaskState
<1>1. CASE UNCHANGED nexusVars
  BY <1>0, <1>1 DEF MapState, OneSessionPerKey, nexusVars, bindVars, mapVars, pipeVars, pruneVars
<1> USE DEF MapState, OneSessionPerKey, InProgress, bindVars, mapVars, pipeVars, pruneVars, Runs
<1>2. ASSUME NEW t \in Tasks, Block(t) PROVE MapState' /\ OneSessionPerKey'
  BY <1>0, <1>2 DEF Block
<1>3. ASSUME NEW t \in Tasks, FindSession(t) PROVE MapState' /\ OneSessionPerKey'
  BY <1>0, <1>3 DEF FindSession
<1>4. ASSUME NEW t \in Tasks, OpenEntry(t) PROVE MapState' /\ OneSessionPerKey'
  BY <1>0, <1>4 DEF OpenEntry
<1>5. ASSUME NEW t \in Tasks, InsertSession(t) PROVE MapState' /\ OneSessionPerKey'
  BY <1>0, <1>5 DEF InsertSession, GuardsHeld
<1>6. ASSUME NEW t \in Tasks, SyncPipeline(t) PROVE MapState' /\ OneSessionPerKey'
  BY <1>0, <1>6 DEF SyncPipeline
<1>7. ASSUME NEW t \in Tasks, StartPrompt(t) PROVE MapState' /\ OneSessionPerKey'
  BY <1>0, <1>7 DEF StartPrompt
<1>8. ASSUME NEW t \in Tasks, EndPrompt(t) PROVE MapState' /\ OneSessionPerKey'
  BY <1>0, <1>8 DEF EndPrompt
<1>9. ASSUME NEW m \in Messages, Dispatch(m) PROVE MapState' /\ OneSessionPerKey'
  BY <1>0, <1>9 DEF Dispatch
<1>10. ASSUME NEW m \in Messages, Enqueue(m) PROVE MapState' /\ OneSessionPerKey'
  BY <1>0, <1>10 DEF Enqueue
<1>11. ASSUME NEW m \in Messages, NEW c \in Channels, Locate(m, c) PROVE MapState' /\ OneSessionPerKey'
  BY <1>0, <1>11 DEF Locate
<1>12. ASSUME ListChannels PROVE MapState' /\ OneSessionPerKey'
  BY <1>0, <1>12 DEF ListChannels
<1>13. ASSUME RetainSessions PROVE MapState' /\ OneSessionPerKey'
  <2>1. /\ UNCHANGED <<opening, born, key, session>>
        /\ \A k \in Keys : /\ sessions'[k] = sessions[k] \/ sessions'[k] = 0
                          /\ evicted'[k] = IF sessions'[k] = sessions[k]
                                           THEN evicted[k] ELSE evicted[k] + 1
    BY <1>13 DEF RetainSessions
  <2>2. MapState'
    BY <1>0, <2>1
  <2>3. ASSUME NEW k \in Keys
        PROVE  /\ born'[k] = evicted'[k] + (IF sessions'[k] = 0 THEN 0 ELSE 1)
               /\ \A t \in Tasks : key'[t] = k /\ session'[t] # 0 /\ session'[t] # sessions'[k]
                                        => session'[t] <= evicted'[k]
    <3>1. CASE sessions'[k] = sessions[k]
      BY <1>0, <2>1, <3>1
    <3>2. CASE sessions'[k] # sessions[k]
      <4>1. /\ sessions'[k] = 0 /\ sessions[k] = born[k]
            /\ evicted'[k] = evicted[k] + 1 /\ born[k] = evicted[k] + 1
        BY <1>0, <2>1, <3>2
      <4>2. QED
        BY <1>0, <2>1, <4>1
    <3>3. QED
      BY <3>1, <3>2
  <2>4. QED
    BY <2>2, <2>3
<1>14. ASSUME RetainPipelines PROVE MapState' /\ OneSessionPerKey'
  BY <1>0, <1>14 DEF RetainPipelines
<1>15. ASSUME Answer PROVE MapState' /\ OneSessionPerKey'
  BY <1>0, <1>15 DEF Answer
<1>16. ASSUME NEW c \in Channels, ReadKey(c) PROVE MapState' /\ OneSessionPerKey'
  BY <1>0, <1>16 DEF ReadKey
<1>17. ASSUME NEW c \in Channels, NEW b \in Bindings, ChangeBinding(c, b) PROVE MapState' /\ OneSessionPerKey'
  BY <1>0, <1>17 DEF ChangeBinding
<1>18. ASSUME NEW c \in Channels, NEW e \in Events, ChangeEvent(c, e) PROVE MapState' /\ OneSessionPerKey'
  BY <1>0, <1>18 DEF ChangeEvent
<1>19. ASSUME NEW c \in Channels, NEW b \in Bindings \union {Absent}, EditChannel(c, b) PROVE MapState' /\ OneSessionPerKey'
  BY <1>0, <1>19 DEF EditChannel
<1>20. QED
  BY <1>1, <1>2, <1>3, <1>4, <1>5, <1>6, <1>7, <1>8, <1>9, <1>10, <1>11, <1>12, <1>13, <1>14,
     <1>15, <1>16, <1>17, <1>18, <1>19, NextSplits

LEMMA PruneStep ==
    ASSUME NexusInv, [NexusNext]_nexusVars, TaskState', MapState'
    PROVE  PruneState' /\ BoundSessionStays'
<1> USE NexusAssumption
<1>0. /\ TaskState /\ PruneState /\ BoundSessionStays
      /\ Messages \subseteq Tasks /\ Changer \in Tasks /\ Changer \notin Messages
      /\ config \in [Channels -> Bindings \union {Absent}] /\ running \subseteq Channels
      /\ event \in [Channels -> Events]
      /\ doing \in [Tasks -> MessageSteps \union ChangeSteps]
      /\ key \in [Tasks -> Keys \union {NoKey}]
      /\ sessions \in [Keys -> Nat] /\ born \in [Keys -> Nat]
      /\ unread \subseteq Channels /\ applied \subseteq Channels
      /\ \A t \in Tasks : InProgress(t) => key[t] \in Keys
      /\ doing[Changer] # "idle" => target \in running
  BY DEF NexusInv, Tasks, NexusTypeOK, TaskState
<1>1. CASE UNCHANGED nexusVars
  BY <1>0, <1>1 DEF PruneState, BoundSessionStays, KeyOf, nexusVars, bindVars, mapVars, pipeVars,
     pruneVars
<1> USE DEF PruneState, BoundSessionStays, KeyOf, InProgress, bindVars, mapVars, pipeVars,
            pruneVars, Runs, Goto
<1>2. ASSUME NEW t \in Tasks, Block(t) PROVE PruneState' /\ BoundSessionStays'
  BY <1>0, <1>2 DEF Block
<1>3. ASSUME NEW t \in Tasks, FindSession(t) PROVE PruneState' /\ BoundSessionStays'
  BY <1>0, <1>3 DEF FindSession
<1>4. ASSUME NEW t \in Tasks, OpenEntry(t) PROVE PruneState' /\ BoundSessionStays'
  BY <1>0, <1>4 DEF OpenEntry
<1>5. ASSUME NEW t \in Tasks, InsertSession(t) PROVE PruneState' /\ BoundSessionStays'
  BY <1>0, <1>5 DEF InsertSession
<1>6. ASSUME NEW t \in Tasks, SyncPipeline(t) PROVE PruneState' /\ BoundSessionStays'
  BY <1>0, <1>6 DEF SyncPipeline
<1>7. ASSUME NEW t \in Tasks, StartPrompt(t) PROVE PruneState' /\ BoundSessionStays'
  BY <1>0, <1>7 DEF StartPrompt
<1>8. ASSUME NEW t \in Tasks, EndPrompt(t) PROVE PruneState' /\ BoundSessionStays'
  BY <1>0, <1>8 DEF EndPrompt
<1>9. ASSUME NEW m \in Messages, Dispatch(m) PROVE PruneState' /\ BoundSessionStays'
  BY <1>0, <1>9 DEF Dispatch
<1>10. ASSUME NEW m \in Messages, Enqueue(m) PROVE PruneState' /\ BoundSessionStays'
  BY <1>0, <1>10 DEF Enqueue
<1>11. ASSUME NEW m \in Messages, NEW c \in Channels, Locate(m, c) PROVE PruneState' /\ BoundSessionStays'
  BY <1>0, <1>11 DEF Locate
<1>12. ASSUME ListChannels PROVE PruneState' /\ BoundSessionStays'
  BY <1>0, <1>12 DEF ListChannels
<1>13. ASSUME RetainSessions PROVE PruneState' /\ BoundSessionStays'
  BY <1>0, <1>13 DEF RetainSessions
<1>14. ASSUME RetainPipelines PROVE PruneState' /\ BoundSessionStays'
  BY <1>0, <1>14 DEF RetainPipelines
<1>15. ASSUME Answer PROVE PruneState' /\ BoundSessionStays'
  <2>1. /\ doing[Changer] = "ensured" /\ doing'[Changer] = "idle"
        /\ UNCHANGED <<config, running, event, sessions, unread, keep>>
        /\ applied' = applied \/ (applied' = applied \union {target} /\ KeyOf(target) = key[Changer])
    BY <1>0, <1>15 DEF Answer
  <2>2. /\ target \in running /\ target \in Channels /\ key[Changer] \in Keys
        /\ sessions[key[Changer]] # 0
    BY <1>0, <2>1
  <2>3. KeyOf(target) = key[Changer] => config[target] # Absent
    BY <2>2, NexusAssumption DEF Keys
  <2>4. QED
    BY <1>0, <2>1, <2>2, <2>3
<1>16. ASSUME NEW c \in Channels, ReadKey(c) PROVE PruneState' /\ BoundSessionStays'
  BY <1>0, <1>16 DEF ReadKey
<1>17. ASSUME NEW c \in Channels, NEW b \in Bindings, ChangeBinding(c, b) PROVE PruneState' /\ BoundSessionStays'
  BY <1>0, <1>17 DEF ChangeBinding
<1>18. ASSUME NEW c \in Channels, NEW e \in Events, ChangeEvent(c, e) PROVE PruneState' /\ BoundSessionStays'
  BY <1>0, <1>18 DEF ChangeEvent
<1>19. ASSUME NEW c \in Channels, NEW b \in Bindings \union {Absent}, EditChannel(c, b) PROVE PruneState' /\ BoundSessionStays'
  BY <1>0, <1>19 DEF EditChannel
<1>20. QED
  BY <1>1, <1>2, <1>3, <1>4, <1>5, <1>6, <1>7, <1>8, <1>9, <1>10, <1>11, <1>12, <1>13, <1>14,
     <1>15, <1>16, <1>17, <1>18, <1>19, NextSplits

-------------------------------------------------------------------------------
LEMMA NexusInvStep == NexusInv /\ [NexusNext]_nexusVars => NexusInv'
<1> SUFFICES ASSUME NexusInv, [NexusNext]_nexusVars PROVE NexusInv'
  OBVIOUS
<1>1. NexusTypeOK'
  BY NexusTypeStep
<1>2. TaskState' /\ GuardsHeld'
  BY <1>1, TaskStep, GuardStep
<1>3. MapState' /\ OneSessionPerKey'
  BY SessionStep
<1>4. PruneState' /\ BoundSessionStays'
  BY <1>2, <1>3, PruneStep
<1>5. QED
  BY <1>1, <1>2, <1>3, <1>4 DEF NexusInv

LEMMA NexusInvHolds == NexusSpec => []NexusInv
  BY NexusInitInv, NexusInvStep, PTL DEF NexusSpec

(* Every variable keeps its type.                                             *)
THEOREM NexusTypes == NexusSpec => []NexusTypeOK
<1>1. NexusInv => NexusTypeOK
  BY DEF NexusInv
<1>2. QED
  BY <1>1, NexusInvHolds, PTL

(* However many tasks look for a session of a key at once, there is never a   *)
(* second live one: ensure_session creates at most one per eviction.          *)
THEOREM SessionsAreUnique == NexusSpec => []OneSessionPerKey
<1>1. NexusInv => OneSessionPerKey
  BY DEF NexusInv
<1>2. QED
  BY <1>1, NexusInvHolds, PTL

(* The pruning that goes with a change never drops the session of a channel   *)
(* whose own change ended, for any number of channels and keys.               *)
THEOREM PruningSparesBound == NexusSpec => []BoundSessionStays
<1>1. NexusInv => BoundSessionStays
  BY DEF NexusInv
<1>2. QED
  BY <1>1, NexusInvHolds, PTL

-------------------------------------------------------------------------------
(* A task in progress that can do its next step without waiting.              *)
LEMMA SomebodyNeedNotWait ==
    ASSUME NexusInv, NEW t \in Tasks, InProgress(t)
    PROVE  \E u \in Tasks : InProgress(u) /\ ~Waits(u) /\ (doing[u] = "keys" => unread # {})
<1> USE NexusAssumption
<1>1. /\ TaskState /\ GuardsHeld
      /\ opening \in [Keys -> Tasks \union {None}] /\ readers \in [Keys -> SUBSET Tasks]
      /\ None \notin Tasks /\ key[t] \in Keys
      /\ \A u \in Tasks : doing[u] = "keys" => unread # {}
  BY DEF NexusInv, NexusTypeOK, Tasks, TaskState, InProgress, MessageSteps, Ensuring
<1>2. ASSUME NEW k \in Keys, opening[k] # None
      PROVE  /\ opening[k] \in Tasks /\ InProgress(opening[k]) /\ ~Waits(opening[k])
  <2>1. opening[k] \in Tasks /\ doing[opening[k]] = "recovering"
    BY <1>1, <1>2 DEF GuardsHeld
  <2>2. QED
    BY <2>1 DEF InProgress, Waits
<1>3. ASSUME NEW k \in Keys, NEW u \in readers[k]
      PROVE  u \in Tasks /\ InProgress(u) /\ ~Waits(u)
  <2>1. u \in Tasks /\ doing[u] \in {"prompting", "batching"}
    BY <1>1 DEF GuardsHeld
  <2>2. QED
    BY <2>1 DEF InProgress, Waits
<1>4. CASE ~Waits(t)
  BY <1>1, <1>4
<1>5. CASE Waits(t)
  <2>1. (\E k \in Keys : opening[k] # None) \/ (\E k \in Keys : readers[k] # {})
    BY <1>1, <1>5 DEF Waits
  <2>2. QED
    BY <1>1, <1>2, <1>3, <2>1
<1>6. QED
  BY <1>4, <1>5

(* With a worker for every task, a task in progress can always go on: the     *)
(* guards held across an await are never waited for in a circle, and the      *)
(* threads that wait never leave the holder of a guard without one.           *)
THEOREM NoStandstillWithEnoughWorkers ==
    ASSUME IsFiniteSet(Messages), Workers > Cardinality(Messages)
    PROVE  NexusSpec => []NoStandstill
<1>1. NexusInv => NoStandstill
  <2> SUFFICES ASSUME NexusInv, NEW t \in Tasks, InProgress(t)
               PROVE  \E u \in Tasks : CanGoOn(u)
    BY DEF NoStandstill
  <2>1. PICK u \in Tasks : InProgress(u) /\ ~Waits(u) /\ (doing[u] = "keys" => unread # {})
    BY SomebodyNeedNotWait
  <2>2. CASE u \in blocked
    BY <2>1, <2>2 DEF CanGoOn, CanRun
  <2>3. CASE u \notin blocked
    <3>1. /\ IsFiniteSet(Tasks) /\ Cardinality(Tasks) = Cardinality(Messages) + 1
      BY NexusAssumption, FS_AddElement DEF Tasks
    <3>2. /\ IsFiniteSet(Tasks \ {u})
          /\ Cardinality(Tasks \ {u}) = Cardinality(Messages)
      <4>1. Cardinality(Messages) \in Nat
        BY FS_CardinalityType
      <4>2. Cardinality(Tasks \ {u}) = Cardinality(Tasks) - 1
        BY <3>1, FS_RemoveElement
      <4>3. QED
        BY <3>1, <4>1, <4>2, FS_RemoveElement
    <3>3. blocked \subseteq Tasks \ {u}
      BY <2>3 DEF NexusInv, NexusTypeOK
    <3>4. Cardinality(blocked) <= Cardinality(Messages)
      BY <3>2, <3>3, FS_Subset
    <3>5. Cardinality(blocked) < Workers
      BY <3>2, <3>3, <3>4, FS_Subset, FS_CardinalityType, NexusAssumption
    <3>6. QED
      BY <2>1, <3>5 DEF CanGoOn, CanRun
  <2>4. QED
    BY <2>2, <2>3
<1>2. QED
  BY <1>1, NexusInvHolds, PTL

-------------------------------------------------------------------------------
(* Which elements a sequence holds.                                           *)

LEMMA ElementsEmpty == Elements(<<>>) = {}
  BY DEF Elements

LEMMA ElementsAppend ==
    ASSUME NEW S, NEW s \in Seq(S), NEW e \in S
    PROVE  Elements(Append(s, e)) = Elements(s) \union {e}
<1>1. /\ Len(Append(s, e)) = Len(s) + 1
      /\ Append(s, e)[Len(s) + 1] = e
      /\ \A i \in 1..Len(s) : Append(s, e)[i] = s[i]
      /\ Len(s) \in Nat
  OBVIOUS
<1>2. 1..(Len(s) + 1) = (1..Len(s)) \union {Len(s) + 1}
  BY <1>1
<1>3. QED
  BY <1>1, <1>2 DEF Elements

LEMMA ElementsTail ==
    ASSUME NEW S, NEW s \in Seq(S), s # <<>>
    PROVE  /\ Head(s) \in S
           /\ Tail(s) \in Seq(S)
           /\ Elements(s) = {Head(s)} \union Elements(Tail(s))
<1>1. /\ Head(s) \in S
      /\ Tail(s) \in Seq(S)
      /\ Head(s) = s[1]
      /\ Len(s) \in Nat \ {0}
      /\ Len(Tail(s)) = Len(s) - 1
      /\ \A i \in 1..(Len(s) - 1) : Tail(s)[i] = s[i + 1]
  OBVIOUS
<1>2. ASSUME NEW x \in Elements(s), x # Head(s) PROVE x \in Elements(Tail(s))
  <2>1. PICK i \in 1..Len(s) : s[i] = x
    BY DEF Elements
  <2>2. i # 1
    BY <1>1, <1>2, <2>1
  <2>3. i - 1 \in 1..Len(Tail(s)) /\ Tail(s)[i - 1] = x
    BY <1>1, <2>1, <2>2
  <2>4. QED
    BY <2>3 DEF Elements
<1>3. ASSUME NEW x \in Elements(Tail(s)) PROVE x \in Elements(s)
  <2>1. PICK i \in 1..Len(Tail(s)) : Tail(s)[i] = x
    BY DEF Elements
  <2>2. i + 1 \in 1..Len(s) /\ s[i + 1] = x
    BY <1>1, <2>1
  <2>3. QED
    BY <2>2 DEF Elements
<1>4. Head(s) \in Elements(s)
  <2>1. 1 \in 1..Len(s) /\ s[1] = Head(s)
    BY <1>1
  <2>2. QED
    BY <2>1 DEF Elements
<1>5. QED
  BY <1>1, <1>2, <1>3, <1>4

LEMMA ElementsConcat ==
    ASSUME NEW S, NEW s \in Seq(S), NEW t \in Seq(S)
    PROVE  Elements(s \o t) = Elements(s) \union Elements(t)
<1>1. /\ Len(s \o t) = Len(s) + Len(t)
      /\ Len(s) \in Nat /\ Len(t) \in Nat
      /\ \A i \in 1..Len(s) : (s \o t)[i] = s[i]
      /\ \A i \in 1..Len(t) : (s \o t)[Len(s) + i] = t[i]
  OBVIOUS
<1>2. ASSUME NEW x \in Elements(s \o t) PROVE x \in Elements(s) \union Elements(t)
  <2>1. PICK i \in 1..(Len(s) + Len(t)) : (s \o t)[i] = x
    BY <1>1 DEF Elements
  <2>2. CASE i <= Len(s)
    BY <1>1, <2>1, <2>2 DEF Elements
  <2>3. CASE ~(i <= Len(s))
    <3>1. i - Len(s) \in 1..Len(t) /\ i = Len(s) + (i - Len(s))
      BY <1>1, <2>1, <2>3
    <3>2. t[i - Len(s)] = x
      BY <1>1, <2>1, <3>1
    <3>3. QED
      BY <3>1, <3>2 DEF Elements
  <2>4. QED
    BY <2>2, <2>3
<1>3. ASSUME NEW x \in Elements(s) PROVE x \in Elements(s \o t)
  <2>1. PICK i \in 1..Len(s) : s[i] = x
    BY DEF Elements
  <2>2. i \in 1..Len(s \o t) /\ (s \o t)[i] = x
    BY <1>1, <2>1
  <2>3. QED
    BY <2>2 DEF Elements
<1>4. ASSUME NEW x \in Elements(t) PROVE x \in Elements(s \o t)
  <2>1. PICK i \in 1..Len(t) : t[i] = x
    BY DEF Elements
  <2>2. Len(s) + i \in 1..Len(s \o t) /\ (s \o t)[Len(s) + i] = x
    BY <1>1, <2>1
  <2>3. QED
    BY <2>2 DEF Elements
<1>5. QED
  BY <1>2, <1>3, <1>4

(* Moving the head of one sequence to the end of another.                     *)
LEMMA MoveHead ==
    ASSUME NEW S, NEW s \in Seq(S), NEW t \in Seq(S), t # <<>>
    PROVE  Append(s, Head(t)) \o Tail(t) = s \o t
  OBVIOUS

LEMMA SplitHead ==
    ASSUME NEW S, NEW s \in Seq(S), s # <<>>
    PROVE  <<Head(s)>> \o Tail(s) = s
  OBVIOUS

LEMMA EmptyConcat ==
    ASSUME NEW S, NEW s \in Seq(S)
    PROVE  <<>> \o s = s /\ s \o <<>> = s
  OBVIOUS

LEMMA ConcatGroups ==
    ASSUME NEW S, NEW s \in Seq(S), NEW t \in Seq(S), NEW u \in Seq(S)
    PROVE  (s \o t) \o u = s \o (t \o u)
  OBVIOUS

-------------------------------------------------------------------------------
(* Types.  Without a torn line every line of the file is readable.            *)

LinesWhole == glued = {} /\ ~cut

(* The System line is written only when there is a system message.            *)
TextAtHand == pc = "system" => system # NoText

TypeInv == TypeOK /\ LinesWhole /\ TextAtHand

LEMMA SystemLineType ==
    \A s \in Texts \union {NoText} : SystemLine(s) \in Seq(Entries)
<1>1. <<>> \in Seq(Entries)
  OBVIOUS
<1>2. \A s \in Entries : <<s>> \in Seq(Entries)
  OBVIOUS
<1>3. QED
  BY <1>1, <1>2 DEF SystemLine, Entries

LEMMA BatchType == Batches \subseteq Seq(Bodies)
<1>1. <<>> \in Seq(Bodies)
  OBVIOUS
<1>2. \A x \in Bodies : <<x>> \in Seq(Bodies)
  OBVIOUS
<1>3. \A x, y \in Bodies : <<x, y>> \in Seq(Bodies)
  OBVIOUS
<1>4. SUFFICES ASSUME NEW s \in Batches PROVE s \in Seq(Bodies)
  OBVIOUS
<1>5. \/ s = <<>>
      \/ \E x \in Bodies : s = <<x>>
      \/ \E x, y \in Bodies : s = <<x, y>>
  BY SMT DEF Batches
<1>6. QED
  BY <1>1, <1>2, <1>3, <1>5

LEMMA BodiesAreEntries == Seq(Bodies) \subseteq Seq(Entries)
<1>1. ASSUME NEW s \in Seq(Bodies) PROVE s \in Seq(Entries)
  BY DEF Entries
<1>2. QED
  BY <1>1

LEMMA InitTypeInv == Init => TypeInv
<1>1. 0 \in 0..MaxNow
  BY ContextAssumption
<1>2. \A S : <<>> \in Seq(S)
  OBVIOUS
<1>3. Init => history \in [0..MaxNow -> SUBSET Entries]
  BY DEF Init
<1>4. QED
  BY <1>1, <1>2, <1>3 DEF Init, TypeInv, TypeOK, LinesWhole, TextAtHand, Operations, Steps

(* The common part of the operations, with the type of what it is given.      *)
LEMMA StartType ==
    ASSUME TypeInv,
           NEW o \in Operations, NEW first \in Steps \ {"system"}, NEW n \in Seq(Entries),
           NEW text \in Texts \union {NoText}, NEW new \in Seq(Bodies),
           Start(o, first, n, text, new), pending' \in Texts \union {NoText}
    PROVE  TypeInv'
<1>1. new \in Seq(Entries)
  BY BodiesAreEntries
<1>2. QED
  BY <1>1 DEF Start, TypeInv, TypeOK, LinesWhole, TextAtHand, file, ghosts

LEMMA EndJobType ==
    ASSUME EndJob
    PROVE  /\ op' \in Operations
           /\ rest' \in Seq(Entries)
           /\ fresh' \in Texts \union {NoText}
           /\ batch' \in Seq(Bodies)
           /\ dump' \in Seq(Entries)
           /\ dest' \in 0..MaxNow
           /\ left' \in Seq(Entries)
  BY ContextAssumption DEF EndJob, Operations

(* A line written whole to a file of whole lines.                             *)
LEMMA WriteType ==
    ASSUME TypeInv, NEW e \in Entries, Write(e, TRUE)
    PROVE  /\ exists' \in BOOLEAN
           /\ cache' = Append(cache, e)
           /\ cache' \in Seq(Entries)
           /\ glued' = {}
           /\ cut' = FALSE
  BY DEF Write, TypeInv, TypeOK, LinesWhole, TextAtHand

LEMMA TypeStep ==
    ASSUME TypeInv, "torn" \notin Faults, [Next]_vars
    PROVE  TypeInv'
<1> DEFINE Rest == /\ now' \in 0..MaxNow
                   /\ messages' \in Seq(Entries)
                   /\ system' \in Texts \union {NoText}
                   /\ pending' \in Texts \union {NoText}
                   /\ acked' \in SUBSET Bodies
                   /\ behind' \in BOOLEAN
<1>1. ASSUME NEW new \in Batches, AppendMessages(new) PROVE TypeInv'
  <2>1. new \in Seq(Bodies)
    BY BatchType
  <2>2. Start("append", "open", messages, system, new) /\ pending' = pending
    BY <1>1 DEF AppendMessages
  <2>3. QED
    BY <2>1, <2>2, StartType DEF TypeInv, TypeOK, Operations, Steps
<1>2. ASSUME NEW new \in Batches, Reset(new) PROVE TypeInv'
  <2>1. new \in Seq(Bodies) /\ <<>> \in Seq(Entries)
    BY BatchType
  <2>2. Start("reset", ArchiveFirst, <<>>, system, new) /\ pending' = pending
    BY <1>2 DEF Reset
  <2>3. QED
    BY <2>1, <2>2, StartType DEF TypeInv, TypeOK, Operations, Steps, ArchiveFirst
<1>3. ASSUME NEW text \in Texts, SetSystem(text) PROVE TypeInv'
  BY <1>3 DEF SetSystem, TypeInv, TypeOK, LinesWhole, TextAtHand, file, job, ghosts
<1>4. CASE ApplyPending
  <2>1. CASE pending = system
    BY <1>4, <2>1 DEF ApplyPending, TypeInv, TypeOK, LinesWhole, TextAtHand, file, job, ghosts
  <2>2. CASE pending # system
    <3>1. <<>> \in Seq(Bodies)
      OBVIOUS
    <3>2. Start("apply", ArchiveFirst, messages, pending, <<>>) /\ pending' = NoText
      BY <1>4, <2>2 DEF ApplyPending
    <3>3. QED
      BY <3>1, <3>2, StartType DEF TypeInv, TypeOK, Operations, Steps, ArchiveFirst
  <2>3. QED
    BY <2>1, <2>2
<1>5. ASSUME NEW n \in 0..MaxContext, Revert(n) PROVE TypeInv'
  <2>1. n \in Nat /\ n < Len(messages)
    BY <1>5, ContextAssumption DEF Revert
  <2>2. SubSeq(messages, 1, n) \in Seq(Entries) /\ <<>> \in Seq(Bodies)
    BY <2>1 DEF TypeInv, TypeOK
  <2>3. Start("revert", "create", SubSeq(messages, 1, n), system, <<>>) /\ pending' = pending
    BY <1>5 DEF Revert
  <2>4. QED
    BY <2>2, <2>3, StartType DEF TypeInv, TypeOK, Operations, Steps
<1>6. CASE CreateArchive
  <2>1. <<>> \in Seq(Entries) /\ SystemLine(system) \o messages \in Seq(Entries)
    BY SystemLineType DEF TypeInv, TypeOK
  <2>2. spoiled' \in BOOLEAN
    BY <1>6, Zenon DEF CreateArchive, TypeInv, TypeOK
  <2>3. QED
    BY <1>6, <2>1, <2>2 DEF CreateArchive, TypeInv, TypeOK, LinesWhole, TextAtHand, Steps, memory, file, ghosts
<1>7. CASE DumpLine
  <2>1. CASE dump = <<>>
    BY <1>7, <2>1 DEF DumpLine, TypeInv, TypeOK, LinesWhole, TextAtHand, Steps, memory, file, ghosts
  <2>2. CASE dump # <<>>
    <3>1. Tail(dump) \in Seq(Entries) /\ history[dest] \union {Head(dump)} \in SUBSET Entries
      <4>1. Head(dump) \in Entries /\ Tail(dump) \in Seq(Entries)
        BY <2>2 DEF TypeInv, TypeOK
      <4>2. history[dest] \in SUBSET Entries
        BY DEF TypeInv, TypeOK
      <4>3. QED
        BY <4>1, <4>2
    <3>2. QED
      BY <1>7, <2>2, <3>1 DEF DumpLine, TypeInv, TypeOK, LinesWhole, TextAtHand, memory, file, ghosts
  <2>3. QED
    BY <2>1, <2>2
<1>8. CASE RemoveCache
  <2>1. <<>> \in Seq(Entries) /\ batch \in Seq(Entries)
    BY BodiesAreEntries DEF TypeInv, TypeOK
  <2>2. rest \o batch \in Seq(Entries)
    BY <2>1 DEF TypeInv, TypeOK
  <2>3. /\ op' \in Operations /\ rest' \in Seq(Entries) /\ fresh' \in Texts \union {NoText}
        /\ batch' \in Seq(Bodies) /\ dump' \in Seq(Entries) /\ dest' \in 0..MaxNow
        /\ left' \in Seq(Entries) /\ pc' \in Steps
    <3>1. CASE rest \o batch = <<>> /\ op # "revert"
      BY <1>8, <3>1, EndJobType DEF RemoveCache, Steps
    <3>2. CASE ~(rest \o batch = <<>> /\ op # "revert")
      BY <1>8, <3>2, <2>2 DEF RemoveCache, TypeInv, TypeOK, Steps
    <3>3. QED
      BY <3>1, <3>2
  <2>4. QED
    BY <1>8, <2>1, <2>3 DEF RemoveCache, TypeInv, TypeOK, LinesWhole, TextAtHand
<1>9. CASE OpenCache
  BY <1>9 DEF OpenCache, TypeInv, TypeOK, LinesWhole, TextAtHand, Steps, memory, job, ghosts
<1>10. CASE WriteSystemLine
  <2>1. pc = "system" /\ Write(system, TRUE)
    BY <1>10 DEF WriteSystemLine
  <2>2. system \in Texts /\ system \in Entries
    BY <2>1 DEF TypeInv, TypeOK, TextAtHand, Entries
  <2>3. QED
    BY <1>10, <2>1, <2>2, WriteType
       DEF WriteSystemLine, TypeInv, TypeOK, LinesWhole, TextAtHand, Steps, memory, job, ghosts
<1>11. CASE WriteLine
  <2>1. Head(left) \in Entries /\ Tail(left) \in Seq(Entries)
    BY <1>11 DEF WriteLine, TypeInv, TypeOK
  <2>2. Write(Head(left), TRUE)
    BY <1>11 DEF WriteLine
  <2>3. QED
    BY <1>11, <2>1, <2>2, WriteType DEF WriteLine, TypeInv, TypeOK, LinesWhole, TextAtHand, memory, ghosts
<1>12. CASE Return
  <2>1. messages \o batch \in Seq(Entries)
    BY BodiesAreEntries DEF TypeInv, TypeOK
  <2>2. Elements(batch) \subseteq Bodies
    BY DEF Elements, TypeInv, TypeOK
  <2>3. EndJob
    BY <1>12 DEF Return
  <2>4. QED
    BY <1>12, <2>1, <2>2, <2>3, EndJobType DEF Return, TypeInv, TypeOK, LinesWhole, TextAtHand, Steps, file
<1>13. CASE Fail
  <2>1. EndJob
    BY <1>13 DEF Fail
  <2>2. QED
    BY <1>13, <2>1, EndJobType DEF Fail, TypeInv, TypeOK, LinesWhole, TextAtHand, Steps, memory, file
<1>14. CASE Crash
  <2>1. EndJob /\ Forget
    BY <1>14 DEF Crash
  <2>2. QED
    BY <1>14, <2>1, EndJobType DEF Crash, Forget, TypeInv, TypeOK, LinesWhole, TextAtHand, Steps, file, ghosts
<1>15. CASE CutLine
  BY <1>15 DEF CutLine
<1>16. CASE Recover
  <2>1. Readable \in Seq(Entries)
    BY DEF Readable, TypeInv, TypeOK, LinesWhole, TextAtHand
  <2>2. system' \in Texts \union {NoText}
    BY <1>16 DEF Recover, StartsWithSystem, TypeInv, TypeOK
  <2>3. messages' \in Seq(Entries)
    <3>1. StartsWithSystem(Readable) => Tail(Readable) \in Seq(Entries)
      BY <2>1 DEF StartsWithSystem
    <3>2. QED
      BY <1>16, <2>1, <3>1 DEF Recover, TypeInv, TypeOK
  <2>4. behind' \in BOOLEAN
    BY <1>16, Zenon DEF Recover, TypeInv, TypeOK
  <2>5. spoiled' \in BOOLEAN
    BY <1>16, Zenon DEF Recover, TypeInv, TypeOK
  <2>6. QED
    BY <1>16, <2>2, <2>3, <2>4, <2>5 DEF Recover, TypeInv, TypeOK, LinesWhole, TextAtHand, Steps, file, job
<1>17. CASE Tick
  BY <1>17, ContextAssumption
     DEF Tick, TypeInv, TypeOK, LinesWhole, TextAtHand, memory, file, job, ghosts
<1>18. CASE UNCHANGED vars
  BY <1>18 DEF vars, TypeInv, TypeOK, LinesWhole, TextAtHand, memory, file, job, ghosts
<1>19. QED
  BY <1>1, <1>2, <1>3, <1>4, <1>5, <1>6, <1>7, <1>8, <1>9, <1>10, <1>11, <1>12, <1>13,
     <1>14, <1>15, <1>16, <1>17, <1>18 DEF Next

-------------------------------------------------------------------------------
(* Nothing is lost.                                                           *)

(* The memory of a running process holds what the archive does not.           *)
MemoryHolds == pc # "down" => acked \subseteq Elements(messages) \union Archived

(* While the archive is written, what is missing from it is still in `dump`.  *)
DumpHolds ==
    /\ pc = "dump" => Elements(messages) \subseteq Elements(dump) \union Archived
    /\ pc = "remove" => Elements(messages) \subseteq Archived

(* What the operation will acknowledge is in the cache or will be written.    *)
BatchHolds ==
    pc \in {"open", "system", "lines"} =>
        Elements(batch) \subseteq Elements(left) \union Elements(cache)

AckedHeld == acked \subseteq Elements(cache) \union Archived

Kept == MemoryHolds /\ DumpHolds /\ BatchHolds /\ AckedHeld

KeepInv == ~spoiled => Kept

LEMMA InitKeepInv == Init => KeepInv
  BY DEF Init, KeepInv, Kept, MemoryHolds, DumpHolds, BatchHolds, AckedHeld

LEMMA ArchivedSame == history' = history => Archived' = Archived
  BY DEF Archived

LEMMA StartKeep ==
    ASSUME Kept, NEW o, NEW first, NEW n, NEW text, NEW new,
           Start(o, first, n, text, new),
           first \in {"open", "create", "remove"},
           first = "remove" => messages = <<>>
    PROVE  Kept'
<1>1. /\ pc = "idle" /\ pc' = first /\ batch' = new /\ left' = new
      /\ messages' = messages /\ cache' = cache /\ acked' = acked /\ Archived' = Archived
  BY ArchivedSame DEF Start, file, ghosts
<1>2. QED
  BY <1>1, ElementsEmpty DEF Kept, MemoryHolds, DumpHolds, BatchHolds, AckedHeld

(* A step that ends or leaves an operation and changes neither the memory     *)
(* nor the files.                                                             *)
LEMMA LeaveKeep ==
    ASSUME Kept, pc # "down", pc' \in {"idle", "down"},
           pc' = "idle" => messages' = messages,
           cache' = cache, history' = history, acked' = acked
    PROVE  Kept'
  BY ArchivedSame DEF Kept, MemoryHolds, DumpHolds, BatchHolds, AckedHeld

LEMMA CreateKeep ==
    ASSUME TypeInv, Kept, CreateArchive, ~spoiled'
    PROVE  Kept'
<1>1. /\ pc = "create" /\ pc' = "dump" /\ dump' = SystemLine(system) \o messages
      /\ messages' = messages /\ cache' = cache /\ acked' = acked
  BY DEF CreateArchive, memory, file, ghosts
<1>2. history' = history
  BY DEF CreateArchive, TypeInv, TypeOK
<1>3. Elements(messages) \subseteq Elements(dump')
  BY <1>1, SystemLineType, ElementsConcat DEF TypeInv, TypeOK
<1>4. QED
  BY <1>1, <1>2, <1>3, ArchivedSame
     DEF Kept, MemoryHolds, DumpHolds, BatchHolds, AckedHeld

LEMMA DumpKeep ==
    ASSUME TypeInv, Kept, DumpLine
    PROVE  Kept'
<1>1. /\ pc = "dump" /\ messages' = messages /\ cache' = cache /\ acked' = acked
  BY DEF DumpLine, memory, file, ghosts
<1>2. CASE dump = <<>>
  <2>1. pc' = "remove" /\ history' = history
    BY <1>2 DEF DumpLine
  <2>2. QED
    BY <1>1, <1>2, <2>1, ArchivedSame, ElementsEmpty
       DEF Kept, MemoryHolds, DumpHolds, BatchHolds, AckedHeld
<1>3. CASE dump # <<>>
  <2>1. /\ pc' = "dump"
        /\ dump' = Tail(dump)
        /\ history' = [history EXCEPT ![dest] = @ \union {Head(dump)}]
    BY <1>1, <1>3 DEF DumpLine
  <2>2. Head(dump) \in Entries /\ Elements(dump) = {Head(dump)} \union Elements(dump')
    BY <1>3, <2>1, ElementsTail DEF TypeInv, TypeOK
  <2>3. /\ history \in [0..MaxNow -> SUBSET Entries] /\ dest \in 0..MaxNow
    BY DEF TypeInv, TypeOK
  <2>4. history'[dest] = history[dest] \union {Head(dump)}
    BY <2>1, <2>3
  <2>5. \A t \in 0..MaxNow : t # dest => history'[t] = history[t]
    BY <2>1, <2>3
  <2>6. Archived' = Archived \union {Head(dump)}
    <3>1. Archived \union {Head(dump)} \subseteq Archived'
      BY <2>3, <2>4, <2>5 DEF Archived
    <3>2. Archived' \subseteq Archived \union {Head(dump)}
      BY <2>3, <2>4, <2>5 DEF Archived
    <3>3. QED
      BY <3>1, <3>2
  <2>7. QED
    BY <1>1, <2>1, <2>2, <2>6
       DEF Kept, MemoryHolds, DumpHolds, BatchHolds, AckedHeld
<1>4. QED
  BY <1>2, <1>3

(* The archive is complete, so nothing acknowledged needs the cache any more. *)
LEMMA RemoveKeep ==
    ASSUME TypeInv, Kept, RemoveCache
    PROVE  Kept'
<1>1. /\ pc = "remove" /\ cache' = <<>> /\ acked' = acked /\ Archived' = Archived
  BY ArchivedSame DEF RemoveCache
<1>2. acked \subseteq Archived
  BY <1>1 DEF Kept, MemoryHolds, DumpHolds
<1>3. \/ pc' = "idle"
      \/ pc' = "open" /\ batch' = batch /\ left' = rest \o batch
  BY DEF RemoveCache
<1>4. Elements(batch) \subseteq Elements(rest \o batch)
  BY BodiesAreEntries, ElementsConcat DEF TypeInv, TypeOK
<1>5. QED
  BY <1>1, <1>2, <1>3, <1>4 DEF Kept, MemoryHolds, DumpHolds, BatchHolds, AckedHeld

LEMMA WriteKeep ==
    ASSUME TypeInv, Kept, WriteSystemLine \/ WriteLine
    PROVE  Kept'
<1>1. /\ pc' = "lines" /\ messages' = messages /\ acked' = acked /\ batch' = batch
      /\ Archived' = Archived
  BY ArchivedSame DEF WriteSystemLine, WriteLine, memory, ghosts, job
<1>2. CASE WriteSystemLine
  <2>1. /\ pc = "system" /\ left' = left /\ cache' = Append(cache, system) /\ system \in Entries
    BY <1>2 DEF WriteSystemLine, Write, job, TypeInv, TypeOK, TextAtHand, Entries
  <2>2. Elements(cache') = Elements(cache) \union {system}
    BY <2>1, ElementsAppend DEF TypeInv, TypeOK
  <2>3. QED
    BY <1>1, <2>1, <2>2 DEF Kept, MemoryHolds, DumpHolds, BatchHolds, AckedHeld
<1>3. CASE WriteLine
  <2>1. /\ pc = "lines" /\ left # <<>> /\ left' = Tail(left)
        /\ cache' = Append(cache, Head(left))
    BY <1>3 DEF WriteLine, Write
  <2>2. Head(left) \in Entries /\ Elements(left) = {Head(left)} \union Elements(left')
    BY <2>1, ElementsTail DEF TypeInv, TypeOK
  <2>3. Elements(cache') = Elements(cache) \union {Head(left)}
    BY <2>1, <2>2, ElementsAppend DEF TypeInv, TypeOK
  <2>4. QED
    BY <1>1, <2>1, <2>2, <2>3
       DEF Kept, MemoryHolds, DumpHolds, BatchHolds, AckedHeld
<1>4. QED
  BY <1>2, <1>3

LEMMA ReturnKeep ==
    ASSUME TypeInv, Kept, Return
    PROVE  Kept'
<1>1. /\ pc = "lines" /\ pc' = "idle" /\ left = <<>> /\ cache' = cache
      /\ messages' = messages \o batch /\ acked' = acked \union Elements(batch)
      /\ Archived' = Archived
  BY ArchivedSame DEF Return, file
<1>2. Elements(messages') = Elements(messages) \union Elements(batch)
  BY <1>1, BodiesAreEntries, ElementsConcat DEF TypeInv, TypeOK
<1>3. QED
  BY <1>1, <1>2, ElementsEmpty
     DEF Kept, MemoryHolds, DumpHolds, BatchHolds, AckedHeld

(* What recovery drops from the messages is a system text, never a message.   *)
LEMMA RecoverKeep ==
    ASSUME TypeInv, Kept, Recover, ~spoiled'
    PROVE  Kept'
<1>1. /\ pc = "down" /\ pc' = "idle" /\ cache' = cache /\ acked' = acked
      /\ Archived' = Archived /\ Readable = cache
      /\ messages' = IF StartsWithSystem(cache) THEN Tail(cache) ELSE cache
  BY ArchivedSame DEF Recover, file, Readable, TypeInv, LinesWhole
<1>2. Elements(cache) \intersect Bodies \subseteq Elements(messages')
  <2>1. CASE StartsWithSystem(cache)
    BY <1>1, <2>1, ElementsTail, ContextAssumption DEF StartsWithSystem, TypeInv, TypeOK
  <2>2. CASE ~StartsWithSystem(cache)
    BY <1>1, <2>2
  <2>3. QED
    BY <2>1, <2>2
<1>3. acked \subseteq Bodies
  BY DEF TypeInv, TypeOK
<1>4. QED
  BY <1>1, <1>2, <1>3 DEF Kept, MemoryHolds, DumpHolds, BatchHolds, AckedHeld

LEMMA KeepStep ==
    ASSUME TypeInv, KeepInv, "torn" \notin Faults, [Next]_vars
    PROVE  KeepInv'
<1> SUFFICES ASSUME ~spoiled' PROVE Kept'
  BY DEF KeepInv
<1>0. Kept
  <2>1. spoiled => spoiled'
    BY Zenon DEF Next, AppendMessages, Reset, SetSystem, ApplyPending, Revert, Start, CreateArchive, DumpLine,
       RemoveCache, OpenCache, WriteSystemLine, WriteLine, Return, Fail, Crash, CutLine, Recover, Tick,
       vars, ghosts
  <2>2. QED
    BY <2>1 DEF KeepInv
<1>1. ASSUME NEW new \in Batches, AppendMessages(new) PROVE Kept'
  <2>1. Start("append", "open", messages, system, new)
    BY <1>1 DEF AppendMessages
  <2>2. QED
    BY <1>0, <2>1, StartKeep
<1>2. ASSUME NEW new \in Batches, Reset(new) PROVE Kept'
  <2>1. Start("reset", ArchiveFirst, <<>>, system, new)
    BY <1>2 DEF Reset
  <2>2. QED
    BY <1>0, <2>1, StartKeep DEF ArchiveFirst
<1>3. ASSUME NEW text \in Texts, SetSystem(text) PROVE Kept'
  BY <1>0, <1>3, ArchivedSame
     DEF SetSystem, file, job, ghosts, Kept, MemoryHolds, DumpHolds, BatchHolds, AckedHeld
<1>4. CASE ApplyPending
  <2>1. CASE pending = system
    BY <1>0, <1>4, <2>1, ArchivedSame
       DEF ApplyPending, file, job, ghosts,
           Kept, MemoryHolds, DumpHolds, BatchHolds, AckedHeld
  <2>2. CASE pending # system
    <3>1. Start("apply", ArchiveFirst, messages, pending, <<>>)
      BY <1>4, <2>2 DEF ApplyPending
    <3>2. QED
      BY <1>0, <3>1, StartKeep DEF ArchiveFirst
  <2>3. QED
    BY <2>1, <2>2
<1>5. ASSUME NEW n \in 0..MaxContext, Revert(n) PROVE Kept'
  <2>1. Start("revert", "create", SubSeq(messages, 1, n), system, <<>>)
    BY <1>5 DEF Revert
  <2>2. QED
    BY <1>0, <2>1, StartKeep
<1>6. CASE CreateArchive
  BY <1>0, <1>6, CreateKeep
<1>7. CASE DumpLine
  BY <1>0, <1>7, DumpKeep
<1>8. CASE RemoveCache
  BY <1>0, <1>8, RemoveKeep
<1>9. CASE OpenCache
  BY <1>0, <1>9, ArchivedSame
     DEF OpenCache, memory, job, ghosts, Kept, MemoryHolds, DumpHolds, BatchHolds, AckedHeld
<1>10. CASE WriteSystemLine \/ WriteLine
  BY <1>0, <1>10, WriteKeep
<1>11. CASE Return
  BY <1>0, <1>11, ReturnKeep
<1>12. CASE Fail
  <2>1. pc # "down" /\ pc' = "idle" /\ messages' = messages /\ cache' = cache
        /\ history' = history /\ acked' = acked
    BY <1>12 DEF Fail, memory, file
  <2>2. QED
    BY <1>0, <2>1, LeaveKeep
<1>13. CASE Crash
  <2>1. pc # "down" /\ pc' = "down" /\ cache' = cache /\ history' = history /\ acked' = acked
    BY <1>13 DEF Crash, Forget, file, ghosts
  <2>2. QED
    BY <1>0, <2>1, LeaveKeep
<1>14. CASE CutLine
  BY <1>14 DEF CutLine
<1>15. CASE Recover
  BY <1>0, <1>15, RecoverKeep
<1>16. CASE Tick
  BY <1>0, <1>16, ArchivedSame
     DEF Tick, memory, file, job, ghosts,
         Kept, MemoryHolds, DumpHolds, BatchHolds, AckedHeld
<1>17. CASE UNCHANGED vars
  BY <1>0, <1>17, ArchivedSame
     DEF vars, memory, file, job, ghosts,
         Kept, MemoryHolds, DumpHolds, BatchHolds, AckedHeld
<1>18. QED
  BY <1>1, <1>2, <1>3, <1>4, <1>5, <1>6, <1>7, <1>8, <1>9, <1>10, <1>11, <1>12, <1>13,
     <1>14, <1>15, <1>16, <1>17 DEF Next

(* Without torn lines every variable keeps its type, and a file its lines,    *)
(* whatever else fails.                                                       *)
THEOREM ContextTypes ==
    ASSUME "torn" \notin Faults
    PROVE  Spec => []TypeOK
<1>1. TypeInv /\ [Next]_vars => TypeInv'
  BY TypeStep
<1>2. TypeInv => TypeOK
  BY DEF TypeInv
<1>3. QED
  BY InitTypeInv, <1>1, <1>2, PTL DEF Spec

(* A message whose append succeeded stays in the cache or in the history,     *)
(* across crashes and I/O errors at every step of every operation, unless two *)
(* archives meet in one second or the cache could not be read.                *)
THEOREM NothingIsLost ==
    ASSUME "torn" \notin Faults
    PROVE  Spec => []NoContextLost
<1>1. TypeInv /\ [Next]_vars => TypeInv'
  BY TypeStep
<1>2. TypeInv /\ KeepInv /\ [Next]_vars => KeepInv'
  BY KeepStep
<1>3. KeepInv => NoContextLost
  BY DEF KeepInv, Kept, AckedHeld, NoContextLost
<1>4. QED
  BY InitTypeInv, InitKeepInv, <1>1, <1>2, <1>3, PTL DEF Spec

-------------------------------------------------------------------------------
(* The cache mirrors the memory.                                              *)

Mirror == IF exists THEN cache = SystemLine(system) \o messages ELSE messages = <<>>

(* How far the file has come at each step of an operation, as long as no      *)
(* write to it has failed.                                                    *)
CacheFollows ==
    /\ pc \in {"idle", "create", "dump", "remove"} => Mirror
    /\ pc = "open" =>
          IF exists
          THEN left = batch /\ cache = SystemLine(system) \o messages
          ELSE left = messages \o batch
    /\ pc = "system" => cache = <<>> /\ left = messages \o batch
    /\ pc = "lines" => cache \o left = SystemLine(system) \o (messages \o batch)

MirrorInv ==
    /\ ~exists => cache = <<>>
    /\ pc \in {"system", "lines"} => exists
    /\ pc = "down" => messages = <<>>
    /\ pc # "down" /\ ~behind => CacheFollows

LEMMA InitMirrorInv == Init => MirrorInv
  BY DEF Init, MirrorInv, CacheFollows, Mirror

LEMMA StartMirror ==
    ASSUME TypeInv, MirrorInv, NEW o, NEW first, NEW n, NEW text, NEW new \in Seq(Bodies),
           Start(o, first, n, text, new),
           first \in {"open", "create", "remove"}
    PROVE  MirrorInv'
<1>1. /\ pc = "idle" /\ pc' = first /\ batch' = new /\ left' = new
      /\ messages' = messages /\ system' = system
      /\ cache' = cache /\ exists' = exists /\ behind' = behind
  BY DEF Start, file, ghosts
<1>2. <<>> \o new = new
  OBVIOUS
<1>3. QED
  BY <1>1, <1>2 DEF MirrorInv, CacheFollows, Mirror

LEMMA RemoveMirror ==
    ASSUME TypeInv, MirrorInv, RemoveCache
    PROVE  MirrorInv'
<1>1. /\ exists' = FALSE /\ cache' = <<>> /\ messages' = rest
  BY DEF RemoveCache
<1>2. CASE rest \o batch = <<>> /\ op # "revert"
  <2>1. pc' = "idle"
    BY <1>2 DEF RemoveCache
  <2>2. rest = <<>>
    BY <1>2 DEF TypeInv, TypeOK
  <2>3. QED
    BY <1>1, <2>1, <2>2 DEF MirrorInv, CacheFollows, Mirror
<1>3. CASE ~(rest \o batch = <<>> /\ op # "revert")
  <2>1. pc' = "open" /\ left' = rest \o batch /\ batch' = batch
    BY <1>3 DEF RemoveCache
  <2>2. QED
    BY <1>1, <2>1 DEF MirrorInv, CacheFollows, Mirror
<1>4. QED
  BY <1>2, <1>3

LEMMA OpenMirror ==
    ASSUME TypeInv, MirrorInv, OpenCache
    PROVE  MirrorInv'
<1>1. /\ pc = "open" /\ exists' = TRUE /\ pc' \in {"lines", "system"}
      /\ pc' = "lines" <=> (exists \/ system = NoText)
      /\ messages' = messages /\ system' = system /\ cache' = cache
      /\ left' = left /\ batch' = batch /\ behind' = behind
  BY DEF OpenCache, memory, job, ghosts
<1>2. CASE exists
  <2>1. SystemLine(system) \in Seq(Entries) /\ messages \in Seq(Entries) /\ batch \in Seq(Entries)
    BY SystemLineType, BodiesAreEntries DEF TypeInv, TypeOK
  <2>2. (SystemLine(system) \o messages) \o batch = SystemLine(system) \o (messages \o batch)
    BY <2>1, ConcatGroups
  <2>3. QED
    BY <1>1, <1>2, <2>2 DEF MirrorInv, CacheFollows, Mirror
<1>3. CASE ~exists
  <2>1. left \in Seq(Entries) /\ messages \o batch \in Seq(Entries)
    BY BodiesAreEntries DEF TypeInv, TypeOK
  <2>2. <<>> \o left = left /\ <<>> \o (messages \o batch) = messages \o batch
    BY <2>1
  <2>3. QED
    BY <1>1, <1>3, <2>2 DEF MirrorInv, CacheFollows, Mirror, SystemLine
<1>4. QED
  BY <1>2, <1>3

LEMMA WriteMirror ==
    ASSUME TypeInv, MirrorInv, WriteSystemLine \/ WriteLine
    PROVE  MirrorInv'
<1>1. /\ pc' = "lines" /\ messages' = messages /\ system' = system /\ batch' = batch
      /\ exists' = exists /\ behind' = behind
  BY DEF WriteSystemLine, WriteLine, Write, memory, ghosts, job
<1>2. exists /\ pc # "down"
  BY DEF WriteSystemLine, WriteLine, MirrorInv
<1>3. CASE behind
  BY <1>1, <1>2, <1>3 DEF MirrorInv
<1>4. CASE ~behind /\ WriteSystemLine
  <2>1. /\ cache = <<>> /\ left = messages \o batch /\ left' = left
        /\ cache' = Append(cache, system) /\ system # NoText
    BY <1>2, <1>4
       DEF WriteSystemLine, Write, job, MirrorInv, CacheFollows, TypeInv, TextAtHand
  <2>2. system \in Entries
    BY <2>1 DEF TypeInv, TypeOK, Entries
  <2>3. cache' = <<system>>
    BY <2>1, <2>2
  <2>4. QED
    BY <1>1, <1>2, <2>1, <2>3 DEF MirrorInv, CacheFollows, SystemLine
<1>5. CASE ~behind /\ WriteLine
  <2>1. /\ left # <<>> /\ left' = Tail(left) /\ cache' = Append(cache, Head(left))
        /\ cache \o left = SystemLine(system) \o (messages \o batch)
    BY <1>2, <1>5 DEF WriteLine, Write, MirrorInv, CacheFollows
  <2>2. cache' \o left' = cache \o left
    BY <2>1, MoveHead DEF TypeInv, TypeOK
  <2>3. QED
    BY <1>1, <1>2, <2>1, <2>2 DEF MirrorInv, CacheFollows
<1>6. QED
  BY <1>3, <1>4, <1>5

LEMMA ReturnMirror ==
    ASSUME TypeInv, MirrorInv, Return
    PROVE  MirrorInv'
<1>1. /\ pc = "lines" /\ pc' = "idle" /\ left = <<>> /\ cache' = cache /\ exists' = exists
      /\ messages' = messages \o batch /\ system' = system /\ behind' = behind
  BY DEF Return, file
<1>2. cache \o <<>> = cache
  BY EmptyConcat DEF TypeInv, TypeOK
<1>3. QED
  BY <1>1, <1>2 DEF MirrorInv, CacheFollows, Mirror

LEMMA RecoverMirror ==
    ASSUME TypeInv, MirrorInv, Recover
    PROVE  MirrorInv'
<1>1. /\ pc = "down" /\ pc' = "idle" /\ cache' = cache /\ exists' = exists
      /\ Readable = cache /\ messages = <<>>
      /\ ~exists => cache = <<>>
  BY DEF Recover, file, Readable, TypeInv, LinesWhole, MirrorInv
<1>2. ~behind' => Mirror'
  <2>1. CASE exists
    <3>1. CASE StartsWithSystem(cache)
      <4>1. Head(cache) # NoText /\ <<Head(cache)>> \o Tail(cache) = cache
        BY <3>1, SplitHead, ContextAssumption DEF StartsWithSystem, TypeInv, TypeOK
      <4>2. QED
        BY <1>1, <2>1, <3>1, <4>1 DEF Recover, Mirror, SystemLine
    <3>2. CASE ~StartsWithSystem(cache)
      <4>1. <<>> \o cache = cache
        BY EmptyConcat DEF TypeInv, TypeOK
      <4>2. QED
        BY <1>1, <2>1, <3>2, <4>1 DEF Recover, Mirror, SystemLine
    <3>3. QED
      BY <3>1, <3>2
  <2>2. CASE ~exists
    BY <1>1, <2>2 DEF Recover, Mirror, StartsWithSystem
  <2>3. QED
    BY <2>1, <2>2
<1>3. QED
  BY <1>1, <1>2 DEF MirrorInv, CacheFollows

(* A failed write marks the file, any other error leaves it as it was.        *)
LEMMA FailMirror ==
    ASSUME TypeInv, MirrorInv, Fail
    PROVE  MirrorInv'
<1>1. /\ pc' = "idle" /\ messages' = messages /\ system' = system
      /\ cache' = cache /\ exists' = exists
  BY DEF Fail, memory, file
<1>2. ~behind' => ~behind /\ pc \in {"create", "dump", "remove"}
  BY DEF Fail
<1>3. QED
  BY <1>1, <1>2 DEF MirrorInv, CacheFollows, Mirror

LEMMA MirrorStep ==
    ASSUME TypeInv, MirrorInv, "torn" \notin Faults, [Next]_vars
    PROVE  MirrorInv'
<1>1. ASSUME NEW new \in Batches, AppendMessages(new) PROVE MirrorInv'
  <2>1. new \in Seq(Bodies) /\ Start("append", "open", messages, system, new)
    BY <1>1, BatchType DEF AppendMessages
  <2>2. QED
    BY <2>1, StartMirror
<1>2. ASSUME NEW new \in Batches, Reset(new) PROVE MirrorInv'
  <2>1. new \in Seq(Bodies) /\ Start("reset", ArchiveFirst, <<>>, system, new)
    BY <1>2, BatchType DEF Reset
  <2>2. QED
    BY <2>1, StartMirror DEF ArchiveFirst
<1>3. ASSUME NEW text \in Texts, SetSystem(text) PROVE MirrorInv'
  BY <1>3 DEF SetSystem, file, job, ghosts, MirrorInv, CacheFollows, Mirror
<1>4. CASE ApplyPending
  <2>1. CASE pending = system
    BY <1>4, <2>1 DEF ApplyPending, file, job, ghosts, MirrorInv, CacheFollows, Mirror
  <2>2. CASE pending # system
    <3>1. <<>> \in Seq(Bodies) /\ Start("apply", ArchiveFirst, messages, pending, <<>>)
      BY <1>4, <2>2 DEF ApplyPending
    <3>2. QED
      BY <3>1, StartMirror DEF ArchiveFirst
  <2>3. QED
    BY <2>1, <2>2
<1>5. ASSUME NEW n \in 0..MaxContext, Revert(n) PROVE MirrorInv'
  <2>1. <<>> \in Seq(Bodies) /\ Start("revert", "create", SubSeq(messages, 1, n), system, <<>>)
    BY <1>5 DEF Revert
  <2>2. QED
    BY <2>1, StartMirror
<1>6. CASE CreateArchive
  BY <1>6 DEF CreateArchive, memory, file, ghosts, MirrorInv, CacheFollows, Mirror
<1>7. CASE DumpLine
  BY <1>7 DEF DumpLine, memory, file, ghosts, MirrorInv, CacheFollows, Mirror
<1>8. CASE RemoveCache
  BY <1>8, RemoveMirror
<1>9. CASE OpenCache
  BY <1>9, OpenMirror
<1>10. CASE WriteSystemLine \/ WriteLine
  BY <1>10, WriteMirror
<1>11. CASE Return
  BY <1>11, ReturnMirror
<1>12. CASE Fail
  BY <1>12, FailMirror
<1>13. CASE Crash
  BY <1>13 DEF Crash, Forget, file, ghosts, MirrorInv, CacheFollows
<1>14. CASE CutLine
  BY <1>14 DEF CutLine
<1>15. CASE Recover
  BY <1>15, RecoverMirror
<1>16. CASE Tick
  BY <1>16 DEF Tick, memory, file, job, ghosts, MirrorInv, CacheFollows, Mirror
<1>17. CASE UNCHANGED vars
  BY <1>17 DEF vars, memory, file, job, ghosts, MirrorInv, CacheFollows, Mirror
<1>18. QED
  BY <1>1, <1>2, <1>3, <1>4, <1>5, <1>6, <1>7, <1>8, <1>9, <1>10, <1>11, <1>12, <1>13,
     <1>14, <1>15, <1>16, <1>17 DEF Next

(* Between operations the cache file holds exactly the context the model is   *)
(* sent, unless a write to this file failed: a restart restores it.           *)
THEOREM CacheIsTheContext ==
    ASSUME "torn" \notin Faults
    PROVE  Spec => []CacheMirrorsMemory
<1>1. TypeInv /\ [Next]_vars => TypeInv'
  BY TypeStep
<1>2. TypeInv /\ MirrorInv /\ [Next]_vars => MirrorInv'
  BY MirrorStep
<1>3. TypeInv /\ MirrorInv => CacheMirrorsMemory
  <2>1. TypeInv => Readable = cache
    BY DEF TypeInv, LinesWhole, Readable
  <2>2. QED
    BY <2>1 DEF MirrorInv, CacheFollows, Mirror, CacheMirrorsMemory
<1>4. QED
  BY InitTypeInv, InitMirrorInv, <1>1, <1>2, <1>3, PTL DEF Spec
================================================================================
