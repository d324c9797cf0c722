------------------------------- MODULE EchoFilter -------------------------------
(* What an agent says on a channel comes back to it as an event of the channel, *)
(* like the words of everybody else; the channel manager filters it out by its  *)
(* id (kissbot-agent channel_manager.rs).  The rest goes to Nexus, is pushed to *)
(* the memory store and answered (nexus.rs, memory_store_client.rs).  The       *)
(* channel stores a message before it sends it on (kissbot-channel-web).        *)
EXTENDS Naturals

CONSTANTS
    Replies,       \* what the agent may say
    Others,         \* what others say
    Identities,    \* the users the agent is bound to, all in one group
    Speaker,       \* the one it replies as
    MaxFaults    \* bound on lost connections and late answers

Messages == Replies \cup Others

ASSUME EchoAssumption ==
    /\ Replies \cap Others = {}
    /\ Speaker \in Identities /\ "self" \notin Identities
    /\ MaxFaults \in Nat

VARIABLES
    kind,          \* of each post: words, a command of an administrator, or a notice
    stage,         \* each message at the channel
    task,          \* each reply at the agent
    answers,       \* what a reply answers
    boundAs,       \* identities bound to the connection there is
    events,        \* <<message, identity>> on their way to the agent
    pending, old,  \* ids waiting for their echo; those that have for 60 s
    toAnswer,         \* <<message, identity>> to be answered
    memory,        \* records handed to the client of the memory store, which
                   \* pushes them in batches and drops those it cannot push
    faults,
    \* ghosts
    heard,         \* messages handed to Nexus
    early,         \* replies whose echo overtook the answer with their id
    expired,       \* replies whose id was evicted before the echo came
    unheard,       \* replies whose answer did not come
    copied         \* replies of which an echo was filtered out

ghosts == <<heard, early, expired, unheard, copied>>
echoVars == <<kind, stage, task, answers, boundAs, events, pending, old, toAnswer, memory,
          faults, ghosts>>

Nothing == <<>>
MayFail == faults < MaxFaults /\ faults' = faults + 1

Is(m, k) == m \in Others /\ kind[m] = k

EchoInit ==
    /\ kind \in [Others -> {"words", "command", "notice"}]
    /\ stage = [m \in Messages |-> "none"] /\ task = [m \in Replies |-> "idle"]
    /\ answers = [m \in Replies |-> Nothing]
    /\ boundAs = Identities /\ events = {} /\ pending = {} /\ old = {} /\ toAnswer = {}
    /\ memory = {} /\ faults = 0
    /\ heard = {}
    /\ early = {} /\ expired = {} /\ unheard = {} /\ copied = {}

--------------------------------------------------------------------------------
(* The channel.                                                                 *)

Post(m) ==
    /\ m \in Others /\ stage[m] = "none"
    /\ stage' = [stage EXCEPT ![m] = "stored"]
    /\ UNCHANGED <<kind, task, answers, boundAs, events, pending, old, toAnswer, memory, faults, ghosts>>

\* A command is answered as the identity that heard it.
SpeakerOf(m) == IF Is(answers[m][1], "command") THEN answers[m][2] ELSE Speaker

\* The handler of a message from the agent: stored first, answered then.
Accept(m) ==
    /\ stage[m] = "asked"
    /\ LET taken == SpeakerOf(m) \in boundAs IN
         /\ stage' = [stage EXCEPT ![m] = IF taken THEN "stored" ELSE "refused"]
         /\ task' = IF task[m] # "waiting" THEN task
                    ELSE [task EXCEPT ![m] = IF taken THEN "answered" ELSE "failed"]
    /\ UNCHANGED <<kind, answers, boundAs, events, pending, old, toAnswer, memory, faults, ghosts>>

\* A stored message goes to all members of the group, the sender among them,
\* once for each.
SendOn(m) ==
    /\ stage[m] = "stored"
    /\ stage' = [stage EXCEPT ![m] = "pushed"]
    /\ events' = events \cup ({m} \X boundAs)
    /\ UNCHANGED <<kind, task, answers, boundAs, pending, old, toAnswer, memory, faults, ghosts>>

\* The connection breaks: what is on its way in either direction is lost.
LoseLink ==
    /\ boundAs # {} /\ MayFail
    /\ boundAs' = {} /\ events' = {}
    /\ \E kept \in SUBSET {m \in Replies : stage[m] = "asked"} :
         stage' = [m \in Messages |-> IF stage[m] # "asked" THEN stage[m]
                                      ELSE IF m \in kept THEN "stored" ELSE "refused"]
    /\ LET open == {m \in Replies : task[m] \in {"waiting", "answered"}} IN
         /\ task' = [m \in Replies |-> IF m \in open THEN "failed" ELSE task[m]]
         /\ unheard' = unheard \cup open
    /\ UNCHANGED <<kind, answers, pending, old, toAnswer, memory, heard, early, expired, copied>>

\* connect_channel: the next connection binds the identities one by one.
BindAs(i) ==
    /\ boundAs' = boundAs \cup {i} /\ i \notin boundAs
    /\ UNCHANGED <<kind, stage, task, answers, events, pending, old, toAnswer, memory, faults, ghosts>>

--------------------------------------------------------------------------------
(* The agent speaks: send_outgoing and send_admin_reply, ChannelManager::send.  *)

Speak(m, e) ==
    /\ task[m] = "idle" /\ e \in toAnswer
    /\ toAnswer' = toAnswer \ {e}
    /\ answers' = [answers EXCEPT ![m] = e]
    /\ task' = [task EXCEPT ![m] = IF boundAs = {} THEN "failed" ELSE "waiting"]
    /\ stage' = [stage EXCEPT ![m] = IF boundAs = {} THEN "refused" ELSE "asked"]
    /\ UNCHANGED <<kind, boundAs, events, pending, old, memory, faults, ghosts>>

\* The answer takes more than 30 s.
TimeOut(m) ==
    /\ task[m] \in {"waiting", "answered"} /\ MayFail
    /\ task' = [task EXCEPT ![m] = "failed"]
    /\ unheard' = unheard \cup {m}
    /\ UNCHANGED <<kind, stage, answers, boundAs, events, pending, old, toAnswer, memory,
                   heard, early, expired, copied>>

\* Ids are evicted after 60 s.  Mutant: all that wait are.
EvictAll == {}
Kept == pending \ old

\* The answer has come: its id is registered, after those that are too old have gone.
Register(m) ==
    /\ task[m] = "answered"
    /\ task' = [task EXCEPT ![m] = "registered"]
    /\ pending' = Kept \cup {m} /\ old' = {} /\ expired' = expired \cup old
    /\ UNCHANGED <<kind, stage, answers, boundAs, events, toAnswer, memory, faults,
                   heard, early, unheard, copied>>

\* What was said in a conversation is remembered; the answer to a command is not.
Remember(m) ==
    /\ task[m] = "registered"
    /\ task' = [task EXCEPT ![m] = "done"]
    /\ memory' = IF Is(answers[m][1], "command") THEN memory ELSE memory \cup {<<m, "self">>}
    /\ UNCHANGED <<kind, stage, answers, boundAs, events, pending, old, toAnswer, faults, ghosts>>

\* 60 s pass.
Age(m) ==
    /\ m \in pending \ old
    /\ old' = old \cup {m}
    /\ UNCHANGED <<kind, stage, task, answers, boundAs, events, pending, toAnswer, memory, faults, ghosts>>

--------------------------------------------------------------------------------
(* The agent hears: ChannelManager::incoming_message, Nexus::incoming_message.  *)

\* consume_pending finds the id, which is forgotten by that.
FilterOut(m, i) ==
    /\ <<m, i>> \in events /\ m \in pending
    /\ events' = events \ {<<m, i>>}
    /\ pending' = pending \ {m} /\ old' = old \ {m} /\ copied' = copied \cup {m}
    /\ UNCHANGED <<kind, stage, task, answers, boundAs, toAnswer, memory, faults,
                   heard, early, expired, unheard>>

\* It does not; those that are too old are evicted.  A command is executed and
\* answered; anything else is remembered, and answered unless it is a notice.
Hear(m, i) ==
    /\ <<m, i>> \in events /\ m \notin pending
    /\ events' = events \ {<<m, i>>}
    /\ pending' = Kept /\ old' = {} /\ expired' = expired \cup old
    /\ heard' = heard \cup {m}
    /\ early' = IF m \in Replies /\ task[m] \in {"waiting", "answered"} THEN early \cup {m} ELSE early
    /\ toAnswer' = IF Is(m, "notice") THEN toAnswer ELSE toAnswer \cup {<<m, i>>}
    /\ memory' = IF Is(m, "command") THEN memory ELSE memory \cup {<<m, i>>}
    /\ UNCHANGED <<kind, stage, task, answers, boundAs, faults, unheard, copied>>

EchoNext ==
    \/ \E m \in Messages : Post(m) \/ SendOn(m)
    \/ \E m \in Replies : \/ Accept(m) \/ TimeOut(m) \/ Register(m) \/ Remember(m) \/ Age(m)
                          \/ \E e \in toAnswer : Speak(m, e)
    \/ \E m \in Messages, i \in Identities : FilterOut(m, i) \/ Hear(m, i)
    \/ \E i \in Identities : BindAs(i)
    \/ LoseLink

EchoSpec == EchoInit /\ [][EchoNext]_echoVars

--------------------------------------------------------------------------------
\* Nexus does not hear, remember or answer what the agent said itself, but for an
\* echo that overtakes the answer with its id, comes after that was evicted or
\* when it never came, or comes again for another identity in the group
\* (channel_manager.rs:357-373).  The agent remembers as its own what it said in
\* a conversation if the channel has it, and only then, unless the answer of the
\* channel did not come (nexus.rs:313-330).
OwnWordsKeptOut == \A m \in Replies :
    /\ \/ m \in heard
       \/ \E i \in Identities : <<m, i>> \in memory
       \/ \E r \in Replies : answers[r] # Nothing /\ answers[r][1] = m
       => m \in early \cup expired \cup unheard \cup copied
    /\ <<m, "self">> \in memory => stage[m] \in {"stored", "pushed"}
    /\ stage[m] \in {"stored", "pushed"} /\ task[m] \in {"done", "failed"} =>
          m \in unheard \/ Is(answers[m][1], "command") \/ <<m, "self">> \in memory
================================================================================
