------------------------------ MODULE BatchQueue -------------------------------
(***************************************************************************)
(* The batching queue between the channels and the agentic loop of one     *)
(* session (kissbot-agent, pipelines/channel_batch_processor.rs).          *)
(*                                                                         *)
(* Every message is sent by a task of its own.  The task pushes the        *)
(* message, raises a shared atomic deadline by compare-and-swap, and       *)
(* pushes a trigger that will expire at the instant it computed.  One      *)
(* consumer task moves triggers into a delay queue and, when one expires   *)
(* and the deadline has passed, clears the deadline, drains the message    *)
(* queue and runs the agentic loop on the batch before it looks at the     *)
(* queues again.                                                           *)
(*                                                                         *)
(* Atomics are sequentially consistent here; BatchQueueRelaxed adds what   *)
(* Ordering::Relaxed lets a build do.  A trigger is named by the message   *)
(* whose task pushed it.  Time is in milliseconds since `anchor`.          *)
(***************************************************************************)
EXTENDS Naturals, Sequences

CONSTANTS
    Messages,     (* the messages of the session, each sent once by its own task *)
    Interval,     (* Interval[m]: the batch interval of the channel m came from   *)
    NoMessage,    (* stands for "no trigger in hand"                              *)
    SendHorizon,  (* bound: sends in progress let no time pass beyond this        *)
    MaxNow        (* bound: the last instant of the model                         *)

ASSUME BatchAssumption ==
    /\ Interval \in [Messages -> Nat]
    /\ NoMessage \notin Messages
    /\ SendHorizon \in Nat
    /\ MaxNow \in Nat

VARIABLES
    now,          (* the monotonic clock                                          *)
    rx,           (* messages pushed and not drained (tx/rx)                      *)
    deadline,     (* the shared AtomicU64; 0 is the sentinel "nothing to flush"   *)
    triggers,     (* triggers pushed and not received (trigger_tx/trigger_rx)     *)
    delay,        (* triggers in the consumer's DelayQueue                        *)
    pc,           (* pc[m]: where the task sending m is                           *)
    at,           (* at[m]: the instant the task computed                         *)
    seen,         (* seen[m]: the deadline the task last read (`cur`)             *)
    cpc,          (* where the consumer is                                        *)
    expired,      (* the trigger whose expiry the consumer is handling            *)
    loaded,       (* the deadline the consumer read for it                        *)
    items,        (* the batch being drained                                      *)
    inLoop,       (* the batch the agentic loop runs on, <<>> when none           *)
    processed     (* the batches processed so far                                 *)

sendVars == <<pc, at, seen>>
consumerVars == <<cpc, expired, loaded, items>>
loopVars == <<inLoop, processed>>
vars == <<now, rx, deadline, triggers, delay, sendVars, consumerVars, loopVars>>

SendSteps == {"idle", "pushed", "casing", "trigger", "sent"}
ConsumerSteps == {"select", "judge", "clear", "drain", "busy"}

(* Mutant: the sentinel is not avoided.                                        *)
ClampIdentity(t) == t

(* A deadline of 0 would read as the sentinel, so the code clamps it to 1.  *)
Clamp(t) == IF t = 0 THEN 1 ELSE t

SendInProgress == \E m \in Messages : pc[m] \in {"pushed", "casing", "trigger"}

Init ==
    /\ now = 0
    /\ rx = <<>>
    /\ deadline = 0
    /\ triggers = <<>>
    /\ delay = {}
    /\ pc = [m \in Messages |-> "idle"]
    /\ at = [m \in Messages |-> 0]
    /\ seen = [m \in Messages |-> 0]
    /\ cpc = "select"
    /\ expired = NoMessage
    /\ loaded = 0
    /\ items = <<>>
    /\ inLoop = <<>>
    /\ processed = <<>>

-------------------------------------------------------------------------------
(* BatchProducer::send, one call per message                                  *)

(* The bound SendHorizon only keeps the model finite.                         *)
Push(m) ==
    /\ pc[m] = "idle"
    /\ now <= SendHorizon
    /\ rx' = Append(rx, m)
    /\ pc' = [pc EXCEPT ![m] = "pushed"]
    /\ UNCHANGED <<now, deadline, triggers, delay, at, seen, consumerVars, loopVars>>

(* The instant is computed first, then the deadline is read.                  *)
Stamp(m) ==
    /\ pc[m] = "pushed"
    /\ at' = [at EXCEPT ![m] = now + Interval[m]]
    /\ seen' = [seen EXCEPT ![m] = deadline]
    /\ pc' = [pc EXCEPT ![m] = "casing"]
    /\ UNCHANGED <<now, rx, deadline, triggers, delay, consumerVars, loopVars>>

LaterDeadlineSet(m) == seen[m] # 0 /\ Clamp(at[m]) <= seen[m]

(* Mutant: the deadline is stored, not raised.                                *)
RaiseByStore(m) ==
    /\ pc[m] = "casing"
    /\ deadline' = Clamp(at[m])
    /\ pc' = [pc EXCEPT ![m] = "trigger"]
    /\ UNCHANGED <<now, rx, triggers, delay, at, seen, consumerVars, loopVars>>

(* One turn of the compare-and-swap loop: keep a later deadline, raise the    *)
(* one that was read, or read again when another task was faster.             *)
Raise(m) ==
    /\ pc[m] = "casing"
    /\ \/ /\ LaterDeadlineSet(m)
          /\ pc' = [pc EXCEPT ![m] = "trigger"]
          /\ UNCHANGED <<deadline, seen>>
       \/ /\ ~LaterDeadlineSet(m)
          /\ deadline = seen[m]
          /\ deadline' = Clamp(at[m])
          /\ pc' = [pc EXCEPT ![m] = "trigger"]
          /\ UNCHANGED seen
       \/ /\ ~LaterDeadlineSet(m)
          /\ deadline # seen[m]
          /\ seen' = [seen EXCEPT ![m] = deadline]
          /\ UNCHANGED <<pc, deadline>>
    /\ UNCHANGED <<now, rx, triggers, delay, at, consumerVars, loopVars>>

PushTrigger(m) ==
    /\ pc[m] = "trigger"
    /\ triggers' = Append(triggers, m)
    /\ pc' = [pc EXCEPT ![m] = "sent"]
    /\ UNCHANGED <<now, rx, deadline, delay, at, seen, consumerVars, loopVars>>

-------------------------------------------------------------------------------
(* BatchConsumer::run                                                         *)

(* The trigger branch of the select: the trigger moves to the delay queue.    *)
ReceiveTrigger ==
    /\ cpc = "select"
    /\ triggers # <<>>
    /\ delay' = delay \union {Head(triggers)}
    /\ triggers' = Tail(triggers)
    /\ UNCHANGED <<now, rx, deadline, sendVars, consumerVars, loopVars>>

(* The delay queue rounds up to whole milliseconds of its own clock, which    *)
(* starts after `anchor`: no trigger expires within the first millisecond.    *)
Due(m) == now >= Clamp(at[m])

(* The delay branch of the select: a trigger expires, the deadline is read.   *)
Expire(m) ==
    /\ cpc = "select"
    /\ m \in delay
    /\ Due(m)
    /\ delay' = delay \ {m}
    /\ expired' = m
    /\ loaded' = deadline
    /\ cpc' = "judge"
    /\ UNCHANGED <<now, rx, deadline, triggers, sendVars, items, loopVars>>

(* Mutant: a deadline that passes right now counts as not passed.             *)
JudgeOffByOne ==
    /\ cpc = "judge"
    /\ cpc' = IF loaded = 0 \/ now <= loaded THEN "select" ELSE "clear"
    /\ expired' = NoMessage
    /\ UNCHANGED <<now, rx, deadline, triggers, delay, sendVars, loaded, items, loopVars>>

(* The clock is read after the deadline; nothing to flush, or too early, goes *)
(* back to the select.                                                        *)
Judge ==
    /\ cpc = "judge"
    /\ cpc' = IF loaded = 0 \/ now < loaded THEN "select" ELSE "clear"
    /\ expired' = NoMessage
    /\ UNCHANGED <<now, rx, deadline, triggers, delay, sendVars, loaded, items, loopVars>>

Clear ==
    /\ cpc = "clear"
    /\ deadline' = 0
    /\ cpc' = "drain"
    /\ UNCHANGED <<now, rx, triggers, delay, sendVars, expired, loaded, items, loopVars>>

(* try_recv until it reports an empty queue                                   *)
DrainOne ==
    /\ cpc = "drain"
    /\ rx # <<>>
    /\ items' = Append(items, Head(rx))
    /\ rx' = Tail(rx)
    /\ UNCHANGED <<now, deadline, triggers, delay, sendVars, cpc, expired, loaded, loopVars>>

(* Mutant: one try_recv instead of a loop.                                    *)
DrainEndAtOnce ==
    /\ cpc = "drain"
    /\ rx = <<>> \/ items # <<>>
    /\ cpc' = IF items = <<>> THEN "select" ELSE "busy"
    /\ inLoop' = items
    /\ items' = <<>>
    /\ UNCHANGED <<now, rx, deadline, triggers, delay, sendVars, expired, loaded, processed>>

(* Mutant: an empty batch is run too.                                         *)
DrainEndRunsEmpty ==
    /\ cpc = "drain"
    /\ rx = <<>>
    /\ cpc' = "busy"
    /\ inLoop' = items
    /\ items' = <<>>
    /\ UNCHANGED <<now, rx, deadline, triggers, delay, sendVars, expired, loaded, processed>>

(* The queue is empty: a non-empty batch goes to the agentic loop.            *)
DrainEnd ==
    /\ cpc = "drain"
    /\ rx = <<>>
    /\ cpc' = IF items = <<>> THEN "select" ELSE "busy"
    /\ inLoop' = items
    /\ items' = <<>>
    /\ UNCHANGED <<now, rx, deadline, triggers, delay, sendVars, expired, loaded, processed>>

(* incoming_message_batch(items).await returns.                               *)
LoopReturns ==
    /\ cpc = "busy"
    /\ cpc' = "select"
    /\ processed' = Append(processed, inLoop)
    /\ inLoop' = <<>>
    /\ UNCHANGED <<now, rx, deadline, triggers, delay, sendVars, expired, loaded, items>>

-------------------------------------------------------------------------------
(* Time passes.  The bounds only keep the model finite: SendHorizon lets      *)
(* every send finish its computation early enough for MaxNow.                 *)
Tick ==
    /\ now < MaxNow
    /\ SendInProgress => now < SendHorizon
    /\ now' = now + 1
    /\ UNCHANGED <<rx, deadline, triggers, delay, sendVars, consumerVars, loopVars>>

Next ==
    \/ \E m \in Messages : Push(m) \/ Stamp(m) \/ Raise(m) \/ PushTrigger(m)
    \/ ReceiveTrigger
    \/ \E m \in Messages : Expire(m)
    \/ Judge
    \/ Clear
    \/ DrainOne
    \/ DrainEnd
    \/ LoopReturns
    \/ Tick

Spec == Init /\ [][Next]_vars

ConsumerStep ==
    \/ ReceiveTrigger \/ Judge \/ Clear \/ DrainOne \/ DrainEnd \/ LoopReturns
    \/ \E m \in Messages : Expire(m)

(* A started send is synchronous code and runs to its end; tokio keeps        *)
(* polling the consumer, whose turn may take either branch of the select      *)
(* (the branches are not assumed fair to each other); the agentic loop is     *)
(* assumed to return.  Nothing obliges a message to be sent at all.           *)
Fairness ==
    /\ \A m \in Messages : WF_vars(Stamp(m) \/ Raise(m) \/ PushTrigger(m))
    /\ WF_vars(ConsumerStep)
    /\ WF_vars(Tick)

FairSpec == Spec /\ Fairness

-------------------------------------------------------------------------------
Occurs(m, s) == \E i \in 1..Len(s) : s[i] = m

Queued(m) == Occurs(m, rx)
TriggerQueued(m) == Occurs(m, triggers)

(* The task has been through its compare-and-swap loop.                       *)
Recorded(m) == pc[m] \in {"trigger", "sent"}

(* The task's trigger has not expired yet.                                    *)
TriggerPending(m) == pc[m] = "trigger" \/ TriggerQueued(m) \/ m \in delay

(* Types, and no batch of the loop is empty (`if !items.is_empty()`).         *)
TypeOK ==
    /\ now \in Nat
    /\ rx \in Seq(Messages)
    /\ deadline \in Nat
    /\ triggers \in Seq(Messages)
    /\ delay \in SUBSET Messages
    /\ pc \in [Messages -> SendSteps]
    /\ at \in [Messages -> Nat]
    /\ seen \in [Messages -> Nat]
    /\ cpc \in ConsumerSteps
    /\ expired \in Messages \union {NoMessage}
    /\ loaded \in Nat
    /\ items \in Seq(Messages)
    /\ inLoop \in Seq(Messages)
    /\ processed \in Seq(Seq(Messages) \ {<<>>})

(* The consumer is past the judgement, or about to pass it, for the deadline  *)
(* that stands now.                                                           *)
FlushDecided ==
    \/ cpc = "clear"
    \/ cpc = "judge" /\ loaded = deadline /\ now >= loaded

(* No lost wakeup: as long as a recorded message waits and no drain is under  *)
(* way, a deadline stands, and either the flush is decided or a trigger is    *)
(* still to expire that finds exactly this deadline passed.  The order "clear *)
(* the deadline, then drain" and the CAS are there for this                   *)
(* (channel_batch_processor.rs, BatchProducer::send and BatchConsumer::run).  *)
NoLostWakeup ==
    (cpc # "drain" /\ \E m \in Messages : Queued(m) /\ Recorded(m)) =>
        /\ deadline # 0
        /\ \/ FlushDecided
           \/ \E m \in Messages : TriggerPending(m) /\ Clamp(at[m]) = deadline

(* Debounce: the standing deadline is no earlier than the one any recorded    *)
(* message that waits asked for; "raise only, never lower" in the code.       *)
DeadlineCoversQueue ==
    cpc # "drain" =>
        \A m \in Messages : Queued(m) /\ Recorded(m) => Clamp(at[m]) <= deadline

(* The queue implements the abstract batching stage: no message is lost,      *)
(* duplicated or reordered, batches do not overlap, and a batch takes all     *)
(* that waits when it is closed.                                              *)
Batching == INSTANCE MessageBatching WITH waiting <- items \o rx
ImplementsMessageBatching == Batching!Spec

Processed(m) == \E b \in 1..Len(processed) : Occurs(m, processed[b])

(* Every message that was pushed is processed, however the sends race with    *)
(* the consumer, without another message having to arrive.                    *)
EveryMessageProcessed == \A m \in Messages : (pc[m] = "pushed") ~> Processed(m)
================================================================================
