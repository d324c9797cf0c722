----------------------------- MODULE Messages_proofs -----------------------------
(* What messages meet on their way, proved of any number of them.               *)
(* The queue in front of the agentic loop (BatchQueue), for any intervals and   *)
(* bounds: the types, the two safety invariants of the run, and that the queue  *)
(* implements MessageBatching.  The messenger of the web channel                *)
(* (WebMessenger), for any users, groups and changes: what a bound user was     *)
(* last told of a group is true when no change is on its way, messages that are *)
(* accepted arrive, and the pages of a group leave nothing out.                 *)
EXTENDS BatchQueue, WebMessenger, FiniteSetTheorems, SequenceTheorems,
        WellFoundedInduction, TLAPS

-------------------------------------------------------------------------------
(* Two facts about which elements a sequence holds.                           *)

LEMMA AppendOccurs ==
    ASSUME NEW S, NEW s \in Seq(S), NEW e \in S
    PROVE  /\ Append(s, e) \in Seq(S)
           /\ \A m : Occurs(m, Append(s, e)) <=> Occurs(m, s) \/ m = e
<1>1. /\ Append(s, e) \in Seq(S)
      /\ Len(Append(s, e)) = Len(s) + 1
      /\ Append(s, e)[Len(s) + 1] = e
      /\ \A i \in 1..Len(s) : Append(s, e)[i] = s[i]
  OBVIOUS
<1>2. Len(s) \in Nat
  OBVIOUS
<1>3. ASSUME NEW m
      PROVE  Occurs(m, Append(s, e)) <=> Occurs(m, s) \/ m = e
  <2>1. ASSUME Occurs(m, Append(s, e)) PROVE Occurs(m, s) \/ m = e
    <3>1. PICK i \in 1..(Len(s) + 1) : Append(s, e)[i] = m
      BY <1>1, <2>1 DEF Occurs
    <3>2. CASE i = Len(s) + 1
      BY <3>1, <3>2, <1>1
    <3>3. CASE i \in 1..Len(s)
      BY <3>1, <3>3, <1>1 DEF Occurs
    <3>4. QED
      BY <3>2, <3>3, <1>2
  <2>2. ASSUME Occurs(m, s) PROVE Occurs(m, Append(s, e))
    <3>1. PICK i \in 1..Len(s) : s[i] = m
      BY <2>2 DEF Occurs
    <3>2. i \in 1..Len(Append(s, e)) /\ Append(s, e)[i] = m
      BY <3>1, <1>1, <1>2
    <3>3. QED
      BY <3>2 DEF Occurs
  <2>3. ASSUME m = e PROVE Occurs(m, Append(s, e))
    <3>1. Len(s) + 1 \in 1..Len(Append(s, e)) /\ Append(s, e)[Len(s) + 1] = m
      BY <2>3, <1>1, <1>2
    <3>2. QED
      BY <3>1 DEF Occurs
  <2>4. QED
    BY <2>1, <2>2, <2>3
<1>4. QED
  BY <1>1, <1>3

LEMMA TailOccurs ==
    ASSUME NEW S, NEW s \in Seq(S), s # <<>>
    PROVE  /\ Head(s) \in S
           /\ Tail(s) \in Seq(S)
           /\ \A m : Occurs(m, s) <=> Occurs(m, Tail(s)) \/ m = Head(s)
<1>1. /\ Head(s) \in S
      /\ Tail(s) \in Seq(S)
      /\ Head(s) = s[1]
      /\ Len(s) \in Nat \ {0}
      /\ Len(Tail(s)) = Len(s) - 1
      /\ \A i \in 1..(Len(s) - 1) : Tail(s)[i] = s[i + 1]
  OBVIOUS
<1>2. ASSUME NEW m
      PROVE  Occurs(m, s) <=> Occurs(m, Tail(s)) \/ m = Head(s)
  <2>1. ASSUME Occurs(m, s), m # Head(s) PROVE Occurs(m, Tail(s))
    <3>1. PICK i \in 1..Len(s) : s[i] = m
      BY <2>1 DEF Occurs
    <3>2. i # 1
      BY <3>1, <2>1, <1>1
    <3>3. i - 1 \in 1..Len(Tail(s)) /\ Tail(s)[i - 1] = m
      BY <3>1, <3>2, <1>1
    <3>4. QED
      BY <3>3 DEF Occurs
  <2>2. ASSUME Occurs(m, Tail(s)) PROVE Occurs(m, s)
    <3>1. PICK i \in 1..(Len(s) - 1) : Tail(s)[i] = m
      BY <2>2, <1>1 DEF Occurs
    <3>2. i + 1 \in 1..Len(s) /\ s[i + 1] = m
      BY <3>1, <1>1
    <3>3. QED
      BY <3>2 DEF Occurs
  <2>3. ASSUME m = Head(s) PROVE Occurs(m, s)
    <3>1. 1 \in 1..Len(s) /\ s[1] = m
      BY <2>3, <1>1
    <3>2. QED
      BY <3>1 DEF Occurs
  <2>4. QED
    BY <2>1, <2>2, <2>3
<1>3. QED
  BY <1>1, <1>2

LEMMA EmptyOccurs == \A m : ~Occurs(m, <<>>)
  BY DEF Occurs

-------------------------------------------------------------------------------
(* The inductive invariant.                                                   *)

(* A trigger that is queued or delayed was pushed by a finished send, so its  *)
(* instant no longer changes.                                                 *)
PendingIsSent == \A m \in Messages : TriggerQueued(m) \/ m \in delay => pc[m] = "sent"

(* A standing deadline never waits for a trigger that already expired.        *)
DeadlineHasTrigger ==
    deadline # 0 =>
        \/ FlushDecided
        \/ \E m \in Messages : TriggerPending(m) /\ Clamp(at[m]) = deadline

(* The deadline only rises between two clears, so what a task has read of it  *)
(* while its message is queued is no later than what stands.                  *)
SeenCovered ==
    cpc # "drain" =>
        \A m \in Messages : Queued(m) /\ pc[m] = "casing" /\ seen[m] # 0 => seen[m] <= deadline

LoopShape ==
    /\ inLoop # <<>> <=> cpc = "busy"
    /\ items # <<>> => cpc = "drain"

IInv ==
    /\ TypeOK
    /\ PendingIsSent
    /\ DeadlineHasTrigger
    /\ SeenCovered
    /\ DeadlineCoversQueue
    /\ LoopShape

-------------------------------------------------------------------------------
LEMMA ClampType ==
    \A t \in Nat : Clamp(t) \in Nat \ {0}
  BY DEF Clamp

LEMMA InitIInv == Init => IInv
<1> SUFFICES ASSUME Init PROVE IInv
  OBVIOUS
<1> USE DEF Init
<1>1. TypeOK
  BY BatchAssumption DEF TypeOK, SendSteps, ConsumerSteps
<1>2. PendingIsSent /\ SeenCovered /\ DeadlineCoversQueue
  BY EmptyOccurs DEF PendingIsSent, SeenCovered, DeadlineCoversQueue, TriggerQueued, Queued
<1>3. DeadlineHasTrigger /\ LoopShape
  BY DEF DeadlineHasTrigger, LoopShape
<1>4. QED
  BY <1>1, <1>2, <1>3 DEF IInv

LEMMA QueueHead ==
    ASSUME NEW S, NEW s \in Seq(S), s # <<>>
    PROVE  Head(s) \in S /\ Tail(s) \in Seq(S)
  OBVIOUS

(* Every step keeps the types; an empty batch is never appended to            *)
(* `processed` because the loop runs only on a batch that is not empty.       *)
LEMMA StepType == TypeOK /\ LoopShape /\ [Next]_vars => TypeOK'
<1> SUFFICES ASSUME TypeOK, LoopShape, [Next]_vars
             PROVE  TypeOK'
  OBVIOUS
<1> USE BatchAssumption DEF TypeOK, SendSteps, ConsumerSteps, sendVars, consumerVars, loopVars
<1>1. ASSUME NEW m \in Messages, Push(m) PROVE TypeOK'
  BY <1>1 DEF Push
<1>2. ASSUME NEW m \in Messages, Stamp(m) PROVE TypeOK'
  BY <1>2 DEF Stamp
<1>3. ASSUME NEW m \in Messages, Raise(m) PROVE TypeOK'
  <2>1. Clamp(at[m]) \in Nat
    BY ClampType
  <2>2. /\ deadline' = deadline \/ deadline' = Clamp(at[m])
        /\ seen' = seen \/ seen' = [seen EXCEPT ![m] = deadline]
        /\ pc' = pc \/ pc' = [pc EXCEPT ![m] = "trigger"]
    BY <1>3 DEF Raise
  <2>3. deadline' \in Nat /\ seen' \in [Messages -> Nat]
    BY <2>1, <2>2
  <2>4. pc' \in [Messages -> SendSteps]
    BY <2>2
  <2>5. QED
    BY <1>3, <2>3, <2>4 DEF Raise
<1>4. ASSUME NEW m \in Messages, PushTrigger(m) PROVE TypeOK'
  BY <1>4 DEF PushTrigger
<1>5. CASE ReceiveTrigger
  <2>1. Head(triggers) \in Messages /\ Tail(triggers) \in Seq(Messages)
    BY <1>5, QueueHead DEF ReceiveTrigger
  <2>2. QED
    BY <1>5, <2>1 DEF ReceiveTrigger
<1>6. ASSUME NEW m \in Messages, Expire(m) PROVE TypeOK'
  BY <1>6 DEF Expire
<1>7. CASE Judge
  BY <1>7 DEF Judge
<1>8. CASE Clear
  BY <1>8 DEF Clear
<1>9. CASE DrainOne
  <2>1. Head(rx) \in Messages /\ Tail(rx) \in Seq(Messages)
    BY <1>9, QueueHead DEF DrainOne
  <2>2. Append(items, Head(rx)) \in Seq(Messages)
    BY <2>1
  <2>3. QED
    BY <1>9, <2>1, <2>2 DEF DrainOne
<1>10. CASE DrainEnd
  BY <1>10 DEF DrainEnd
<1>11. CASE LoopReturns
  <2>1. inLoop \in Seq(Messages) \ {<<>>}
    BY <1>11 DEF LoopReturns, LoopShape
  <2>2. processed' \in Seq(Seq(Messages) \ {<<>>})
    <3>1. processed' = Append(processed, inLoop)
      BY <1>11 DEF LoopReturns
    <3>2. processed \in Seq(Seq(Messages) \ {<<>>})
      OBVIOUS
    <3>3. QED
      BY <3>1, <3>2, <2>1
  <2>3. QED
    BY <1>11, <2>2 DEF LoopReturns
<1>12. CASE Tick
  BY <1>12 DEF Tick
<1>13. CASE UNCHANGED vars
  BY <1>13 DEF vars
<1>14. QED
  BY <1>1, <1>2, <1>3, <1>4, <1>5, <1>6, <1>7, <1>8, <1>9, <1>10, <1>11, <1>12, <1>13
  DEF Next

-------------------------------------------------------------------------------
(* The steps of a send keep the invariant.                                    *)

LEMMA PushIInv ==
    ASSUME IInv, TypeOK', NEW m \in Messages, Push(m)
    PROVE  IInv'
<1> USE DEF IInv, sendVars, consumerVars, loopVars
<1>1. \A x : Occurs(x, rx') <=> Occurs(x, rx) \/ x = m
  BY AppendOccurs DEF Push, TypeOK
<1>2. pc'[m] = "pushed" /\ \A x \in Messages \ {m} : pc'[x] = pc[x]
  BY DEF Push, TypeOK
<1>3. PendingIsSent'
  BY <1>2 DEF PendingIsSent, Push, TriggerQueued
<1>4. DeadlineHasTrigger'
  BY <1>2 DEF DeadlineHasTrigger, FlushDecided, TriggerPending, TriggerQueued, Push
<1>5. SeenCovered' /\ DeadlineCoversQueue'
  BY <1>1, <1>2 DEF SeenCovered, DeadlineCoversQueue, Queued, Recorded, Push
<1>6. LoopShape'
  BY DEF LoopShape, Push
<1>7. QED
  BY <1>3, <1>4, <1>5, <1>6

LEMMA StampIInv ==
    ASSUME IInv, TypeOK', NEW m \in Messages, Stamp(m)
    PROVE  IInv'
<1> USE DEF IInv, sendVars, consumerVars, loopVars
<1>1. pc'[m] = "casing" /\ \A x \in Messages \ {m} : pc'[x] = pc[x]
  BY DEF Stamp, TypeOK
<1>2. seen'[m] = deadline /\ \A x \in Messages \ {m} : seen'[x] = seen[x] /\ at'[x] = at[x]
  BY DEF Stamp, TypeOK
<1>3. PendingIsSent'
  BY <1>1 DEF PendingIsSent, Stamp, TriggerQueued
<1>4. DeadlineHasTrigger'
  (* m has pushed no trigger yet, so no pending trigger changes its instant. *)
  <2>1. ASSUME NEW x \in Messages, TriggerPending(x)
        PROVE  x # m
    BY <2>1 DEF PendingIsSent, TriggerPending, Stamp
  <2>2. ASSUME NEW x \in Messages, TriggerPending(x)
        PROVE  TriggerPending(x)' /\ at'[x] = at[x]
    BY <2>1, <2>2, <1>1, <1>2 DEF TriggerPending, TriggerQueued, Stamp
  <2>3. QED
    BY <2>2 DEF DeadlineHasTrigger, FlushDecided, Stamp
<1>5. SeenCovered'
  BY <1>1, <1>2 DEF SeenCovered, Queued, Stamp, TypeOK
<1>6. DeadlineCoversQueue'
  BY <1>1, <1>2 DEF DeadlineCoversQueue, Queued, Recorded, Stamp
<1>7. LoopShape'
  BY DEF LoopShape, Stamp
<1>8. QED
  BY <1>3, <1>4, <1>5, <1>6, <1>7

LEMMA RaiseIInv ==
    ASSUME IInv, TypeOK', NEW m \in Messages, Raise(m)
    PROVE  IInv'
<1> USE DEF IInv, sendVars, consumerVars, loopVars
<1>0. deadline \in Nat /\ deadline' \in Nat /\ seen \in [Messages -> Nat] /\ pc \in [Messages -> SendSteps]
  BY DEF TypeOK
<1>1. Clamp(at[m]) \in Nat \ {0} /\ \A x \in Messages : Clamp(at[x]) \in Nat
  BY ClampType DEF TypeOK
<1>2. PendingIsSent'
  BY DEF PendingIsSent, Raise, TriggerQueued, TypeOK
<1>3. LoopShape'
  BY DEF LoopShape, Raise
<1>4. CASE LaterDeadlineSet(m)
  <2>1. /\ pc'[m] = "trigger" /\ \A x \in Messages \ {m} : pc'[x] = pc[x]
        /\ UNCHANGED <<deadline, seen, at, rx, delay, triggers, cpc, loaded, now>>
    BY <1>4 DEF Raise, TypeOK
  <2>2. DeadlineHasTrigger'
    BY <2>1 DEF DeadlineHasTrigger, FlushDecided, TriggerPending, TriggerQueued
  <2>3. SeenCovered'
    BY <2>1 DEF SeenCovered, Queued
  <2>4. DeadlineCoversQueue'
    <3>1. cpc # "drain" /\ Queued(m) => Clamp(at[m]) <= deadline
      BY <1>1, <1>4 DEF SeenCovered, LaterDeadlineSet, Raise, TypeOK
    <3>2. QED
      BY <2>1, <3>1 DEF DeadlineCoversQueue, Queued, Recorded
  <2>5. QED
    BY <1>2, <1>3, <2>2, <2>3, <2>4
<1>5. CASE ~LaterDeadlineSet(m) /\ deadline = seen[m]
  <2>1. /\ pc'[m] = "trigger" /\ \A x \in Messages \ {m} : pc'[x] = pc[x]
        /\ deadline' = Clamp(at[m])
        /\ UNCHANGED <<seen, at, rx, delay, triggers, cpc, loaded, now>>
    BY <1>5 DEF Raise, TypeOK
  <2>2. deadline <= deadline'
    BY <1>1, <1>5, <2>1 DEF LaterDeadlineSet, TypeOK
  <2>3. DeadlineHasTrigger'
    BY <2>1 DEF DeadlineHasTrigger, TriggerPending
  <2>4. SeenCovered'
    BY <2>1, <2>2, <1>0 DEF SeenCovered, Queued
  <2>5. DeadlineCoversQueue'
    <3>1. Clamp(at[m]) <= deadline'
      BY <2>1, <1>1
    <3>2. ASSUME NEW x \in Messages, Queued(x), Recorded(x), cpc # "drain"
          PROVE  Clamp(at[x]) <= deadline'
      BY <3>2, <2>2, <1>0, <1>1 DEF DeadlineCoversQueue
    <3>3. QED
      BY <2>1, <3>1, <3>2 DEF DeadlineCoversQueue, Queued, Recorded
  <2>6. QED
    BY <1>2, <1>3, <2>3, <2>4, <2>5
<1>6. CASE ~LaterDeadlineSet(m) /\ deadline # seen[m]
  <2>1. /\ seen'[m] = deadline /\ \A x \in Messages \ {m} : seen'[x] = seen[x]
        /\ UNCHANGED <<pc, deadline, at, rx, delay, triggers, cpc, loaded, now>>
    BY <1>6 DEF Raise, TypeOK
  <2>2. DeadlineHasTrigger'
    BY <2>1 DEF DeadlineHasTrigger, FlushDecided, TriggerPending, TriggerQueued
  <2>3. SeenCovered'
    BY <2>1, <1>0 DEF SeenCovered, Queued
  <2>4. DeadlineCoversQueue'
    BY <2>1 DEF DeadlineCoversQueue, Queued, Recorded
  <2>5. QED
    BY <1>2, <1>3, <2>2, <2>3, <2>4
<1>7. QED
  BY <1>4, <1>5, <1>6

LEMMA PushTriggerIInv ==
    ASSUME IInv, TypeOK', NEW m \in Messages, PushTrigger(m)
    PROVE  IInv'
<1> USE DEF IInv, sendVars, consumerVars, loopVars
<1>1. \A x : Occurs(x, triggers') <=> Occurs(x, triggers) \/ x = m
  BY AppendOccurs DEF PushTrigger, TypeOK
<1>2. pc'[m] = "sent" /\ \A x \in Messages \ {m} : pc'[x] = pc[x]
  BY DEF PushTrigger, TypeOK
<1>3. PendingIsSent'
  BY <1>1, <1>2 DEF PendingIsSent, PushTrigger, TriggerQueued
<1>4. DeadlineHasTrigger'
  <2>1. ASSUME NEW x \in Messages, TriggerPending(x)
        PROVE  TriggerPending(x)'
    BY <2>1, <1>1, <1>2 DEF TriggerPending, TriggerQueued, PushTrigger
  <2>2. QED
    BY <2>1 DEF DeadlineHasTrigger, FlushDecided, PushTrigger
<1>5. SeenCovered'
  BY <1>2 DEF SeenCovered, Queued, PushTrigger
<1>6. DeadlineCoversQueue'
  BY <1>2 DEF DeadlineCoversQueue, Queued, Recorded, PushTrigger
<1>7. LoopShape'
  BY DEF LoopShape, PushTrigger
<1>8. QED
  BY <1>3, <1>4, <1>5, <1>6, <1>7

-------------------------------------------------------------------------------
(* The steps of the consumer keep the invariant.                              *)

LEMMA ReceiveTriggerIInv ==
    ASSUME IInv, TypeOK', ReceiveTrigger
    PROVE  IInv'
<1> USE DEF IInv, sendVars, consumerVars, loopVars
<1>1. /\ Head(triggers) \in Messages
      /\ \A x : Occurs(x, triggers) <=> Occurs(x, triggers') \/ x = Head(triggers)
  BY TailOccurs DEF ReceiveTrigger, TypeOK
<1>2. delay' = delay \union {Head(triggers)}
  BY DEF ReceiveTrigger
<1>3. PendingIsSent'
  BY <1>1, <1>2 DEF PendingIsSent, ReceiveTrigger, TriggerQueued
<1>4. DeadlineHasTrigger'
  <2>1. ASSUME NEW x \in Messages, TriggerPending(x)
        PROVE  TriggerPending(x)'
    BY <2>1, <1>1, <1>2 DEF TriggerPending, TriggerQueued, ReceiveTrigger
  <2>2. QED
    BY <2>1 DEF DeadlineHasTrigger, FlushDecided, ReceiveTrigger
<1>5. SeenCovered' /\ DeadlineCoversQueue'
  BY DEF SeenCovered, DeadlineCoversQueue, Queued, Recorded, ReceiveTrigger
<1>6. LoopShape'
  BY DEF LoopShape, ReceiveTrigger
<1>7. QED
  BY <1>3, <1>4, <1>5, <1>6

(* The trigger that expires may be the one the deadline waited for: then the  *)
(* deadline just read has passed, and the flush is decided.                   *)
LEMMA ExpireIInv ==
    ASSUME IInv, TypeOK', NEW m \in Messages, Expire(m)
    PROVE  IInv'
<1> USE DEF IInv, sendVars, consumerVars, loopVars
<1>1. PendingIsSent'
  BY DEF PendingIsSent, Expire, TriggerQueued
<1>2. DeadlineHasTrigger'
  <2>1. SUFFICES ASSUME deadline # 0
                 PROVE  \/ FlushDecided'
                        \/ \E x \in Messages : TriggerPending(x)' /\ Clamp(at'[x]) = deadline'
    BY DEF DeadlineHasTrigger, Expire
  <2>2. PICK x \in Messages : TriggerPending(x) /\ Clamp(at[x]) = deadline
    BY <2>1 DEF DeadlineHasTrigger, FlushDecided, Expire
  <2>3. CASE x = m
    <3>1. cpc' = "judge" /\ loaded' = deadline' /\ now' >= loaded'
      BY <2>2, <2>3 DEF Expire, Due
    <3>2. QED
      BY <3>1 DEF FlushDecided
  <2>4. CASE x # m
    BY <2>2, <2>4 DEF TriggerPending, TriggerQueued, Expire
  <2>5. QED
    BY <2>3, <2>4
<1>3. SeenCovered' /\ DeadlineCoversQueue'
  BY DEF SeenCovered, DeadlineCoversQueue, Queued, Recorded, Expire
<1>4. LoopShape'
  BY DEF LoopShape, Expire
<1>5. QED
  BY <1>1, <1>2, <1>3, <1>4

LEMMA JudgeIInv ==
    ASSUME IInv, TypeOK', Judge
    PROVE  IInv'
<1> USE DEF IInv, sendVars, consumerVars, loopVars
<1>1. PendingIsSent'
  BY DEF PendingIsSent, Judge, TriggerQueued
<1>2. DeadlineHasTrigger'
  <2>1. SUFFICES ASSUME deadline # 0
                 PROVE  \/ cpc' = "clear"
                        \/ \E x \in Messages : TriggerPending(x) /\ Clamp(at[x]) = deadline
    BY DEF DeadlineHasTrigger, FlushDecided, TriggerPending, TriggerQueued, Judge
  <2>2. CASE loaded = deadline /\ now >= loaded
    <3>1. ~(loaded = 0 \/ now < loaded)
      BY <2>1, <2>2 DEF TypeOK
    <3>2. QED
      BY <3>1 DEF Judge
  <2>3. CASE ~(loaded = deadline /\ now >= loaded)
    BY <2>1, <2>3 DEF DeadlineHasTrigger, FlushDecided, Judge
  <2>4. QED
    BY <2>2, <2>3
<1>3. SeenCovered' /\ DeadlineCoversQueue'
  BY DEF SeenCovered, DeadlineCoversQueue, Queued, Recorded, Judge
<1>4. LoopShape'
  BY DEF LoopShape, Judge
<1>5. QED
  BY <1>1, <1>2, <1>3, <1>4

LEMMA ClearIInv ==
    ASSUME IInv, TypeOK', Clear
    PROVE  IInv'
<1> USE DEF IInv, sendVars, consumerVars, loopVars
<1>1. PendingIsSent'
  BY DEF PendingIsSent, Clear, TriggerQueued
<1>2. DeadlineHasTrigger' /\ SeenCovered' /\ DeadlineCoversQueue'
  BY DEF DeadlineHasTrigger, SeenCovered, DeadlineCoversQueue, Clear
<1>3. LoopShape'
  BY DEF LoopShape, Clear
<1>4. QED
  BY <1>1, <1>2, <1>3

LEMMA DrainOneIInv ==
    ASSUME IInv, TypeOK', DrainOne
    PROVE  IInv'
<1> USE DEF IInv, sendVars, consumerVars, loopVars
<1>1. PendingIsSent'
  BY DEF PendingIsSent, DrainOne, TriggerQueued
<1>2. DeadlineHasTrigger'
  BY DEF DeadlineHasTrigger, FlushDecided, TriggerPending, TriggerQueued, DrainOne
<1>3. SeenCovered' /\ DeadlineCoversQueue'
  BY DEF SeenCovered, DeadlineCoversQueue, DrainOne
<1>4. LoopShape'
  BY DEF LoopShape, DrainOne
<1>5. QED
  BY <1>1, <1>2, <1>3, <1>4

(* The drain ends only on an empty queue, so nothing that was recorded before *)
(* the deadline was cleared is left behind without one.                       *)
LEMMA DrainEndIInv ==
    ASSUME IInv, TypeOK', DrainEnd
    PROVE  IInv'
<1> USE DEF IInv, sendVars, consumerVars, loopVars
<1>1. PendingIsSent'
  BY DEF PendingIsSent, DrainEnd, TriggerQueued
<1>2. DeadlineHasTrigger'
  BY DEF DeadlineHasTrigger, FlushDecided, TriggerPending, TriggerQueued, DrainEnd
<1>3. SeenCovered' /\ DeadlineCoversQueue'
  BY EmptyOccurs DEF SeenCovered, DeadlineCoversQueue, Queued, DrainEnd
<1>4. LoopShape'
  BY DEF LoopShape, DrainEnd
<1>5. QED
  BY <1>1, <1>2, <1>3, <1>4

LEMMA LoopReturnsIInv ==
    ASSUME IInv, TypeOK', LoopReturns
    PROVE  IInv'
<1> USE DEF IInv, sendVars, consumerVars, loopVars
<1>1. PendingIsSent'
  BY DEF PendingIsSent, LoopReturns, TriggerQueued
<1>2. DeadlineHasTrigger'
  BY DEF DeadlineHasTrigger, FlushDecided, TriggerPending, TriggerQueued, LoopReturns
<1>3. SeenCovered' /\ DeadlineCoversQueue'
  BY DEF SeenCovered, DeadlineCoversQueue, Queued, Recorded, LoopReturns
<1>4. LoopShape'
  BY DEF LoopShape, LoopReturns
<1>5. QED
  BY <1>1, <1>2, <1>3, <1>4

LEMMA TickIInv ==
    ASSUME IInv, TypeOK', Tick
    PROVE  IInv'
<1> USE DEF IInv, sendVars, consumerVars, loopVars
<1>1. PendingIsSent'
  BY DEF PendingIsSent, Tick, TriggerQueued
<1>2. DeadlineHasTrigger'
  <2>1. FlushDecided => FlushDecided'
    BY DEF FlushDecided, Tick, TypeOK
  <2>2. QED
    BY <2>1 DEF DeadlineHasTrigger, TriggerPending, TriggerQueued, Tick
<1>3. SeenCovered' /\ DeadlineCoversQueue'
  BY DEF SeenCovered, DeadlineCoversQueue, Queued, Recorded, Tick
<1>4. LoopShape'
  BY DEF LoopShape, Tick
<1>5. QED
  BY <1>1, <1>2, <1>3, <1>4

LEMMA StutterIInv ==
    ASSUME IInv, UNCHANGED vars
    PROVE  IInv'
<1> USE DEF IInv, vars, sendVars, consumerVars, loopVars
<1>1. TypeOK' /\ LoopShape'
  BY DEF TypeOK, LoopShape
<1>2. PendingIsSent' /\ DeadlineHasTrigger'
  BY DEF PendingIsSent, DeadlineHasTrigger, FlushDecided, TriggerPending, TriggerQueued
<1>3. SeenCovered' /\ DeadlineCoversQueue'
  BY DEF SeenCovered, DeadlineCoversQueue, Queued, Recorded
<1>4. QED
  BY <1>1, <1>2, <1>3

LEMMA StepIInv == IInv /\ [Next]_vars => IInv'
<1> SUFFICES ASSUME IInv, [Next]_vars PROVE IInv'
  OBVIOUS
<1>1. TypeOK'
  BY StepType DEF IInv
<1>2. CASE Next
  BY <1>1, <1>2, PushIInv, StampIInv, RaiseIInv, PushTriggerIInv, ReceiveTriggerIInv,
     ExpireIInv, JudgeIInv, ClearIInv, DrainOneIInv, DrainEndIInv, LoopReturnsIInv, TickIInv
  DEF Next
<1>3. CASE UNCHANGED vars
  BY <1>3, StutterIInv
<1>4. QED
  BY <1>2, <1>3

LEMMA Invariance == Spec => []IInv
  BY InitIInv, StepIInv, PTL DEF Spec

-------------------------------------------------------------------------------
(* Type correctness of the batching queue, for any messages, intervals and    *)
(* bounds; in particular the loop never runs on an empty batch.               *)
THEOREM TypeCorrect == Spec => []TypeOK
<1>1. IInv => TypeOK
  BY DEF IInv
<1>2. QED
  BY <1>1, Invariance, PTL

(* No lost wakeup (NoLostWakeup in BatchQueue): whatever the interleaving of  *)
(* the sends' compare-and-swap loops with the consumer's clear and drain, a   *)
(* recorded message that waits has a deadline and a trigger that will find it *)
(* passed.                                                                    *)
THEOREM NoWakeupIsLost == Spec => []NoLostWakeup
<1>1. ASSUME IInv PROVE NoLostWakeup
  <2>1. SUFFICES ASSUME cpc # "drain", NEW m \in Messages, Queued(m), Recorded(m)
                 PROVE  /\ deadline # 0
                        /\ \/ FlushDecided
                           \/ \E x \in Messages : TriggerPending(x) /\ Clamp(at[x]) = deadline
    BY DEF NoLostWakeup
  <2>2. Clamp(at[m]) \in Nat \ {0} /\ Clamp(at[m]) <= deadline /\ deadline \in Nat
    BY <1>1, <2>1, ClampType DEF IInv, DeadlineCoversQueue, TypeOK
  <2>3. deadline # 0
    BY <2>2
  <2>4. QED
    BY <1>1, <2>3 DEF IInv, DeadlineHasTrigger
<1>2. QED
  BY <1>1, Invariance, PTL

(* The debounce: a flush is judged against a deadline no earlier than what    *)
(* any recorded, waiting message asked for (DeadlineCoversQueue).             *)
THEOREM DebounceHolds == Spec => []DeadlineCoversQueue
<1>1. IInv => DeadlineCoversQueue
  BY DEF IInv
<1>2. QED
  BY <1>1, Invariance, PTL

-------------------------------------------------------------------------------
(* The queue implements the abstract batching stage.                          *)

LEMMA AppendAtEnd ==
    ASSUME NEW S, NEW s \in Seq(S), NEW e \in S
    PROVE  Append(s, e) = s \o <<e>>
  OBVIOUS

LEMMA SubmitMaps ==
    ASSUME NEW S, NEW s \in Seq(S), NEW t \in Seq(S), NEW e \in S
    PROVE  s \o Append(t, e) = Append(s \o t, e)
<1>1. s \o Append(t, e) = s \o (t \o <<e>>)
  BY AppendAtEnd
<1>2. Append(s \o t, e) = (s \o t) \o <<e>>
  BY AppendAtEnd, ConcatProperties
<1>3. <<e>> \in Seq(S)
  OBVIOUS
<1>4. (s \o t) \o <<e>> = s \o (t \o <<e>>)
  BY <1>3, ConcatAssociative
<1>5. QED
  BY <1>1, <1>2, <1>4

LEMMA DrainMaps ==
    ASSUME NEW S, NEW s \in Seq(S), NEW t \in Seq(S), t # <<>>
    PROVE  Append(s, Head(t)) \o Tail(t) = s \o t
<1>1. Head(t) \in S /\ Tail(t) \in Seq(S) /\ <<Head(t)>> \in Seq(S)
  BY TailOccurs
<1>2. Append(s, Head(t)) = s \o <<Head(t)>>
  BY <1>1, AppendAtEnd
<1>3. (s \o <<Head(t)>>) \o Tail(t) = s \o (<<Head(t)>> \o Tail(t))
  BY <1>1, ConcatAssociative
<1>4. <<Head(t)>> \o Tail(t) = t
  BY HeadTailProperties
<1>5. QED
  BY <1>2, <1>3, <1>4

LEMMA InitImplements == Init => Batching!Init
  BY DEF Init, Batching!Init

LEMMA StepImplements == IInv /\ [Next]_vars => [Batching!Next]_(Batching!vars)
<1> SUFFICES ASSUME IInv, [Next]_vars
             PROVE  Batching!Next \/ UNCHANGED Batching!vars
  BY DEF Batching!vars
<1>1. ASSUME NEW m \in Messages, Push(m) PROVE Batching!Submit(m)
  <2>1. items' = items /\ rx' = Append(rx, m) /\ UNCHANGED <<inLoop, processed>>
    BY <1>1 DEF Push, consumerVars, loopVars
  <2>2. items \in Seq(Messages) /\ rx \in Seq(Messages)
    BY DEF IInv, TypeOK
  <2>3. items \o Append(rx, m) = Append(items \o rx, m)
    BY <1>1, <2>2, SubmitMaps
  <2>4. QED
    BY <2>1, <2>3 DEF Batching!Submit
<1> USE DEF IInv, TypeOK, sendVars, consumerVars, loopVars, Batching!vars
<1>2. ASSUME NEW m \in Messages, Stamp(m) \/ Raise(m) \/ PushTrigger(m) \/ Expire(m)
      PROVE  UNCHANGED Batching!vars
  BY <1>2 DEF Stamp, Raise, PushTrigger, Expire
<1>3. CASE ReceiveTrigger \/ Judge \/ Clear \/ Tick
  BY <1>3 DEF ReceiveTrigger, Judge, Clear, Tick
<1>4. CASE DrainOne
  BY <1>4, DrainMaps DEF DrainOne
<1>5. CASE DrainEnd
  <2>1. inLoop = <<>> /\ items \o rx = items /\ items' \o rx' = <<>>
    BY <1>5 DEF DrainEnd, LoopShape
  <2>2. CASE items = <<>>
    BY <1>5, <2>1, <2>2 DEF DrainEnd
  <2>3. CASE items # <<>>
    BY <1>5, <2>1, <2>3 DEF DrainEnd, Batching!HandOver, Batching!Next
  <2>4. QED
    BY <2>2, <2>3
<1>6. CASE LoopReturns
  BY <1>6 DEF LoopReturns, LoopShape, Batching!Complete, Batching!Next
<1>7. CASE UNCHANGED vars
  BY <1>7 DEF vars
<1>8. QED
  BY <1>1, <1>2, <1>3, <1>4, <1>5, <1>6, <1>7 DEF Next, Batching!Next

(* Refinement (ImplementsMessageBatching): with the messages that wait mapped *)
(* to the batch being drained followed by the channel, every step of the      *)
(* queue is a step of MessageBatching or leaves it unchanged.                 *)
THEOREM QueueImplementsBatching == Spec => ImplementsMessageBatching
<1>1. Spec => Batching!Init /\ [][Batching!Next]_(Batching!vars)
  BY InitImplements, StepImplements, Invariance, PTL DEF Spec
<1>2. QED
  BY <1>1 DEF ImplementsMessageBatching, Batching!Spec

----------------------------------------------------------------------------------
(* The messenger of the web channel.                                            *)

NoticeSet == [kind : {"in", "out"}, group : Multi, user : Users \cup {Admin}]
             \cup [kind : {"removed"}, group : {NoGroup}, user : Users]

\* A configuration as the program writes it.
Shaped(c) ==
    /\ c \in Configs
    /\ \A n \in 0..MaxUsers - 1 : User(n) \in c.users => n < c.nextUser
    /\ \A n \in 0..MaxGroups - 1 : Group(n) \in c.groups => n < c.nextGroup
    /\ \A g \in Multi \ c.groups : c.members[g] = {}

WebTypes ==
    /\ Shaped(config) /\ (saved = Torn \/ Shaped(saved))
    /\ phase \in [Tasks -> {"idle", "saving", "telling"}]
    /\ notices \in [Tasks -> Seq(NoticeSet)]
    /\ \A t \in Tasks : /\ phase[t] = "idle" => notices[t] = <<>>
                        /\ phase[t] = "telling" => notices[t] # <<>>
    /\ bound \subseteq Users
    /\ told \in [Users -> [Multi -> {"none", "in", "out"}]]

\* Who is removed is in no list, and its number is not given again.
Gone(c, x) == x \notin c.users /\ \A n \in 0..MaxUsers - 1 : x = User(n) => n < c.nextUser
Removals ==
    \A t \in Tasks : \A i \in 1..Len(notices[t]) :
        notices[t][i].kind = "removed" => Gone(config, notices[t][i].user)
Leaving(x) ==
    /\ Gone(config, x)
    /\ x \in bound => \E t \in Tasks : \E i \in 1..Len(notices[t]) :
          notices[t][i].kind = "removed" /\ notices[t][i].user = x

\* Whether notices are about a membership, and what the last of these says.
OneOf(n, x, g) == n.user = x /\ n.group = g
About(s, x, g) == \E i \in 1..Len(s) : OneOf(s[i], x, g)
EndsWith(s, x, g, k) ==
    \E i \in 1..Len(s) : /\ OneOf(s[i], x, g) /\ s[i].kind = k
                         /\ \A j \in 1..Len(s) : j > i => ~OneOf(s[j], x, g)
WordOf(c, x, g) == IF x \in c.members[g] THEN "in" ELSE "out"

OneTells ==
    \A t, q \in Tasks : \A x \in Users, g \in Multi :
        <<x, g>> \notin crossed /\ About(notices[t], x, g) /\ About(notices[q], x, g) => t = q
Told(x, g) ==
    /\ \A t \in Tasks : About(notices[t], x, g) => EndsWith(notices[t], x, g, WordOf(config, x, g))
    /\ x \in bound /\ (\A t \in Tasks : ~About(notices[t], x, g)) =>
          told[x][g] = WordOf(config, x, g) \/ (told[x][g] = "none" /\ <<x, g>> \notin changed)
ToldTruth ==
    \A x \in Users, g \in Multi : <<x, g>> \notin crossed \cup untold => Leaving(x) \/ Told(x, g)

WebInv == WebTypes /\ Removals /\ OneTells /\ ToldTruth

\* A finite set as a sequence of its members.
LEMMA SetAsSequence ==
  ASSUME NEW S, IsFiniteSet(S)
  PROVE  /\ SetToSeq(S) \in Seq(S)
         /\ {SetToSeq(S)[i] : i \in 1..Len(SetToSeq(S))} = S
         /\ \A i, j \in 1..Len(SetToSeq(S)) : SetToSeq(S)[i] = SetToSeq(S)[j] => i = j
<1> DEFINE n == Cardinality(S)
<1>1. n \in Nat
  BY FS_CardinalityType
<1>2. PICK f \in Bijection(1..n, S) : TRUE
  BY FS_CardinalityType DEF ExistsBijection
<1>3. f \in [1..n -> S] /\ IsInjective(f)
  BY <1>2 DEF Bijection, Injection
<1> DEFINE s == SetToSeq(S)
<1>4. s \in [1..n -> S] /\ IsInjective(s)
  BY <1>3 DEF SetToSeq
<1> HIDE DEF s
<1>5. s \in Seq(S) /\ Len(s) = n /\ DOMAIN s = 1..n
  BY <1>1, <1>4
<1>6. IsFiniteSet(1..n) /\ Cardinality(1..n) = n
  BY <1>1, FS_Interval
<1>7. Range(s) = S
  <2> DEFINE T == Range(s)
  <2>1. T \in SUBSET S /\ s \in Surjection(1..n, T) /\ s \in Injection(1..n, T)
    BY <1>4, <1>5 DEF Range, Surjection, Injection
  <2> HIDE DEF T
  <2>2. Cardinality(T) = n
    BY <1>6, <2>1, FS_Surjection
  <2>3. T = S
    BY <2>1, <2>2, FS_Subset
  <2> QED BY <2>3 DEF T
<1>8. \A i, j \in 1..Len(s) : s[i] = s[j] => i = j
  BY <1>4, <1>5 DEF IsInjective
<1>9. /\ s \in Seq(S) /\ {s[i] : i \in 1..Len(s)} = S
      /\ \A i, j \in 1..Len(s) : s[i] = s[j] => i = j
  BY <1>5, <1>7, <1>8 DEF Range
<1> QED BY <1>9 DEF s

--------------------------------------------------------------------------------
(* Notices.                                                                    *)

LEMMA FiniteMembers == ASSUME NEW S \in SUBSET (Users \cup {Admin}) PROVE IsFiniteSet(S)
<1> DEFINE f == [n \in 0..MaxUsers - 1 |-> User(n)]
<1>1. f \in Surjection(0..MaxUsers - 1, Users)
  BY DEF Users, Surjection
<1>2. IsFiniteSet(0..MaxUsers - 1)
  BY WebAssumption, FS_Interval
<1>3. IsFiniteSet(Users)
  <2> HIDE DEF f
  <2> QED BY <1>1, <1>2, FS_Surjection
<1>4. IsFiniteSet(Users \cup {Admin})
  BY <1>3, FS_AddElement
<1> QED BY <1>4, FS_Subset

LEMMA NoGroupIsNone == NoGroup \notin Multi
BY DEF NoGroup, Multi, Group

\* Each of a set is told the same of a group.
TellsAll(s, k, g, S) ==
    /\ s \in Seq(NoticeSet)
    /\ \A i \in 1..Len(s) : s[i].kind = k /\ s[i].group = g /\ s[i].user \in S
    /\ \A x \in S : \E i \in 1..Len(s) : s[i].user = x
    /\ \A i, j \in 1..Len(s) : s[i].user = s[j].user => i = j

LEMMA NoticesTellAll ==
  ASSUME NEW k \in {"in", "out"}, NEW g \in Multi, NEW S \in SUBSET (Users \cup {Admin})
  PROVE  TellsAll(Notices(k, g, S), k, g, S)
<1> DEFINE N == {Notice(k, g, x) : x \in S}
           f == [x \in S |-> Notice(k, g, x)]
           s == Notices(k, g, S)
<1>1. IsFiniteSet(S) /\ f \in Surjection(S, N)
  BY FiniteMembers DEF Surjection
<1>2. IsFiniteSet(N)
  <2> HIDE DEF f, N
  <2> QED BY <1>1, FS_Surjection
<1>3. /\ s \in Seq(N) /\ {s[i] : i \in 1..Len(s)} = N
      /\ \A i, j \in 1..Len(s) : s[i] = s[j] => i = j
  <2> HIDE DEF N
  <2>1. /\ SetToSeq(N) \in Seq(N) /\ {SetToSeq(N)[i] : i \in 1..Len(SetToSeq(N))} = N
        /\ \A i, j \in 1..Len(SetToSeq(N)) : SetToSeq(N)[i] = SetToSeq(N)[j] => i = j
    BY <1>2, SetAsSequence
  <2> QED BY <2>1 DEF Notices, N
<1>4. N \subseteq NoticeSet
  BY DEF NoticeSet, Notice
<1> HIDE DEF s
<1>5. s \in Seq(NoticeSet)
  <2> HIDE DEF N
  <2> QED BY <1>3, <1>4, SeqMonotonic
<1>6. ASSUME NEW i \in 1..Len(s) PROVE /\ s[i].kind = k /\ s[i].group = g /\ s[i].user \in S
                                         /\ s[i] = Notice(k, g, s[i].user)
  <2>1. s[i] \in N
    BY <1>3
  <2> QED BY <2>1 DEF Notice
<1>7. ASSUME NEW x \in S PROVE \E i \in 1..Len(s) : s[i].user = x
  <2>1. Notice(k, g, x) \in N
    OBVIOUS
  <2>2. PICK i \in 1..Len(s) : s[i] = Notice(k, g, x)
    BY <1>3, <2>1
  <2> QED BY <2>2 DEF Notice
<1>8. \A i, j \in 1..Len(s) : s[i].user = s[j].user => i = j
  BY <1>3, <1>6
<1>9. TellsAll(s, k, g, S)
  BY <1>5, <1>6, <1>7, <1>8 DEF TellsAll
<1> QED BY <1>9 DEF s

\* What notices to a set say of a membership.
LEMMA AllAbout ==
  ASSUME NEW s, NEW k, NEW g, NEW S, TellsAll(s, k, g, S), NEW x, NEW h
  PROVE  /\ About(s, x, h) <=> x \in S /\ h = g
         /\ About(s, x, h) => EndsWith(s, x, h, k)
BY DEF TellsAll, About, EndsWith, OneOf

\* What is left of notices when the first is sent.
LEMMA AboutTheRest ==
  ASSUME NEW s \in Seq(NoticeSet), s # <<>>, NEW x, NEW g
  PROVE  /\ Tail(s) \in Seq(NoticeSet) /\ Head(s) \in NoticeSet
         /\ About(Tail(s), x, g) => About(s, x, g)
         /\ About(s, x, g) => About(Tail(s), x, g) \/ OneOf(Head(s), x, g)
         /\ \A k : EndsWith(s, x, g, k) =>
              /\ About(Tail(s), x, g) => EndsWith(Tail(s), x, g, k)
              /\ ~About(Tail(s), x, g) => OneOf(Head(s), x, g) /\ Head(s).kind = k
<1> DEFINE r == Tail(s)
<1>1. /\ r \in Seq(NoticeSet) /\ Head(s) = s[1] /\ s[1] \in NoticeSet
      /\ Len(s) \in Nat /\ Len(s) > 0 /\ Len(r) = Len(s) - 1 /\ Len(r) \in Nat
      /\ \A i \in 1..Len(r) : r[i] = s[i + 1]
  BY HeadTailProperties
<1> HIDE DEF r
<1>2. \A i \in 1..Len(s) : i = 1 \/ (i - 1 \in 1..Len(r) /\ r[i - 1] = s[i])
  BY <1>1
<1>3. \A i \in 1..Len(r) : i + 1 \in 1..Len(s) /\ r[i] = s[i + 1]
  BY <1>1
<1>4. About(r, x, g) => About(s, x, g)
  BY <1>3 DEF About
<1>5. About(s, x, g) => About(r, x, g) \/ OneOf(s[1], x, g)
  BY <1>2 DEF About
<1>6. ASSUME NEW k, EndsWith(s, x, g, k)
      PROVE  /\ About(r, x, g) => EndsWith(r, x, g, k)
             /\ ~About(r, x, g) => OneOf(s[1], x, g) /\ s[1].kind = k
  <2>1. PICK i \in 1..Len(s) : /\ OneOf(s[i], x, g) /\ s[i].kind = k
                               /\ \A j \in 1..Len(s) : j > i => ~OneOf(s[j], x, g)
    BY <1>6 DEF EndsWith
  <2>2. CASE i = 1
    <3>1. \A j \in 1..Len(r) : ~OneOf(r[j], x, g)
      BY <1>1, <1>3, <2>1, <2>2
    <3> QED BY <2>1, <2>2, <3>1 DEF About
  <2>3. CASE i # 1
    <3>1. i - 1 \in 1..Len(r) /\ r[i - 1] = s[i]
      BY <1>2, <2>3
    <3>2. \A j \in 1..Len(r) : j > i - 1 => ~OneOf(r[j], x, g)
      BY <1>1, <1>3, <2>1
    <3> QED BY <2>1, <3>1, <3>2 DEF About, EndsWith
  <2> QED BY <2>2, <2>3
<1>7. /\ r \in Seq(NoticeSet) /\ Head(s) \in NoticeSet
      /\ About(r, x, g) => About(s, x, g)
      /\ About(s, x, g) => About(r, x, g) \/ OneOf(Head(s), x, g)
      /\ \A k : EndsWith(s, x, g, k) =>
           /\ About(r, x, g) => EndsWith(r, x, g, k)
           /\ ~About(r, x, g) => OneOf(Head(s), x, g) /\ Head(s).kind = k
  BY <1>1, <1>4, <1>5, <1>6
<1> QED BY <1>7 DEF r

\* Of two lists of notices the later counts.
LEMMA AboutBoth ==
  ASSUME NEW s \in Seq(NoticeSet), NEW r \in Seq(NoticeSet), NEW x, NEW g
  PROVE  /\ s \o r \in Seq(NoticeSet)
         /\ \A i \in 1..Len(s \o r) : \/ \E j \in 1..Len(s) : (s \o r)[i] = s[j]
                                     \/ \E j \in 1..Len(r) : (s \o r)[i] = r[j]
         /\ About(s \o r, x, g) => About(s, x, g) \/ About(r, x, g)
         /\ \A k : EndsWith(r, x, g, k) \/ (EndsWith(s, x, g, k) /\ ~About(r, x, g)) =>
                     EndsWith(s \o r, x, g, k)
<1> DEFINE w == s \o r
<1>1. /\ w \in Seq(NoticeSet) /\ Len(w) = Len(s) + Len(r) /\ Len(s) \in Nat /\ Len(r) \in Nat
      /\ \A i \in 1..Len(s) + Len(r) : w[i] = IF i <= Len(s) THEN s[i] ELSE r[i - Len(s)]
  BY ConcatProperties
<1> HIDE DEF w
<1>2. \A i \in 1..Len(w) : \/ i \in 1..Len(s) /\ w[i] = s[i]
                          \/ (i > Len(s) /\ i - Len(s) \in 1..Len(r) /\ w[i] = r[i - Len(s)])
  <2> SUFFICES ASSUME NEW i \in 1..Len(w)
               PROVE  \/ i \in 1..Len(s) /\ w[i] = s[i]
                      \/ (i > Len(s) /\ i - Len(s) \in 1..Len(r) /\ w[i] = r[i - Len(s)])
    OBVIOUS
  <2>1. i \in 1..Len(s) + Len(r) /\ w[i] = IF i <= Len(s) THEN s[i] ELSE r[i - Len(s)]
    BY <1>1
  <2>2. i <= Len(s) => i \in 1..Len(s)
    BY <1>1, <2>1
  <2>3. ~(i <= Len(s)) => i > Len(s) /\ i - Len(s) \in 1..Len(r)
    BY <1>1, <2>1
  <2> QED BY <2>1, <2>2, <2>3
<1>3. /\ \A i \in 1..Len(s) : i \in 1..Len(w) /\ w[i] = s[i]
      /\ \A i \in 1..Len(r) : i + Len(s) \in 1..Len(w) /\ w[i + Len(s)] = r[i]
  <2>1. \A i \in 1..Len(r) : i + Len(s) \in 1..Len(s) + Len(r) /\ ~(i + Len(s) <= Len(s))
                             /\ (i + Len(s)) - Len(s) = i
    BY <1>1
  <2> QED BY <1>1, <2>1
<1>4. About(w, x, g) => About(s, x, g) \/ About(r, x, g)
  BY <1>2 DEF About
<1>5. ASSUME NEW k, EndsWith(r, x, g, k) PROVE EndsWith(w, x, g, k)
  <2>1. PICK i \in 1..Len(r) : /\ OneOf(r[i], x, g) /\ r[i].kind = k
                               /\ \A j \in 1..Len(r) : j > i => ~OneOf(r[j], x, g)
    BY <1>5 DEF EndsWith
  <2>2. ASSUME NEW j \in 1..Len(w), j > i + Len(s) PROVE ~OneOf(w[j], x, g)
    <3>1. j - Len(s) \in 1..Len(r) /\ j - Len(s) > i /\ w[j] = r[j - Len(s)]
      BY <1>1, <1>2, <2>2
    <3> QED BY <2>1, <3>1
  <2>3. i + Len(s) \in 1..Len(w) /\ w[i + Len(s)] = r[i]
    BY <1>3
  <2> QED BY <2>1, <2>2, <2>3 DEF EndsWith
<1>6. ASSUME NEW k, EndsWith(s, x, g, k), ~About(r, x, g) PROVE EndsWith(w, x, g, k)
  <2>1. PICK i \in 1..Len(s) : /\ OneOf(s[i], x, g) /\ s[i].kind = k
                               /\ \A j \in 1..Len(s) : j > i => ~OneOf(s[j], x, g)
    BY <1>6 DEF EndsWith
  <2>2. \A j \in 1..Len(w) : j > i => ~OneOf(w[j], x, g)
    BY <1>2, <1>6, <2>1 DEF About
  <2> QED BY <1>3, <2>1, <2>2 DEF EndsWith
<1>7. /\ w \in Seq(NoticeSet)
      /\ \A i \in 1..Len(w) : \/ \E j \in 1..Len(s) : w[i] = s[j]
                              \/ \E j \in 1..Len(r) : w[i] = r[j]
      /\ About(w, x, g) => About(s, x, g) \/ About(r, x, g)
      /\ \A k : EndsWith(r, x, g, k) \/ (EndsWith(s, x, g, k) /\ ~About(r, x, g)) =>
                  EndsWith(w, x, g, k)
  BY <1>1, <1>2, <1>4, <1>5, <1>6
<1> QED BY <1>7 DEF w

LEMMA NoneAbout == ASSUME NEW x, NEW g PROVE ~About(<<>>, x, g)
BY DEF About

\* The memberships a task still has to tell of.
LEMMA PendingAbout ==
  ASSUME NEW t \in Tasks, WebTypes, NEW x, NEW g
  PROVE  <<x, g>> \in Pending(t) <=> About(notices[t], x, g)
<1>1. DOMAIN notices[t] = 1..Len(notices[t])
  BY DEF WebTypes
<1> QED BY <1>1 DEF Pending, Range, About, OneOf

--------------------------------------------------------------------------------
(* Changes.                                                                    *)

\* What a change to new with notices s owes the members.
Fits(new, s) ==
    /\ s \in Seq(NoticeSet)
    /\ \A x \in Users : Gone(config, x) => Gone(new, x)
    /\ \A i \in 1..Len(s) : s[i].kind = "removed" => Gone(new, s[i].user)
    /\ \A x \in Users, g \in Multi :
          \/ Gone(new, x) /\ \E i \in 1..Len(s) : s[i].kind = "removed" /\ s[i].user = x
          \/ IF About(s, x, g) THEN EndsWith(s, x, g, WordOf(new, x, g))
             ELSE x \in new.members[g] <=> x \in config.members[g]

LEMMA RemovedAreUsers ==
  ASSUME WebTypes, NEW t \in Tasks, NEW i \in 1..Len(notices[t]), notices[t][i].kind = "removed"
  PROVE  notices[t][i].user \in Users
<1>1. notices[t][i] \in NoticeSet
  BY DEF WebTypes
<1> QED BY <1>1 DEF NoticeSet

LEMMA ChangeKeeps ==
  ASSUME NEW t \in Tasks, NEW new, NEW s, WebInv, Change(t, new, s), Shaped(new), Fits(new, s)
  PROVE  WebInv'
<1>1. /\ phase[t] = "idle" /\ notices[t] = <<>> /\ config' = new
      /\ phase' = [phase EXCEPT ![t] = "saving"] /\ notices' = [notices EXCEPT ![t] = s]
      /\ saved' = saved /\ bound' = bound /\ told' = told /\ untold' = untold
  BY DEF Change, WebInv, WebTypes
<1>2. /\ changed' = changed \cup {p \in (Memberships(config) \ Memberships(new))
                                        \cup (Memberships(new) \ Memberships(config)) : p[1] \in bound}
      /\ crossed' = crossed \cup {p \in {<<n.user, n.group>> : n \in Range(s)} :
                                     \E q \in Tasks \ {t} : p \in Pending(q)}
  BY DEF Change
<1>3. /\ notices'[t] = s /\ \A q \in Tasks \ {t} : notices'[q] = notices[q]
      /\ \A q \in Tasks : notices[q] \in Seq(NoticeSet)
      /\ s \in Seq(NoticeSet)
  BY <1>1 DEF WebInv, WebTypes, Fits
<1>4. WebTypes'
  BY <1>1, <1>3 DEF WebInv, WebTypes, Shaped, Configs
<1>5. Removals'
  <2> SUFFICES ASSUME NEW q \in Tasks, NEW i \in 1..Len(notices'[q]), notices'[q][i].kind = "removed"
               PROVE  Gone(new, notices'[q][i].user)
    BY <1>1 DEF Removals, Gone
  <2>1. CASE q = t
    BY <1>3, <2>1 DEF Fits
  <2>2. CASE q # t
    <3>1. notices'[q][i].user \in Users /\ Gone(config, notices'[q][i].user)
      BY <1>3, <2>2, RemovedAreUsers DEF WebInv, Removals
    <3> QED BY <3>1 DEF Fits
  <2> QED BY <2>1, <2>2
<1>6. ASSUME NEW x \in Users, NEW g \in Multi, About(s, x, g), NEW q \in Tasks \ {t}, About(notices[q], x, g)
      PROVE  <<x, g>> \in crossed'
  <2>1. <<x, g>> \in Pending(q)
    BY <1>6, PendingAbout DEF WebInv
  <2>2. DOMAIN s = 1..Len(s)
    BY <1>3
  <2>3. <<x, g>> \in {<<n.user, n.group>> : n \in Range(s)}
    BY <1>6, <2>2 DEF About, OneOf, Range
  <2> QED BY <1>2, <2>1, <2>3
<1>7. OneTells'
  <2> SUFFICES ASSUME NEW q \in Tasks, NEW o \in Tasks, NEW x \in Users, NEW g \in Multi,
                      <<x, g>> \notin crossed', About(notices'[q], x, g), About(notices'[o], x, g), q # o
               PROVE  FALSE
    BY DEF OneTells, About, OneOf
  <2>1. CASE q # t /\ o # t
    BY <1>2, <1>3, <2>1 DEF WebInv, OneTells
  <2>2. CASE q = t
    BY <1>3, <1>6, <2>2
  <2>3. CASE o = t
    BY <1>3, <1>6, <2>3
  <2> QED BY <2>1, <2>2, <2>3
<1>8. ASSUME NEW x \in Users, NEW g \in Multi, <<x, g>> \notin crossed' \cup untold'
      PROVE  Leaving(x)' \/ Told(x, g)'
  <2>1. Leaving(x) \/ Told(x, g)
    BY <1>1, <1>2, <1>8 DEF WebInv, ToldTruth
  <2>2. CASE Leaving(x)
    <3>1. Gone(new, x)
      BY <2>2 DEF Leaving, Fits
    <3>2. ASSUME x \in bound
          PROVE  \E q \in Tasks : \E i \in 1..Len(notices'[q]) :
                    notices'[q][i].kind = "removed" /\ notices'[q][i].user = x
      <4>1. PICK q \in Tasks : \E i \in 1..Len(notices[q]) :
                    notices[q][i].kind = "removed" /\ notices[q][i].user = x
        BY <2>2, <3>2 DEF Leaving
      <4>2. q # t
        BY <1>1, <4>1
      <4> QED BY <1>3, <4>1, <4>2
    <3> QED BY <1>1, <3>1, <3>2 DEF Leaving, Gone
  <2>3. CASE Gone(new, x) /\ \E i \in 1..Len(s) : s[i].kind = "removed" /\ s[i].user = x
    BY <1>1, <1>3, <2>3 DEF Leaving, Gone
  <2>4. CASE Told(x, g) /\ About(s, x, g) /\ EndsWith(s, x, g, WordOf(new, x, g))
    <3>1. \A q \in Tasks \ {t} : ~About(notices[q], x, g)
      BY <1>6, <1>8, <2>4
    <3>2. About(notices'[t], x, g) /\ EndsWith(notices'[t], x, g, WordOf(config', x, g))
      BY <1>1, <1>3, <2>4
    <3>3. \A q \in Tasks : About(notices'[q], x, g) => q = t
      BY <1>3, <3>1
    <3>4. /\ \A q \in Tasks : About(notices'[q], x, g) => EndsWith(notices'[q], x, g, WordOf(config', x, g))
          /\ ~\A q \in Tasks : ~About(notices'[q], x, g)
      BY <3>2, <3>3
    <3> QED BY <3>4 DEF Told, About, EndsWith, OneOf, WordOf
  <2>5. CASE Told(x, g) /\ ~About(s, x, g) /\ (x \in new.members[g] <=> x \in config.members[g])
    <3>1. WordOf(new, x, g) = WordOf(config, x, g)
      BY <2>5 DEF WordOf
    <3>2. <<x, g>> \in changed' => <<x, g>> \in changed
      <4>1. <<x, g>> \in Memberships(new) <=> <<x, g>> \in Memberships(config)
        BY <2>5 DEF Memberships
      <4> QED BY <1>2, <4>1
    <3>3. ~About(notices[t], x, g)
      BY <1>1, NoneAbout
    <3>4. \A q \in Tasks : About(notices'[q], x, g) => About(notices[q], x, g) /\ notices'[q] = notices[q]
      BY <1>3, <2>5
    <3>5. \A q \in Tasks : About(notices[q], x, g) => notices'[q] = notices[q]
      BY <1>3, <3>3
    <3>6. /\ \A q \in Tasks : About(notices'[q], x, g) => EndsWith(notices'[q], x, g, WordOf(config', x, g))
          /\ x \in bound' /\ (\A q \in Tasks : ~About(notices'[q], x, g)) =>
                told'[x][g] = WordOf(config', x, g) \/ (told'[x][g] = "none" /\ <<x, g>> \notin changed')
      <4>1. ASSUME NEW q \in Tasks, About(notices'[q], x, g)
            PROVE  EndsWith(notices'[q], x, g, WordOf(config', x, g))
        <5>1. About(notices[q], x, g) /\ notices'[q] = notices[q]
          BY <3>4, <4>1
        <5>2. EndsWith(notices[q], x, g, WordOf(config, x, g))
          BY <2>5, <5>1 DEF Told
        <5> QED BY <1>1, <3>1, <5>1, <5>2
      <4>2. ASSUME x \in bound', \A q \in Tasks : ~About(notices'[q], x, g)
            PROVE  told'[x][g] = WordOf(config', x, g) \/ (told'[x][g] = "none" /\ <<x, g>> \notin changed')
        <5>1. \A q \in Tasks : ~About(notices[q], x, g)
          BY <3>5, <4>2
        <5>2. told[x][g] = WordOf(config, x, g) \/ (told[x][g] = "none" /\ <<x, g>> \notin changed)
          BY <1>1, <2>5, <4>2, <5>1 DEF Told
        <5> QED BY <1>1, <3>1, <3>2, <5>2
      <4> QED BY <4>1, <4>2
    <3> QED BY <3>6 DEF Told, About, EndsWith, OneOf, WordOf
  <2> QED BY <2>1, <2>2, <2>3, <2>4, <2>5 DEF Fits
<1>9. ToldTruth'
  BY <1>8 DEF ToldTruth
<1> QED BY <1>4, <1>5, <1>7, <1>9 DEF WebInv

LEMMA NumbersDiffer ==
  /\ \A n, m : User(n) = User(m) => n = m
  /\ \A n, m : Group(n) = Group(m) => n = m
BY DEF User, Group

LEMMA AddUserKeeps == ASSUME NEW t \in Tasks, WebInv, AddUser(t) PROVE WebInv'
<1> DEFINE new == [config EXCEPT !.users = @ \cup {User(config.nextUser)}, !.nextUser = @ + 1]
<1>1. Change(t, new, <<>>) /\ config.nextUser < MaxUsers /\ Shaped(config) /\ config \in Configs
  BY DEF AddUser, WebInv, WebTypes, Shaped
<1>2. /\ new.users = config.users \cup {User(config.nextUser)} /\ new.nextUser = config.nextUser + 1
      /\ new.groups = config.groups /\ new.members = config.members /\ new.nextGroup = config.nextGroup
      /\ config.nextUser \in 0..MaxUsers /\ config.nextUser + 1 \in 0..MaxUsers
      /\ User(config.nextUser) \in Users
  BY <1>1, WebAssumption DEF Configs, Users
<1>3. new \in Configs
  BY <1>1, <1>2 DEF Configs
<1> HIDE DEF new
<1>4. Shaped(new)
  <2>1. \A n \in 0..MaxUsers - 1 : User(n) \in new.users => n < new.nextUser
    BY <1>1, <1>2, NumbersDiffer DEF Shaped
  <2> QED BY <1>1, <1>2, <1>3, <2>1 DEF Shaped
<1>5. \A x \in Users : Gone(config, x) => Gone(new, x)
  <2>1. config.nextUser \in 0..MaxUsers - 1
    BY <1>1, <1>2, WebAssumption
  <2> QED BY <1>2, <2>1 DEF Gone
<1>6. Fits(new, <<>>)
  BY <1>2, <1>5, NoneAbout DEF Fits
<1> QED BY <1>1, <1>4, <1>6, ChangeKeeps

LEMMA RemoveUserKeeps ==
  ASSUME NEW t \in Tasks, NEW u \in Users, WebInv, RemoveUser(t, u) PROVE WebInv'
<1> DEFINE new == [config EXCEPT !.users = @ \ {u}, !.members = [g \in Multi |-> @[g] \ {u}]]
           n == Notice("removed", NoGroup, u)
           s == <<n>>
<1>1. Change(t, new, s) /\ u \in config.users /\ Shaped(config) /\ config \in Configs
  BY DEF RemoveUser, WebInv, WebTypes, Shaped
<1>2. /\ new.users = config.users \ {u} /\ new.nextUser = config.nextUser
      /\ new.groups = config.groups /\ new.members = [g \in Multi |-> config.members[g] \ {u}]
      /\ new.nextGroup = config.nextGroup
  BY <1>1 DEF Configs
<1>3. new \in Configs
  <2>1. new.members \in [Multi -> SUBSET (Users \cup {Admin})]
    BY <1>1, <1>2 DEF Configs
  <2> QED BY <1>1, <1>2, <2>1 DEF Configs
<1>4. n \in NoticeSet /\ n.kind = "removed" /\ n.user = u /\ n.group = NoGroup
  BY DEF NoticeSet, Notice
<1> HIDE DEF new, n
<1>5. s \in Seq(NoticeSet) /\ Len(s) = 1 /\ s[1] = n
  BY <1>4
<1> HIDE DEF s
<1>6. Shaped(new)
  BY <1>1, <1>2, <1>3 DEF Shaped
<1>7. Gone(new, u) /\ \A x \in Users : Gone(config, x) => Gone(new, x)
  BY <1>1, <1>2 DEF Gone, Shaped
<1>8. \A i \in 1..Len(s) : s[i] = n
  BY <1>5
<1>9. \A x \in Users, g \in Multi : ~About(s, x, g)
  BY <1>4, <1>8, NoGroupIsNone DEF About, OneOf
<1>10. \A x \in Users, g \in Multi : x # u => (x \in new.members[g] <=> x \in config.members[g])
  BY <1>2
<1>11. \E i \in 1..Len(s) : s[i].kind = "removed" /\ s[i].user = u
  BY <1>4, <1>5
<1>12. Fits(new, s)
  <2>1. \A x \in Users, g \in Multi :
          \/ Gone(new, x) /\ \E i \in 1..Len(s) : s[i].kind = "removed" /\ s[i].user = x
          \/ IF About(s, x, g) THEN EndsWith(s, x, g, WordOf(new, x, g))
             ELSE x \in new.members[g] <=> x \in config.members[g]
    BY <1>7, <1>9, <1>10, <1>11
  <2> QED BY <1>4, <1>5, <1>7, <1>8, <2>1 DEF Fits
<1> QED BY <1>1, <1>6, <1>12, ChangeKeeps

LEMMA AddGroupKeeps ==
  ASSUME NEW t \in Tasks, NEW S \in MemberLists, WebInv, AddGroup(t, S) PROVE WebInv'
<1> DEFINE g == Group(config.nextGroup)
           new == [config EXCEPT !.groups = @ \cup {g}, !.members[g] = S, !.nextGroup = @ + 1]
           s == Notices("in", g, S \ {Admin})
<1>1. Change(t, new, s) /\ config.nextGroup < MaxGroups /\ Shaped(config) /\ config \in Configs
  BY DEF AddGroup, WebInv, WebTypes, Shaped
<1>2. /\ new.groups = config.groups \cup {g} /\ new.nextGroup = config.nextGroup + 1
      /\ new.users = config.users /\ new.members = [config.members EXCEPT ![g] = S]
      /\ new.nextUser = config.nextUser
      /\ config.nextGroup \in 0..MaxGroups - 1 /\ config.nextGroup + 1 \in 0..MaxGroups
      /\ g \in Multi
  BY <1>1, WebAssumption DEF Configs, Multi
<1>3. S \in SUBSET (Users \cup {Admin}) /\ S \ {Admin} \in SUBSET (Users \cup {Admin})
  BY WebAssumption
<1>4. new \in Configs
  <2>1. new.members \in [Multi -> SUBSET (Users \cup {Admin})]
    BY <1>1, <1>2, <1>3 DEF Configs
  <2> QED BY <1>1, <1>2, <2>1 DEF Configs
<1>5. g \notin config.groups
  <2>1. ~(config.nextGroup < config.nextGroup)
    BY <1>2
  <2> QED BY <1>1, <1>2, <2>1 DEF Shaped
<1>6. TellsAll(s, "in", g, S \ {Admin})
  BY <1>2, <1>3, NoticesTellAll
<1>7. \A h \in Multi : new.members[h] = IF h = g THEN S ELSE config.members[h]
  BY <1>1, <1>2 DEF Configs
<1>8. \A n \in 0..MaxGroups - 1 : Group(n) = g => n = config.nextGroup
  BY NumbersDiffer
<1> HIDE DEF new, s, g
<1>9. Shaped(new)
  <2>1. \A n \in 0..MaxGroups - 1 : Group(n) \in new.groups => n < new.nextGroup
    BY <1>1, <1>2, <1>8 DEF Shaped
  <2>2. \A h \in Multi \ new.groups : new.members[h] = {}
    BY <1>1, <1>2, <1>7 DEF Shaped
  <2> QED BY <1>1, <1>2, <1>4, <2>1, <2>2 DEF Shaped
<1>10. \A x \in Users : Gone(config, x) => Gone(new, x)
  BY <1>2 DEF Gone
<1>11. ASSUME NEW x \in Users, NEW h \in Multi
       PROVE  IF About(s, x, h) THEN EndsWith(s, x, h, WordOf(new, x, h))
              ELSE x \in new.members[h] <=> x \in config.members[h]
  <2>1. /\ About(s, x, h) <=> x \in S \ {Admin} /\ h = g
        /\ About(s, x, h) => EndsWith(s, x, h, "in")
    BY <1>6, AllAbout
  <2>2. x # Admin
    BY DEF Users, User, Admin
  <2>3. h = g => config.members[h] = {}
    BY <1>1, <1>5 DEF Shaped
  <2> QED BY <1>7, <2>1, <2>2, <2>3 DEF WordOf
<1>12. Fits(new, s)
  <2>1. s \in Seq(NoticeSet) /\ \A i \in 1..Len(s) : s[i].kind # "removed"
    BY <1>6 DEF TellsAll
  <2> QED BY <1>10, <1>11, <2>1 DEF Fits
<1> QED BY <1>1, <1>9, <1>12, ChangeKeeps DEF g

LEMMA DeleteGroupKeeps ==
  ASSUME NEW t \in Tasks, NEW g \in Multi, WebInv, DeleteGroup(t, g) PROVE WebInv'
<1> DEFINE new == [config EXCEPT !.groups = @ \ {g}, !.members[g] = {}]
           M == LastMembers(g)
           s == Notices("out", g, M)
<1>1. Change(t, new, s) /\ Shaped(config) /\ config \in Configs
  BY DEF DeleteGroup, WebInv, WebTypes, Shaped
<1>2. /\ new.groups = config.groups \ {g} /\ new.nextGroup = config.nextGroup
      /\ new.users = config.users /\ new.members = [config.members EXCEPT ![g] = {}]
      /\ new.nextUser = config.nextUser
  BY <1>1 DEF Configs
<1>3. M \in SUBSET (Users \cup {Admin}) /\ M = config.members[g] \ {Admin}
  BY <1>1 DEF Configs, LastMembers
<1>4. new \in Configs
  <2>1. new.members \in [Multi -> SUBSET (Users \cup {Admin})]
    BY <1>1, <1>2 DEF Configs
  <2> QED BY <1>1, <1>2, <2>1 DEF Configs
<1>5. TellsAll(s, "out", g, M)
  BY <1>3, NoticesTellAll
<1>6. \A h \in Multi : new.members[h] = IF h = g THEN {} ELSE config.members[h]
  BY <1>1, <1>2 DEF Configs
<1> HIDE DEF new, s, M
<1>7. Shaped(new)
  BY <1>1, <1>2, <1>4, <1>6 DEF Shaped
<1>8. \A x \in Users : Gone(config, x) => Gone(new, x)
  BY <1>2 DEF Gone
<1>9. ASSUME NEW x \in Users, NEW h \in Multi
      PROVE  IF About(s, x, h) THEN EndsWith(s, x, h, WordOf(new, x, h))
             ELSE x \in new.members[h] <=> x \in config.members[h]
  <2>1. /\ About(s, x, h) <=> x \in M /\ h = g
        /\ About(s, x, h) => EndsWith(s, x, h, "out")
    BY <1>5, AllAbout
  <2>2. x # Admin
    BY DEF Users, User, Admin
  <2> QED BY <1>3, <1>6, <2>1, <2>2 DEF WordOf
<1>10. Fits(new, s)
  <2>1. s \in Seq(NoticeSet) /\ \A i \in 1..Len(s) : s[i].kind # "removed"
    BY <1>5 DEF TellsAll
  <2> QED BY <1>8, <1>9, <2>1 DEF Fits
<1> QED BY <1>1, <1>7, <1>10, ChangeKeeps

LEMMA ManageMembersKeeps ==
  ASSUME NEW t \in Tasks, NEW g \in Multi, NEW A \in MemberLists, NEW R \in MemberLists,
         WebInv, ManageMembers(t, g, A, R)
  PROVE  WebInv'
<1> DEFINE new == [config EXCEPT !.members[g] = (@ \cup A) \ R]
           a == Notices("in", g, A)
           r == Notices("out", g, R)
           s == a \o r
<1>1. Change(t, new, s) /\ g \in config.groups /\ Shaped(config) /\ config \in Configs
  BY DEF ManageMembers, WebInv, WebTypes, Shaped
<1>2. /\ new.groups = config.groups /\ new.nextGroup = config.nextGroup
      /\ new.users = config.users /\ new.nextUser = config.nextUser
      /\ new.members = [config.members EXCEPT ![g] = (config.members[g] \cup A) \ R]
  BY <1>1 DEF Configs
<1>3. A \in SUBSET (Users \cup {Admin}) /\ R \in SUBSET (Users \cup {Admin})
  BY WebAssumption
<1>4. new \in Configs
  <2>1. new.members \in [Multi -> SUBSET (Users \cup {Admin})]
    BY <1>1, <1>2, <1>3 DEF Configs
  <2> QED BY <1>1, <1>2, <2>1 DEF Configs
<1>5. TellsAll(a, "in", g, A) /\ TellsAll(r, "out", g, R)
  BY <1>3, NoticesTellAll
<1>6. \A h \in Multi : new.members[h] = IF h = g THEN (config.members[h] \cup A) \ R ELSE config.members[h]
  BY <1>1, <1>2 DEF Configs
<1> HIDE DEF new, a, r
<1>7. a \in Seq(NoticeSet) /\ r \in Seq(NoticeSet)
  BY <1>5 DEF TellsAll
<1>8. Shaped(new)
  BY <1>1, <1>2, <1>4, <1>6 DEF Shaped
<1>9. \A x \in Users : Gone(config, x) => Gone(new, x)
  BY <1>2 DEF Gone
<1>10. ASSUME NEW x \in Users, NEW h \in Multi
       PROVE  IF About(s, x, h) THEN EndsWith(s, x, h, WordOf(new, x, h))
              ELSE x \in new.members[h] <=> x \in config.members[h]
  <2>1. /\ About(a, x, h) <=> x \in A /\ h = g
        /\ About(a, x, h) => EndsWith(a, x, h, "in")
        /\ About(r, x, h) <=> x \in R /\ h = g
        /\ About(r, x, h) => EndsWith(r, x, h, "out")
    BY <1>5, AllAbout
  <2>2. /\ About(s, x, h) => About(a, x, h) \/ About(r, x, h)
        /\ EndsWith(r, x, h, "out") => EndsWith(s, x, h, "out")
        /\ EndsWith(a, x, h, "in") /\ ~About(r, x, h) => EndsWith(s, x, h, "in")
    BY <1>7, AboutBoth
  <2>3. About(r, x, h) => WordOf(new, x, h) = "out" /\ EndsWith(s, x, h, "out")
    BY <1>6, <2>1, <2>2 DEF WordOf
  <2>4. About(a, x, h) /\ ~About(r, x, h) => WordOf(new, x, h) = "in" /\ EndsWith(s, x, h, "in")
    BY <1>6, <2>1, <2>2 DEF WordOf
  <2>5. ~About(s, x, h) => ~About(a, x, h) /\ ~About(r, x, h)
    BY <2>3, <2>4 DEF EndsWith, About
  <2> QED BY <1>6, <2>1, <2>2, <2>3, <2>4, <2>5
<1>11. Fits(new, s)
  <2>1. \A i \in 1..Len(a) : a[i].kind # "removed"
    BY <1>5 DEF TellsAll
  <2>2. \A i \in 1..Len(r) : r[i].kind # "removed"
    BY <1>5 DEF TellsAll
  <2>3. /\ s \in Seq(NoticeSet)
        /\ \A i \in 1..Len(s) : \/ \E j \in 1..Len(a) : s[i] = a[j]
                                \/ \E j \in 1..Len(r) : s[i] = r[j]
    BY <1>7, AboutBoth
  <2>4. \A i \in 1..Len(s) : s[i].kind # "removed"
    BY <2>1, <2>2, <2>3
  <2> QED BY <1>9, <1>10, <2>3, <2>4 DEF Fits
<1> QED BY <1>1, <1>8, <1>11, ChangeKeeps

--------------------------------------------------------------------------------
(* Saving, telling, binding, and the rest.                                     *)

\* Steps that change neither the groups nor the notices.
LEMMA NothingTold ==
  ASSUME WebInv, config' = config, saved' = saved, notices' = notices, bound' = bound, told' = told,
         changed' = changed, crossed' = crossed, untold' = untold, phase' = phase
  PROVE  WebInv'
<1>1. WebTypes'
  BY DEF WebInv, WebTypes, Shaped
<1>2. Removals'
  BY DEF WebInv, Removals, Gone
<1>3. OneTells'
  BY DEF WebInv, OneTells, About, OneOf
<1>4. ToldTruth'
  BY DEF WebInv, ToldTruth, Leaving, Gone, Told, About, OneOf, EndsWith, WordOf
<1> QED BY <1>1, <1>2, <1>3, <1>4 DEF WebInv

LEMMA SaveKeeps == ASSUME NEW t \in Tasks, WebInv, Save(t) PROVE WebInv'
<1>1. /\ phase' = [phase EXCEPT ![t] = IF notices[t] = <<>> THEN "idle" ELSE "telling"]
      /\ saved' = config /\ config' = config /\ notices' = notices /\ bound' = bound /\ told' = told
      /\ changed' = changed /\ crossed' = crossed /\ untold' = untold
  BY DEF Save, history
<1>2. WebTypes'
  BY <1>1 DEF WebInv, WebTypes, Shaped
<1>3. Removals'
  BY <1>1 DEF WebInv, Removals, Gone
<1>4. OneTells'
  BY <1>1 DEF WebInv, OneTells, About, OneOf
<1>5. ToldTruth'
  BY <1>1, SMTT(60) DEF WebInv, ToldTruth, Leaving, Gone, Told, About, OneOf, EndsWith, WordOf
<1> QED BY <1>2, <1>3, <1>4, <1>5 DEF WebInv

LEMMA SaveFailsKeeps == ASSUME NEW t \in Tasks, WebInv, SaveFails(t) PROVE WebInv'
<1>1. /\ phase' = [phase EXCEPT ![t] = "idle"] /\ notices' = [notices EXCEPT ![t] = <<>>]
      /\ saved' \in {saved, Torn} /\ config' = config /\ bound' = bound /\ told' = told
      /\ changed' = changed /\ crossed' = crossed
      /\ untold' = untold \cup {p \in Users \X Multi :
                                  p \in Pending(t) \/ <<p[1], NoGroup>> \in Pending(t)}
  BY DEF SaveFails, Remains
<1>2. /\ notices'[t] = <<>> /\ \A q \in Tasks \ {t} : notices'[q] = notices[q]
      /\ \A q \in Tasks : notices[q] \in Seq(NoticeSet)
  BY <1>1 DEF WebInv, WebTypes
<1>3. WebTypes'
  <2>1. ASSUME NEW q \in Tasks PROVE notices'[q] \in Seq(NoticeSet)
    <3>1. CASE q = t
      <4>1. notices'[q] = <<>>
        BY <1>2, <3>1
      <4> QED BY <4>1
    <3>2. CASE q # t
      BY <1>2, <3>2
    <3> QED BY <3>1, <3>2
  <2> QED BY <1>1, <1>2, <2>1 DEF WebInv, WebTypes, Shaped
<1>4. \A q \in Tasks : \A i \in 1..Len(notices'[q]) : q # t /\ notices'[q] = notices[q]
  BY <1>2
<1>5. Removals'
  BY <1>1, <1>4 DEF WebInv, Removals, Gone
<1>6. OneTells'
  BY <1>1, <1>4 DEF WebInv, OneTells, About, OneOf
<1>7. ASSUME NEW x \in Users, NEW g \in Multi, <<x, g>> \notin crossed' \cup untold'
      PROVE  Leaving(x)' \/ Told(x, g)'
  <2>1. /\ Leaving(x) \/ Told(x, g)
        /\ <<x, g>> \notin Pending(t) /\ <<x, NoGroup>> \notin Pending(t)
    BY <1>1, <1>7 DEF WebInv, ToldTruth
  <2>2. ~About(notices[t], x, g) /\ ~About(notices[t], x, NoGroup)
    BY <2>1, PendingAbout DEF WebInv
  <2>3. \A i \in 1..Len(notices[t]) : ~(notices[t][i].kind = "removed" /\ notices[t][i].user = x)
    <3> SUFFICES ASSUME NEW i \in 1..Len(notices[t]), notices[t][i].kind = "removed", notices[t][i].user = x
                 PROVE  FALSE
      OBVIOUS
    <3>1. notices[t][i] \in NoticeSet
      BY <1>2
    <3>2. notices[t][i].group = NoGroup
      BY <3>1 DEF NoticeSet
    <3> QED BY <2>2, <3>2 DEF About, OneOf
  <2>4. CASE Leaving(x)
    <3>1. x \in bound => \E q \in Tasks : \E i \in 1..Len(notices'[q]) :
                            notices'[q][i].kind = "removed" /\ notices'[q][i].user = x
      <4>1. \A q \in Tasks : q # t => notices'[q] = notices[q]
        BY <1>2
      <4> QED BY <2>3, <2>4, <4>1 DEF Leaving
    <3> QED BY <1>1, <2>4, <3>1 DEF Leaving, Gone
  <2>5. CASE Told(x, g)
    <3>1. \A q \in Tasks : /\ About(notices'[q], x, g) <=> About(notices[q], x, g)
                           /\ About(notices[q], x, g) => notices'[q] = notices[q]
      BY <1>2, <2>2, NoneAbout
    <3>2. /\ \A q \in Tasks : About(notices'[q], x, g) => EndsWith(notices'[q], x, g, WordOf(config', x, g))
          /\ x \in bound' /\ (\A q \in Tasks : ~About(notices'[q], x, g)) =>
                told'[x][g] = WordOf(config', x, g) \/ (told'[x][g] = "none" /\ <<x, g>> \notin changed')
      BY <1>1, <2>5, <3>1 DEF Told
    <3> QED BY <3>2 DEF Told, About, EndsWith, OneOf, WordOf
  <2> QED BY <2>1, <2>4, <2>5
<1>8. ToldTruth'
  BY <1>7 DEF ToldTruth
<1> QED BY <1>3, <1>5, <1>6, <1>8 DEF WebInv

LEMMA TellKeeps == ASSUME NEW t \in Tasks, WebInv, Tell(t) PROVE WebInv'
<1> DEFINE s == notices[t]
           n == Head(s)
           r == Tail(s)
<1>1. /\ phase[t] = "telling" /\ s # <<>> /\ s \in Seq(NoticeSet)
      /\ config' = config /\ saved' = saved /\ changed' = changed /\ crossed' = crossed /\ untold' = untold
      /\ notices' = [notices EXCEPT ![t] = r]
      /\ phase' = [phase EXCEPT ![t] = IF Len(s) = 1 THEN "idle" ELSE @]
  BY DEF Tell, WebInv, WebTypes
<1>2. IF n.kind = "removed" THEN bound' = bound \ {n.user} /\ told' = told
      ELSE /\ bound' = bound
           /\ told' = IF n.user \in bound THEN [told EXCEPT ![n.user][n.group] = n.kind] ELSE told
  BY DEF Tell
<1>3. /\ n \in NoticeSet /\ r \in Seq(NoticeSet) /\ Len(s) \in Nat /\ Len(s) > 0
      /\ n = s[1] /\ Len(r) = Len(s) - 1
      /\ \A i \in 1..Len(r) : i + 1 \in 1..Len(s) /\ r[i] = s[i + 1]
      /\ \A i \in 1..Len(s) : i = 1 \/ (i - 1 \in 1..Len(r) /\ r[i - 1] = s[i])
  <2>1. /\ n = s[1] /\ r \in Seq(NoticeSet) /\ Len(s) \in Nat /\ Len(s) > 0 /\ s[1] \in NoticeSet
        /\ Len(r) = Len(s) - 1 /\ \A i \in 1..Len(r) : r[i] = s[i + 1]
    BY <1>1, HeadTailProperties
  <2> HIDE DEF s, r, n
  <2> QED BY <2>1
<1>4. n.kind # "removed" => n.kind \in {"in", "out"} /\ n.group \in Multi
  BY <1>3 DEF NoticeSet
<1>5. n.kind = "removed" => n.group \notin Multi
  BY <1>3, NoGroupIsNone DEF NoticeSet
<1>6. ASSUME NEW x, NEW g
      PROVE  /\ About(r, x, g) => About(s, x, g)
             /\ About(s, x, g) => About(r, x, g) \/ OneOf(n, x, g)
             /\ \A k : EndsWith(s, x, g, k) =>
                  /\ About(r, x, g) => EndsWith(r, x, g, k)
                  /\ ~About(r, x, g) => OneOf(n, x, g) /\ n.kind = k
  BY <1>1, AboutTheRest
<1>7. /\ notices'[t] = r /\ \A q \in Tasks \ {t} : notices'[q] = notices[q]
  BY <1>1 DEF WebInv, WebTypes
<1> HIDE DEF s, n, r
<1>8. WebTypes'
  <2>1. bound' \subseteq Users /\ told' \in [Users -> [Multi -> {"none", "in", "out"}]]
    <3>1. bound \subseteq Users /\ told \in [Users -> [Multi -> {"none", "in", "out"}]]
      BY DEF WebInv, WebTypes
    <3>2. CASE n.kind = "removed" \/ n.user \notin bound
      BY <1>2, <3>1, <3>2
    <3>3. CASE n.kind # "removed" /\ n.user \in bound
      <4> DEFINE row == [told[n.user] EXCEPT ![n.group] = n.kind]
      <4>1. n.user \in Users /\ told[n.user] \in [Multi -> {"none", "in", "out"}]
        BY <3>1, <3>3
      <4>2. row \in [Multi -> {"none", "in", "out"}]
        BY <1>4, <3>3, <4>1
      <4>3. bound' = bound /\ told' = [told EXCEPT ![n.user] = row]
        BY <1>2, <3>3
      <4> HIDE DEF row
      <4> QED BY <3>1, <4>1, <4>2, <4>3
    <3> QED BY <3>2, <3>3
  <2>2. \A q \in Tasks : notices'[q] \in Seq(NoticeSet)
    BY <1>3, <1>7 DEF WebInv, WebTypes
  <2>3. /\ phase'[t] = "idle" => r = <<>>
        /\ phase'[t] = "telling" => r # <<>>
    BY <1>1, <1>3 DEF WebInv, WebTypes
  <2>4. phase' \in [Tasks -> {"idle", "saving", "telling"}] /\ notices' \in [Tasks -> Seq(NoticeSet)]
    BY <1>1, <2>2 DEF WebInv, WebTypes
  <2>5. \A q \in Tasks : /\ phase'[q] = "idle" => notices'[q] = <<>>
                         /\ phase'[q] = "telling" => notices'[q] # <<>>
    BY <1>1, <1>7, <2>3 DEF WebInv, WebTypes
  <2> QED BY <1>1, <2>1, <2>4, <2>5 DEF WebInv, WebTypes, Shaped
<1>9. Removals'
  <2>1. \A q \in Tasks : \A i \in 1..Len(notices'[q]) :
           \E j \in 1..Len(notices[q]) : notices'[q][i] = notices[q][j]
    <3> SUFFICES ASSUME NEW q \in Tasks, NEW i \in 1..Len(notices'[q])
                 PROVE  \E j \in 1..Len(notices[q]) : notices'[q][i] = notices[q][j]
      OBVIOUS
    <3>1. CASE q = t
      <4>1. i \in 1..Len(r) /\ notices'[q][i] = r[i]
        BY <1>7, <3>1
      <4> QED BY <1>3, <3>1, <4>1 DEF s
    <3>2. CASE q # t
      BY <1>7, <3>2
    <3> QED BY <3>1, <3>2
  <2> QED BY <1>1, <2>1 DEF WebInv, Removals, Gone
<1>10. \A q \in Tasks, x \in Users, g \in Multi : About(notices'[q], x, g) => About(notices[q], x, g)
  BY <1>6, <1>7 DEF s
<1>11. OneTells'
  <2>1. \A q, o \in Tasks : \A x \in Users, g \in Multi :
           <<x, g>> \notin crossed' /\ About(notices'[q], x, g) /\ About(notices'[o], x, g) => q = o
    BY <1>1, <1>10 DEF WebInv, OneTells
  <2> QED BY <2>1 DEF OneTells, About, OneOf
<1>12. ASSUME NEW x \in Users, NEW g \in Multi, <<x, g>> \notin crossed' \cup untold'
       PROVE  Leaving(x)' \/ Told(x, g)'
  <2>1. Leaving(x) \/ Told(x, g)
    BY <1>1, <1>12 DEF WebInv, ToldTruth
  <2>2. CASE Leaving(x)
    <3>1. ASSUME x \in bound'
          PROVE  \E q \in Tasks : \E i \in 1..Len(notices'[q]) :
                    notices'[q][i].kind = "removed" /\ notices'[q][i].user = x
      <4>1. x \in bound
        BY <1>2, <3>1
      <4>2. PICK q \in Tasks : \E i \in 1..Len(notices[q]) :
                    notices[q][i].kind = "removed" /\ notices[q][i].user = x
        BY <2>2, <4>1 DEF Leaving
      <4>3. CASE q # t
        BY <1>7, <4>2, <4>3
      <4>4. CASE q = t
        <5>1. PICK i \in 1..Len(s) : s[i].kind = "removed" /\ s[i].user = x
          BY <4>2, <4>4 DEF s
        <5>2. i # 1
          BY <1>2, <1>3, <3>1, <5>1
        <5>3. i - 1 \in 1..Len(r) /\ r[i - 1] = s[i]
          BY <1>3, <5>2
        <5> QED BY <1>7, <5>1, <5>3
      <4> QED BY <4>3, <4>4
    <3> QED BY <1>1, <2>2, <3>1 DEF Leaving, Gone
  <2>3. CASE Told(x, g)
    <3>1. ASSUME NEW q \in Tasks, About(notices'[q], x, g)
          PROVE  EndsWith(notices'[q], x, g, WordOf(config', x, g))
      <4>1. EndsWith(notices[q], x, g, WordOf(config, x, g))
        BY <1>10, <2>3, <3>1 DEF Told
      <4> QED BY <1>1, <1>6, <1>7, <3>1, <4>1 DEF s
    <3>2. ASSUME x \in bound', \A q \in Tasks : ~About(notices'[q], x, g)
          PROVE  told'[x][g] = WordOf(config', x, g) \/ (told'[x][g] = "none" /\ <<x, g>> \notin changed')
      <4>1. x \in bound
        BY <1>2, <3>2
      <4>2. CASE About(s, x, g)
        <5>1. EndsWith(s, x, g, WordOf(config, x, g)) /\ ~About(r, x, g)
          BY <1>7, <2>3, <3>2, <4>2 DEF Told, s
        <5>2. OneOf(n, x, g) /\ n.kind = WordOf(config, x, g)
          BY <1>6, <5>1
        <5>3. n.kind # "removed" /\ n.user = x /\ n.group = g
          BY <1>5, <5>2 DEF OneOf
        <5>4. told' = [told EXCEPT ![x][g] = n.kind]
          BY <1>2, <4>1, <5>3
        <5>5. told'[x][g] = n.kind
          BY <5>4 DEF WebInv, WebTypes
        <5> QED BY <1>1, <5>2, <5>5
      <4>3. CASE ~About(s, x, g)
        <5>1. \A q \in Tasks : ~About(notices[q], x, g)
          BY <1>7, <3>2, <4>3 DEF s
        <5>2. told[x][g] = WordOf(config, x, g) \/ (told[x][g] = "none" /\ <<x, g>> \notin changed)
          BY <2>3, <4>1, <5>1 DEF Told
        <5>3. ~OneOf(n, x, g)
          <6>1. \A i \in 1..Len(s) : ~OneOf(s[i], x, g)
            BY <4>3 DEF About
          <6> QED BY <1>3, <6>1
        <5>4. told'[x][g] = told[x][g]
          BY <1>2, <1>4, <5>3 DEF OneOf, WebInv, WebTypes
        <5> QED BY <1>1, <5>2, <5>4
      <4> QED BY <4>2, <4>3
    <3> QED BY <3>1, <3>2 DEF Told, About, EndsWith, OneOf, WordOf
  <2> QED BY <2>1, <2>2, <2>3
<1>13. ToldTruth'
  BY <1>12 DEF ToldTruth
<1> QED BY <1>8, <1>9, <1>11, <1>13 DEF WebInv

LEMMA BindKeeps == ASSUME NEW u \in Users, WebInv, Bind(u) PROVE WebInv'
<1>1. /\ u \in config.users /\ bound' = bound \cup {u}
      /\ told' = [told EXCEPT ![u] = [g \in Multi |-> "none"]]
      /\ changed' = {p \in changed : p[1] # u}
      /\ config' = config /\ saved' = saved /\ phase' = phase /\ notices' = notices
      /\ crossed' = crossed /\ untold' = untold
  BY DEF Bind, settings
<1>2. WebTypes'
  BY <1>1 DEF WebInv, WebTypes, Shaped
<1>3. Removals'
  BY <1>1 DEF WebInv, Removals, Gone
<1>4. OneTells'
  BY <1>1 DEF WebInv, OneTells, About, OneOf
<1>5. ASSUME NEW x \in Users, NEW g \in Multi, <<x, g>> \notin crossed' \cup untold'
      PROVE  Leaving(x)' \/ Told(x, g)'
  <2>1. Leaving(x) \/ Told(x, g)
    BY <1>1, <1>5 DEF WebInv, ToldTruth
  <2>2. CASE x # u
    <3>1. /\ x \in bound' <=> x \in bound
          /\ told'[x][g] = told[x][g] /\ (<<x, g>> \in changed' <=> <<x, g>> \in changed)
      BY <1>1, <2>2 DEF WebInv, WebTypes
    <3> QED BY <1>1, <2>1, <3>1, SMTT(60) DEF Leaving, Gone, Told, About, EndsWith, OneOf, WordOf
  <2>3. CASE x = u
    <3>1. ~Leaving(x)
      BY <1>1, <2>3 DEF Leaving, Gone
    <3>2. told'[x][g] = "none" /\ <<x, g>> \notin changed'
      BY <1>1, <2>3 DEF WebInv, WebTypes
    <3> QED BY <1>1, <2>1, <3>1, <3>2 DEF Told, About, EndsWith, OneOf, WordOf
  <2> QED BY <2>2, <2>3
<1>6. ToldTruth'
  BY <1>5 DEF ToldTruth
<1> QED BY <1>2, <1>3, <1>4, <1>6 DEF WebInv

LEMMA RestartKeeps == ASSUME WebInv, Restart PROVE WebInv'
<1>1. /\ saved' \in {saved, Torn} /\ config' \in {saved', config}
      /\ config' = saved' => saved' # Torn \/ config' = config
      /\ phase' = [t \in Tasks |-> "idle"] /\ notices' = [t \in Tasks |-> <<>>]
      /\ bound' = {} /\ told' = told
  BY DEF Restart, Remains
<1>2. Shaped(config')
  BY <1>1 DEF WebInv, WebTypes
<1>3. \A t \in Tasks : notices'[t] = <<>> /\ Len(notices'[t]) = 0
  BY <1>1
<1>4. WebTypes'
  <2>1. saved' = Torn \/ Shaped(saved')
    BY <1>1 DEF WebInv, WebTypes
  <2>2. notices' \in [Tasks -> Seq(NoticeSet)]
    BY <1>1
  <2> QED BY <1>1, <1>2, <1>3, <2>1, <2>2 DEF WebInv, WebTypes, Shaped
<1>5. Removals' /\ OneTells'
  BY <1>3 DEF Removals, OneTells, About
<1>6. ToldTruth'
  BY <1>1, <1>3 DEF ToldTruth, Told, About
<1> QED BY <1>4, <1>5, <1>6 DEF WebInv

LEMMA WebStarts == WebInit => WebInv
<1> SUFFICES ASSUME WebInit PROVE WebInv
  OBVIOUS
<1>1. /\ config \in InitialConfigs /\ saved = config /\ bound = {}
      /\ \A t \in Tasks : phase[t] = "idle" /\ notices[t] = <<>> /\ Len(notices[t]) = 0
  BY DEF WebInit
<1>2. Shaped(config)
  BY <1>1, WebAssumption DEF Shaped
<1>3. WebTypes
  <2>1. /\ notices \in [Tasks -> Seq(NoticeSet)] /\ phase \in [Tasks -> {"idle", "saving", "telling"}]
        /\ told \in [Users -> [Multi -> {"none", "in", "out"}]]
    BY DEF WebInit
  <2> QED BY <1>1, <1>2, <2>1 DEF WebTypes
<1>4. Removals /\ OneTells
  BY <1>1 DEF Removals, OneTells, About
<1>5. ToldTruth
  BY <1>1 DEF ToldTruth, Told, About
<1> QED BY <1>3, <1>4, <1>5 DEF WebInv

LEMMA WebHolds == WebSpec => []WebInv
<1>1. WebInv /\ [WebNext]_webVars => WebInv'
  <2> SUFFICES ASSUME WebInv, [WebNext]_webVars PROVE WebInv'
    OBVIOUS
  <2>1. ASSUME NEW t \in Tasks, ChangeNext(t) PROVE WebInv'
    BY <2>1, AddUserKeeps, RemoveUserKeeps, AddGroupKeeps, DeleteGroupKeeps, ManageMembersKeeps,
       SaveKeeps, SaveFailsKeeps, TellKeeps DEF ChangeNext
  <2>2. ASSUME NEW u \in Users, Bind(u) PROVE WebInv'
    BY <2>2, BindKeeps
  <2>3. CASE MessageNext
    <3>1. /\ config' = config /\ saved' = saved /\ notices' = notices /\ bound' = bound /\ told' = told
          /\ changed' = changed /\ crossed' = crossed /\ untold' = untold /\ phase' = phase
      BY <2>3 DEF MessageNext, Send, Flush, WriteLine, Publish, WriteFails, Midnight, PushStored, Deliver,
                  settings, history
    <3> QED BY <3>1, NothingTold
  <2>4. CASE Restart
    BY <2>4, RestartKeeps
  <2>5. CASE UNCHANGED webVars
    <3>1. /\ config' = config /\ saved' = saved /\ notices' = notices /\ bound' = bound /\ told' = told
          /\ changed' = changed /\ crossed' = crossed /\ untold' = untold /\ phase' = phase
      BY <2>5 DEF webVars, settings, history
    <3> QED BY <3>1, NothingTold
  <2> QED BY <2>1, <2>2, <2>3, <2>4, <2>5 DEF WebNext
<1> QED BY <1>1, WebStarts, PTL DEF WebSpec

LEMMA ToldTrue == ASSUME WebInv PROVE NoticesTell
<1> SUFFICES ASSUME \A t \in Tasks : phase[t] = "idle", NEW u \in bound, NEW g \in Multi,
                    <<u, g>> \notin crossed \cup untold
             PROVE  \/ told[u][g] = IF u \in config.members[g] THEN "in" ELSE "out"
                    \/ told[u][g] = "none" /\ <<u, g>> \notin changed
  BY DEF NoticesTell
<1>1. u \in Users /\ \A t \in Tasks : notices[t] = <<>> /\ Len(notices[t]) = 0
  BY DEF WebInv, WebTypes
<1>2. ~Leaving(u)
  BY <1>1 DEF Leaving
<1>3. Told(u, g)
  BY <1>1, <1>2 DEF WebInv, ToldTruth
<1> QED BY <1>1, <1>3, NoneAbout DEF Told, WordOf

\* When no change is on its way, the last notice of a bound user and a group says what
\* the groups say (notify_group_change), but for the memberships the property names.
THEOREM NoticesAreTrue == WebSpec => []NoticesTell
<1>1. WebInv => NoticesTell
  BY ToldTrue
<1> QED BY <1>1, WebHolds, PTL

--------------------------------------------------------------------------------
(* Messages.  The ids of a file rise in everything that holds them, and from   *)
(* what was shown over what is stored and written to what waits.               *)

Rising(s) == \A i, j \in 1..Len(s) : i < j => s[i] < s[j]
Before(s, r) == \A m, n : Occurs(m, s) /\ Occurs(n, r) => m < n
FileOf(m) == message[m].file
Accepted(m) == m \in 1..Len(message)
InOrder(s) == \A i, j \in 1..Len(s) : i < j /\ FileOf(s[i]) = FileOf(s[j]) => s[i] < s[j]
InAny(m, q) == \E i \in 1..Len(q) : Occurs(m, q[i])
HandedOn(m) == InAny(m, stored) \/ Occurs(m, page)

Entries == [id : Nat, to : SUBSET Users]
MessageTypes ==
    /\ message \in Seq([from : Users \cup {Admin}, file : Files])
    /\ Len(message) <= MaxMessages /\ today \in Days
    /\ queue \in [Files -> Seq(Nat)] /\ file \in [Files -> Seq(Nat)]
    /\ batch \in [Files -> [lines : Seq(Nat), done : Nat]]
    /\ stored \in Seq(Seq(Nat)) /\ sending \in Seq(Entries)
    /\ page \in Seq(Nat) /\ inbox \in [Users -> Seq(Nat)]
    /\ owed \in [Ids -> SUBSET Users]

\* A file, its writer and its queue.
LinesOf(s, f) == Rising(s) /\ \A m : Occurs(m, s) => Accepted(m) /\ FileOf(m) = f
Sorted(f) == LinesOf(queue[f], f) /\ LinesOf(batch[f].lines, f) /\ LinesOf(file[f], f)
Waiting(f) == Before(file[f], queue[f]) /\ Before(batch[f].lines, queue[f])
Writing(f) ==
    /\ batch[f].done <= Len(batch[f].lines)
    /\ \A i \in 1..Len(batch[f].lines) :
          IF i <= batch[f].done THEN Occurs(batch[f].lines[i], file[f])
          ELSE \A m : Occurs(m, file[f]) => m < batch[f].lines[i]
    /\ \A m, n : HandedOn(m) /\ FileOf(m) = f /\ Occurs(n, batch[f].lines) => m < n
FilesHold == \A f \in Files : Sorted(f) /\ Waiting(f) /\ Writing(f)

\* What was stored, and then shown.
HandedHold ==
    /\ \A m : HandedOn(m) => Accepted(m) /\ Occurs(m, file[FileOf(m)])
    /\ \A i \in 1..Len(stored) : Rising(stored[i])
    /\ \A i, j \in 1..Len(stored) : i < j =>
          \A m, n : Occurs(m, stored[i]) /\ Occurs(n, stored[j]) /\ FileOf(m) = FileOf(n) => m < n
    /\ \A m, n : Occurs(m, page) /\ InAny(n, stored) /\ FileOf(m) = FileOf(n) => m < n
    /\ InOrder(page)

\* What is being sent comes after what was sent.
SentHold ==
    /\ \A i \in 1..Len(sending) : Occurs(sending[i].id, page)
    /\ \A i, j \in 1..Len(sending) : i < j => sending[i].id < sending[j].id
    /\ \A u \in Users : InOrder(inbox[u]) /\ \A m : Occurs(m, inbox[u]) => Occurs(m, page)
    /\ \A i \in 1..Len(sending) : \A u \in sending[i].to :
          \A m : Occurs(m, inbox[u]) /\ FileOf(m) = FileOf(sending[i].id) => m < sending[i].id

\* Where a message is, and that nobody it is owed to is left out.
Somewhere(m) ==
    m \in lost \/ HandedOn(m) \/ Occurs(m, queue[FileOf(m)]) \/ Occurs(m, batch[FileOf(m)].lines)
MayGet(m) == owed[m] \subseteq bound \cap Recipients(config, message[m].from, GroupOf(m))
Reaches(m, u) == Occurs(m, inbox[u]) \/ \E i \in 1..Len(sending) : sending[i].id = m /\ u \in sending[i].to
Arriving(m) == Occurs(m, page) => \A u \in owed[m] : Reaches(m, u)
NoneMissed == \A m \in 1..Len(message) : Somewhere(m) /\ MayGet(m) /\ Arriving(m)

MessageInv == MessageTypes /\ FilesHold /\ HandedHold /\ SentHold /\ NoneMissed

--------------------------------------------------------------------------------
(* Sequences of ids.                                                           *)

LEMMA RisingAppend ==
  ASSUME NEW s \in Seq(Nat), NEW e \in Nat, Rising(s), \A m : Occurs(m, s) => m < e
  PROVE  Rising(Append(s, e))
<1>1. /\ Len(Append(s, e)) = Len(s) + 1 /\ Append(s, e)[Len(s) + 1] = e
      /\ \A i \in 1..Len(s) : Append(s, e)[i] = s[i]
      /\ Len(s) \in Nat
  OBVIOUS
<1>2. \A i \in 1..Len(s) : s[i] < e
  BY DEF Occurs
<1> SUFFICES ASSUME NEW i \in 1..Len(s) + 1, NEW j \in 1..Len(s) + 1, i < j
             PROVE  Append(s, e)[i] < Append(s, e)[j]
  BY <1>1 DEF Rising
<1>3. i \in 1..Len(s) /\ (j \in 1..Len(s) \/ j = Len(s) + 1)
  BY <1>1
<1> QED BY <1>1, <1>2, <1>3 DEF Rising

LEMMA ConcatOccurs ==
  ASSUME NEW S, NEW s \in Seq(S), NEW r \in Seq(S)
  PROVE  s \o r \in Seq(S) /\ \A m : Occurs(m, s \o r) <=> Occurs(m, s) \/ Occurs(m, r)
<1>1. /\ s \o r \in Seq(S) /\ Len(s \o r) = Len(s) + Len(r) /\ Len(s) \in Nat /\ Len(r) \in Nat
      /\ \A i \in 1..Len(s) + Len(r) : (s \o r)[i] = IF i <= Len(s) THEN s[i] ELSE r[i - Len(s)]
  BY ConcatProperties
<1> DEFINE q == s \o r
<1> HIDE DEF q
<1>2. ASSUME NEW m, Occurs(m, q) PROVE Occurs(m, s) \/ Occurs(m, r)
  <2>1. PICK i \in 1..Len(s) + Len(r) : q[i] = m
    BY <1>1, <1>2 DEF Occurs, q
  <2>2. CASE i <= Len(s)
    <3>1. i \in 1..Len(s) /\ s[i] = m
      BY <1>1, <2>1, <2>2 DEF q
    <3> QED BY <3>1 DEF Occurs
  <2>3. CASE ~(i <= Len(s))
    <3>1. i - Len(s) \in 1..Len(r) /\ r[i - Len(s)] = m
      BY <1>1, <2>1, <2>3 DEF q
    <3> QED BY <3>1 DEF Occurs
  <2> QED BY <2>2, <2>3
<1>3. ASSUME NEW m, Occurs(m, s) PROVE Occurs(m, q)
  <2>1. PICK i \in 1..Len(s) : s[i] = m
    BY <1>3 DEF Occurs
  <2>2. i \in 1..Len(q) /\ q[i] = m
    BY <1>1, <2>1 DEF q
  <2> QED BY <2>2 DEF Occurs
<1>4. ASSUME NEW m, Occurs(m, r) PROVE Occurs(m, q)
  <2>1. PICK i \in 1..Len(r) : r[i] = m
    BY <1>4 DEF Occurs
  <2>2. i + Len(s) \in 1..Len(q) /\ q[i + Len(s)] = m
    BY <1>1, <2>1 DEF q
  <2> QED BY <2>2 DEF Occurs
<1> QED BY <1>1, <1>2, <1>3, <1>4 DEF q

LEMMA InOrderConcat ==
  ASSUME NEW s \in Seq(Nat), NEW r \in Seq(Nat), InOrder(s), Rising(r),
         \A m, n : Occurs(m, s) /\ Occurs(n, r) /\ FileOf(m) = FileOf(n) => m < n
  PROVE  InOrder(s \o r)
<1>1. /\ Len(s \o r) = Len(s) + Len(r) /\ Len(s) \in Nat /\ Len(r) \in Nat
      /\ \A i \in 1..Len(s) + Len(r) : (s \o r)[i] = IF i <= Len(s) THEN s[i] ELSE r[i - Len(s)]
  BY ConcatProperties
<1> DEFINE q == s \o r
<1> HIDE DEF q
<1> SUFFICES ASSUME NEW i \in 1..Len(q), NEW j \in 1..Len(q), i < j, FileOf(q[i]) = FileOf(q[j])
             PROVE  q[i] < q[j]
  BY DEF InOrder, q
<1>2. CASE j <= Len(s)
  <2>1. i \in 1..Len(s) /\ j \in 1..Len(s) /\ q[i] = s[i] /\ q[j] = s[j]
    BY <1>1, <1>2 DEF q
  <2> QED BY <2>1 DEF InOrder
<1>3. CASE ~(i <= Len(s))
  <2>1. /\ i - Len(s) \in 1..Len(r) /\ j - Len(s) \in 1..Len(r) /\ i - Len(s) < j - Len(s)
        /\ q[i] = r[i - Len(s)] /\ q[j] = r[j - Len(s)]
    BY <1>1, <1>3 DEF q
  <2> QED BY <2>1 DEF Rising
<1>4. CASE i <= Len(s) /\ ~(j <= Len(s))
  <2>1. i \in 1..Len(s) /\ j - Len(s) \in 1..Len(r) /\ q[i] = s[i] /\ q[j] = r[j - Len(s)]
    BY <1>1, <1>4 DEF q
  <2>2. Occurs(q[i], s) /\ Occurs(q[j], r)
    BY <2>1 DEF Occurs
  <2> QED BY <2>2
<1> QED BY <1>1, <1>2, <1>3, <1>4 DEF q

LEMMA InOrderAppend ==
  ASSUME NEW s \in Seq(Nat), NEW e \in Nat, InOrder(s),
         \A m : Occurs(m, s) /\ FileOf(m) = FileOf(e) => m < e
  PROVE  InOrder(Append(s, e))
<1>1. <<e>> \in Seq(Nat) /\ Len(<<e>>) = 1 /\ <<e>>[1] = e /\ Append(s, e) = s \o <<e>>
  OBVIOUS
<1>2. Rising(<<e>>) /\ \A n : Occurs(n, <<e>>) => n = e
  BY <1>1 DEF Rising, Occurs
<1> QED BY <1>1, <1>2, InOrderConcat

LEMMA AnyAppend ==
  ASSUME NEW q \in Seq(Seq(Nat)), NEW b \in Seq(Nat)
  PROVE  \A m : InAny(m, Append(q, b)) <=> InAny(m, q) \/ Occurs(m, b)
<1>1. /\ Len(Append(q, b)) = Len(q) + 1 /\ Append(q, b)[Len(q) + 1] = b /\ Len(q) \in Nat
      /\ \A i \in 1..Len(q) : Append(q, b)[i] = q[i]
  OBVIOUS
<1>2. \A i \in 1..Len(q) + 1 : i \in 1..Len(q) \/ i = Len(q) + 1
  BY <1>1
<1>3. Len(q) + 1 \in 1..Len(q) + 1 /\ \A i \in 1..Len(q) : i \in 1..Len(q) + 1
  BY <1>1
<1> QED BY <1>1, <1>2, <1>3 DEF InAny

LEMMA AnyTail ==
  ASSUME NEW q \in Seq(Seq(Nat)), q # <<>>
  PROVE  \A m : InAny(m, q) <=> InAny(m, Tail(q)) \/ Occurs(m, Head(q))
<1>1. /\ Head(q) = q[1] /\ Len(q) \in Nat \ {0} /\ Len(Tail(q)) = Len(q) - 1
      /\ \A i \in 1..Len(q) - 1 : Tail(q)[i] = q[i + 1]
  OBVIOUS
<1>2. \A i \in 1..Len(q) - 1 : i + 1 \in 1..Len(q)
  BY <1>1
<1>3. \A i \in 1..Len(q) : i = 1 \/ (i - 1 \in 1..Len(q) - 1 /\ q[i] = Tail(q)[i - 1])
  BY <1>1
<1>4. ASSUME NEW m, InAny(m, q) PROVE InAny(m, Tail(q)) \/ Occurs(m, Head(q))
  <2>1. PICK i \in 1..Len(q) : Occurs(m, q[i])
    BY <1>4 DEF InAny
  <2>2. CASE i = 1
    BY <1>1, <2>1, <2>2
  <2>3. CASE i # 1
    <3>1. i - 1 \in 1..Len(Tail(q)) /\ Occurs(m, Tail(q)[i - 1])
      BY <1>1, <1>3, <2>1, <2>3
    <3> QED BY <3>1 DEF InAny
  <2> QED BY <2>2, <2>3
<1>5. ASSUME NEW m, InAny(m, Tail(q)) PROVE InAny(m, q)
  <2>1. PICK i \in 1..Len(q) - 1 : Occurs(m, Tail(q)[i])
    BY <1>1, <1>5 DEF InAny
  <2>2. i + 1 \in 1..Len(q) /\ Occurs(m, q[i + 1])
    BY <1>1, <1>2, <2>1
  <2> QED BY <2>2 DEF InAny
<1>6. 1 \in 1..Len(q) /\ q[1] = Head(q)
  BY <1>1
<1> QED BY <1>4, <1>5, <1>6 DEF InAny

--------------------------------------------------------------------------------
(* The steps of messages.                                                      *)

LEMMA RecipientsAreUsers ==
  ASSUME Shaped(config), NEW s, NEW g \in Multi \cup Direct
  PROVE  Recipients(config, s, g) \subseteq Users
<1>1. config.users \subseteq Users /\ config.members \in [Multi -> SUBSET (Users \cup {Admin})]
  BY DEF Shaped, Configs
<1>2. CASE g \in Direct
  BY <1>1, <1>2 DEF Recipients
<1>3. CASE g \notin Direct
  <2>1. config.members[g] \subseteq Users \cup {Admin}
    BY <1>1, <1>3
  <2> QED BY <1>3, <2>1 DEF Recipients
<1> QED BY <1>2, <1>3

\* Whatever is anywhere was accepted.
LEMMA AllAccepted ==
  ASSUME MessageInv
  PROVE  /\ \A x : Accepted(x) => x \in Nat /\ FileOf(x) \in Files
         /\ \A x : HandedOn(x) => Accepted(x) /\ Occurs(x, file[FileOf(x)])
         /\ \A f \in Files : \A x :
               Occurs(x, queue[f]) \/ Occurs(x, batch[f].lines) \/ Occurs(x, file[f])
                  => Accepted(x) /\ FileOf(x) = f
         /\ \A u \in Users : \A x : Occurs(x, inbox[u]) => Accepted(x)
         /\ \A i \in 1..Len(sending) : Accepted(sending[i].id) /\ sending[i].to \subseteq Users
         /\ \A f \in Files : queue[f] \in Seq(Nat) /\ file[f] \in Seq(Nat)
                             /\ batch[f].lines \in Seq(Nat) /\ batch[f].done \in Nat
<1>1. \A x : Accepted(x) => x \in Nat /\ FileOf(x) \in Files
  <2>1. message \in Seq([from : Users \cup {Admin}, file : Files])
    BY DEF MessageInv, MessageTypes
  <2>2. ASSUME NEW x \in 1..Len(message) PROVE x \in Nat /\ message[x].file \in Files
    <3>1. Len(message) \in Nat /\ message[x] \in [from : Users \cup {Admin}, file : Files]
      BY <2>1, ElementOfSeq, LenProperties
    <3> QED BY <3>1
  <2> QED BY <2>2 DEF Accepted, FileOf
<1>2. \A x : HandedOn(x) => Accepted(x) /\ Occurs(x, file[FileOf(x)])
  BY DEF MessageInv, HandedHold
<1>3. \A f \in Files : \A x : Occurs(x, queue[f]) \/ Occurs(x, batch[f].lines) \/ Occurs(x, file[f])
                             => Accepted(x) /\ FileOf(x) = f
  BY DEF MessageInv, FilesHold, Sorted, LinesOf
<1>4. \A u \in Users : \A x : Occurs(x, inbox[u]) => Accepted(x)
  BY <1>2 DEF MessageInv, SentHold, HandedOn
<1>5. \A i \in 1..Len(sending) : Accepted(sending[i].id) /\ sending[i].to \subseteq Users
  <2>1. sending \in Seq(Entries)
    BY DEF MessageInv, MessageTypes
  <2>2. \A i \in 1..Len(sending) : sending[i] \in Entries
    BY <2>1
  <2>3. \A i \in 1..Len(sending) : sending[i].to \subseteq Users
    BY <2>2 DEF Entries
  <2> QED BY <1>2, <2>3 DEF MessageInv, SentHold, HandedOn
<1>6. \A f \in Files : queue[f] \in Seq(Nat) /\ file[f] \in Seq(Nat)
                       /\ batch[f].lines \in Seq(Nat) /\ batch[f].done \in Nat
  BY DEF MessageInv, MessageTypes
<1> QED BY <1>1, <1>2, <1>3, <1>4, <1>5, <1>6

\* Steps that move no message.
LEMMA NothingSent ==
  ASSUME MessageInv, message' = message, queue' = queue, batch' = batch, file' = file, stored' = stored,
         sending' = sending, page' = page, inbox' = inbox, lost' = lost, today' \in Days,
         owed' \in [Ids -> SUBSET Users],
         \A m \in 1..Len(message) : owed'[m] \subseteq owed[m] /\ MayGet(m)'
  PROVE  MessageInv'
<1>1. MessageTypes'
  BY DEF MessageInv, MessageTypes
<1>2. FilesHold'
  BY DEF MessageInv, FilesHold, Sorted, LinesOf, Waiting, Writing, HandedOn, Accepted, FileOf
<1>3. HandedHold'
  BY DEF MessageInv, HandedHold, HandedOn, Accepted, FileOf, InOrder
<1>4. SentHold'
  BY DEF MessageInv, SentHold, FileOf, InOrder
<1>5. NoneMissed'
  BY DEF MessageInv, NoneMissed, Somewhere, HandedOn, FileOf, Arriving, Reaches
<1> QED BY <1>1, <1>2, <1>3, <1>4, <1>5 DEF MessageInv

LEMMA SendArrives ==
  ASSUME WebInv, MessageInv, NEW s \in Users \cup {Admin}, NEW g \in Multi \cup Direct, Send(s, g)
  PROVE  MessageInv'
<1> DEFINE m == Len(message) + 1
           f == <<g, today>>
           e == [from |-> s, file |-> f]
<1>1. /\ m <= MaxMessages
      /\ message' = Append(message, e)
      /\ queue' = [queue EXCEPT ![f] = Append(@, m)]
      /\ owed' = [owed EXCEPT ![m] = Recipients(config, s, g) \cap bound]
      /\ batch' = batch /\ file' = file /\ stored' = stored /\ sending' = sending /\ page' = page
      /\ inbox' = inbox /\ lost' = lost /\ today' = today /\ config' = config /\ bound' = bound
  BY DEF Send, settings, pushing, counters
<1>2. f \in Files /\ e \in [from : Users \cup {Admin}, file : Files]
  BY DEF MessageInv, MessageTypes, Files
<1>3. /\ m \in Nat /\ m \in Ids /\ Len(message') = m
      /\ message' \in Seq([from : Users \cup {Admin}, file : Files])
      /\ \A k \in 1..Len(message) : message'[k] = message[k] /\ k \in 1..m /\ k < m
      /\ \A k \in 1..m : k \in 1..Len(message) \/ k = m
      /\ message'[m] = e
  <2>1. message \in Seq([from : Users \cup {Admin}, file : Files]) /\ Len(message) \in Nat /\ MaxMessages \in Nat
    BY WebAssumption DEF MessageInv, MessageTypes
  <2> HIDE DEF e
  <2> QED BY <1>1, <1>2, <2>1 DEF Ids
<1>4. Recipients(config, s, g) \subseteq Users
  BY RecipientsAreUsers DEF WebInv, WebTypes
<1>5. queue[f] \in Seq(Nat) /\ queue'[f] = Append(queue[f], m) /\ \A h \in Files \ {f} : queue'[h] = queue[h]
  BY <1>1, <1>2 DEF MessageInv, MessageTypes
<1>6. Append(queue[f], m) \in Seq(Nat) /\ \A x : Occurs(x, Append(queue[f], m)) <=> Occurs(x, queue[f]) \/ x = m
  <2>1. queue[f] \in Seq(Nat) /\ m \in Nat
    BY <1>3, <1>5
  <2> HIDE DEF m, f
  <2> QED BY <2>1, AppendOccurs
<1>7. /\ message'[m].file = f /\ m \in 1..Len(message')
      /\ \A x : Accepted(x) => /\ x \in 1..Len(message') /\ x < m /\ x # m
                               /\ message'[x].file = FileOf(x)
  BY <1>3 DEF Accepted, FileOf
<1> HIDE DEF m, f, e
<1>8. MessageTypes'
  <2>1. queue' \in [Files -> Seq(Nat)]
    BY <1>1, <1>2, <1>5, <1>6 DEF MessageInv, MessageTypes
  <2>2. owed' \in [Ids -> SUBSET Users]
    BY <1>1, <1>3, <1>4 DEF MessageInv, MessageTypes
  <2> QED BY <1>1, <1>3, <2>1, <2>2 DEF MessageInv, MessageTypes
<1>9. ASSUME NEW h \in Files PROVE Sorted(h)' /\ Waiting(h)' /\ Writing(h)'
  <2>1. LinesOf(queue[h], h) /\ LinesOf(batch[h].lines, h) /\ LinesOf(file[h], h) /\ Waiting(h) /\ Writing(h)
    BY DEF MessageInv, FilesHold, Sorted
  <2>2. /\ \A x : Occurs(x, queue'[h]) => Occurs(x, queue[h]) \/ (h = f /\ x = m)
        /\ Rising(queue'[h])
    <3>1. CASE h = f
      <4>1. \A x : Occurs(x, queue[f]) => x < m
        BY <1>7, <2>1, <3>1 DEF LinesOf
      <4>2. Rising(Append(queue[f], m))
        BY <1>3, <1>5, <2>1, <3>1, <4>1, RisingAppend DEF LinesOf
      <4> QED BY <1>5, <1>6, <3>1, <4>2
    <3>2. CASE h # f
      BY <1>5, <2>1, <3>2 DEF LinesOf
    <3> QED BY <3>1, <3>2
  <2>3. \A x : Occurs(x, queue'[h]) \/ Occurs(x, batch[h].lines) \/ Occurs(x, file[h])
                  => x \in 1..Len(message') /\ message'[x].file = h
    BY <1>7, <2>1, <2>2 DEF LinesOf
  <2>4. Sorted(h)'
    BY <1>1, <2>1, <2>2, <2>3 DEF Sorted, LinesOf, Accepted, FileOf
  <2>5. Waiting(h)'
    BY <1>1, <1>7, <2>1, <2>2 DEF Waiting, Before, LinesOf
  <2>6. \A x : HandedOn(x) => message'[x].file = FileOf(x)
    BY <1>7, AllAccepted
  <2>7. Writing(h)'
    BY <1>1, <2>1, <2>6 DEF Writing, HandedOn, FileOf
  <2> QED BY <2>4, <2>5, <2>7
<1>10. HandedHold'
  <2>1. HandedHold /\ \A x : HandedOn(x) => Accepted(x)
    BY AllAccepted DEF MessageInv
  <2>2. \A x : HandedOn(x) => x \in 1..Len(message') /\ message'[x].file = FileOf(x)
    BY <1>7, <2>1
  <2>3. /\ \A x : Occurs(x, page) => HandedOn(x)
        /\ \A x : InAny(x, stored) => HandedOn(x)
        /\ \A i \in 1..Len(stored) : \A x : Occurs(x, stored[i]) => HandedOn(x)
        /\ \A i \in 1..Len(page) : HandedOn(page[i])
    BY DEF HandedOn, InAny, Occurs
  <2>4. \A x : HandedOn(x)' <=> HandedOn(x)
    BY <1>1 DEF HandedOn
  <2>5. InOrder(page)'
    BY <1>1, <2>1, <2>2, <2>3 DEF HandedHold, InOrder, FileOf
  <2>6. \A x : HandedOn(x)' => Accepted(x)' /\ Occurs(x, file'[message'[x].file])
    BY <1>1, <2>1, <2>2, <2>4 DEF HandedHold, Accepted
  <2>7. ASSUME NEW i \in 1..Len(stored'), NEW j \in 1..Len(stored'), i < j,
               NEW x, NEW y, Occurs(x, stored'[i]), Occurs(y, stored'[j]), message'[x].file = message'[y].file
        PROVE  x < y
    <3>1. Occurs(x, stored[i]) /\ Occurs(y, stored[j]) /\ FileOf(x) = FileOf(y)
      BY <1>1, <2>2, <2>3, <2>7
    <3> QED BY <1>1, <2>1, <2>7, <3>1 DEF HandedHold
  <2>8. ASSUME NEW x, NEW y, Occurs(x, page'), InAny(y, stored'), message'[x].file = message'[y].file
        PROVE  x < y
    <3>1. Occurs(x, page) /\ InAny(y, stored) /\ FileOf(x) = FileOf(y)
      BY <1>1, <2>2, <2>3, <2>8
    <3> QED BY <2>1, <3>1 DEF HandedHold
  <2>9. \A i \in 1..Len(stored') : Rising(stored'[i])
    BY <1>1, <2>1 DEF HandedHold
  <2> QED BY <2>5, <2>6, <2>7, <2>8, <2>9 DEF HandedHold, FileOf
<1>11. SentHold'
  <2>1. SentHold /\ \A u \in Users : \A x : Occurs(x, inbox[u]) => message'[x].file = FileOf(x)
    BY <1>7, AllAccepted DEF MessageInv
  <2>2. /\ \A i \in 1..Len(sending) : message'[sending[i].id].file = FileOf(sending[i].id)
        /\ \A i \in 1..Len(sending) : sending[i].to \subseteq Users
    BY <1>7, AllAccepted
  <2>3. \A u \in Users : \A i \in 1..Len(inbox[u]) : Occurs(inbox[u][i], inbox[u])
    BY DEF Occurs
  <2>4. \A u \in Users : InOrder(inbox[u])'
    <3> SUFFICES ASSUME NEW u \in Users, NEW i \in 1..Len(inbox[u]), NEW j \in 1..Len(inbox[u]), i < j,
                        message'[inbox[u][i]].file = message'[inbox[u][j]].file
                 PROVE  inbox[u][i] < inbox[u][j]
      BY <1>1 DEF InOrder, FileOf
    <3>1. FileOf(inbox[u][i]) = FileOf(inbox[u][j])
      BY <2>1, <2>3
    <3> QED BY <2>1, <3>1 DEF SentHold, InOrder
  <2>5. \A i \in 1..Len(sending) : \A u \in sending[i].to : \A x :
          Occurs(x, inbox[u]) /\ message'[x].file = message'[sending[i].id].file => x < sending[i].id
    BY <2>1, <2>2 DEF SentHold
  <2>6. \A i \in 1..Len(sending) : \A u \in sending[i].to : \A x :
          Occurs(x, inbox[u]) /\ FileOf(x)' = message'[sending[i].id].file => x < sending[i].id
    BY <2>5 DEF FileOf
  <2> QED BY <1>1, <2>1, <2>4, <2>6 DEF SentHold, FileOf
<1>12. ASSUME NEW k \in 1..Len(message') PROVE Somewhere(k)' /\ MayGet(k)' /\ Arriving(k)'
  <2>1. CASE k = m
    <3>1. Occurs(m, queue'[f]) /\ owed'[m] = Recipients(config, s, g) \cap bound
      BY <1>1, <1>3, <1>5, <1>6 DEF MessageInv, MessageTypes
    <3>2. message'[m].from = s /\ message'[m].file[1] = g
      BY <1>3 DEF e, f
    <3>3. ~Occurs(m, page)
      BY <1>7, AllAccepted DEF HandedOn
    <3> QED BY <1>1, <1>7, <2>1, <3>1, <3>2, <3>3 DEF Somewhere, MayGet, Arriving, FileOf, GroupOf
  <2>2. CASE k # m
    <3>1. k \in 1..Len(message) /\ message'[k] = message[k] /\ owed'[k] = owed[k]
      BY <1>1, <1>3, <2>2 DEF MessageInv, MessageTypes
    <3>2. Somewhere(k) /\ MayGet(k) /\ Arriving(k) /\ FileOf(k) \in Files
      BY <3>1, AllAccepted DEF MessageInv, NoneMissed, Accepted
    <3>3. Occurs(k, queue[FileOf(k)]) => Occurs(k, queue'[FileOf(k)])
      BY <1>5, <1>6, <3>2
    <3> QED BY <1>1, <3>1, <3>2, <3>3 DEF Somewhere, MayGet, Arriving, Reaches, HandedOn, FileOf, GroupOf
  <2> QED BY <2>1, <2>2
<1> QED BY <1>8, <1>9, <1>10, <1>11, <1>12 DEF MessageInv, FilesHold, NoneMissed

LEMMA FlushArrives == ASSUME MessageInv, NEW f \in Files, Flush(f) PROVE MessageInv'
<1>1. /\ batch[f] = Quiet
      /\ batch' = [batch EXCEPT ![f] = [lines |-> queue[f], done |-> 0]]
      /\ queue' = [queue EXCEPT ![f] = <<>>]
      /\ message' = message /\ file' = file /\ stored' = stored /\ sending' = sending /\ page' = page
      /\ inbox' = inbox /\ lost' = lost /\ today' = today /\ config' = config /\ bound' = bound /\ owed' = owed
  BY DEF Flush, settings, pushing, counters, history
<1>2. /\ queue \in [Files -> Seq(Nat)] /\ batch \in [Files -> [lines : Seq(Nat), done : Nat]]
      /\ queue[f] \in Seq(Nat)
  BY DEF MessageInv, MessageTypes
<1>3. /\ queue'[f] = <<>> /\ batch'[f].lines = queue[f] /\ batch'[f].done = 0
      /\ \A h \in Files \ {f} : queue'[h] = queue[h] /\ batch'[h] = batch[h]
      /\ \A x : ~Occurs(x, <<>>) /\ Len(queue[f]) \in Nat
  BY <1>1, <1>2, EmptyOccurs
<1>4. MessageTypes'
  <2>1. [lines |-> queue[f], done |-> 0] \in [lines : Seq(Nat), done : Nat] /\ <<>> \in Seq(Nat)
    BY <1>2
  <2> QED BY <1>1, <1>2, <2>1 DEF MessageInv, MessageTypes
<1>5. ASSUME NEW h \in Files PROVE Sorted(h)' /\ Waiting(h)' /\ Writing(h)'
  <2>1. Sorted(h) /\ Waiting(h) /\ Writing(h)
    BY DEF MessageInv, FilesHold
  <2>2. CASE h = f
    <3>1. Rising(queue'[h])
      BY <1>3, <2>2 DEF Rising
    <3>2. Sorted(h)'
      BY <1>1, <1>3, <2>1, <2>2, <3>1 DEF Sorted, LinesOf, Accepted, FileOf
    <3>3. Waiting(h)'
      BY <1>3, <2>2 DEF Waiting, Before
    <3>4. /\ \A i \in 1..Len(queue[f]) : Occurs(queue[f][i], queue[f])
          /\ \A i \in 1..Len(queue[f]) : ~(i <= 0)
      BY <1>3 DEF Occurs
    <3>5. \A i \in 1..Len(queue[f]) : \A m : Occurs(m, file[f]) => m < queue[f][i]
      BY <2>1, <2>2, <3>4 DEF Waiting, Before
    <3>6. \A m, n : HandedOn(m) /\ FileOf(m) = f /\ Occurs(n, queue[f]) => m < n
      BY <2>1, <2>2, AllAccepted DEF Waiting, Before
    <3>7. Writing(h)'
      BY <1>1, <1>3, <2>2, <3>4, <3>5, <3>6 DEF Writing, HandedOn, FileOf
    <3> QED BY <3>2, <3>3, <3>7
  <2>3. CASE h # f
    BY <1>1, <1>3, <2>1, <2>3 DEF Sorted, LinesOf, Waiting, Writing, HandedOn, Accepted, FileOf
  <2> QED BY <2>2, <2>3
<1>6. HandedHold'
  BY <1>1 DEF MessageInv, HandedHold, HandedOn, Accepted, FileOf, InOrder
<1>7. SentHold'
  BY <1>1 DEF MessageInv, SentHold, FileOf, InOrder
<1>8. ASSUME NEW k \in 1..Len(message) PROVE Somewhere(k)' /\ MayGet(k)' /\ Arriving(k)'
  <2>1. Somewhere(k) /\ MayGet(k) /\ Arriving(k) /\ FileOf(k) \in Files
    BY AllAccepted DEF MessageInv, NoneMissed, Accepted
  <2>2. Occurs(k, queue[FileOf(k)]) \/ Occurs(k, batch[FileOf(k)].lines)
           => Occurs(k, queue'[FileOf(k)]) \/ Occurs(k, batch'[FileOf(k)].lines)
    BY <1>1, <1>3, <2>1 DEF Quiet
  <2> QED BY <1>1, <2>1, <2>2 DEF Somewhere, MayGet, Arriving, Reaches, HandedOn, FileOf, GroupOf
<1> QED BY <1>1, <1>4, <1>5, <1>6, <1>7, <1>8 DEF MessageInv, FilesHold, NoneMissed

LEMMA WriteLineArrives == ASSUME MessageInv, NEW f \in Files, WriteLine(f) PROVE MessageInv'
<1> DEFINE d == batch[f].done + 1
           e == batch[f].lines[d]
<1>1. /\ batch[f].done < Len(batch[f].lines)
      /\ file' = [file EXCEPT ![f] = Append(@, e)]
      /\ batch' = [batch EXCEPT ![f].done = @ + 1]
      /\ message' = message /\ queue' = queue /\ stored' = stored /\ sending' = sending /\ page' = page
      /\ inbox' = inbox /\ lost' = lost /\ today' = today /\ config' = config /\ bound' = bound /\ owed' = owed
  BY DEF WriteLine, settings, pushing, counters, history
<1>2. /\ file \in [Files -> Seq(Nat)] /\ batch \in [Files -> [lines : Seq(Nat), done : Nat]]
      /\ file[f] \in Seq(Nat) /\ batch[f].lines \in Seq(Nat) /\ batch[f].done \in Nat
  BY DEF MessageInv, MessageTypes
<1>3. /\ d \in 1..Len(batch[f].lines) /\ d \in Nat /\ Len(batch[f].lines) \in Nat /\ e \in Nat
      /\ Occurs(e, batch[f].lines)
      /\ \A i \in 1..Len(batch[f].lines) : i <= d => i <= batch[f].done \/ i = d
      /\ \A i \in 1..Len(batch[f].lines) : ~(i <= d) => ~(i <= batch[f].done) /\ d < i
      /\ ~(d <= batch[f].done) /\ d <= Len(batch[f].lines)
  <2> DEFINE b == batch[f].lines
             n == batch[f].done
  <2>1. b \in Seq(Nat) /\ n \in Nat /\ n < Len(b)
    BY <1>1, <1>2
  <2> HIDE DEF b, n
  <2>2. /\ n + 1 \in 1..Len(b) /\ n + 1 \in Nat /\ Len(b) \in Nat
        /\ \A i \in 1..Len(b) : i <= n + 1 => i <= n \/ i = n + 1
        /\ \A i \in 1..Len(b) : ~(i <= n + 1) => ~(i <= n) /\ n + 1 < i
        /\ ~(n + 1 <= n) /\ n + 1 <= Len(b)
    BY <2>1
  <2>3. b[n + 1] \in Nat /\ Occurs(b[n + 1], b)
    BY <2>1, <2>2 DEF Occurs
  <2> QED BY <2>2, <2>3 DEF b, n
<1>4. /\ batch'[f].done = d /\ batch'[f].lines = batch[f].lines
      /\ file'[f] = Append(file[f], e)
      /\ \A h \in Files \ {f} : batch'[h] = batch[h] /\ file'[h] = file[h]
      /\ \A h \in Files : batch'[h].lines = batch[h].lines
  BY <1>1, <1>2
<1>5. batch' \in [Files -> [lines : Seq(Nat), done : Nat]]
  <2> DEFINE row == [lines |-> batch[f].lines, done |-> batch[f].done + 1]
  <2>1. row \in [lines : Seq(Nat), done : Nat]
    BY <1>2
  <2>2. batch' = [batch EXCEPT ![f] = row]
    <3>1. batch[f] \in [lines : Seq(Nat), done : Nat]
      BY <1>2
    <3>2. [batch[f] EXCEPT !.done = @ + 1] = row
      BY <3>1
    <3> QED BY <1>1, <3>2
  <2> HIDE DEF row
  <2> QED BY <1>2, <2>1, <2>2
<1> HIDE DEF d, e
<1>6. file'[f] \in Seq(Nat) /\ \A x : Occurs(x, file'[f]) <=> Occurs(x, file[f]) \/ x = e
  <2>1. file[f] \in Seq(Nat) /\ e \in Nat
    BY <1>2, <1>3
  <2>2. Append(file[f], e) \in Seq(Nat) /\ \A x : Occurs(x, Append(file[f], e)) <=> Occurs(x, file[f]) \/ x = e
    BY <2>1, AppendOccurs
  <2> QED BY <1>4, <2>2
<1>7. MessageTypes'
  <2>1. file' \in [Files -> Seq(Nat)]
    BY <1>1, <1>2, <1>4, <1>6
  <2> QED BY <1>1, <1>5, <2>1 DEF MessageInv, MessageTypes
<1>8. \A h \in Files : \A x : Occurs(x, file[h]) => Occurs(x, file'[h])
  BY <1>4, <1>6
<1>9. ASSUME NEW h \in Files PROVE Sorted(h)' /\ Waiting(h)' /\ Writing(h)'
  <2>1. Sorted(h) /\ Waiting(h) /\ Writing(h)
    BY DEF MessageInv, FilesHold
  <2>2. CASE h = f
    <3>1. \A x : Occurs(x, file[f]) => x < e
      BY <1>3, <2>1, <2>2 DEF Writing, e
    <3>2. Rising(file'[f])
      BY <1>2, <1>3, <1>4, <2>1, <2>2, <3>1, RisingAppend DEF Sorted, LinesOf
    <3>3. Sorted(h)'
      BY <1>1, <1>3, <1>4, <1>6, <2>1, <2>2, <3>2 DEF Sorted, LinesOf, Accepted, FileOf
    <3>4. Waiting(h)'
      BY <1>1, <1>3, <1>4, <1>6, <2>1, <2>2 DEF Waiting, Before
    <3>5. \A i \in 1..Len(batch[f].lines) : i <= d => Occurs(batch[f].lines[i], file'[f])
      BY <1>3, <1>6, <2>1, <2>2 DEF Writing, e
    <3>6. \A i \in 1..Len(batch[f].lines) : ~(i <= d) => \A m : Occurs(m, file'[f]) => m < batch[f].lines[i]
      <4>1. \A i \in 1..Len(batch[f].lines) : d < i => e < batch[f].lines[i]
        BY <1>3, <2>1, <2>2 DEF Sorted, LinesOf, Rising, e
      <4> QED BY <1>3, <1>6, <2>1, <2>2, <4>1 DEF Writing
    <3>7. Writing(h)'
      BY <1>1, <1>3, <1>4, <2>1, <2>2, <3>5, <3>6 DEF Writing, HandedOn, FileOf
    <3> QED BY <3>3, <3>4, <3>7
  <2>3. CASE h # f
    BY <1>1, <1>4, <2>1, <2>3 DEF Sorted, LinesOf, Waiting, Writing, HandedOn, Accepted, FileOf
  <2> QED BY <2>2, <2>3
<1>10. HandedHold'
  <2>1. \A x : HandedOn(x) => Accepted(x) /\ Occurs(x, file'[FileOf(x)])
    BY <1>8, AllAccepted
  <2> QED BY <1>1, <2>1 DEF MessageInv, HandedHold, HandedOn, Accepted, FileOf, InOrder
<1>11. SentHold'
  BY <1>1 DEF MessageInv, SentHold, FileOf, InOrder
<1>12. ASSUME NEW k \in 1..Len(message) PROVE Somewhere(k)' /\ MayGet(k)' /\ Arriving(k)'
  <2>1. Somewhere(k) /\ MayGet(k) /\ Arriving(k) /\ FileOf(k) \in Files
    BY AllAccepted DEF MessageInv, NoneMissed, Accepted
  <2> QED BY <1>1, <1>4, <2>1 DEF Somewhere, MayGet, Arriving, Reaches, HandedOn, FileOf, GroupOf
<1> QED BY <1>1, <1>7, <1>9, <1>10, <1>11, <1>12 DEF MessageInv, FilesHold, NoneMissed

\* A writer that is done with its lines: they are handed on, or lost.
LEMMA QuietArrives ==
  ASSUME MessageInv, NEW f \in Files, batch' = [batch EXCEPT ![f] = Quiet]
  PROVE  /\ batch' \in [Files -> [lines : Seq(Nat), done : Nat]]
         /\ batch'[f] = Quiet /\ \A h \in Files \ {f} : batch'[h] = batch[h]
         /\ \A x : ~Occurs(x, batch'[f].lines)
         /\ batch'[f].done <= Len(batch'[f].lines) /\ \A i \in 1..Len(batch'[f].lines) : FALSE
         /\ Rising(batch'[f].lines)
<1>1. batch \in [Files -> [lines : Seq(Nat), done : Nat]] /\ Quiet \in [lines : Seq(Nat), done : Nat]
  BY DEF MessageInv, MessageTypes, Quiet
<1>2. batch'[f] = Quiet /\ batch'[f].lines = <<>> /\ batch'[f].done = 0 /\ Len(<<>>) = 0
  BY <1>1 DEF Quiet
<1>3. Rising(<<>>)
  BY DEF Rising
<1> QED BY <1>1, <1>2, <1>3, EmptyOccurs

LEMMA PublishArrives == ASSUME MessageInv, NEW f \in Files, Publish(f) PROVE MessageInv'
<1> DEFINE b == batch[f].lines
<1>1. /\ batch[f].done = Len(b)
      /\ stored' = Append(stored, b)
      /\ batch' = [batch EXCEPT ![f] = Quiet]
      /\ message' = message /\ queue' = queue /\ file' = file /\ sending' = sending /\ page' = page
      /\ inbox' = inbox /\ lost' = lost /\ today' = today /\ config' = config /\ bound' = bound /\ owed' = owed
  BY DEF Publish, Written, settings, counters
<1>2. /\ stored \in Seq(Seq(Nat)) /\ b \in Seq(Nat) /\ Len(b) \in Nat /\ stored' \in Seq(Seq(Nat))
      /\ Len(stored') = Len(stored) + 1 /\ Len(stored) \in Nat /\ stored'[Len(stored) + 1] = b
      /\ \A i \in 1..Len(stored) : stored'[i] = stored[i]
      /\ \A i \in 1..Len(stored) + 1 : i \in 1..Len(stored) \/ i = Len(stored) + 1
  <2>1. stored \in Seq(Seq(Nat)) /\ b \in Seq(Nat)
    BY DEF MessageInv, MessageTypes
  <2> HIDE DEF b
  <2> QED BY <1>1, <2>1
<1>3. \A m : InAny(m, stored') <=> InAny(m, stored) \/ Occurs(m, b)
  BY <1>1, <1>2, AnyAppend
<1>4. /\ batch' \in [Files -> [lines : Seq(Nat), done : Nat]]
      /\ batch'[f] = Quiet /\ \A h \in Files \ {f} : batch'[h] = batch[h]
      /\ \A x : ~Occurs(x, batch'[f].lines)
      /\ batch'[f].done <= Len(batch'[f].lines) /\ \A i \in 1..Len(batch'[f].lines) : FALSE
      /\ Rising(batch'[f].lines)
  BY <1>1, QuietArrives
<1>5. /\ Rising(b)
      /\ \A x : Occurs(x, b) => Accepted(x) /\ FileOf(x) = f /\ Occurs(x, file[f])
      /\ \A m, n : HandedOn(m) /\ FileOf(m) = f /\ Occurs(n, b) => m < n
  <2>1. Sorted(f) /\ Writing(f)
    BY DEF MessageInv, FilesHold
  <2>2. \A i \in 1..Len(b) : Occurs(b[i], file[f])
    BY <1>1, <1>2, <2>1 DEF Writing
  <2>3. \A x : Occurs(x, b) => Occurs(x, file[f])
    BY <2>2 DEF Occurs
  <2> QED BY <2>1, <2>3 DEF Sorted, LinesOf, Writing
<1> HIDE DEF b
<1>6. \A m : HandedOn(m)' <=> HandedOn(m) \/ Occurs(m, b)
  BY <1>1, <1>3 DEF HandedOn
<1>7. MessageTypes'
  BY <1>1, <1>2, <1>4 DEF MessageInv, MessageTypes
<1>8. ASSUME NEW h \in Files PROVE Sorted(h)' /\ Waiting(h)' /\ Writing(h)'
  <2>1. Sorted(h) /\ Waiting(h) /\ Writing(h)
    BY DEF MessageInv, FilesHold
  <2>2. CASE h = f
    <3>1. Sorted(h)' /\ Waiting(h)'
      BY <1>1, <1>4, <2>1, <2>2 DEF Sorted, LinesOf, Accepted, FileOf, Waiting, Before
    <3>2. Writing(h)'
      BY <1>4, <2>2 DEF Writing
    <3> QED BY <3>1, <3>2
  <2>3. CASE h # f
    <3>1. Sorted(h)' /\ Waiting(h)'
      BY <1>1, <1>4, <2>1, <2>3 DEF Sorted, LinesOf, Accepted, FileOf, Waiting
    <3>2. \A m : HandedOn(m)' /\ FileOf(m) = h => HandedOn(m)
      BY <1>5, <1>6, <2>3
    <3>3. Writing(h)'
      BY <1>1, <1>4, <2>1, <2>3, <3>2 DEF Writing, FileOf
    <3> QED BY <3>1, <3>3
  <2> QED BY <2>2, <2>3
<1>9. HandedHold'
  <2>1. HandedHold
    BY DEF MessageInv
  <2>2. \A m : HandedOn(m)' => Accepted(m)' /\ Occurs(m, file'[message'[m].file])
    BY <1>1, <1>5, <1>6, <2>1 DEF HandedHold, Accepted, FileOf
  <2>3. \A i \in 1..Len(stored') : Rising(stored'[i])
    BY <1>2, <1>5, <2>1 DEF HandedHold
  <2>4. ASSUME NEW i \in 1..Len(stored'), NEW j \in 1..Len(stored'), i < j,
               NEW m, NEW n, Occurs(m, stored'[i]), Occurs(n, stored'[j]), FileOf(m) = FileOf(n)
        PROVE  m < n
    <3>1. i \in 1..Len(stored)
      BY <1>2, <2>4
    <3>2. CASE j \in 1..Len(stored)
      BY <1>2, <2>1, <2>4, <3>1, <3>2 DEF HandedHold
    <3>3. CASE j = Len(stored) + 1
      <4>1. Occurs(n, b) /\ HandedOn(m)
        BY <1>2, <2>4, <3>1, <3>3 DEF HandedOn, InAny
      <4> QED BY <1>5, <2>4, <4>1
    <3> QED BY <1>2, <3>2, <3>3
  <2>5. ASSUME NEW m, NEW n, Occurs(m, page), InAny(n, stored'), FileOf(m) = FileOf(n) PROVE m < n
    <3>1. CASE InAny(n, stored)
      BY <2>1, <2>5, <3>1 DEF HandedHold
    <3>2. CASE Occurs(n, b)
      BY <1>5, <2>5, <3>2 DEF HandedOn
    <3> QED BY <1>3, <2>5, <3>1, <3>2
  <2> QED BY <1>1, <2>1, <2>2, <2>3, <2>4, <2>5 DEF HandedHold, InOrder, FileOf
<1>10. SentHold'
  BY <1>1 DEF MessageInv, SentHold, FileOf, InOrder
<1>11. ASSUME NEW k \in 1..Len(message) PROVE Somewhere(k)' /\ MayGet(k)' /\ Arriving(k)'
  <2>1. Somewhere(k) /\ MayGet(k) /\ Arriving(k) /\ FileOf(k) \in Files
    BY AllAccepted DEF MessageInv, NoneMissed, Accepted
  <2>2. Occurs(k, batch[FileOf(k)].lines) => HandedOn(k)' \/ Occurs(k, batch'[FileOf(k)].lines)
    BY <1>4, <1>6, <2>1 DEF b
  <2>3. Somewhere(k)'
    BY <1>1, <1>6, <2>1, <2>2 DEF Somewhere, FileOf
  <2> QED BY <1>1, <2>1, <2>3 DEF MayGet, Arriving, Reaches, GroupOf
<1> QED BY <1>1, <1>7, <1>8, <1>9, <1>10, <1>11 DEF MessageInv, FilesHold, NoneMissed

LEMMA WriteFailsArrives == ASSUME MessageInv, NEW f \in Files, WriteFails(f) PROVE MessageInv'
<1>1. /\ batch' = [batch EXCEPT ![f] = Quiet]
      /\ lost' = lost \cup Range(batch[f].lines)
      /\ message' = message /\ queue' = queue /\ file' = file /\ sending' = sending /\ page' = page
      /\ stored' = stored
      /\ inbox' = inbox /\ today' = today /\ config' = config /\ bound' = bound /\ owed' = owed
  BY DEF WriteFails, settings, pushing
<1>2. \A x : Occurs(x, batch[f].lines) => x \in lost'
  <2>1. batch[f].lines \in Seq(Nat)
    BY DEF MessageInv, MessageTypes
  <2> QED BY <1>1, <2>1 DEF Occurs, Range
<1>3. /\ batch' \in [Files -> [lines : Seq(Nat), done : Nat]]
      /\ batch'[f] = Quiet /\ \A h \in Files \ {f} : batch'[h] = batch[h]
      /\ \A x : ~Occurs(x, batch'[f].lines)
      /\ batch'[f].done <= Len(batch'[f].lines) /\ \A i \in 1..Len(batch'[f].lines) : FALSE
      /\ Rising(batch'[f].lines)
  BY <1>1, QuietArrives
<1>4. MessageTypes'
  BY <1>1, <1>3 DEF MessageInv, MessageTypes
<1>5. ASSUME NEW h \in Files PROVE Sorted(h)' /\ Waiting(h)' /\ Writing(h)'
  <2>1. Sorted(h) /\ Waiting(h) /\ Writing(h)
    BY DEF MessageInv, FilesHold
  <2>2. CASE h = f
    <3>1. Sorted(h)' /\ Waiting(h)'
      BY <1>1, <1>3, <2>1, <2>2 DEF Sorted, LinesOf, Accepted, FileOf, Waiting, Before
    <3>2. Writing(h)'
      BY <1>3, <2>2 DEF Writing
    <3> QED BY <3>1, <3>2
  <2>3. CASE h # f
    BY <1>1, <1>3, <2>1, <2>3 DEF Sorted, LinesOf, Waiting, Writing, HandedOn, Accepted, FileOf
  <2> QED BY <2>2, <2>3
<1>6. HandedHold'
  BY <1>1 DEF MessageInv, HandedHold, HandedOn, Accepted, FileOf, InOrder
<1>7. SentHold'
  BY <1>1 DEF MessageInv, SentHold, FileOf, InOrder
<1>8. ASSUME NEW k \in 1..Len(message) PROVE Somewhere(k)' /\ MayGet(k)' /\ Arriving(k)'
  <2>1. Somewhere(k) /\ MayGet(k) /\ Arriving(k) /\ FileOf(k) \in Files
    BY AllAccepted DEF MessageInv, NoneMissed, Accepted
  <2>2. Occurs(k, batch[FileOf(k)].lines) => k \in lost' \/ Occurs(k, batch'[FileOf(k)].lines)
    BY <1>2, <1>3, <2>1
  <2> QED BY <1>1, <2>1, <2>2 DEF Somewhere, MayGet, Arriving, Reaches, HandedOn, FileOf, GroupOf
<1> QED BY <1>1, <1>4, <1>5, <1>6, <1>7, <1>8 DEF MessageInv, FilesHold, NoneMissed

\* Nothing is left of what nobody is to be sent any more; the rest stays as it was.
LEMMA StillToSendKeeps ==
  ASSUME NEW s \in Seq(Entries)
  PROVE  /\ StillToSend(s) \in Seq(Entries)
         /\ \A i \in 1..Len(StillToSend(s)) : i \in 1..Len(s) /\ StillToSend(s)[i] = s[i]
         /\ \A i \in 1..Len(s) : s[i].to # {} => /\ i \in 1..Len(StillToSend(s))
                                                 /\ StillToSend(s)[i] = s[i]
<1>1. DOMAIN s = 1..Len(s)
  OBVIOUS
<1>2. CASE \A i \in DOMAIN s : s[i].to = {}
  BY <1>1, <1>2 DEF StillToSend
<1>3. CASE ~(\A i \in DOMAIN s : s[i].to = {})
  <2>1. StillToSend(s) = s
    BY <1>3 DEF StillToSend
  <2> QED BY <2>1
<1> QED BY <1>2, <1>3

LEMMA PushArrives == ASSUME WebInv, MessageInv, PushStored PROVE MessageInv'
<1> DEFINE b == Head(stored)
           To(m) == Recipients(config, message[m].from, GroupOf(m))
           s == [i \in DOMAIN b |-> [id |-> b[i], to |-> To(b[i])]]
<1>1. /\ stored # <<>> /\ sending = <<>>
      /\ page' = page \o b /\ sending' = StillToSend(s) /\ stored' = Tail(stored)
      /\ batch' = batch /\ message' = message /\ queue' = queue /\ file' = file
      /\ inbox' = inbox /\ lost' = lost /\ today' = today /\ config' = config /\ bound' = bound /\ owed' = owed
  BY DEF PushStored, settings, storage, counters, history
<1>2. /\ stored \in Seq(Seq(Nat)) /\ page \in Seq(Nat)
      /\ b \in Seq(Nat) /\ Len(b) \in Nat /\ DOMAIN b = 1..Len(b)
      /\ b = stored[1] /\ 1 \in 1..Len(stored)
      /\ stored' \in Seq(Seq(Nat)) /\ Len(stored') = Len(stored) - 1 /\ Len(stored) \in Nat
      /\ \A i \in 1..Len(stored') : stored'[i] = stored[i + 1] /\ i + 1 \in 1..Len(stored) /\ 1 < i + 1
  <2>1. stored \in Seq(Seq(Nat)) /\ page \in Seq(Nat)
    BY DEF MessageInv, MessageTypes
  <2>2. /\ stored[1] \in Seq(Nat) /\ 1 \in 1..Len(stored) /\ Head(stored) = stored[1]
        /\ Tail(stored) \in Seq(Seq(Nat)) /\ Len(Tail(stored)) = Len(stored) - 1 /\ Len(stored) \in Nat
        /\ \A i \in 1..Len(Tail(stored)) : Tail(stored)[i] = stored[i + 1] /\ i + 1 \in 1..Len(stored) /\ 1 < i + 1
    BY <1>1, <2>1
  <2> QED BY <1>1, <2>1, <2>2
<1>3. HandedHold /\ SentHold
  BY DEF MessageInv
<1>4. \A m : InAny(m, stored) <=> InAny(m, stored') \/ Occurs(m, b)
  BY <1>1, <1>2, AnyTail
<1>5. page' \in Seq(Nat) /\ \A m : Occurs(m, page') <=> Occurs(m, page) \/ Occurs(m, b)
  BY <1>1, <1>2, ConcatOccurs
<1>6. \A i \in 1..Len(b) : Occurs(b[i], b) /\ Accepted(b[i]) /\ To(b[i]) \subseteq Users
  <2> SUFFICES ASSUME NEW i \in 1..Len(b) PROVE Occurs(b[i], b) /\ Accepted(b[i]) /\ To(b[i]) \subseteq Users
    OBVIOUS
  <2>1. Occurs(b[i], b)
    BY DEF Occurs
  <2>2. Accepted(b[i]) /\ FileOf(b[i]) \in Files
    BY <1>4, <2>1, AllAccepted DEF HandedOn
  <2>3. GroupOf(b[i]) \in Multi \cup Direct
    BY <2>2 DEF FileOf, GroupOf, Files
  <2> QED BY <2>1, <2>2, <2>3, RecipientsAreUsers DEF WebInv, WebTypes
<1>7. /\ s \in Seq(Entries) /\ Len(s) = Len(b)
      /\ \A i \in 1..Len(b) : s[i].id = b[i] /\ s[i].to = To(b[i])
  <2>1. \A i \in 1..Len(b) : b[i] \in Nat
    BY <1>2
  <2>2. \A i \in 1..Len(b) : [id |-> b[i], to |-> To(b[i])] \in Entries
    BY <1>6, <2>1 DEF Entries
  <2> HIDE DEF b, To
  <2> QED BY <1>2, <2>2
<1> HIDE DEF s, b
<1>8. /\ sending' \in Seq(Entries)
      /\ \A i \in 1..Len(sending') : i \in 1..Len(b) /\ sending'[i].id = b[i] /\ sending'[i].to = To(b[i])
      /\ \A i \in 1..Len(b) : To(b[i]) # {} => /\ i \in 1..Len(sending') /\ sending'[i].id = b[i]
                                               /\ sending'[i].to = To(b[i])
  <2> HIDE DEF To
  <2>1. /\ StillToSend(s) \in Seq(Entries)
        /\ \A i \in 1..Len(StillToSend(s)) : i \in 1..Len(s) /\ StillToSend(s)[i] = s[i]
        /\ \A i \in 1..Len(s) : s[i].to # {} => i \in 1..Len(StillToSend(s)) /\ StillToSend(s)[i] = s[i]
    BY <1>7, StillToSendKeeps
  <2> QED BY <1>1, <1>7, <2>1
<1>9. Rising(b)
  BY <1>2, <1>3 DEF HandedHold
<1>10. \A m : HandedOn(m)' <=> HandedOn(m)
  BY <1>4, <1>5 DEF HandedOn
<1>11. MessageTypes'
  BY <1>1, <1>2, <1>5, <1>8 DEF MessageInv, MessageTypes
<1>12. FilesHold'
  BY <1>1, <1>10 DEF MessageInv, FilesHold, Sorted, LinesOf, Waiting, Writing, Accepted, FileOf
<1>13. HandedHold'
  <2>1. \A m : HandedOn(m)' => Accepted(m)' /\ Occurs(m, file'[message'[m].file])
    BY <1>1, <1>3, <1>10 DEF HandedHold, Accepted, FileOf
  <2>2. \A i \in 1..Len(stored') : Rising(stored'[i])
    BY <1>2, <1>3 DEF HandedHold
  <2>3. ASSUME NEW i \in 1..Len(stored'), NEW j \in 1..Len(stored'), i < j,
               NEW m, NEW n, Occurs(m, stored'[i]), Occurs(n, stored'[j]), FileOf(m) = FileOf(n)
        PROVE  m < n
    <3>1. /\ i + 1 \in 1..Len(stored) /\ j + 1 \in 1..Len(stored) /\ i + 1 < j + 1
          /\ Occurs(m, stored[i + 1]) /\ Occurs(n, stored[j + 1])
      <4>1. /\ i \in 1..Len(stored) - 1 /\ j \in 1..Len(stored) - 1
            /\ stored'[i] = stored[i + 1] /\ stored'[j] = stored[j + 1]
        BY <1>2
      <4>2. i + 1 < j + 1 /\ i + 1 \in 1..Len(stored) /\ j + 1 \in 1..Len(stored)
        BY <1>2, <2>3, <4>1
      <4> QED BY <2>3, <4>1, <4>2
    <3> QED BY <1>3, <2>3, <3>1 DEF HandedHold
  <2>4. ASSUME NEW m, NEW n, Occurs(m, page'), InAny(n, stored'), FileOf(m) = FileOf(n) PROVE m < n
    <3>1. CASE Occurs(m, page)
      BY <1>3, <1>4, <2>4, <3>1 DEF HandedHold
    <3>2. CASE Occurs(m, b)
      <4>1. PICK i \in 1..Len(stored') : Occurs(n, stored'[i])
        BY <2>4 DEF InAny
      <4>2. i + 1 \in 1..Len(stored) /\ 1 < i + 1 /\ Occurs(n, stored[i + 1]) /\ Occurs(m, stored[1])
        BY <1>2, <3>2, <4>1
      <4> QED BY <1>2, <1>3, <2>4, <4>2 DEF HandedHold
    <3> QED BY <1>5, <2>4, <3>1, <3>2
  <2>5. InOrder(page')
    <3>1. \A m, n : Occurs(m, page) /\ Occurs(n, b) /\ FileOf(m) = FileOf(n) => m < n
      BY <1>3, <1>4 DEF HandedHold
    <3> QED BY <1>1, <1>2, <1>3, <1>9, <3>1, InOrderConcat DEF HandedHold
  <2> QED BY <1>1, <2>1, <2>2, <2>3, <2>4, <2>5 DEF HandedHold, InOrder, FileOf
<1>14. SentHold'
  <2>1. \A i \in 1..Len(sending') : Occurs(sending'[i].id, page')
    BY <1>5, <1>6, <1>8
  <2>2. \A i, j \in 1..Len(sending') : i < j => sending'[i].id < sending'[j].id
    BY <1>8, <1>9 DEF Rising
  <2>3. \A u \in Users : InOrder(inbox[u])' /\ \A m : Occurs(m, inbox[u]) => Occurs(m, page')
    BY <1>1, <1>3, <1>5 DEF SentHold, InOrder, FileOf
  <2>4. ASSUME NEW i \in 1..Len(sending'), NEW u \in sending'[i].to,
               NEW m, Occurs(m, inbox[u]), FileOf(m) = FileOf(b[i])
        PROVE  m < b[i]
    <3>1. i \in 1..Len(b) /\ u \in Users /\ Occurs(b[i], b)
      BY <1>6, <1>8
    <3>2. Occurs(m, page) /\ InAny(b[i], stored)
      BY <1>3, <1>4, <2>4, <3>1 DEF SentHold
    <3> QED BY <1>3, <2>4, <3>2 DEF HandedHold
  <2>5. ASSUME NEW i \in 1..Len(sending'), NEW u \in sending'[i].to, NEW m,
               Occurs(m, inbox'[u]), FileOf(m)' = message'[sending'[i].id].file
        PROVE  m < sending'[i].id
    BY <1>1, <1>8, <2>4, <2>5 DEF FileOf
  <2> QED BY <1>1, <2>1, <2>2, <2>3, <2>5 DEF SentHold, FileOf
<1>15. ASSUME NEW k \in 1..Len(message) PROVE Somewhere(k)' /\ MayGet(k)' /\ Arriving(k)'
  <2>1. Somewhere(k) /\ MayGet(k) /\ Arriving(k)
    BY DEF MessageInv, NoneMissed
  <2>2. Somewhere(k)' /\ MayGet(k)'
    BY <1>1, <1>10, <2>1 DEF Somewhere, MayGet, FileOf, GroupOf
  <2>3. ASSUME Occurs(k, page'), NEW u \in owed[k] PROVE Reaches(k, u)'
    <3>1. CASE Occurs(k, page)
      <4>1. Reaches(k, u) /\ Len(sending) = 0
        BY <1>1, <2>1, <2>3, <3>1 DEF Arriving
      <4>2. Occurs(k, inbox[u])
        BY <4>1 DEF Reaches
      <4> QED BY <1>1, <4>2 DEF Reaches
    <3>2. CASE Occurs(k, b)
      <4>1. PICK i \in 1..Len(b) : b[i] = k
        BY <3>2 DEF Occurs
      <4>2. u \in To(b[i])
        BY <2>1, <2>3, <4>1 DEF MayGet
      <4>3. i \in 1..Len(sending') /\ sending'[i].id = k /\ u \in sending'[i].to
        BY <1>8, <4>1, <4>2
      <4> QED BY <4>3 DEF Reaches
    <3> QED BY <1>5, <2>3, <3>1, <3>2
  <2> QED BY <1>1, <2>2, <2>3 DEF Arriving
<1> QED BY <1>1, <1>11, <1>12, <1>13, <1>14, <1>15 DEF MessageInv, NoneMissed

LEMMA DeliverArrives ==
  ASSUME WebInv, MessageInv, NEW u \in Users, NEW i \in DOMAIN sending, Deliver(u, i)
  PROVE  MessageInv'
<1> DEFINE e == [id |-> sending[i].id, to |-> sending[i].to \ {u}]
           s == [sending EXCEPT ![i].to = @ \ {u}]
           m == sending[i].id
<1>1. /\ u \in sending[i].to /\ \A j \in 1..i - 1 : sending[j].to = {}
      /\ inbox' = IF u \in bound THEN [inbox EXCEPT ![u] = Append(@, m)] ELSE inbox
      /\ sending' = StillToSend(s)
      /\ batch' = batch /\ message' = message /\ queue' = queue /\ file' = file /\ stored' = stored
      /\ page' = page /\ lost' = lost /\ today' = today /\ config' = config /\ bound' = bound /\ owed' = owed
  BY DEF Deliver, settings, storage, counters, history
<1>2. /\ sending \in Seq(Entries) /\ i \in 1..Len(sending) /\ Len(sending) \in Nat
      /\ \A j \in 1..Len(sending) : sending[j] \in Entries
      /\ inbox \in [Users -> Seq(Nat)] /\ inbox[u] \in Seq(Nat)
      /\ m \in Nat
  <2>1. sending \in Seq(Entries) /\ inbox \in [Users -> Seq(Nat)]
    BY DEF MessageInv, MessageTypes
  <2>2. i \in 1..Len(sending) /\ Len(sending) \in Nat /\ \A j \in 1..Len(sending) : sending[j] \in Entries
    BY <2>1
  <2> QED BY <2>1, <2>2 DEF Entries
<1>3. /\ s \in Seq(Entries) /\ Len(s) = Len(sending)
      /\ s[i] = e /\ \A j \in 1..Len(sending) : j # i => s[j] = sending[j]
  <2>1. e \in Entries /\ [sending[i] EXCEPT !.to = @ \ {u}] = e
    <3>1. sending[i] \in [id : Nat, to : SUBSET Users]
      BY <1>2 DEF Entries
    <3>2. [sending[i] EXCEPT !.to = @ \ {u}] = e
      BY <3>1
    <3>3. e \in [id : Nat, to : SUBSET Users]
      BY <3>1
    <3> QED BY <3>2, <3>3 DEF Entries
  <2>2. s = [sending EXCEPT ![i] = e]
    BY <2>1
  <2> HIDE DEF e, s
  <2> QED BY <1>2, <2>1, <2>2
<1>4. \A j \in 1..Len(sending) : s[j].id = sending[j].id /\ s[j].to \subseteq sending[j].to
  BY <1>3
<1>5. /\ sending' \in Seq(Entries)
      /\ \A j \in 1..Len(sending') : j \in 1..Len(sending) /\ sending'[j] = s[j]
      /\ \A j \in 1..Len(sending) : s[j].to # {} => j \in 1..Len(sending') /\ sending'[j] = s[j]
  <2> HIDE DEF s
  <2>1. /\ StillToSend(s) \in Seq(Entries)
        /\ \A j \in 1..Len(StillToSend(s)) : j \in 1..Len(s) /\ StillToSend(s)[j] = s[j]
        /\ \A j \in 1..Len(s) : s[j].to # {} => j \in 1..Len(StillToSend(s)) /\ StillToSend(s)[j] = s[j]
    BY <1>3, StillToSendKeeps
  <2> QED BY <1>1, <1>3, <2>1
<1>6. ~(u \in s[i].to)
  BY <1>3
<1>7. SentHold /\ HandedHold
  BY DEF MessageInv
<1> HIDE DEF s, e, m
<1>8. /\ inbox' \in [Users -> Seq(Nat)]
      /\ \A w \in Users \ {u} : inbox'[w] = inbox[w]
      /\ inbox'[u] = IF u \in bound THEN Append(inbox[u], m) ELSE inbox[u]
  <2>1. Append(inbox[u], m) \in Seq(Nat)
    BY <1>2
  <2> QED BY <1>1, <1>2, <2>1
<1>9. /\ \A x : Occurs(x, inbox'[u]) => Occurs(x, inbox[u]) \/ x = m
      /\ \A x : Occurs(x, inbox[u]) \/ (u \in bound /\ x = m) => Occurs(x, inbox'[u])
  <2>1. \A x : Occurs(x, Append(inbox[u], m)) <=> Occurs(x, inbox[u]) \/ x = m
    BY <1>2, AppendOccurs
  <2> QED BY <1>8, <2>1
<1>10. MessageTypes'
  BY <1>1, <1>5, <1>8 DEF MessageInv, MessageTypes
<1>11. FilesHold'
  BY <1>1 DEF MessageInv, FilesHold, Sorted, LinesOf, Waiting, Writing, HandedOn, Accepted, FileOf
<1>12. HandedHold'
  BY <1>1, <1>7 DEF HandedHold, HandedOn, Accepted, FileOf, InOrder
<1>13. SentHold'
  <2>1. \A j \in 1..Len(sending') : Occurs(sending'[j].id, page')
    BY <1>1, <1>4, <1>5, <1>7 DEF SentHold
  <2>2. \A j, k \in 1..Len(sending') : j < k => sending'[j].id < sending'[k].id
    BY <1>4, <1>5, <1>7 DEF SentHold
  <2>3. \A x : Occurs(x, inbox[u]) /\ FileOf(x) = FileOf(m) => x < m
    BY <1>1, <1>2, <1>7 DEF SentHold, m
  <2>4. InOrder(inbox'[u]) /\ \A x : Occurs(x, inbox'[u]) => Occurs(x, page)
    <3>1. InOrder(inbox[u]) /\ (\A x : Occurs(x, inbox[u]) => Occurs(x, page)) /\ Occurs(m, page)
      BY <1>2, <1>7 DEF SentHold, m
    <3>2. InOrder(Append(inbox[u], m))
      BY <1>2, <2>3, <3>1, InOrderAppend
    <3> QED BY <1>8, <1>9, <3>1, <3>2
  <2>5. \A w \in Users : InOrder(inbox'[w]) /\ \A x : Occurs(x, inbox'[w]) => Occurs(x, page)
    BY <1>7, <1>8, <2>4 DEF SentHold
  <2>6. ASSUME NEW j \in 1..Len(sending'), NEW w \in sending'[j].to, NEW x,
               Occurs(x, inbox'[w]), FileOf(x) = FileOf(sending[j].id)
        PROVE  x < sending[j].id
    <3>1. j \in 1..Len(sending) /\ w \in s[j].to /\ w \in sending[j].to /\ w \in Users
      BY <1>4, <1>5, AllAccepted
    <3>2. CASE Occurs(x, inbox[w])
      BY <1>7, <2>6, <3>1, <3>2 DEF SentHold
    <3>3. CASE ~Occurs(x, inbox[w])
      <4>1. w = u /\ x = m
        BY <1>8, <1>9, <2>6, <3>1, <3>3
      <4>2. j # i /\ ~(j \in 1..i - 1)
        BY <1>1, <1>6, <3>1, <4>1
      <4>3. i < j
        BY <1>2, <3>1, <4>2
      <4> QED BY <1>2, <1>7, <3>1, <4>1, <4>3 DEF SentHold, m
    <3> QED BY <3>2, <3>3
  <2>7. ASSUME NEW j \in 1..Len(sending'), NEW w \in sending'[j].to, NEW x,
               Occurs(x, inbox'[w]), FileOf(x)' = message'[sending'[j].id].file
        PROVE  x < sending'[j].id
    <3>1. sending'[j].id = sending[j].id
      BY <1>4, <1>5
    <3> QED BY <1>1, <2>6, <2>7, <3>1 DEF FileOf
  <2> QED BY <1>1, <2>1, <2>2, <2>5, <2>7 DEF SentHold, InOrder, FileOf
<1>14. ASSUME NEW k \in 1..Len(message) PROVE Somewhere(k)' /\ MayGet(k)' /\ Arriving(k)'
  <2>1. Somewhere(k) /\ MayGet(k) /\ Arriving(k)
    BY DEF MessageInv, NoneMissed
  <2>2. Somewhere(k)' /\ MayGet(k)'
    BY <1>1, <2>1 DEF Somewhere, MayGet, HandedOn, FileOf, GroupOf
  <2>3. ASSUME Occurs(k, page), NEW w \in owed[k] PROVE Reaches(k, w)'
    <3>1. w \in bound /\ w \in Users
      BY <2>1, <2>3 DEF MayGet, WebInv, WebTypes
    <3>2. CASE Occurs(k, inbox[w])
      <4>1. Occurs(k, inbox'[w])
        BY <1>8, <1>9, <3>1, <3>2
      <4> QED BY <4>1 DEF Reaches
    <3>3. CASE ~Occurs(k, inbox[w])
      <4>1. PICK j \in 1..Len(sending) : sending[j].id = k /\ w \in sending[j].to
        BY <2>1, <2>3, <3>3 DEF Arriving, Reaches
      <4>2. CASE j = i /\ w = u
        <5>1. Occurs(k, inbox'[w])
          BY <1>9, <3>1, <4>1, <4>2 DEF m
        <5> QED BY <5>1 DEF Reaches
      <4>3. CASE ~(j = i /\ w = u)
        <5>1. w \in s[j].to
          BY <1>3, <4>1, <4>3 DEF e
        <5>2. j \in 1..Len(sending') /\ sending'[j].id = k /\ w \in sending'[j].to
          BY <1>4, <1>5, <4>1, <5>1
        <5> QED BY <5>2 DEF Reaches
      <4> QED BY <4>2, <4>3
    <3> QED BY <3>2, <3>3
  <2> QED BY <1>1, <2>2, <2>3 DEF Arriving
<1> QED BY <1>1, <1>10, <1>11, <1>12, <1>13, <1>14 DEF MessageInv, NoneMissed

--------------------------------------------------------------------------------
(* The other steps, and the theorem.                                           *)

LEMMA OwedTypes ==
  ASSUME MessageInv
  PROVE  /\ owed \in [Ids -> SUBSET Users] /\ today \in Days /\ DOMAIN message = 1..Len(message)
         /\ 1..Len(message) \subseteq Ids
         /\ \A m \in 1..Len(message) : owed[m] \subseteq bound \cap Recipients(config, message[m].from, GroupOf(m))
<1>1. /\ message \in Seq([from : Users \cup {Admin}, file : Files]) /\ Len(message) <= MaxMessages
      /\ owed \in [Ids -> SUBSET Users] /\ today \in Days
  BY DEF MessageInv, MessageTypes
<1>2. DOMAIN message = 1..Len(message) /\ Len(message) \in Nat
  BY <1>1
<1>3. 1..Len(message) \subseteq Ids
  BY <1>1, <1>2, WebAssumption DEF Ids
<1> QED BY <1>1, <1>2, <1>3 DEF MessageInv, NoneMissed, MayGet

LEMMA ChangeArrives ==
  ASSUME MessageInv, NEW t, NEW new, NEW s, Change(t, new, s)
  PROVE  MessageInv'
<1>1. /\ message' = message /\ queue' = queue /\ batch' = batch /\ file' = file /\ stored' = stored
      /\ sending' = sending /\ page' = page /\ inbox' = inbox /\ lost' = lost /\ today' = today
      /\ config' = new /\ bound' = bound
      /\ owed' = [m \in Ids |-> IF m \in DOMAIN message
                                THEN owed[m] \cap Recipients(new, message[m].from, GroupOf(m))
                                ELSE {}]
  BY DEF Change, storage, pushing
<1>2. owed' \in [Ids -> SUBSET Users]
  BY <1>1, OwedTypes
<1>3. \A m \in 1..Len(message) : owed'[m] = owed[m] \cap Recipients(new, message[m].from, GroupOf(m))
  BY <1>1, OwedTypes
<1>4. \A m \in 1..Len(message) : owed'[m] \subseteq owed[m] /\ MayGet(m)'
  BY <1>1, <1>3, OwedTypes DEF MayGet, GroupOf
<1> QED BY <1>1, <1>2, <1>4, OwedTypes, NothingSent

LEMMA ChangesArrive == ASSUME MessageInv, NEW t \in Tasks, ChangeNext(t) PROVE MessageInv'
<1>1. ASSUME NEW new, NEW s, Change(t, new, s) PROVE MessageInv'
  BY <1>1, ChangeArrives
<1>2. CASE AddUser(t)
  BY <1>1, <1>2 DEF AddUser
<1>3. ASSUME NEW u \in Users, RemoveUser(t, u) PROVE MessageInv'
  BY <1>1, <1>3 DEF RemoveUser
<1>4. ASSUME NEW S \in MemberLists, AddGroup(t, S) PROVE MessageInv'
  BY <1>1, <1>4 DEF AddGroup
<1>5. ASSUME NEW g \in Multi, DeleteGroup(t, g) PROVE MessageInv'
  BY <1>1, <1>5 DEF DeleteGroup
<1>6. ASSUME NEW g \in Multi, NEW A \in MemberLists, NEW R \in MemberLists, ManageMembers(t, g, A, R)
      PROVE  MessageInv'
  BY <1>1, <1>6 DEF ManageMembers
<1>7. CASE Save(t) \/ SaveFails(t)
  <2>1. /\ message' = message /\ queue' = queue /\ batch' = batch /\ file' = file /\ stored' = stored
        /\ sending' = sending /\ page' = page /\ inbox' = inbox /\ lost' = lost /\ today' = today
        /\ config' = config /\ bound' = bound /\ owed' = owed
    BY <1>7 DEF Save, SaveFails, storage, pushing, counters, history
  <2>2. \A m \in 1..Len(message) : owed'[m] \subseteq owed[m] /\ MayGet(m)'
    BY <2>1, OwedTypes DEF MayGet, GroupOf
  <2> QED BY <2>1, <2>2, OwedTypes, NothingSent
<1>8. CASE Tell(t)
  <2> DEFINE n == Head(notices[t])
  <2>1. /\ message' = message /\ queue' = queue /\ batch' = batch /\ file' = file /\ stored' = stored
        /\ sending' = sending /\ page' = page /\ inbox' = inbox /\ lost' = lost /\ today' = today
        /\ config' = config
        /\ \/ bound' = bound \ {n.user} /\ owed' = [m \in Ids |-> owed[m] \ {n.user}]
           \/ bound' = bound /\ owed' = owed
    BY <1>8 DEF Tell, storage, pushing, counters
  <2> HIDE DEF n
  <2>2. owed' \in [Ids -> SUBSET Users]
    BY <2>1, OwedTypes
  <2>3. \A m \in 1..Len(message) :
           \/ bound' = bound \ {n.user} /\ owed'[m] = owed[m] \ {n.user}
           \/ bound' = bound /\ owed'[m] = owed[m]
    BY <2>1, OwedTypes
  <2>4. \A m \in 1..Len(message) : owed'[m] \subseteq owed[m] /\ MayGet(m)'
    BY <2>1, <2>3, OwedTypes DEF MayGet, GroupOf
  <2> QED BY <2>1, <2>2, <2>4, OwedTypes, NothingSent
<1> QED BY <1>2, <1>3, <1>4, <1>5, <1>6, <1>7, <1>8 DEF ChangeNext

LEMMA BindAndMidnightArrive ==
  ASSUME MessageInv, Midnight \/ (\E u \in Users : Bind(u)) \/ UNCHANGED webVars
  PROVE  MessageInv'
<1>1. /\ message' = message /\ queue' = queue /\ batch' = batch /\ file' = file /\ stored' = stored
      /\ sending' = sending /\ page' = page /\ inbox' = inbox /\ lost' = lost
      /\ config' = config /\ bound \subseteq bound' /\ owed' = owed
  BY DEF Bind, Midnight, settings, storage, pushing, counters, history, webVars
<1>2. today' \in Days
  <2>1. today' = today \/ (today + 1 < MaxDays /\ today' = today + 1)
    BY DEF Bind, Midnight, counters, webVars
  <2> QED BY <2>1, OwedTypes, WebAssumption DEF Days
<1>3. \A m \in 1..Len(message) : owed'[m] \subseteq owed[m] /\ MayGet(m)'
  BY <1>1, OwedTypes DEF MayGet, GroupOf
<1> QED BY <1>1, <1>2, <1>3, OwedTypes, NothingSent

LEMMA RestartArrives == ASSUME MessageInv, Restart PROVE MessageInv'
<1>1. /\ queue' = [f \in Files |-> <<>>] /\ batch' = [f \in Files |-> Quiet]
      /\ stored' = <<>> /\ sending' = <<>> /\ owed' = [m \in Ids |-> {}]
      /\ lost' = lost \cup OnTheWay
      /\ message' = message /\ file' = file /\ page' = page /\ inbox' = inbox /\ today' = today
  BY DEF Restart
<1>2. /\ \A f \in Files : queue'[f] = <<>> /\ batch'[f] = [lines |-> <<>>, done |-> 0]
      /\ Len(<<>>) = 0 /\ \A x : ~Occurs(x, <<>>)
  BY <1>1, EmptyOccurs DEF Quiet
<1>3. Rising(<<>>) /\ \A x : ~InAny(x, <<>>)
  BY DEF Rising, InAny
<1>4. \A m : HandedOn(m)' <=> Occurs(m, page)
  BY <1>1, <1>3 DEF HandedOn
<1>5. MessageTypes'
  <2>1. queue' \in [Files -> Seq(Nat)] /\ batch' \in [Files -> [lines : Seq(Nat), done : Nat]]
    BY <1>1 DEF Quiet
  <2>2. stored' \in Seq(Seq(Nat)) /\ sending' \in Seq(Entries) /\ owed' \in [Ids -> SUBSET Users]
    BY <1>1
  <2> QED BY <1>1, <2>1, <2>2 DEF MessageInv, MessageTypes
<1>6. ASSUME NEW f \in Files PROVE Sorted(f)' /\ Waiting(f)' /\ Writing(f)'
  <2>1. queue'[f] = <<>> /\ batch'[f].lines = <<>> /\ batch'[f].done = 0 /\ file'[f] = file[f] /\ Sorted(f)
    BY <1>1, <1>2 DEF MessageInv, FilesHold
  <2>2. Sorted(f)'
    BY <1>1, <1>2, <1>3, <2>1 DEF Sorted, LinesOf, Accepted, FileOf
  <2>3. Waiting(f)'
    BY <1>2, <2>1 DEF Waiting, Before
  <2>4. Writing(f)'
    BY <1>2, <2>1 DEF Writing
  <2> QED BY <2>2, <2>3, <2>4
<1>7. HandedHold'
  BY <1>1, <1>2, <1>3, <1>4 DEF MessageInv, HandedHold, HandedOn, Accepted, FileOf, InOrder
<1>8. SentHold'
  BY <1>1, <1>2 DEF MessageInv, SentHold, InOrder, FileOf
<1>9. ASSUME NEW k \in 1..Len(message) PROVE Somewhere(k)' /\ MayGet(k)' /\ Arriving(k)'
  <2>1. Somewhere(k) /\ FileOf(k) \in Files
    BY AllAccepted DEF MessageInv, NoneMissed, Accepted
  <2>2. owed'[k] = {}
    BY <1>1, OwedTypes
  <2>3. /\ Occurs(k, queue[FileOf(k)]) => k \in OnTheWay
        /\ Occurs(k, batch[FileOf(k)].lines) => k \in OnTheWay
        /\ InAny(k, stored) => k \in OnTheWay
    <3>1. /\ queue[FileOf(k)] \in Seq(Nat) /\ batch[FileOf(k)].lines \in Seq(Nat)
          /\ stored \in Seq(Seq(Nat)) /\ \A i \in 1..Len(stored) : stored[i] \in Seq(Nat)
      BY <2>1 DEF MessageInv, MessageTypes
    <3>2. \A q \in Seq(Nat) : Occurs(k, q) => k \in Range(q)
      BY DEF Occurs, Range
    <3>3. Occurs(k, queue[FileOf(k)]) => k \in Range(queue[FileOf(k)])
      BY <3>1, <3>2
    <3>4. Occurs(k, batch[FileOf(k)].lines) => k \in Range(batch[FileOf(k)].lines)
      BY <3>1, <3>2
    <3>5. InAny(k, stored) => \E i \in DOMAIN stored : k \in Range(stored[i])
      BY <3>1, <3>2 DEF InAny
    <3>6. FileOf(k) \in Files
      BY <2>1
    <3>7. Occurs(k, queue[FileOf(k)]) \/ Occurs(k, batch[FileOf(k)].lines)
             => \E f \in Files : k \in Range(queue[f]) \cup Range(batch[f].lines)
      BY <3>3, <3>4, <3>6
    <3> QED BY <3>5, <3>7 DEF OnTheWay
  <2>4. Somewhere(k)'
    BY <1>1, <1>4, <2>1, <2>3 DEF Somewhere, HandedOn
  <2> QED BY <2>2, <2>4 DEF MayGet, Arriving
<1> QED BY <1>1, <1>5, <1>6, <1>7, <1>8, <1>9 DEF MessageInv, FilesHold, NoneMissed

LEMMA MessagesStart == WebInit => MessageInv
<1> SUFFICES ASSUME WebInit PROVE MessageInv
  OBVIOUS
<1>1. /\ message = <<>> /\ today = 0 /\ stored = <<>> /\ sending = <<>> /\ page = <<>>
      /\ queue = [f \in Files |-> <<>>] /\ batch = [f \in Files |-> Quiet] /\ file = [f \in Files |-> <<>>]
      /\ inbox = [u \in Users |-> <<>>] /\ owed = [m \in Ids |-> {}]
  BY DEF WebInit
<1>2. /\ Len(<<>>) = 0 /\ Rising(<<>>) /\ (\A x : ~Occurs(x, <<>>)) /\ (\A x : ~InAny(x, <<>>))
      /\ InOrder(<<>>)
  BY EmptyOccurs DEF Rising, InAny, InOrder
<1>3. MessageTypes
  <2>1. queue \in [Files -> Seq(Nat)] /\ batch \in [Files -> [lines : Seq(Nat), done : Nat]]
    BY <1>1 DEF Quiet
  <2>2. file \in [Files -> Seq(Nat)] /\ inbox \in [Users -> Seq(Nat)] /\ owed \in [Ids -> SUBSET Users]
    BY <1>1
  <2>3. today \in Days /\ Len(message) <= MaxMessages
    BY <1>1, <1>2, WebAssumption DEF Days
  <2>4. /\ message \in Seq([from : Users \cup {Admin}, file : Files])
        /\ stored \in Seq(Seq(Nat)) /\ sending \in Seq(Entries) /\ page \in Seq(Nat)
    BY <1>1
  <2> QED BY <2>1, <2>2, <2>3, <2>4 DEF MessageTypes
<1>4. ASSUME NEW f \in Files PROVE Sorted(f) /\ Waiting(f) /\ Writing(f)
  <2>1. queue[f] = <<>> /\ batch[f].lines = <<>> /\ batch[f].done = 0 /\ file[f] = <<>>
    BY <1>1 DEF Quiet
  <2> QED BY <1>2, <2>1 DEF Sorted, LinesOf, Waiting, Before, Writing
<1>5. HandedHold
  BY <1>1, <1>2 DEF HandedHold, HandedOn
<1>6. SentHold
  BY <1>1, <1>2 DEF SentHold
<1> QED BY <1>1, <1>2, <1>3, <1>4, <1>5, <1>6 DEF MessageInv, FilesHold, NoneMissed

LEMMA MessagesHold == WebSpec => []MessageInv
<1>1. WebInv /\ MessageInv /\ [WebNext]_webVars => MessageInv'
  <2> SUFFICES ASSUME WebInv, MessageInv, [WebNext]_webVars PROVE MessageInv'
    OBVIOUS
  <2>1. ASSUME NEW p \in Posts, Send(p[1], p[2]) PROVE MessageInv'
    <3>1. p[1] \in Users \cup {Admin} /\ p[2] \in Multi \cup Direct
      BY WebAssumption
    <3> QED BY <2>1, <3>1, SendArrives
  <2>2. ASSUME NEW f \in Files, Flush(f) \/ WriteLine(f) \/ Publish(f) \/ WriteFails(f) PROVE MessageInv'
    BY <2>2, FlushArrives, WriteLineArrives, PublishArrives, WriteFailsArrives
  <2>3. CASE PushStored
    BY <2>3, PushArrives
  <2>4. ASSUME NEW u \in Users, NEW i \in DOMAIN sending, Deliver(u, i) PROVE MessageInv'
    BY <2>4, DeliverArrives
  <2>5. CASE MessageNext
    BY <2>1, <2>2, <2>3, <2>4, <2>5, BindAndMidnightArrive DEF MessageNext
  <2> QED BY <2>5, ChangesArrive, BindAndMidnightArrive, RestartArrives DEF WebNext
<1> QED BY <1>1, MessagesStart, WebHolds, PTL DEF WebSpec

LEMMA AllDelivered == ASSUME MessageInv PROVE AcceptedDelivered
<1>1. /\ page \in Seq(Nat) /\ inbox \in [Users -> Seq(Nat)] /\ sending \in Seq(Entries)
      /\ file \in [Files -> Seq(Nat)] /\ DOMAIN message = 1..Len(message)
  BY OwedTypes DEF MessageInv, MessageTypes
<1>2. ASSUME NEW s \in Seq(Nat), NEW x, Occurs(x, s) PROVE x \in Range(s)
  BY <1>2 DEF Occurs, Range
<1>3. \A x : HandedOn(x) => /\ FileOf(x) \in Files /\ Occurs(x, file[FileOf(x)])
                            /\ x \in Range(file[FileOf(x)])
  BY <1>1, <1>2, AllAccepted
<1>4. ASSUME NEW got \in {page} \cup {inbox[u] : u \in Users}, NEW i \in DOMAIN got, NEW j \in DOMAIN got
      PROVE  LET f == message[got[i]].file IN
             /\ got[i] \in Range(file[f])
             /\ i < j => got[i] # got[j]
             /\ i < j /\ message[got[j]].file = f =>
                   \A a, b \in DOMAIN file[f] :
                       file[f][a] = got[i] /\ file[f][b] = got[j] => a < b
  <2>1. /\ got \in Seq(Nat) /\ InOrder(got) /\ \A x : Occurs(x, got) => HandedOn(x)
    BY <1>1 DEF MessageInv, HandedHold, SentHold, HandedOn
  <2>2. DOMAIN got = 1..Len(got) /\ got[i] \in Nat /\ got[j] \in Nat /\ i \in 1..Len(got) /\ j \in 1..Len(got)
    BY <2>1
  <2>3. HandedOn(got[i])
    BY <2>1, <2>2 DEF Occurs
  <2> DEFINE f == FileOf(got[i])
  <2>4. f \in Files /\ got[i] \in Range(file[f])
    BY <1>3, <2>3
  <2>5. ASSUME i < j PROVE got[i] # got[j]
    BY <2>1, <2>2, <2>5 DEF InOrder
  <2>6. ASSUME i < j, FileOf(got[j]) = f, NEW a \in DOMAIN file[f], NEW b \in DOMAIN file[f],
               file[f][a] = got[i], file[f][b] = got[j]
        PROVE  a < b
    <3>1. got[i] < got[j]
      BY <2>1, <2>2, <2>6 DEF InOrder
    <3>2. /\ file[f] \in Seq(Nat) /\ Rising(file[f])
      BY <1>1, <2>4 DEF MessageInv, FilesHold, Sorted, LinesOf
    <3>3. a \in 1..Len(file[f]) /\ b \in 1..Len(file[f]) /\ a \in Nat /\ b \in Nat
      BY <2>6, <3>2
    <3>4. b < a => got[j] < got[i]
      BY <2>6, <3>2, <3>3 DEF Rising
    <3>5. a # b
      BY <2>2, <2>6, <3>1
    <3> QED BY <2>2, <3>1, <3>3, <3>4, <3>5
  <2> QED BY <2>4, <2>5, <2>6 DEF FileOf
<1>5. ASSUME NEW f \in Files PROVE IsInjective(file[f])
  <2>1. file[f] \in Seq(Nat) /\ Rising(file[f])
    BY <1>1 DEF MessageInv, FilesHold, Sorted, LinesOf
  <2>2. DOMAIN file[f] = 1..Len(file[f]) /\ Len(file[f]) \in Nat /\ \A i \in 1..Len(file[f]) : file[f][i] \in Nat
    BY <2>1
  <2> QED BY <2>1, <2>2 DEF Rising, IsInjective
<1>6. ASSUME NEW m \in DOMAIN message, m \notin lost \cup OnTheWay
      PROVE  /\ m \in Range(file[message[m].file]) /\ m \in Range(page)
             /\ \A u \in owed[m] : m \in Range(inbox[u])
  <2>1. Somewhere(m) /\ MayGet(m) /\ Arriving(m) /\ FileOf(m) \in Files
    BY <1>1, AllAccepted DEF MessageInv, NoneMissed, Accepted
  <2>2. ~Occurs(m, queue[FileOf(m)]) /\ ~Occurs(m, batch[FileOf(m)].lines)
    <3>1. \A f \in Files : queue[f] \in Seq(Nat) /\ batch[f].lines \in Seq(Nat)
      BY AllAccepted
    <3>2. \A f \in Files : m \notin Range(queue[f]) /\ m \notin Range(batch[f].lines)
      BY <1>6 DEF OnTheWay
    <3>3. \A f \in Files : ~Occurs(m, queue[f]) /\ ~Occurs(m, batch[f].lines)
      BY <1>2, <3>1, <3>2
    <3> QED BY <2>1, <3>3
  <2>3. ~InAny(m, stored)
    <3>1. stored \in Seq(Seq(Nat))
      BY DEF MessageInv, MessageTypes
    <3>2. \A i \in 1..Len(stored) : stored[i] \in Seq(Nat) /\ i \in DOMAIN stored
      BY <3>1
    <3>3. \A i \in DOMAIN stored : m \notin Range(stored[i])
      <4>1. m \notin UNION {Range(stored[i]) : i \in DOMAIN stored}
        BY <1>6 DEF OnTheWay
      <4> QED BY <4>1
    <3> QED BY <1>2, <3>2, <3>3 DEF InAny
  <2>4. Occurs(m, page)
    BY <1>6, <2>1, <2>2, <2>3 DEF Somewhere, HandedOn
  <2>5. ASSUME NEW u \in owed[m] PROVE m \in Range(inbox[u])
    <3>1. u \in Users /\ inbox[u] \in Seq(Nat)
      BY <1>1, OwedTypes
    <3>2. \A i \in 1..Len(sending) : ~(sending[i].id = m /\ u \in sending[i].to)
      <4>1. m \notin InSending /\ DOMAIN sending = 1..Len(sending)
        BY <1>1, <1>6 DEF OnTheWay
      <4>2. \A i \in 1..Len(sending) : sending[i].to # {} => sending[i].id \in InSending
        BY <4>1 DEF InSending
      <4> QED BY <4>1, <4>2
    <3>3. Occurs(m, inbox[u])
      BY <2>1, <2>4, <3>2 DEF Arriving, Reaches
    <3> QED BY <1>2, <3>1, <3>3
  <2>6. m \in Range(page) /\ m \in Range(file[FileOf(m)])
    BY <1>1, <1>2, <1>3, <2>4 DEF HandedOn
  <2> QED BY <2>5, <2>6 DEF FileOf
<1> QED BY <1>4, <1>5, <1>6 DEF AcceptedDelivered

\* A message that was accepted is stored before it is pushed, once, in the order of its
\* file, and reaches everybody who could see it from then on, unless its write failed or
\* a restart caught it on its way (send, MessageFileWriterContext::write, send_stored).
THEOREM MessagesAreDelivered == WebSpec => []AcceptedDelivered
<1>1. MessageInv => AcceptedDelivered
  BY AllDelivered
<1> QED BY <1>1, MessagesHold, PTL

--------------------------------------------------------------------------------
(* Facts for the pages: induction, and sequences that are joined.              *)

\* The least of some numbers, and induction from one number to the next.
LEMMA LeastOf ==
  ASSUME NEW S, S \subseteq Nat, S # {}
  PROVE  \E n \in S : \A m \in S : n <= m
<1>1. PICK n \in S : \A m \in S : <<m, n>> \notin OpToRel(<, Nat)
  BY NatLessThanWellFounded, WFMin
<1>2. \A m \in S : ~(m < n)
  BY <1>1 DEF OpToRel
<1> QED BY <1>2

LEMMA InductionOverSet ==
  ASSUME NEW T, 0 \in T, \A n \in Nat : n \in T => n + 1 \in T
  PROVE  \A n \in Nat : n \in T
<1> DEFINE M == {n \in Nat : n \notin T}
<1> SUFFICES ASSUME M # {} PROVE FALSE
  OBVIOUS
<1>1. PICK n \in M : \A m \in M : n <= m
  <2> HIDE DEF M
  <2>1. M \subseteq Nat
    BY DEF M
  <2> QED BY <2>1, LeastOf
<1>2. n # 0 /\ n \in Nat
  OBVIOUS
<1>3. n - 1 \in Nat /\ n - 1 \notin M
  BY <1>1, <1>2
<1> QED BY <1>2, <1>3

\* The sequences are joined one after another.
LEMMA JoinByStep ==
  ASSUME NEW ss, Len(ss) \in Nat, Len(ss) # 0
  PROVE  \E f : /\ FlattenSeq(ss) = f[Len(ss)] /\ f[1] = ss[1]
                /\ \A i \in 2..Len(ss) : f[i] = f[i - 1] \o ss[i]
<1> DEFINE N == Len(ss)
           JoinAt(g, i) == IF i = 1 THEN ss[i] ELSE g[i - 1] \o ss[i]
           JoinedUpTo(g, n) == g = [i \in 1..n |-> g[i]] /\ \A i \in 1..n : g[i] = JoinAt(g, i)
           T == {n \in Nat : \E g : JoinedUpTo(g, n)}
<1> HIDE DEF N
<1>1. 0 \in T
  <2> DEFINE g == [i \in 1..0 |-> <<>>]
  <2>1. JoinedUpTo(g, 0)
    OBVIOUS
  <2> HIDE DEF g, JoinedUpTo
  <2> QED BY <2>1
<1>2. ASSUME NEW n \in Nat, n \in T PROVE n + 1 \in T
  <2>1. PICK g : JoinedUpTo(g, n)
    BY <1>2
  <2> DEFINE v == JoinAt(g, n + 1)
  <2> HIDE DEF v
  <2> DEFINE h == [i \in 1..(n + 1) |-> IF i = n + 1 THEN v ELSE g[i]]
  <2>2. h = [i \in 1..(n + 1) |-> h[i]] /\ h[n + 1] = v /\ \A i \in 1..n : h[i] = g[i]
    OBVIOUS
  <2> HIDE DEF h
  <2>3. ASSUME NEW i \in 1..(n + 1) PROVE h[i] = JoinAt(h, i)
    <3>1. CASE i = n + 1
      <4>1. i # 1 => i - 1 \in 1..n
        BY <3>1
      <4>2. i # 1 => h[i - 1] = g[i - 1]
        BY <2>2, <4>1
      <4> QED BY <2>2, <3>1, <4>2 DEF v
    <3>2. CASE i # n + 1
      <4>1. i \in 1..n /\ (i # 1 => i - 1 \in 1..n)
        BY <3>2
      <4>2. h[i] = g[i] /\ (i # 1 => h[i - 1] = g[i - 1])
        BY <2>2, <4>1
      <4>3. g[i] = JoinAt(g, i)
        BY <2>1, <4>1
      <4> QED BY <4>2, <4>3
    <3> QED BY <3>1, <3>2
  <2>4. JoinedUpTo(h, n + 1)
    BY <2>2, <2>3
  <2> HIDE DEF JoinedUpTo
  <2> QED BY <2>4
<1>3. N \in T
  <2> HIDE DEF T
  <2> QED BY <1>1, <1>2, InductionOverSet DEF N
<1>4. PICK g : JoinedUpTo(g, N)
  BY <1>3
<1> DEFINE Eq(f) == f = [i \in 1..N |-> IF i = 1 THEN ss[i] ELSE f[i - 1] \o ss[i]]
<1>5. Eq(g)
  BY <1>4
<1> DEFINE flat == CHOOSE f : Eq(f)
<1>6. Eq(flat)
  <2> HIDE DEF Eq
  <2> QED BY <1>5
<1>7. FlattenSeq(ss) = flat[N]
  BY DEF FlattenSeq, N
<1> HIDE DEF flat
<1>8. \A i \in 1..N : flat[i] = JoinAt(flat, i)
  BY <1>6
<1>9. flat[1] = ss[1] /\ \A i \in 2..N : flat[i] = flat[i - 1] \o ss[i]
  <2>1. 1 \in 1..N /\ \A i \in 2..N : i \in 1..N /\ i # 1
    BY DEF N
  <2> QED BY <1>8, <2>1
<1> QED BY <1>7, <1>9 DEF N

--------------------------------------------------------------------------------
(* Pages: where the lines of each day stand among all lines of a group.        *)

Places == [file : Files, line : Nat]
LinesIn(g, d) == Len(file[<<g, d>>])
FilesRead(g) == \A d \in Days : LinesIn(g, d) \in Nat /\ LinesIn(g, d) <= MaxMessages
                                /\ (file[<<g, d>>] = <<>> <=> LinesIn(g, d) = 0)
LaidOut(g, all, pos) ==
    /\ all \in Seq(Places)
    /\ pos \in [0..MaxDays -> 0..Len(all)] /\ pos[0] = 0 /\ pos[MaxDays] = Len(all)
    /\ \A d \in Days :
          /\ pos[d + 1] = pos[d] + LinesIn(g, d)
          /\ \A l \in 1..LinesIn(g, d) : all[pos[d] + l] = Place(<<g, d>>, l)

LEMMA FirstLinesAre ==
  ASSUME NEW g \in Multi \cup Direct, FilesRead(g), NEW d \in Days
  PROVE  /\ FirstLines(<<g, d>>, MaxMessages) \in Seq(Places)
         /\ Len(FirstLines(<<g, d>>, MaxMessages)) = LinesIn(g, d)
         /\ \A l \in 1..LinesIn(g, d) :
               FirstLines(<<g, d>>, MaxMessages)[l] = Place(<<g, d>>, l)
<1> DEFINE f == <<g, d>>
           L == LinesIn(g, d)
           s == FirstLines(f, MaxMessages)
<1>1. f \in Files /\ L \in Nat /\ L <= MaxMessages /\ MaxMessages \in Nat
  BY WebAssumption DEF FilesRead, Files
<1>2. CASE file[f] = <<>>
  <2>1. s = <<>> /\ L = 0
    BY <1>2 DEF FirstLines, FilesRead
  <2> QED BY <2>1
<1>3. CASE file[f] # <<>>
  <2>1. s = [i \in 1..Least(MaxMessages, (L + 1) - 1) |-> Place(f, 1 + i - 1)]
    BY <1>3 DEF FirstLines, LinesFrom, LinesIn
  <2>2. Least(MaxMessages, (L + 1) - 1) = L /\ \A i \in 1..L : 1 + i - 1 = i
    BY <1>1 DEF Least
  <2>3. s = [i \in 1..L |-> Place(f, i)]
    BY <2>1, <2>2
  <2>4. \A i \in 1..L : Place(f, i) \in Places
    BY <1>1 DEF Place, Places
  <2> QED BY <1>1, <2>3, <2>4
<1> QED BY <1>2, <1>3

\* All lines of a group, day after day.
LEMMA GroupLaidOut ==
  ASSUME NEW g \in Multi \cup Direct, FilesRead(g)
  PROVE  \E pos : LaidOut(g, Everything(g), pos)
<1> DEFINE ss == [d \in 1..MaxDays |-> FirstLines(<<g, d - 1>>, MaxMessages)]
<1>1. Len(ss) = MaxDays /\ MaxDays \in Nat /\ MaxDays # 0
  BY WebAssumption
<1>2. ASSUME NEW d \in 1..MaxDays
      PROVE  /\ d - 1 \in Days /\ ss[d] \in Seq(Places) /\ Len(ss[d]) = LinesIn(g, d - 1)
             /\ \A l \in 1..LinesIn(g, d - 1) : ss[d][l] = Place(<<g, d - 1>>, l)
  <2>1. d - 1 \in Days /\ ss[d] = FirstLines(<<g, d - 1>>, MaxMessages)
    BY <1>1 DEF Days
  <2> QED BY <2>1, FirstLinesAre
<1>3. Everything(g) = FlattenSeq(ss)
  BY DEF Everything
<1> HIDE DEF ss
<1>4. PICK f : /\ FlattenSeq(ss) = f[MaxDays] /\ f[1] = ss[1]
               /\ \A i \in 2..MaxDays : f[i] = f[i - 1] \o ss[i]
  BY <1>1, JoinByStep
<1> DEFINE Joined(n) == n + 1 \in 1..MaxDays => f[n + 1] \in Seq(Places)
           T == {n \in Nat : Joined(n)}
<1>5. 0 \in T
  <2>1. f[1] = ss[1] /\ 1 \in 1..MaxDays
    BY <1>1, <1>4
  <2>2. ss[1] \in Seq(Places)
    BY <1>2, <2>1
  <2>3. f[0 + 1] \in Seq(Places)
    BY <2>1, <2>2
  <2> QED BY <2>3
<1>6. ASSUME NEW n \in Nat, n \in T PROVE n + 1 \in T
  <2>1. ASSUME (n + 1) + 1 \in 1..MaxDays PROVE f[(n + 1) + 1] \in Seq(Places)
    <3>1. n + 1 \in 1..MaxDays /\ (n + 1) + 1 \in 2..MaxDays /\ ((n + 1) + 1) - 1 = n + 1
      BY <1>1, <2>1
    <3>2. f[n + 1] \in Seq(Places) /\ ss[(n + 1) + 1] \in Seq(Places)
      BY <1>2, <1>6, <2>1, <3>1
    <3>3. f[(n + 1) + 1] = f[n + 1] \o ss[(n + 1) + 1]
      BY <1>4, <3>1
    <3> QED BY <3>2, <3>3, ConcatProperties
  <2> QED BY <2>1
<1>7. ASSUME NEW i \in 1..MaxDays PROVE f[i] \in Seq(Places)
  <2>1. i - 1 \in Nat /\ (i - 1) + 1 = i
    BY <1>1
  <2>2. i - 1 \in T
    <3> HIDE DEF T
    <3> QED BY <1>5, <1>6, <2>1, InductionOverSet
  <2> QED BY <2>1, <2>2
<1> HIDE DEF T
<1> DEFINE pos == [d \in 0..MaxDays |-> IF d = 0 THEN 0 ELSE Len(f[d])]
           all == f[MaxDays]
<1>8. all \in Seq(Places) /\ Len(all) \in Nat
  BY <1>1, <1>7
<1>9. ASSUME NEW d \in 1..MaxDays
      PROVE  /\ pos[d] = pos[d - 1] + LinesIn(g, d - 1) /\ pos[d] \in Nat /\ pos[d - 1] \in Nat
             /\ pos[d] = Len(f[d])
             /\ \A l \in 1..pos[d - 1] : f[d][l] = f[d - 1][l]
             /\ \A l \in 1..LinesIn(g, d - 1) : f[d][pos[d - 1] + l] = Place(<<g, d - 1>>, l)
  <2>0. d \in 0..MaxDays /\ d - 1 \in 0..MaxDays /\ d # 0 /\ d \in Nat
    BY <1>1
  <2>1. pos[d] = Len(f[d]) /\ pos[d - 1] = IF d - 1 = 0 THEN 0 ELSE Len(f[d - 1])
    BY <2>0
  <2> HIDE DEF pos
  <2>2. Len(f[d]) \in Nat /\ LinesIn(g, d - 1) \in Nat
    <3>1. f[d] \in Seq(Places) /\ d - 1 \in Days
      BY <1>2, <1>7
    <3>2. Len(f[d]) \in Nat
      BY <3>1
    <3>3. LinesIn(g, d - 1) \in Nat
      BY <3>1 DEF FilesRead
    <3> QED BY <3>2, <3>3
  <2>3. CASE d = 1
    <3>1. f[d] = ss[1] /\ d - 1 = 0 /\ pos[d - 1] = 0
      BY <1>4, <2>1, <2>3
    <3>2. Len(f[d]) = LinesIn(g, d - 1)
          /\ \A l \in 1..LinesIn(g, d - 1) : f[d][l] = Place(<<g, d - 1>>, l)
      BY <1>2, <2>3, <3>1
    <3>3. \A l \in 1..LinesIn(g, d - 1) : pos[d - 1] + l = l
      BY <3>1, <2>2
    <3>4. 1..pos[d - 1] = {}
      BY <3>1
    <3> QED BY <2>1, <2>2, <3>1, <3>2, <3>3, <3>4
  <2>4. CASE d # 1
    <3>1. d \in 2..MaxDays /\ d - 1 \in 1..MaxDays /\ d - 1 # 0
      BY <2>0, <2>4
    <3>2. f[d] = f[d - 1] \o ss[d] /\ f[d - 1] \in Seq(Places) /\ ss[d] \in Seq(Places)
          /\ pos[d - 1] = Len(f[d - 1]) /\ Len(ss[d]) = LinesIn(g, d - 1)
      BY <1>2, <1>4, <1>7, <2>1, <3>1
    <3>3. Len(f[d]) = Len(f[d - 1]) + LinesIn(g, d - 1) /\ Len(f[d - 1]) \in Nat
          /\ \A i \in 1..Len(f[d - 1]) + LinesIn(g, d - 1) :
                f[d][i] = IF i <= Len(f[d - 1]) THEN f[d - 1][i] ELSE ss[d][i - Len(f[d - 1])]
      <4>1. \A s, u \in Seq(Places) :
               /\ Len(s \o u) = Len(s) + Len(u) /\ Len(s) \in Nat
               /\ \A i \in 1..Len(s) + Len(u) :
                     (s \o u)[i] = IF i <= Len(s) THEN s[i] ELSE u[i - Len(s)]
        BY ConcatProperties
      <4> DEFINE s == f[d - 1]
                 u == ss[d]
                 L == LinesIn(g, d - 1)
      <4>2. s \in Seq(Places) /\ u \in Seq(Places) /\ f[d] = s \o u /\ Len(u) = L
        BY <3>2
      <4> HIDE DEF s, u, L, Joined
      <4>3. Len(f[d]) = Len(s) + L /\ Len(s) \in Nat
            /\ \A i \in 1..Len(s) + L : f[d][i] = IF i <= Len(s) THEN s[i] ELSE u[i - Len(s)]
        BY <4>1, <4>2
      <4> QED BY <4>3 DEF s, u, L
    <3>4. ASSUME NEW l \in 1..pos[d - 1] PROVE f[d][l] = f[d - 1][l]
      <4>1. l \in 1..Len(f[d - 1]) + LinesIn(g, d - 1) /\ l <= Len(f[d - 1])
        BY <2>2, <3>2, <3>3
      <4> QED BY <3>3, <4>1
    <3>5. ASSUME NEW l \in 1..LinesIn(g, d - 1)
          PROVE  f[d][pos[d - 1] + l] = Place(<<g, d - 1>>, l)
      <4>1. /\ pos[d - 1] + l \in 1..Len(f[d - 1]) + LinesIn(g, d - 1)
            /\ ~(pos[d - 1] + l <= Len(f[d - 1])) /\ (pos[d - 1] + l) - Len(f[d - 1]) = l
        BY <2>2, <3>2, <3>3
      <4>2. f[d][pos[d - 1] + l] = ss[d][l]
        BY <3>3, <4>1
      <4> QED BY <1>2, <4>2
    <3> QED BY <2>1, <2>2, <3>2, <3>3, <3>4, <3>5
  <2> QED BY <2>3, <2>4
<1>10. pos[0] = 0 /\ pos[MaxDays] = Len(all) /\ pos = [d \in 0..MaxDays |-> pos[d]]
  BY <1>1
<1> HIDE DEF pos, all
\* What is in a beginning stays where it is.
<1> DEFINE Stays(n) == n <= MaxDays => pos[MaxDays - n] <= Len(all) /\ pos[MaxDays - n] \in Nat
                         /\ \A l \in 1..pos[MaxDays - n] : f[MaxDays - n][l] = all[l]
           U == {n \in Nat : Stays(n)}
<1>11. 0 \in U
  <2>1. MaxDays - 0 = MaxDays
    BY <1>1
  <2> QED BY <1>8, <1>10, <2>1 DEF all
<1>12. ASSUME NEW n \in Nat, n \in U PROVE n + 1 \in U
  <2>1. ASSUME n + 1 <= MaxDays
        PROVE  /\ pos[MaxDays - (n + 1)] <= Len(all) /\ pos[MaxDays - (n + 1)] \in Nat
               /\ \A l \in 1..pos[MaxDays - (n + 1)] : f[MaxDays - (n + 1)][l] = all[l]
    <3> DEFINE d == MaxDays - n
    <3>1. d \in 1..MaxDays /\ d - 1 = MaxDays - (n + 1) /\ n <= MaxDays
      BY <1>1, <2>1
    <3>2. /\ pos[d] = pos[d - 1] + LinesIn(g, d - 1) /\ pos[d] \in Nat /\ pos[d - 1] \in Nat
          /\ \A l \in 1..pos[d - 1] : f[d][l] = f[d - 1][l]
          /\ LinesIn(g, d - 1) \in Nat
      BY <1>2, <1>9, <3>1 DEF FilesRead
    <3>3. pos[d] <= Len(all) /\ \A l \in 1..pos[d] : f[d][l] = all[l]
      BY <1>12, <3>1
    <3>4. pos[d - 1] <= pos[d] /\ \A l \in 1..pos[d - 1] : l \in 1..pos[d]
      BY <3>2
    <3>5. pos[d - 1] <= Len(all) /\ \A l \in 1..pos[d - 1] : f[d - 1][l] = all[l]
      BY <1>8, <3>2, <3>3, <3>4
    <3> HIDE DEF d
    <3> QED BY <3>1, <3>2, <3>5
  <2> QED BY <2>1
<1>13. ASSUME NEW d \in 0..MaxDays
       PROVE  pos[d] \in 0..Len(all) /\ \A l \in 1..pos[d] : f[d][l] = all[l]
  <2>1. MaxDays - d \in Nat /\ MaxDays - d <= MaxDays /\ MaxDays - (MaxDays - d) = d
    BY <1>1
  <2>2. MaxDays - d \in U
    <3> HIDE DEF U
    <3> QED BY <1>11, <1>12, <2>1, InductionOverSet
  <2>3. Stays(MaxDays - d)
    BY <2>2
  <2> QED BY <1>8, <2>1, <2>3
<1> HIDE DEF U
<1>14. ASSUME NEW d \in Days
       PROVE  /\ pos[d + 1] = pos[d] + LinesIn(g, d)
              /\ \A l \in 1..LinesIn(g, d) : all[pos[d] + l] = Place(<<g, d>>, l)
  <2>1. d + 1 \in 1..MaxDays /\ (d + 1) - 1 = d /\ d + 1 \in 0..MaxDays
    BY <1>1 DEF Days
  <2>2. /\ pos[d + 1] = pos[d] + LinesIn(g, d) /\ pos[d] \in Nat
        /\ \A l \in 1..LinesIn(g, d) : f[d + 1][pos[d] + l] = Place(<<g, d>>, l)
    <3>1. /\ pos[d + 1] = pos[(d + 1) - 1] + LinesIn(g, (d + 1) - 1) /\ pos[(d + 1) - 1] \in Nat
          /\ \A l \in 1..LinesIn(g, (d + 1) - 1) :
                f[d + 1][pos[(d + 1) - 1] + l] = Place(<<g, (d + 1) - 1>>, l)
      BY <1>9, <2>1
    <3> QED BY <2>1, <3>1
  <2>3. \A l \in 1..LinesIn(g, d) : pos[d] + l \in 1..pos[d + 1]
    <3>1. LinesIn(g, d) \in Nat
      BY DEF FilesRead
    <3> QED BY <2>2, <3>1
  <2>4. \A l \in 1..pos[d + 1] : f[d + 1][l] = all[l]
    BY <1>13, <2>1
  <2> QED BY <2>2, <2>3, <2>4
<1>15. pos \in [0..MaxDays -> 0..Len(all)]
  BY <1>10, <1>13
<1>16. LaidOut(g, all, pos)
  BY <1>8, <1>10, <1>14, <1>15 DEF LaidOut
<1> QED BY <1>3, <1>4, <1>16 DEF all

LEMMA DaysRise ==
  ASSUME NEW g, NEW all, NEW pos, FilesRead(g), LaidOut(g, all, pos)
  PROVE  /\ MaxDays \in Nat \ {0} /\ Len(all) \in Nat
         /\ \A d \in 0..MaxDays : pos[d] \in Nat /\ pos[d] <= Len(all)
         /\ \A d, e \in 0..MaxDays : d <= e => pos[d] <= pos[e]
<1>1. /\ MaxDays \in Nat \ {0} /\ Len(all) \in Nat
      /\ \A d \in 0..MaxDays : pos[d] \in Nat /\ pos[d] <= Len(all)
  BY WebAssumption DEF LaidOut
<1> DEFINE T == {n \in Nat : \A d \in 0..MaxDays : d + n <= MaxDays => pos[d] <= pos[d + n]}
<1>2. 0 \in T
  <2>1. \A d \in 0..MaxDays : d + 0 = d
    BY <1>1
  <2> QED BY <1>1, <2>1
<1>3. ASSUME NEW n \in Nat, n \in T PROVE n + 1 \in T
  <2>1. ASSUME NEW d \in 0..MaxDays, d + (n + 1) <= MaxDays PROVE pos[d] <= pos[d + (n + 1)]
    <3>1. d + n \in Days /\ d + n \in 0..MaxDays /\ d + (n + 1) = (d + n) + 1 /\ d + n <= MaxDays
          /\ (d + n) + 1 \in 0..MaxDays
      BY <1>1, <2>1 DEF Days
    <3>2. pos[(d + n) + 1] = pos[d + n] + LinesIn(g, d + n) /\ LinesIn(g, d + n) \in Nat
      BY <3>1 DEF LaidOut, FilesRead
    <3>3. pos[d] <= pos[d + n]
      BY <1>3, <3>1
    <3>4. pos[d] \in Nat /\ pos[d + n] \in Nat /\ pos[(d + n) + 1] \in Nat
      BY <1>1, <3>1
    <3>5. pos[d] <= pos[(d + n) + 1]
      BY <3>2, <3>3, <3>4
    <3> QED BY <3>1, <3>5
  <2> QED BY <2>1
<1>4. ASSUME NEW d \in 0..MaxDays, NEW e \in 0..MaxDays, d <= e PROVE pos[d] <= pos[e]
  <2>1. e - d \in Nat /\ d + (e - d) = e /\ d + (e - d) <= MaxDays
    BY <1>1, <1>4
  <2>2. e - d \in T
    <3> HIDE DEF T
    <3> QED BY <1>2, <1>3, <2>1, InductionOverSet
  <2>3. pos[d] <= pos[d + (e - d)]
    BY <2>1, <2>2
  <2> QED BY <2>1, <2>3
<1> QED BY <1>1, <1>4

\* Every line belongs to a day.
LEMMA DayOfLine ==
  ASSUME NEW g, NEW all, NEW pos, FilesRead(g), LaidOut(g, all, pos), NEW i \in 1..Len(all)
  PROVE  \E d \in Days : \E l \in 1..LinesIn(g, d) : i = pos[d] + l
<1>1. /\ MaxDays \in Nat \ {0} /\ Len(all) \in Nat
      /\ \A d \in 0..MaxDays : pos[d] \in Nat
  BY DaysRise
<1> DEFINE Found == \E d \in Days : \E l \in 1..LinesIn(g, d) : i = pos[d] + l
           T == {n \in Nat : n <= MaxDays /\ i <= pos[n] => Found}
<1>2. 0 \in T
  <2>1. pos[0] = 0 /\ ~(i <= 0)
    BY DEF LaidOut
  <2> QED BY <2>1
<1>3. ASSUME NEW n \in Nat, n \in T PROVE n + 1 \in T
  <2>1. ASSUME n + 1 <= MaxDays, i <= pos[n + 1] PROVE Found
    <3>1. n \in Days /\ n <= MaxDays /\ n \in 0..MaxDays
      BY <1>1, <2>1 DEF Days
    <3>2. pos[n + 1] = pos[n] + LinesIn(g, n) /\ LinesIn(g, n) \in Nat /\ pos[n] \in Nat
      BY <1>1, <3>1 DEF LaidOut, FilesRead
    <3>3. CASE i <= pos[n]
      BY <1>3, <3>1, <3>3
    <3>4. CASE ~(i <= pos[n])
      <4>1. i - pos[n] \in 1..LinesIn(g, n) /\ i = pos[n] + (i - pos[n])
        BY <1>1, <2>1, <3>2, <3>4
      <4> QED BY <3>1, <4>1
    <3> QED BY <3>3, <3>4
  <2> HIDE DEF Found
  <2> QED BY <2>1
<1>4. MaxDays \in T
  <2> HIDE DEF T
  <2> QED BY <1>1, <1>2, <1>3, InductionOverSet
<1>5. pos[MaxDays] = Len(all) /\ i <= Len(all)
  BY <1>1 DEF LaidOut
<1> QED BY <1>1, <1>4, <1>5

\* A part of all lines, line by line, and two parts one after the other.
LEMMA PartIs ==
  ASSUME NEW all \in Seq(Places), NEW a \in Nat, NEW n \in Nat, a + n <= Len(all),
         NEW s, s = [i \in 1..n |-> all[a + i]]
  PROVE  s = SubSeq(all, a + 1, a + n) /\ s \in Seq(Places) /\ Len(s) = n
<1>1. Len(all) \in Nat /\ \A i \in 1..Len(all) : all[i] \in Places
  OBVIOUS
<1>2. \A i \in 1..n : all[a + i] \in Places
  BY <1>1
<1>3. s \in Seq(Places) /\ Len(s) = n
  BY <1>2
<1>4. \A i \in (a + 1)..(a + n) : all[i] \in Places
  BY <1>1
<1> DEFINE t == SubSeq(all, a + 1, a + n)
<1>5. /\ t \in Seq(Places)
      /\ Len(t) = IF a + 1 <= a + n THEN (a + n) - (a + 1) + 1 ELSE 0
      /\ \A i \in 1..(a + n) - (a + 1) + 1 : t[i] = all[(a + 1) + i - 1]
  BY <1>4, SubSeqProperties
<1> HIDE DEF t
<1>6. Len(t) = n /\ \A i \in 1..n : t[i] = all[a + i]
  <2>1. Len(t) = n /\ (a + n) - (a + 1) + 1 = n /\ \A i \in 1..n : (a + 1) + i - 1 = a + i
    BY <1>5
  <2> QED BY <1>5, <2>1
<1>7. \A i \in 1..n : t[i] = s[i]
  BY <1>6
<1>8. t = s
  BY <1>3, <1>5, <1>6, <1>7, SeqEqual
<1> QED BY <1>3, <1>8 DEF t

LEMMA PartsJoin ==
  ASSUME NEW all \in Seq(Places), NEW a \in Nat, NEW b \in Nat, NEW c \in Nat,
         a <= b, b <= c, c <= Len(all)
  PROVE  SubSeq(all, a + 1, b) \o SubSeq(all, b + 1, c) = SubSeq(all, a + 1, c)
<1>1. Len(all) \in Nat
  OBVIOUS
<1>2. a + 1 \in 1..(Len(all) + 1) /\ b \in ((a + 1) - 1)..Len(all) /\ c \in b..Len(all)
  BY <1>1
<1>3. \A m \in 1..(Len(all) + 1) : \A j \in (m - 1)..Len(all) : \A n \in j..Len(all) :
         SubSeq(all, m, j) \o SubSeq(all, j + 1, n) = SubSeq(all, m, n)
  BY ConcatAdjacentSubSeq
<1> QED BY <1>2, <1>3

LEMMA PartLength ==
  ASSUME NEW all \in Seq(Places), NEW a \in Nat, NEW b \in Nat, a <= b, b <= Len(all)
  PROVE  SubSeq(all, a + 1, b) \in Seq(Places) /\ Len(SubSeq(all, a + 1, b)) = b - a
<1> DEFINE s == [i \in 1..(b - a) |-> all[a + i]]
<1>1. b - a \in Nat /\ a + (b - a) = b
  OBVIOUS
<1>2. s = SubSeq(all, a + 1, a + (b - a)) /\ s \in Seq(Places) /\ Len(s) = b - a
  <2> HIDE DEF s
  <2> QED BY <1>1, PartIs DEF s
<1> HIDE DEF s
<1> QED BY <1>1, <1>2

--------------------------------------------------------------------------------
(* Pages: lines of one file, and of the files before or after.                 *)

LEMMA LinesToIs ==
  ASSUME NEW g, NEW all, NEW pos, FilesRead(g), LaidOut(g, all, pos), NEW d \in Days,
         NEW b \in 0..LinesIn(g, d), NEW n \in Nat
  PROVE  LinesTo(<<g, d>>, b, n) = SubSeq(all, (pos[d] + b) - Least(n, b) + 1, pos[d] + b)
<1> DEFINE k == Least(n, b)
           a == (pos[d] + b) - k
           s == LinesTo(<<g, d>>, b, n)
<1>1. /\ d \in 0..MaxDays /\ d + 1 \in 0..MaxDays /\ MaxDays \in Nat /\ Len(all) \in Nat
      /\ pos[d] \in Nat /\ pos[d + 1] <= Len(all)
  BY DaysRise DEF Days
<1>2. /\ pos[d + 1] = pos[d] + LinesIn(g, d) /\ LinesIn(g, d) \in Nat /\ all \in Seq(Places)
      /\ \A l \in 1..LinesIn(g, d) : all[pos[d] + l] = Place(<<g, d>>, l)
  BY DEF LaidOut, FilesRead
<1>3. k \in Nat /\ k <= b /\ a \in Nat /\ a + k = pos[d] + b /\ a + k <= Len(all)
  BY <1>1, <1>2 DEF Least
<1>4. s = [i \in 1..k |-> Place(<<g, d>>, b - k + i)]
  BY DEF LinesTo
<1>5. ASSUME NEW i \in 1..k PROVE Place(<<g, d>>, b - k + i) = all[a + i]
  <2>1. b - k + i \in 1..LinesIn(g, d) /\ pos[d] + (b - k + i) = a + i
    <3> HIDE DEF k
    <3> QED BY <1>1, <1>2, <1>3, SMTT(60)
  <2> QED BY <1>2, <2>1
<1> HIDE DEF k, a, s
<1>6. s = [i \in 1..k |-> all[a + i]]
  BY <1>4, <1>5
<1>7. s = SubSeq(all, a + 1, a + k)
  BY <1>2, <1>3, <1>6, PartIs
<1> QED BY <1>3, <1>7 DEF k, a, s

LEMMA LinesFromIs ==
  ASSUME NEW g, NEW all, NEW pos, FilesRead(g), LaidOut(g, all, pos), NEW d \in Days,
         NEW b \in 0..LinesIn(g, d), NEW n \in Nat
  PROVE  LinesFrom(<<g, d>>, b + 1, n)
            = SubSeq(all, (pos[d] + b) + 1, pos[d] + b + Least(n, LinesIn(g, d) - b))
<1> DEFINE L == LinesIn(g, d)
           k == Least(n, L - b)
           a == pos[d] + b
           s == LinesFrom(<<g, d>>, b + 1, n)
<1>1. /\ d \in 0..MaxDays /\ d + 1 \in 0..MaxDays /\ MaxDays \in Nat /\ Len(all) \in Nat
      /\ pos[d] \in Nat /\ pos[d + 1] <= Len(all)
  BY DaysRise DEF Days
<1>2. /\ pos[d + 1] = pos[d] + L /\ L \in Nat /\ all \in Seq(Places)
      /\ \A l \in 1..L : all[pos[d] + l] = Place(<<g, d>>, l)
  BY DEF LaidOut, FilesRead
<1>3. k \in Nat /\ k <= L - b /\ a \in Nat /\ a + k <= Len(all)
  <2> HIDE DEF L
  <2> QED BY <1>1, <1>2, SMTT(60) DEF Least, L
<1>4. s = [i \in 1..k |-> Place(<<g, d>>, (b + 1) + i - 1)]
  <2>1. (L + 1) - (b + 1) = L - b
    BY <1>2
  <2>2. s = [i \in 1..Least(n, (L + 1) - (b + 1)) |-> Place(<<g, d>>, (b + 1) + i - 1)]
    BY DEF LinesFrom, LinesIn
  <2> QED BY <2>1, <2>2
<1>5. ASSUME NEW i \in 1..k PROVE Place(<<g, d>>, (b + 1) + i - 1) = all[a + i]
  <2>1. (b + 1) + i - 1 = b + i /\ b + i \in 1..L /\ pos[d] + (b + i) = a + i
    <3> HIDE DEF L
    <3> QED BY <1>1, <1>2, <1>3, SMTT(60) DEF L
  <2> QED BY <1>2, <2>1
<1> HIDE DEF k, a, s
<1>6. s = [i \in 1..k |-> all[a + i]]
  BY <1>4, <1>5
<1>7. s = SubSeq(all, a + 1, a + k)
  BY <1>2, <1>3, <1>6, PartIs
<1> QED BY <1>7 DEF k, a, s, L

LEMMA LinesFromFirst ==
  ASSUME NEW g, NEW all, NEW pos, FilesRead(g), LaidOut(g, all, pos), NEW d \in Days, NEW n \in Nat
  PROVE  LinesFrom(<<g, d>>, 1, n) = SubSeq(all, pos[d] + 1, pos[d] + Least(n, LinesIn(g, d)))
<1>1. /\ 0 \in 0..LinesIn(g, d) /\ 0 + 1 = 1 /\ LinesIn(g, d) - 0 = LinesIn(g, d)
      /\ pos[d] + 0 = pos[d]
  <2>1. LinesIn(g, d) \in Nat
    BY DEF FilesRead
  <2>3. d \in 0..MaxDays
    BY WebAssumption DEF Days
  <2>2. pos[d] \in Nat
    BY <2>3, DaysRise
  <2> QED BY <2>1, <2>2
<1>2. LinesFrom(<<g, d>>, 0 + 1, n)
        = SubSeq(all, (pos[d] + 0) + 1, pos[d] + 0 + Least(n, LinesIn(g, d) - 0))
  BY <1>1, LinesFromIs
<1> QED BY <1>1, <1>2

\* How many more lines are asked of a file, and how far back they go.
GoesBack(p, n, x, L, old, k) ==
    /\ old \in Nat /\ old <= p /\ n - (p - old) \in Nat
    /\ k \in Nat /\ old - k \in Nat /\ p - Least(n, p - x) = old - k
    /\ (k # 0 => old = x + L /\ L # 0)
LEMMA StillLacking ==
  ASSUME NEW p \in Nat, NEW n \in Nat, NEW x \in Nat, NEW L \in Nat, x + L <= p,
         NEW old, old = p - Least(n, p - (x + L)), NEW k, k = Least(n - (p - old), L)
  PROVE  GoesBack(p, n, x, L, old, k)
<1> USE DEF GoesBack
<1>1. CASE n < p - (x + L)
  <2>1. old = p - n /\ n - (p - old) = 0
    BY <1>1 DEF Least
  <2>2. k = 0
    BY <2>1 DEF Least
  <2>3. n < p - x
    BY <1>1
  <2> QED BY <1>1, <2>1, <2>2, <2>3 DEF Least
<1>2. CASE ~(n < p - (x + L))
  <2>1. old = x + L /\ p - old = p - (x + L) /\ n - (p - old) \in Nat
    BY <1>2 DEF Least
  <2>2. CASE n - (p - old) < L
    <3>1. k = n - (p - old) /\ n < p - x
      BY <2>1, <2>2 DEF Least
    <3> QED BY <1>2, <2>1, <2>2, <3>1 DEF Least
  <2>3. CASE ~(n - (p - old) < L)
    <3>1. k = L /\ ~(n < p - x)
      BY <2>1, <2>3 DEF Least
    <3> QED BY <1>2, <2>1, <2>3, <3>1 DEF Least
  <2> QED BY <2>2, <2>3
<1> QED BY <1>1, <1>2

\* What comes from the days before: enough of the lines that end where the first
\* ones do.
EndsAt(all, pos, start, p, n, first) ==
    first = SubSeq(all, (p - Least(n, p - pos[start])) + 1, p)
LEMMA OlderIs ==
  ASSUME NEW g, NEW all, NEW pos, FilesRead(g), LaidOut(g, all, pos),
         \A d \in Days : file[<<g, d>>] # <<>> => d \in days[g],
         NEW start \in 0..MaxDays, NEW p \in Nat, p <= Len(all), pos[start] <= p,
         NEW n \in Nat, NEW first, EndsAt(all, pos, start, p, n, first)
  PROVE  Older(g, start, n, first) = SubSeq(all, (p - Least(n, p)) + 1, p)
<1>1. /\ MaxDays \in Nat /\ Len(all) \in Nat /\ all \in Seq(Places) /\ pos[0] = 0
      /\ \A d \in 0..start : pos[d] \in Nat /\ pos[d] <= p
  <2>1. \A d \in 0..start : d \in 0..MaxDays /\ d <= start
    BY WebAssumption
  <2>2. /\ MaxDays \in Nat \ {0} /\ Len(all) \in Nat
        /\ \A d \in 0..MaxDays : pos[d] \in Nat /\ pos[d] <= Len(all)
        /\ \A d, e \in 0..MaxDays : d <= e => pos[d] <= pos[e]
    BY DaysRise
  <2>3. \A d \in 0..start : pos[d] \in Nat /\ pos[d] <= pos[start]
    BY <2>1, <2>2
  <2>4. all \in Seq(Places) /\ pos[0] = 0 /\ pos[start] \in Nat
    BY <2>2 DEF LaidOut
  <2> QED BY <2>2, <2>3, <2>4
<1> DEFINE Back(d) == p - Least(n, p - pos[d])
           Page(d) == SubSeq(all, Back(d) + 1, p)
           Step(r, d) == IF d \in days[g] THEN LastLines(<<g, d>>, n - Len(r)) \o r ELSE r
           Eq(f) == f = [d \in 0..start |-> IF d = start THEN first ELSE Step(f[d + 1], d)]
\* Each file adds what still lacks.
<1>2. ASSUME NEW d \in 0..start, d # start PROVE Step(Page(d + 1), d) = Page(d)
  <2>1. d \in Days /\ d + 1 \in 0..start /\ d \in 0..start
    BY <1>1, <1>2 DEF Days
  <2> DEFINE L == LinesIn(g, d)
             old == Back(d + 1)
             k == Least(n - (p - old), L)
  <2>2. /\ L \in Nat /\ pos[d + 1] = pos[d] + L /\ pos[d] \in Nat /\ pos[d + 1] \in Nat
        /\ pos[d + 1] <= p /\ (L # 0 => d \in days[g]) /\ Len(file[<<g, d>>]) = L
    BY <1>1, <2>1 DEF LaidOut, FilesRead, LinesIn
  <2>3. /\ old \in Nat /\ old <= p /\ n - (p - old) \in Nat
        /\ k \in Nat /\ old - k \in Nat /\ Back(d) = old - k
        /\ (k # 0 => old = pos[d + 1] /\ d \in days[g])
    <3>1. old = p - Least(n, p - (pos[d] + L)) /\ pos[d] + L <= p
      BY <2>2
    <3>0. k = Least(n - (p - old), L)
      OBVIOUS
    <3> HIDE DEF L, old, k
    <3>2. GoesBack(p, n, pos[d], L, old, k)
      BY <2>2, <3>0, <3>1, StillLacking
    <3> QED BY <2>2, <3>2 DEF GoesBack
  <2>5. Page(d + 1) = SubSeq(all, old + 1, p) /\ Len(Page(d + 1)) = p - old
    <3>1. Page(d + 1) = SubSeq(all, old + 1, p)
      OBVIOUS
    <3> HIDE DEF old, Page, k, Back
    <3>2. old <= Len(all)
      BY <1>1, <2>3
    <3>3. Len(SubSeq(all, old + 1, p)) = p - old
      BY <1>1, <2>3, <3>2, PartLength
    <3> QED BY <3>1, <3>3
  <2>6. LastLines(<<g, d>>, n - (p - old))
           = SubSeq(all, pos[d + 1] - k + 1, pos[d + 1])
    <3> HIDE DEF old
    <3>1. L \in 0..LinesIn(g, d)
      BY <2>2
    <3>2. LinesTo(<<g, d>>, L, n - (p - old))
             = SubSeq(all, (pos[d] + L) - Least(n - (p - old), L) + 1, pos[d] + L)
      <4> DEFINE m == n - (p - old)
      <4> HIDE DEF L, Back, Page, Step, Eq, k
      <4>1. m \in Nat /\ d \in Days
        BY <2>1, <2>3
      <4> HIDE DEF m
      <4>2. LinesTo(<<g, d>>, L, m) = SubSeq(all, (pos[d] + L) - Least(m, L) + 1, pos[d] + L)
        BY <3>1, <4>1, LinesToIs
      <4> QED BY <4>2 DEF m
    <3> QED BY <2>2, <3>2 DEF LastLines
  <2>7. CASE k = 0
    <3>1. Back(d) = old
      <4> HIDE DEF Back, old, k
      <4> QED BY <2>3, <2>7
    <3>2. Page(d + 1) = Page(d)
      <4>1. Page(d) = SubSeq(all, Back(d) + 1, p)
        OBVIOUS
      <4> HIDE DEF Page, Back, old
      <4> QED BY <2>5, <3>1, <4>1
    <3>3. LastLines(<<g, d>>, n - (p - old)) = <<>>
      <4> HIDE DEF k, old
      <4>1. pos[d + 1] - k + 1 = pos[d + 1] + 1 /\ pos[d + 1] \in Int /\ pos[d + 1] + 1 \in Int
        BY <2>2, <2>7
      <4>2. SubSeq(all, pos[d + 1] + 1, pos[d + 1]) = <<>>
        BY <4>1, SubSeqEmpty
      <4> QED BY <2>6, <4>1, <4>2
    <3>4. Page(d + 1) \in Seq(Places)
      <4> HIDE DEF old, Page
      <4> QED BY <1>1, <2>3, <2>5, PartLength
    <3>5. <<>> \o Page(d + 1) = Page(d + 1)
      <4> HIDE DEF Page
      <4> QED BY <3>4, ConcatEmptySeq
    <3> HIDE DEF Page, old
    <3> QED BY <2>5, <3>2, <3>3, <3>5
  <2>8. CASE k # 0
    <3>2. d \in days[g] /\ old = pos[d + 1]
      <4> HIDE DEF old, k
      <4> QED BY <2>3, <2>8
    <3>3. Step(Page(d + 1), d) = SubSeq(all, old - k + 1, old) \o SubSeq(all, old + 1, p)
      <4> HIDE DEF old, L, k, Page
      <4> QED BY <2>5, <2>6, <3>2
    <3>4. old - k \in Nat /\ old - k <= old
      <4> HIDE DEF old, k, Back
      <4> QED BY <2>3
    <3>5. SubSeq(all, (old - k) + 1, old) \o SubSeq(all, old + 1, p) = SubSeq(all, (old - k) + 1, p)
      <4> DEFINE a == old - k
      <4>1. a \in Nat /\ a <= old
        BY <3>4
      <4> HIDE DEF a, old, k, Back
      <4>3. old \in Nat /\ old <= p /\ p \in Nat /\ p <= Len(all) /\ all \in Seq(Places)
        BY <1>1, <2>3
      <4>2. SubSeq(all, a + 1, old) \o SubSeq(all, old + 1, p) = SubSeq(all, a + 1, p)
        BY <4>1, <4>3, PartsJoin
      <4> QED BY <4>2 DEF a
    <3>6. Page(d) = SubSeq(all, Back(d) + 1, p)
      OBVIOUS
    <3> HIDE DEF old, k, Back, Page, Step
    <3> QED BY <2>3, <3>3, <3>5, <3>6
  <2> QED BY <2>7, <2>8
<1>3. Page(start) = first /\ start \in Nat
  BY <1>1 DEF EndsAt
<1>4. Page(0) = SubSeq(all, (p - Least(n, p)) + 1, p)
  <2>1. p - pos[0] = p
    BY <1>1
  <2> QED BY <2>1
<1> HIDE DEF Page, Step
<1>5. Eq([d \in 0..start |-> Page(d)])
  <2> DEFINE h == [d \in 0..start |-> Page(d)]
  <2>1. ASSUME NEW d \in 0..start
        PROVE  h[d] = IF d = start THEN first ELSE Step(h[d + 1], d)
    <3>1. h[d] = Page(d)
      OBVIOUS
    <3>2. CASE d = start
      BY <1>3, <3>1, <3>2
    <3>3. CASE d # start
      <4>1. d + 1 \in 0..start
        BY <1>1, <3>3
      <4>2. h[d + 1] = Page(d + 1)
        BY <4>1
      <4> QED BY <1>2, <3>1, <3>3, <4>2
    <3> QED BY <3>2, <3>3
  <2>2. h = [d \in 0..start |-> h[d]]
    OBVIOUS
  <2> HIDE DEF h
  <2>3. Eq(h)
    BY <2>1, <2>2
  <2> QED BY <2>3 DEF h
<1> DEFINE from == CHOOSE f : Eq(f)
<1>6. Eq(from)
  <2> HIDE DEF Eq
  <2> QED BY <1>5
<1>7. Older(g, start, n, first) = from[0]
  BY DEF Older, Step
<1> HIDE DEF from
<1>8. \A d \in 0..start : from[d] = IF d = start THEN first ELSE Step(from[d + 1], d)
  BY <1>6
<1> DEFINE T == {m \in Nat : m <= start => from[start - m] = Page(start - m)}
<1>9. 0 \in T
  <2>1. start - 0 = start /\ start \in 0..start
    BY <1>3
  <2>2. from[start] = first
    BY <1>8, <2>1
  <2> QED BY <1>3, <2>1, <2>2
<1>10. ASSUME NEW m \in Nat, m \in T PROVE m + 1 \in T
  <2>1. ASSUME m + 1 <= start PROVE from[start - (m + 1)] = Page(start - (m + 1))
    <3> DEFINE d == start - (m + 1)
    <3>1. d \in 0..start /\ d # start /\ d + 1 = start - m /\ m <= start
      BY <1>3, <2>1
    <3> HIDE DEF d
    <3>2. from[d] = Step(from[d + 1], d)
      BY <1>8, <3>1
    <3>3. from[d + 1] = Page(d + 1)
      BY <1>10, <3>1
    <3>4. from[d] = Page(d)
      BY <1>2, <3>1, <3>2, <3>3
    <3> QED BY <3>4 DEF d
  <2> QED BY <2>1
<1>11. start \in T
  <2> HIDE DEF T
  <2> QED BY <1>3, <1>9, <1>10, InductionOverSet
<1>12. start - start = 0 /\ start <= start
  BY <1>3
<1>13. from[0] = Page(0)
  BY <1>11, <1>12
<1> QED BY <1>4, <1>7, <1>13

\* How many more lines are asked of a file, and how far on they go.
GoesOn(p, n, x, L, old, k) ==
    /\ old \in Nat /\ p <= old /\ old <= x /\ n - (old - p) \in Nat
    /\ k \in Nat /\ k <= L /\ Least(x + L, p + n) = old + k
    /\ (k # 0 => old = x /\ L # 0)
LEMMA StillWanted ==
  ASSUME NEW p \in Nat, NEW n \in Nat, NEW x \in Nat, NEW L \in Nat, p <= x,
         NEW old, old = Least(x, p + n), NEW k, k = Least(n - (old - p), L)
  PROVE  GoesOn(p, n, x, L, old, k)
<1> USE DEF GoesOn
<1>1. CASE x < p + n
  <2>1. old = x /\ n - (old - p) \in Nat /\ n - (old - p) = (p + n) - x
    BY <1>1 DEF Least
  <2>2. CASE (p + n) - x < L
    <3>1. k = (p + n) - x /\ ~(x + L < p + n)
      BY <2>1, <2>2 DEF Least
    <3> QED BY <1>1, <2>1, <2>2, <3>1 DEF Least
  <2>3. CASE ~((p + n) - x < L)
    <3>1. k = L
      BY <2>1, <2>3 DEF Least
    <3>2. Least(x + L, p + n) = x + L
      BY <1>1, <2>3 DEF Least
    <3> QED BY <1>1, <2>1, <3>1, <3>2
  <2> QED BY <2>2, <2>3
<1>2. CASE ~(x < p + n)
  <2>1. old = p + n /\ n - (old - p) = 0
    BY <1>2 DEF Least
  <2>2. k = 0
    BY <2>1 DEF Least
  <2>3. Least(x + L, p + n) = p + n
    BY <1>2 DEF Least
  <2> QED BY <1>2, <2>1, <2>2, <2>3
<1> QED BY <1>1, <1>2

\* And from the days after, enough of the lines that follow.
BeginsAfter(all, pos, start, p, n, first) ==
    first = SubSeq(all, p + 1, Least(pos[start + 1], p + n))
LEMMA NewerIs ==
  ASSUME NEW g, NEW all, NEW pos, FilesRead(g), LaidOut(g, all, pos),
         \A d \in Days : file[<<g, d>>] # <<>> => d \in days[g],
         NEW start \in Days, NEW p \in Nat, p <= pos[start + 1],
         NEW n \in Nat, NEW first, BeginsAfter(all, pos, start, p, n, first)
  PROVE  Newer(g, start, n, first) = SubSeq(all, p + 1, Least(Len(all), p + n))
<1>1. /\ MaxDays \in Nat /\ Len(all) \in Nat /\ all \in Seq(Places) /\ pos[MaxDays] = Len(all)
      /\ start \in Nat /\ start <= MaxDays - 1 /\ MaxDays - 1 \in Nat
      /\ \A d \in start..MaxDays - 1 : /\ pos[d + 1] \in Nat /\ p <= pos[d + 1]
                                        /\ pos[d + 1] <= Len(all)
  <2>1. /\ MaxDays \in Nat \ {0} /\ Len(all) \in Nat
        /\ \A d \in 0..MaxDays : pos[d] \in Nat /\ pos[d] <= Len(all)
        /\ \A d, e \in 0..MaxDays : d <= e => pos[d] <= pos[e]
    BY DaysRise
  <2>2. start \in Nat /\ start <= MaxDays - 1 /\ MaxDays - 1 \in Nat /\ start + 1 \in 0..MaxDays
    BY <2>1 DEF Days
  <2>3. ASSUME NEW d \in start..MaxDays - 1
        PROVE  pos[d + 1] \in Nat /\ p <= pos[d + 1] /\ pos[d + 1] <= Len(all)
    <3>1. d + 1 \in 0..MaxDays /\ start + 1 <= d + 1
      BY <2>1, <2>2
    <3>2. pos[d + 1] \in Nat /\ pos[start + 1] \in Nat /\ pos[start + 1] <= pos[d + 1]
          /\ pos[d + 1] <= Len(all)
      BY <2>1, <2>2, <3>1
    <3> QED BY <3>2
  <2>4. all \in Seq(Places) /\ pos[MaxDays] = Len(all)
    BY DEF LaidOut
  <2> QED BY <2>1, <2>2, <2>3, <2>4
<1> DEFINE On(d) == Least(pos[d + 1], p + n)
           Page(d) == SubSeq(all, p + 1, On(d))
           Step(r, d) == IF d \in days[g] THEN r \o FirstLines(<<g, d>>, n - Len(r)) ELSE r
           Eq(f) == f = [d \in start..MaxDays - 1 |->
                           IF d = start THEN first ELSE Step(f[d - 1], d)]
<1>2. ASSUME NEW d \in start..MaxDays - 1, d # start PROVE Step(Page(d - 1), d) = Page(d)
  <2>1. d \in Days /\ d - 1 \in start..MaxDays - 1 /\ (d - 1) + 1 = d /\ d + 0 = d
    BY <1>1, <1>2 DEF Days
  <2> DEFINE L == LinesIn(g, d)
             old == On(d - 1)
             k == Least(n - (old - p), L)
  <2>2. /\ L \in Nat /\ pos[d + 1] = pos[d] + L /\ pos[d] \in Nat /\ pos[d + 1] <= Len(all)
        /\ p <= pos[d] /\ pos[d] <= Len(all) /\ (L # 0 => d \in days[g])
        /\ (file[<<g, d>>] = <<>> <=> L = 0)
    <3>1. /\ pos[(d - 1) + 1] \in Nat /\ p <= pos[(d - 1) + 1] /\ pos[(d - 1) + 1] <= Len(all)
          /\ pos[d + 1] <= Len(all)
      BY <1>1, <2>1
    <3>2. L \in Nat /\ pos[d + 1] = pos[d] + L /\ (file[<<g, d>>] = <<>> <=> L = 0)
      BY <2>1 DEF LaidOut, FilesRead
    <3> HIDE DEF L
    <3> QED BY <2>1, <3>1, <3>2
  <2>3. /\ old \in Nat /\ p <= old /\ old <= pos[d] /\ n - (old - p) \in Nat
        /\ k \in Nat /\ On(d) = old + k /\ old + k <= Len(all)
        /\ (k # 0 => old = pos[d] /\ L # 0)
    <3>1. old = Least(pos[d], p + n) /\ On(d) = Least(pos[d] + L, p + n)
      BY <2>1, <2>2
    <3>2. k = Least(n - (old - p), L)
      OBVIOUS
    <3> HIDE DEF L, old, k, On
    <3>3. GoesOn(p, n, pos[d], L, old, k)
      BY <2>2, <3>1, <3>2, StillWanted
    <3>4. old + k <= Len(all)
      BY <1>1, <2>2, <3>3, SMTT(60) DEF GoesOn
    <3> QED BY <3>1, <3>3, <3>4 DEF GoesOn
  <2>4. Page(d - 1) = SubSeq(all, p + 1, old) /\ Len(Page(d - 1)) = old - p
        /\ Page(d - 1) \in Seq(Places)
    <3>1. Page(d - 1) = SubSeq(all, p + 1, old)
      OBVIOUS
    <3>2. old <= Len(all)
      <4> HIDE DEF old, k, On
      <4> QED BY <1>1, <2>2, <2>3
    <3> HIDE DEF old, Page, k, On
    <3>3. SubSeq(all, p + 1, old) \in Seq(Places) /\ Len(SubSeq(all, p + 1, old)) = old - p
      BY <1>1, <2>3, <3>2, PartLength
    <3> QED BY <3>1, <3>3
  <2>5. CASE k = 0
    <3>1. FirstLines(<<g, d>>, n - (old - p)) = <<>>
      <4>1. CASE L = 0
        BY <2>2, <4>1 DEF FirstLines
      <4>2. CASE L # 0
        <5>1. n - (old - p) = 0
          <6> HIDE DEF old, L
          <6> QED BY <2>2, <2>3, <2>5, <4>2 DEF Least
        <5>2. Least(0, (L + 1) - 1) = 0
          <6> HIDE DEF L
          <6> QED BY <2>2, <4>2 DEF Least
        <5>3. FirstLines(<<g, d>>, 0) = [i \in 1..Least(0, (L + 1) - 1) |-> Place(<<g, d>>, 1 + i - 1)]
          BY <2>2, <4>2 DEF FirstLines, LinesFrom, LinesIn
        <5>4. FirstLines(<<g, d>>, 0) = <<>>
          <6>1. FirstLines(<<g, d>>, 0) = [i \in 1..0 |-> Place(<<g, d>>, 1 + i - 1)]
            BY <5>2, <5>3
          <6> QED BY <6>1
        <5> HIDE DEF old
        <5> QED BY <5>1, <5>4
      <4> QED BY <4>1, <4>2
    <3>2. Step(Page(d - 1), d) = Page(d - 1)
      <4> HIDE DEF Page, old, k, On
      <4>1. Page(d - 1) \o <<>> = Page(d - 1)
        BY <2>4, ConcatEmptySeq
      <4> QED BY <2>4, <3>1, <4>1
    <3>3. Page(d) = SubSeq(all, p + 1, On(d))
      OBVIOUS
    <3>4. On(d) = old
      <4> HIDE DEF On, old, k
      <4> QED BY <2>3, <2>5
    <3> HIDE DEF Step, Page, On, old, k
    <3> QED BY <2>4, <3>2, <3>3, <3>4
  <2>6. CASE k # 0
    <3>1. d \in days[g] /\ old = pos[d] /\ file[<<g, d>>] # <<>>
      <4> HIDE DEF old, L, k
      <4> QED BY <2>2, <2>3, <2>6
    <3>2. FirstLines(<<g, d>>, n - (old - p)) = SubSeq(all, old + 1, old + k)
      <4>1. FirstLines(<<g, d>>, n - (old - p)) = LinesFrom(<<g, d>>, 1, n - (old - p))
        BY <3>1 DEF FirstLines
      <4> DEFINE m == n - (old - p)
      <4>2. m \in Nat
        BY <2>3
      <4>3. k = Least(m, L)
        OBVIOUS
      <4> HIDE DEF m, k
      <4>4. LinesFrom(<<g, d>>, 1, m) = SubSeq(all, pos[d] + 1, pos[d] + k)
        BY <2>1, <4>2, <4>3, LinesFromFirst
      <4> HIDE DEF old
      <4> QED BY <3>1, <4>1, <4>4 DEF m
    <3>3. Step(Page(d - 1), d) = SubSeq(all, p + 1, old) \o SubSeq(all, old + 1, old + k)
      <4> HIDE DEF old, k, Page, On
      <4> QED BY <2>4, <3>1, <3>2
    <3>4. SubSeq(all, p + 1, old) \o SubSeq(all, old + 1, old + k) = SubSeq(all, p + 1, old + k)
      <4> HIDE DEF old, k, On
      <4> DEFINE c == old + k
      <4>1. c \in Nat /\ old <= c /\ c <= Len(all) /\ old \in Nat /\ p <= old
        BY <2>3
      <4>2. all \in Seq(Places)
        BY <1>1
      <4> HIDE DEF c
      <4>3. SubSeq(all, p + 1, old) \o SubSeq(all, old + 1, c) = SubSeq(all, p + 1, c)
        BY <4>1, <4>2, PartsJoin
      <4> QED BY <4>3 DEF c
    <3>5. Page(d) = SubSeq(all, p + 1, On(d))
      OBVIOUS
    <3> HIDE DEF old, k, Page, On, Step
    <3> QED BY <2>3, <3>3, <3>4, <3>5
  <2> QED BY <2>5, <2>6
<1>3. Page(start) = first
  BY DEF BeginsAfter
<1>4. Page(MaxDays - 1) = SubSeq(all, p + 1, Least(Len(all), p + n))
  <2>1. (MaxDays - 1) + 1 = MaxDays
    BY <1>1
  <2>2. pos[(MaxDays - 1) + 1] = Len(all)
    BY <1>1, <2>1
  <2> QED BY <2>2
<1> HIDE DEF Page, Step
<1>5. Eq([d \in start..MaxDays - 1 |-> Page(d)])
  <2> DEFINE h == [d \in start..MaxDays - 1 |-> Page(d)]
  <2>1. ASSUME NEW d \in start..MaxDays - 1
        PROVE  h[d] = IF d = start THEN first ELSE Step(h[d - 1], d)
    <3>1. h[d] = Page(d)
      OBVIOUS
    <3>2. CASE d = start
      BY <1>3, <3>1, <3>2
    <3>3. CASE d # start
      <4>1. d - 1 \in start..MaxDays - 1
        BY <1>1, <3>3
      <4>2. h[d - 1] = Page(d - 1)
        BY <4>1
      <4> QED BY <1>2, <3>1, <3>3, <4>2
    <3> QED BY <3>2, <3>3
  <2>2. h = [d \in start..MaxDays - 1 |-> h[d]]
    OBVIOUS
  <2> HIDE DEF h
  <2>3. Eq(h)
    BY <2>1, <2>2
  <2> QED BY <2>3 DEF h
<1> DEFINE upTo == CHOOSE f : Eq(f)
<1>6. Eq(upTo)
  <2> HIDE DEF Eq
  <2> QED BY <1>5
<1>7. Newer(g, start, n, first) = upTo[MaxDays - 1]
  BY DEF Newer, Step
<1> HIDE DEF upTo
<1>8. \A d \in start..MaxDays - 1 : upTo[d] = IF d = start THEN first ELSE Step(upTo[d - 1], d)
  BY <1>6
<1> DEFINE T == {m \in Nat : start + m <= MaxDays - 1 => upTo[start + m] = Page(start + m)}
<1>9. 0 \in T
  <2>1. start + 0 = start /\ start \in start..MaxDays - 1
    BY <1>1
  <2>2. upTo[start] = first
    BY <1>8, <2>1
  <2> QED BY <1>3, <2>1, <2>2
<1>10. ASSUME NEW m \in Nat, m \in T PROVE m + 1 \in T
  <2>1. ASSUME start + (m + 1) <= MaxDays - 1
        PROVE  upTo[start + (m + 1)] = Page(start + (m + 1))
    <3> DEFINE d == start + (m + 1)
    <3>1. d \in start..MaxDays - 1 /\ d # start /\ d - 1 = start + m /\ start + m <= MaxDays - 1
      BY <1>1, <2>1
    <3> HIDE DEF d
    <3>2. upTo[d] = Step(upTo[d - 1], d)
      BY <1>8, <3>1
    <3>3. upTo[d - 1] = Page(d - 1)
      BY <1>10, <3>1
    <3>4. upTo[d] = Page(d)
      BY <1>2, <3>1, <3>2, <3>3
    <3> QED BY <3>4 DEF d
  <2> QED BY <2>1
<1>11. MaxDays - 1 - start \in Nat /\ start + (MaxDays - 1 - start) = MaxDays - 1
       /\ MaxDays - 1 <= MaxDays - 1
  BY <1>1
<1>12. MaxDays - 1 - start \in T
  <2> HIDE DEF T
  <2> QED BY <1>9, <1>10, <1>11, InductionOverSet
<1>13. upTo[start + (MaxDays - 1 - start)] = Page(start + (MaxDays - 1 - start))
  BY <1>11, <1>12
<1>14. upTo[MaxDays - 1] = Page(MaxDays - 1)
  BY <1>11, <1>13
<1> QED BY <1>4, <1>7, <1>14

LEMMA PagesFollow ==
  ASSUME NEW g \in Multi \cup Direct, FilesRead(g),
         \A d \in Days : file[<<g, d>>] # <<>> => d \in days[g], NEW n \in 1..MaxMessages
  PROVE  LET all == Everything(g)  N == Len(all) IN
         /\ GetRecent(g, n) = SubSeq(all, (N + 1) - Least(n, N), N)
         /\ \A i \in 1..N :
               LET d == all[i].file[2]  l == all[i].line IN
               /\ GetBefore(g, d, l, n) = SubSeq(all, i - Least(n, i - 1), i - 1)
               /\ GetAfter(g, d, l, n) = SubSeq(all, i + 1, Least(N, i + n))
<1> DEFINE all == Everything(g)
           N == Len(all)
<1>0. PICK pos : LaidOut(g, all, pos)
  BY GroupLaidOut
<1> HIDE DEF all
<1>1. /\ MaxDays \in Nat \ {0} /\ N \in Nat /\ n \in Nat
      /\ \A d \in 0..MaxDays : pos[d] \in Nat /\ pos[d] <= N
      /\ \A d, e \in 0..MaxDays : d <= e => pos[d] <= pos[e]
  BY <1>0, DaysRise, WebAssumption, SMTT(60)
<1>2. pos[MaxDays] = N /\ all \in Seq(Places) /\ MaxDays \in 0..MaxDays
  BY <1>0, <1>1 DEF LaidOut
<1>3. GetRecent(g, n) = SubSeq(all, (N + 1) - Least(n, N), N)
  <2>1. N - N = 0 /\ Least(n, 0) = 0 /\ N - 0 = N
    BY <1>1 DEF Least
  <2>2. EndsAt(all, pos, MaxDays, N, n, <<>>)
    <3>1. SubSeq(all, N + 1, N) = <<>>
      BY <1>1, SubSeqEmpty
    <3> QED BY <1>2, <2>1, <3>1 DEF EndsAt
  <2>3. pos[MaxDays] <= N /\ N <= Len(all)
    BY <1>1, <1>2
  <2> HIDE DEF N
  <2>4. Older(g, MaxDays, n, <<>>) = SubSeq(all, (N - Least(n, N)) + 1, N)
    BY <1>0, <1>1, <1>2, <2>2, <2>3, OlderIs
  <2>5. (N - Least(n, N)) + 1 = (N + 1) - Least(n, N)
    BY <1>1 DEF Least
  <2> QED BY <2>4, <2>5 DEF GetRecent
<1>4. ASSUME NEW i \in 1..N
      PROVE  LET d == all[i].file[2]  l == all[i].line IN
             /\ GetBefore(g, d, l, n) = SubSeq(all, i - Least(n, i - 1), i - 1)
             /\ GetAfter(g, d, l, n) = SubSeq(all, i + 1, Least(N, i + n))
  <2>0. PICK d \in Days : \E l \in 1..LinesIn(g, d) : i = pos[d] + l
    BY <1>0, DayOfLine
  <2>1. PICK l \in 1..LinesIn(g, d) : i = pos[d] + l
    BY <2>0
  <2>2. all[i].file[2] = d /\ all[i].line = l
    <3>1. all[i] = Place(<<g, d>>, l)
      BY <1>0, <2>1 DEF LaidOut
    <3> HIDE DEF N
    <3> QED BY <3>1 DEF Place
  <2>3. /\ d \in 0..MaxDays /\ d + 1 \in 0..MaxDays /\ LinesIn(g, d) \in Nat /\ l \in Nat
        /\ pos[d] \in Nat /\ pos[d + 1] = pos[d] + LinesIn(g, d) /\ pos[d + 1] <= N /\ i \in Nat
        /\ i <= N /\ LinesIn(g, d) = Len(file[<<g, d>>])
    <3>1. d \in 0..MaxDays /\ d + 1 \in 0..MaxDays
      BY <1>1 DEF Days
    <3>2. LinesIn(g, d) \in Nat /\ pos[d + 1] = pos[d] + LinesIn(g, d)
      BY <1>0 DEF LaidOut, FilesRead
    <3>3. LinesIn(g, d) = Len(file[<<g, d>>]) /\ l \in Nat
      BY <3>2 DEF LinesIn
    <3> HIDE DEF N
    <3> QED BY <1>1, <3>1, <3>2, <3>3
  <2>4. GetBefore(g, d, l, n) = SubSeq(all, i - Least(n, i - 1), i - 1)
    <3> DEFINE p == i - 1
               first == LinesTo(<<g, d>>, l - 1, n)
    <3>1. /\ p \in Nat /\ p <= Len(all) /\ pos[d] <= p /\ p - pos[d] = l - 1
          /\ l - 1 \in 0..LinesIn(g, d) /\ pos[d] + (l - 1) = p
      BY <1>1, <2>1, <2>3, SMTT(60)
    <3>2. first = SubSeq(all, (pos[d] + (l - 1)) - Least(n, l - 1) + 1, pos[d] + (l - 1))
      BY <1>0, <1>1, <3>1, LinesToIs
    <3> HIDE DEF first, p
    <3>3. EndsAt(all, pos, d, p, n, first)
      BY <3>1, <3>2 DEF EndsAt
    <3>4. Older(g, d, n, first) = SubSeq(all, (p - Least(n, p)) + 1, p)
      <4>1. d \in 0..MaxDays /\ p \in Nat /\ p <= Len(all) /\ pos[d] <= p /\ n \in Nat
        BY <1>1, <2>3, <3>1
      <4> HIDE DEF N
      <4> QED BY <1>0, <3>3, <4>1, OlderIs
    <3>5. (p - Least(n, p)) + 1 = i - Least(n, i - 1)
      BY <1>1, <2>3, <3>1 DEF Least, p
    <3> QED BY <3>4, <3>5 DEF GetBefore, first, p
  <2>5. GetAfter(g, d, l, n) = SubSeq(all, i + 1, Least(N, i + n))
    <3> DEFINE first == IF l < Len(file[<<g, d>>]) THEN LinesFrom(<<g, d>>, l + 1, n) ELSE <<>>
               L == LinesIn(g, d)
    <3>1. first = SubSeq(all, i + 1, Least(pos[d + 1], i + n))
      <4>1. CASE l < L
        <5>1. first = LinesFrom(<<g, d>>, l + 1, n)
          BY <2>3, <4>1
        <5>2. LinesFrom(<<g, d>>, l + 1, n)
                = SubSeq(all, (pos[d] + l) + 1, pos[d] + l + Least(n, L - l))
          <6>1. l \in 0..LinesIn(g, d)
            BY <2>1, <2>3
          <6> QED BY <1>0, <1>1, <6>1, LinesFromIs
        <5>3. i + Least(n, L - l) = Least(pos[d + 1], i + n)
          <6> HIDE DEF L
          <6>1. pos[d + 1] = i + (L - l) /\ L - l \in Nat
            BY <2>1, <2>3, <4>1, SMTT(60) DEF L
          <6> QED BY <1>1, <2>3, <6>1, SMTT(60) DEF Least
        <5> HIDE DEF first, L
        <5> QED BY <2>1, <5>1, <5>2, <5>3
      <4>2. CASE ~(l < L)
        <5>1. first = <<>> /\ pos[d + 1] = i
          BY <2>1, <2>3, <4>2
        <5>2. Least(pos[d + 1], i + n) = i
          BY <1>1, <2>3, <5>1 DEF Least
        <5>3. SubSeq(all, i + 1, i) = <<>>
          BY <2>3, SubSeqEmpty
        <5> QED BY <5>1, <5>2, <5>3
      <4> QED BY <4>1, <4>2
    <3> HIDE DEF first
    <3>2. i <= pos[d + 1]
      BY <2>1, <2>3
    <3> HIDE DEF N
    <3>4. BeginsAfter(all, pos, d, i, n, first)
      BY <3>1 DEF BeginsAfter
    <3>3. Newer(g, d, n, first) = SubSeq(all, i + 1, Least(Len(all), i + n))
      <4>1. i \in Nat /\ i <= pos[d + 1] /\ n \in Nat
        BY <1>1, <2>3, <3>2
      <4> QED BY <1>0, <3>4, <4>1, NewerIs
    <3> QED BY <3>3 DEF GetAfter, first, N
  <2> QED BY <2>2, <2>4, <2>5
<1> QED BY <1>3, <1>4 DEF all

--------------------------------------------------------------------------------
(* Pages: a file that has lines is known by its day.                           *)

\* Or its lines were not published, or come from before a restart.
DaysKnown ==
    /\ days \in [Multi \cup Direct -> SUBSET Days]
    /\ \A f \in Files : file[f] # <<>> =>
          f[2] \in days[f[1]] \/ f \in forgotten \/ batch[f].done > 0

LEMMA DaysStay ==
  ASSUME DaysKnown, days' = days, file' = file, batch' = batch, forgotten' = forgotten
  PROVE  DaysKnown'
BY DEF DaysKnown

LEMMA DaysKept ==
  ASSUME MessageInv, DaysKnown, [WebNext]_webVars
  PROVE  DaysKnown'
<1>1. /\ file \in [Files -> Seq(Nat)] /\ batch \in [Files -> [lines : Seq(Nat), done : Nat]]
      /\ \A f \in Files : f[1] \in Multi \cup Direct /\ f[2] \in Days
  BY DEF MessageInv, MessageTypes, Files
<1>2. ASSUME NEW f \in Files, Flush(f) PROVE DaysKnown'
  <2>1. /\ days' = days /\ file' = file /\ forgotten' = forgotten
        /\ batch[f].done = 0 /\ batch' = [batch EXCEPT ![f] = [lines |-> queue[f], done |-> 0]]
    BY <1>2 DEF Flush, Quiet, history
  <2>2. \A h \in Files : batch'[h].done = batch[h].done
    BY <1>1, <2>1
  <2> QED BY <2>1, <2>2 DEF DaysKnown
<1>3. ASSUME NEW f \in Files, WriteLine(f) PROVE DaysKnown'
  <2>1. /\ days' = days /\ forgotten' = forgotten
        /\ file' = [file EXCEPT ![f] = Append(@, batch[f].lines[batch[f].done + 1])]
        /\ batch' = [batch EXCEPT ![f].done = @ + 1]
    BY <1>3 DEF WriteLine, history
  <2>2. batch'[f].done > 0 /\ \A h \in Files \ {f} : batch'[h] = batch[h] /\ file'[h] = file[h]
    BY <1>1, <2>1
  <2> QED BY <2>1, <2>2 DEF DaysKnown
<1>4. ASSUME NEW f \in Files, Publish(f) PROVE DaysKnown'
  <2>1. /\ days' = [days EXCEPT ![f[1]] = @ \cup {f[2]}] /\ file' = file
        /\ forgotten' = forgotten \ {f} /\ batch' = [batch EXCEPT ![f] = Quiet]
    BY <1>4 DEF Publish
  <2>2. f[2] \in days'[f[1]] /\ days' \in [Multi \cup Direct -> SUBSET Days]
        /\ \A g \in Multi \cup Direct : days[g] \subseteq days'[g]
    BY <1>1, <2>1 DEF DaysKnown
  <2>3. \A h \in Files \ {f} : batch'[h] = batch[h] /\ (h \in forgotten => h \in forgotten')
    BY <1>1, <2>1
  <2>4. ASSUME NEW h \in Files, file'[h] # <<>>
        PROVE  h[2] \in days'[h[1]] \/ h \in forgotten' \/ batch'[h].done > 0
    <3>1. CASE h = f
      BY <2>2, <3>1
    <3>2. CASE h # f
      BY <1>1, <2>1, <2>2, <2>3, <2>4, <3>2 DEF DaysKnown
    <3> QED BY <3>1, <3>2
  <2> QED BY <2>2, <2>4 DEF DaysKnown
<1>5. ASSUME NEW f \in Files, WriteFails(f) PROVE DaysKnown'
  <2>1. /\ days' = days /\ file' = file /\ batch' = [batch EXCEPT ![f] = Quiet]
        /\ forgotten' = IF batch[f].done > 0 THEN forgotten \cup {f} ELSE forgotten
    BY <1>5 DEF WriteFails
  <2>2. \A h \in Files \ {f} : batch'[h] = batch[h]
    BY <1>1, <2>1
  <2> QED BY <2>1, <2>2 DEF DaysKnown
<1>6. CASE Restart
  <2>1. /\ days' = [g \in Multi \cup Direct |-> {}] /\ file' = file
        /\ forgotten' = {f \in Files : file[f] # <<>>}
    BY <1>6 DEF Restart
  <2> QED BY <2>1 DEF DaysKnown
<1>7. ASSUME NEW p \in Posts, Send(p[1], p[2]) PROVE DaysKnown'
  BY <1>7, DaysStay DEF Send
<1>8. CASE Midnight \/ PushStored
  BY <1>8, DaysStay DEF Midnight, PushStored, storage, history
<1>9. ASSUME NEW u \in Users, NEW i \in DOMAIN sending, Deliver(u, i) PROVE DaysKnown'
  BY <1>9, DaysStay DEF Deliver, storage, history
<1>10. ASSUME NEW u \in Users, Bind(u) PROVE DaysKnown'
  BY <1>10, DaysStay DEF Bind, storage
<1>11. ASSUME NEW t \in Tasks, ChangeNext(t) PROVE DaysKnown'
  BY <1>11, DaysStay DEF ChangeNext, AddUser, RemoveUser, AddGroup, ManageMembers, DeleteGroup,
     Change, Save, SaveFails, Tell, storage, history
<1>12. CASE UNCHANGED webVars
  BY <1>12, DaysStay DEF webVars, storage, history
<1>13. CASE MessageNext
  BY <1>2, <1>3, <1>4, <1>5, <1>7, <1>8, <1>9, <1>13 DEF MessageNext
<1> QED BY <1>6, <1>10, <1>11, <1>12, <1>13 DEF WebNext

\* A file has no more lines than messages were accepted.
LEMMA FilesBounded ==
  ASSUME MessageInv, NEW f \in Files
  PROVE  /\ Len(file[f]) \in Nat /\ Len(file[f]) <= MaxMessages
         /\ (file[f] = <<>> <=> Len(file[f]) = 0)
<1> DEFINE s == file[f]
           N == Len(message)
<1>1. s \in Seq(Nat) /\ Rising(s) /\ (\A m : Occurs(m, s) => m \in 1..N)
      /\ N \in Nat /\ N <= MaxMessages
  BY DEF MessageInv, MessageTypes, FilesHold, Sorted, LinesOf, Accepted
<1> HIDE DEF s, N
<1>2. Len(s) \in Nat /\ DOMAIN s = 1..Len(s) /\ (s = <<>> <=> Len(s) = 0)
  BY <1>1
<1>3. s \in [1..Len(s) -> 1..N]
  <2>1. \A i \in 1..Len(s) : s[i] \in 1..N
    BY <1>1 DEF Occurs
  <2> QED BY <1>1, <1>2, <2>1
<1>4. \A i, j \in 1..Len(s) : s[i] = s[j] => i = j
  <2>1. \A i \in 1..Len(s) : i \in Int /\ s[i] \in Int
    BY <1>2, <1>3
  <2> QED BY <1>1, <2>1 DEF Rising
<1>5. s \in Injection(1..Len(s), 1..N)
  BY <1>2, <1>3, <1>4 DEF Injection, IsInjective
<1>6. IsFiniteSet(1..N) /\ Cardinality(1..N) = N /\ Cardinality(1..Len(s)) = Len(s)
  <2>1. 1 \in Int /\ N \in Int /\ Len(s) \in Int
    BY <1>1, <1>2
  <2>2. IsFiniteSet(1..N) /\ Cardinality(1..N) = N
    BY <1>1, <2>1, FS_Interval
  <2>3. \A m \in Nat : Cardinality(1..m) = m
    <3>1. SUFFICES ASSUME NEW m \in Nat PROVE Cardinality(1..m) = m
      OBVIOUS
    <3>2. m \in Int /\ 1 \in Int
      OBVIOUS
    <3> QED BY <3>2, FS_Interval
  <2> QED BY <1>2, <2>2, <2>3
<1>7. Cardinality(1..Len(s)) <= Cardinality(1..N)
  BY <1>5, <1>6, FS_Injection
<1>8. MaxMessages \in Nat
  BY WebAssumption
<1> QED BY <1>1, <1>2, <1>6, <1>7, <1>8 DEF s

LEMMA PagesShown == ASSUME MessageInv, DaysKnown PROVE PagesComplete
<1> SUFFICES ASSUME NEW g \in Multi \cup Direct,
                    \A d \in Days : <<g, d>> \notin forgotten /\ batch[<<g, d>>].done = 0,
                    NEW n \in 1..MaxMessages
             PROVE  LET all == Everything(g)  N == Len(all) IN
                    /\ GetRecent(g, n) = SubSeq(all, (N + 1) - Least(n, N), N)
                    /\ \A i \in 1..N :
                          LET d == all[i].file[2]  l == all[i].line IN
                          /\ GetBefore(g, d, l, n) = SubSeq(all, i - Least(n, i - 1), i - 1)
                          /\ GetAfter(g, d, l, n) = SubSeq(all, i + 1, Least(N, i + n))
  BY DEF PagesComplete
<1>1. \A d \in Days : <<g, d>> \in Files
  BY DEF Files
<1>2. FilesRead(g)
  BY <1>1, FilesBounded DEF FilesRead, LinesIn
<1>3. \A d \in Days : file[<<g, d>>] # <<>> => d \in days[g]
  BY <1>1 DEF DaysKnown
<1> QED BY <1>2, <1>3, PagesFollow

\* However messages, failures and restarts follow: the pages of a group, from the end or
\* from any line, show the messages next to it, none left out and none twice, but for days
\* the service does not know of (get_recent, get_before, get_after).
THEOREM PagesAreComplete == WebSpec => []PagesComplete
<1>1. WebInit => DaysKnown
  BY DEF WebInit, DaysKnown
<1>2. MessageInv /\ DaysKnown /\ [WebNext]_webVars => DaysKnown'
  BY DaysKept
<1>3. MessageInv /\ DaysKnown => PagesComplete
  BY PagesShown
<1> QED BY <1>1, <1>2, <1>3, MessagesHold, PTL DEF WebSpec
==================================================================================
