---------------------------- MODULE MessageBatching ----------------------------
(***************************************************************************)
(* What the batching stage of the agent promises to its two neighbours,    *)
(* without queues, clocks or deadlines.                                    *)
(*                                                                         *)
(* Messages of one session are submitted, wait in arrival order, and are   *)
(* handed to the agentic loop in batches.  A batch is never empty, takes   *)
(* everything that waits when it is closed, and is handed over only when   *)
(* the loop has finished with the previous one.                            *)
(***************************************************************************)
EXTENDS Sequences

CONSTANT Messages     (* the messages of one session; each is submitted once *)

VARIABLES
    waiting,          (* submitted and not handed over, in arrival order      *)
    inLoop,           (* the batch the agentic loop works on, <<>> when idle  *)
    processed         (* the batches the loop has finished with, oldest first *)

vars == <<waiting, inLoop, processed>>

Init ==
    /\ waiting = <<>>
    /\ inLoop = <<>>
    /\ processed = <<>>

Submit(m) ==
    /\ waiting' = Append(waiting, m)
    /\ UNCHANGED <<inLoop, processed>>

HandOver ==
    /\ inLoop = <<>>
    /\ waiting # <<>>
    /\ inLoop' = waiting
    /\ waiting' = <<>>
    /\ UNCHANGED processed

Complete ==
    /\ inLoop # <<>>
    /\ processed' = Append(processed, inLoop)
    /\ inLoop' = <<>>
    /\ UNCHANGED waiting

Next ==
    \/ \E m \in Messages : Submit(m)
    \/ HandOver
    \/ Complete

Spec == Init /\ [][Next]_vars
================================================================================
