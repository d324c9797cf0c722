------------------------------ MODULE AgenticLoop ------------------------------
(***************************************************************************)
(* The agentic loop of one session (kissbot-agent, pipelines.rs and        *)
(* pipelines/token_reducer.rs): the consumer task of the batching queue    *)
(* hands over a batch, the loop sends the context to the model, runs the   *)
(* tools the model asks for, all at once, and repeats until the model asks *)
(* for none, an error ends the turn, or the rounds are used up.  Before a  *)
(* request the context may be reduced, from a summary the model writes or  *)
(* from the memory store.                                                  *)
(*                                                                         *)
(* Both pipelines are modelled.  Operations of the session context are     *)
(* single steps here (SessionContext has their insides); the environment   *)
(* answers, fails, and crashes the process.  What makes a context ill-     *)
(* formed for the model's provider is recorded in `damage` with its cause. *)
(***************************************************************************)
EXTENDS Naturals, Sequences, FiniteSets

CONSTANTS
    Pipelines,   (* the pipelines configured: "default", "default_memory"         *)
    Limited,     (* whether the model has a limit of tokens (max_tokens_usage > 0) *)
    Faults,      (* "config": the model is not configured; "crash"                 *)
    MaxRounds,   (* MAX_TOOL_ROUNDS                                                *)
    MaxCalls,    (* bound: tool calls in one response                              *)
    MaxTurns,    (* bound: batches                                                 *)
    MaxFailures  (* bound: failures of the operations on the context               *)

ASSUME LoopAssumption ==
    /\ Pipelines \subseteq {"default", "default_memory"}
    /\ Limited \in BOOLEAN
    /\ Faults \subseteq {"config", "crash"}
    /\ MaxRounds \in Nat \ {0}
    /\ MaxCalls \in Nat
    /\ MaxTurns \in Nat
    /\ MaxFailures \in Nat

VARIABLES
    pipeline,    (* which pipeline the session has                                 *)
    turn,        (* the number of batches taken                                    *)
    pc,          (* where the loop is                                              *)
    round,       (* the round of the turn                                          *)
    toSend,      (* the messages to append before the next request                 *)
    context,     (* the messages of the session, without the system message        *)
    last,        (* last_total_tokens is over the limit                            *)
    usage,       (* tokens_usage of `run` is over the limit ("default" only)       *)
    answers,     (* the number of responses so far                                 *)
    calls,       (* the number of tool calls of the last response                  *)
    running,     (* those that have not returned                                   *)
    failed,      (* those that failed                                              *)
    bound,       (* whether an out channel is configured                           *)
    contents,    (* pending_contents: what to say of the tool calls                *)
    sent,        (* ghost: what was handed to the out channel                      *)
    failures,    (* the number of operations on the context that failed            *)
    damage       (* ghost: why the context may be ill-formed                       *)

turnVars == <<turn, round, toSend>>
tokenVars == <<last, usage>>
toolVars == <<calls, running, failed>>
outVars == <<bound, contents, sent>>
faultVars == <<failures, damage>>
vars == <<pipeline, turnVars, pc, context, tokenVars, answers, toolVars, outVars, faultVars>>

Steps == {"idle", "send", "revert", "summarise", "summarising", "append", "calling",
          "tools", "output"}

(* A message: what it is, the turn or the response it belongs to, and the     *)
(* number of calls it makes, or which call it answers.                        *)
User(t) == [kind |-> "user", id |-> t, n |-> 0]
Assistant(r, c) == [kind |-> "assistant", id |-> r, n |-> c]
Tool(r, k) == [kind |-> "tool", id |-> r, n |-> k]

(* What a reduction starts the context with: the prompt and the summary, or   *)
(* what was remembered, which ends with an assistant message.                 *)
Summary == <<User(0), Assistant(0, 0)>>

Init ==
    /\ pipeline \in Pipelines
    /\ turn = 0
    /\ pc = "idle"
    /\ round = 0
    /\ toSend = <<>>
    /\ context = <<>>
    /\ last = FALSE
    /\ usage = FALSE
    /\ answers = 0
    /\ calls = 0
    /\ running = {}
    /\ failed = {}
    /\ bound \in BOOLEAN
    /\ contents = {}
    /\ sent = {}
    /\ failures = 0
    /\ damage = {}

-------------------------------------------------------------------------------
Failing == failures < MaxFailures /\ failures' = failures + 1

(* An append that may fail and leaves the context as it is when it does.      *)
AppendTo(new) ==
    \/ /\ context' = context \o new
       /\ UNCHANGED faultVars
    \/ /\ Failing
       /\ new # <<>>
       /\ context' = context
       /\ damage' = damage \union {"append"}

(* The turn is over.  "default" stores the usage of a turn that succeeded.    *)
EndTurn(ok) ==
    /\ pc' = "idle"
    /\ round' = 0
    /\ toSend' = <<>>
    /\ usage' = FALSE
    /\ last' = IF pipeline = "default" /\ ok THEN usage ELSE last
    /\ calls' = 0
    /\ running' = {}
    /\ failed' = {}
    /\ UNCHANGED turn

(* incoming_message_batch, called by the consumer of the batching queue       *)
TakeBatch ==
    /\ pc = "idle"
    /\ turn < MaxTurns
    /\ turn' = turn + 1
    /\ round' = 1
    /\ toSend' = <<User(turn + 1)>>
    /\ usage' = (pipeline = "default" /\ last)
    /\ pc' = "send"
    /\ UNCHANGED <<pipeline, context, last, answers, toolVars, outVars, faultVars>>

-------------------------------------------------------------------------------
(* send_messages_with_limit                                                   *)

OverLimit == Limited /\ (IF pipeline = "default" THEN usage ELSE last)

CheckLimit ==
    /\ pc = "send"
    /\ pc' = IF OverLimit THEN "revert" ELSE "append"
    /\ UNCHANGED <<pipeline, turnVars, context, tokenVars, answers, toolVars, outVars, faultVars>>

(* The model of the session is no longer configured; the batch is dropped.   *)
Unconfigured ==
    /\ "config" \in Faults
    /\ pc = "send"
    /\ EndTurn(FALSE)
    /\ UNCHANGED <<pipeline, context, answers, outVars, faultVars>>

(* The last assistant message is the i-th, or there is none and i = 0.        *)
LastAssistant(i) ==
    /\ i # 0 => context[i].kind = "assistant"
    /\ \A j \in (i + 1)..Len(context) : context[j].kind # "assistant"

TakenBack(i) == SubSeq(context, i + 1, Len(context))

ToolsAmong(s) == \E i \in 1..Len(s) : s[i].kind = "tool"

(* Mutant: the messages taken back replace the new ones.                      *)
TakenBackOnly(i) == TakenBack(i)

(* What is to be appended after the reduction.                                *)
Pending(i) == TakenBack(i) \o toSend

(* Tool messages taken back leave the assistant message that called them.  An *)
(* error, before or after the messages are taken back, ends the turn.         *)
RevertTo(i) ==
    /\ \/ /\ context' = SubSeq(context, 1, i)
          /\ toSend' = Pending(i)
          /\ pc' = "summarise"
          /\ UNCHANGED <<turn, round, tokenVars, toolVars, failures>>
       \/ /\ Failing
          /\ i < Len(context)
          /\ context' \in {context, SubSeq(context, 1, i)}
          /\ EndTurn(FALSE)
    /\ damage' = IF context' # context /\ ToolsAmong(TakenBack(i))
                 THEN damage \union {"reduced"} ELSE damage
    /\ UNCHANGED <<pipeline, answers, outVars>>

Revert ==
    /\ pc = "revert"
    /\ \E i \in 0..Len(context) : LastAssistant(i) /\ RevertTo(i)

(* Mutant: the limit is checked again, against the same usage.                *)
CheckAgain == "send"

AfterReduction == "append"

(* archive_and_clear_cache_and_reset_messages, whose error is ignored: it can *)
(* stop before the memory is cleared, or before the new messages are in.      *)
ResetTo(new) ==
    \/ context' = new /\ UNCHANGED failures
    \/ context' \in {context, <<>>} /\ Failing

(* MemoryRecoverTokenReducer; an unreachable store remembers nothing.         *)
Remember ==
    /\ pc = "summarise"
    /\ pipeline = "default_memory"
    /\ ResetTo(Summary) \/ ResetTo(<<>>)
    /\ pc' = AfterReduction
    /\ UNCHANGED <<pipeline, turnVars, tokenVars, answers, toolVars, outVars, damage>>

(* CompressTokenReducer asks the model for a summary.                         *)
AskSummary ==
    /\ pc = "summarise"
    /\ pipeline = "default"
    /\ \/ context' = Append(context, User(0)) /\ UNCHANGED failures
       \/ UNCHANGED context /\ Failing
    /\ pc' = "summarising"
    /\ UNCHANGED <<pipeline, turnVars, tokenVars, answers, toolVars, outVars, damage>>

(* The summary replaces the context; an error leaves it with the prompt.      *)
TakeSummary ==
    /\ pc = "summarising"
    /\ ResetTo(Summary) \/ UNCHANGED <<context, failures>>
    /\ pc' = AfterReduction
    /\ UNCHANGED <<pipeline, turnVars, tokenVars, answers, toolVars, outVars, damage>>

(* The error of the append is ignored.                                        *)
AppendToSend ==
    /\ pc = "append"
    /\ AppendTo(toSend)
    /\ toSend' = <<>>
    /\ pc' = "calling"
    /\ UNCHANGED <<pipeline, turn, round, tokenVars, answers, toolVars, outVars>>

-------------------------------------------------------------------------------
(* run_once                                                                   *)

(* The response asks for n tool calls; the error of its append is ignored.    *)
ModelAnswers(n, over) ==
    /\ pc = "calling"
    /\ answers' = answers + 1
    /\ IF pipeline = "default"
       THEN usage' = over /\ UNCHANGED last
       ELSE last' = over /\ UNCHANGED usage
    /\ AppendTo(<<Assistant(answers + 1, n)>>)
    /\ calls' = n
    /\ running' = 1..n
    /\ failed' = {}
    /\ pc' = IF n = 0 THEN "output" ELSE "tools"
    /\ UNCHANGED <<pipeline, turnVars, outVars>>

ModelFails ==
    /\ pc = "calling"
    /\ EndTurn(FALSE)
    /\ UNCHANGED <<pipeline, context, answers, outVars, faultVars>>

(* The tools run at once; "default_memory" notes what to say about each.      *)
ToolReturns(k, ok) ==
    /\ pc = "tools"
    /\ k \in running
    /\ running' = running \ {k}
    /\ failed' = IF ok THEN failed ELSE failed \union {k}
    /\ contents' = IF pipeline = "default" THEN contents
                   ELSE contents \union {<<answers, k, "call">>}
                                 \union (IF ok THEN {<<answers, k, "result">>} ELSE {})
    /\ UNCHANGED <<pipeline, turnVars, pc, context, tokenVars, answers, calls, bound, sent, faultVars>>

(* Mutant: neither pipeline has a message for a call that failed.             *)
ToolMessagesOfResults ==
    SelectSeq([k \in 1..calls |-> Tool(answers, k)], LAMBDA m : m.n \notin failed)

(* The i-th of the calls S in their order.                                    *)
InOrder(S, i) == CHOOSE k \in S : Cardinality({j \in S : j <= k}) = i

(* One Tool message per call, in the order of the calls; "default" has none   *)
(* for a call that failed.                                                    *)
ToolMessages ==
    LET kept == IF pipeline = "default" THEN (1..calls) \ failed ELSE 1..calls
    IN  [i \in 1..Cardinality(kept) |-> Tool(answers, InOrder(kept, i))]

(* All tools have returned.  The error of this append ends the turn.          *)
ToolsJoined ==
    /\ pc = "tools"
    /\ running = {}
    /\ \/ /\ context' = context \o ToolMessages
          /\ damage' = IF pipeline = "default" /\ failed # {}
                       THEN damage \union {"tool"} ELSE damage
          /\ pc' = "output"
          /\ UNCHANGED <<turnVars, tokenVars, toolVars, failures>>
       \/ /\ Failing
          /\ ToolMessages # <<>>
          /\ damage' = damage \union {"append"}
          /\ EndTurn(FALSE)
          /\ UNCHANGED context
    /\ UNCHANGED <<pipeline, answers, outVars>>

(* Mutant: the contents are copied and not drained.                           *)
SendCopy ==
    /\ sent' = sent \union contents
    /\ UNCHANGED contents

(* What is to be said goes to the out channel.                                *)
SendContents ==
    /\ sent' = sent \union contents
    /\ contents' = {}

(* Mutant: one round too many.                                                *)
OneRoundMore == calls > 0 /\ failed = {} /\ round <= MaxRounds

(* There is another round when tools were called and there is one left.       *)
NextRound == calls > 0 /\ failed = {} /\ round < MaxRounds

(* A failed tool ends the turn with an error, after the output.               *)
Output ==
    /\ pc = "output"
    /\ IF pipeline = "default_memory" /\ bound
       THEN SendContents
       ELSE UNCHANGED <<sent, contents>>
    /\ IF NextRound
       THEN /\ round' = round + 1
            /\ pc' = "send"
            /\ UNCHANGED <<turn, toSend, tokenVars, toolVars>>
       ELSE EndTurn(failed = {})
    /\ UNCHANGED <<pipeline, context, answers, bound, faultVars>>

-------------------------------------------------------------------------------
(* /bind-outgoing and /unbind-outgoing, at any moment.                        *)
ChangeOutChannel ==
    /\ bound' = ~bound
    /\ UNCHANGED <<pipeline, turnVars, pc, context, tokenVars, answers, toolVars, contents, sent, faultVars>>

(* The process ends and comes back with the context of the cache file; the    *)
(* calls of a last message that were not answered stay unanswered.            *)
Crash ==
    /\ "crash" \in Faults
    /\ pc # "idle"
    /\ pc' = "idle"
    /\ round' = 0
    /\ toSend' = <<>>
    /\ usage' = FALSE
    /\ last' = FALSE
    /\ calls' = 0
    /\ running' = {}
    /\ failed' = {}
    /\ contents' = {}
    /\ damage' = IF pc = "tools" THEN damage \union {"crash"} ELSE damage
    /\ UNCHANGED <<pipeline, turn, context, answers, bound, sent, failures>>

LoopStep ==
    \/ CheckLimit \/ Unconfigured \/ Revert \/ Remember \/ AskSummary \/ TakeSummary \/ AppendToSend
    \/ \E n \in 0..MaxCalls, over \in BOOLEAN : ModelAnswers(n, over)
    \/ ModelFails
    \/ \E k \in 1..MaxCalls, ok \in BOOLEAN : ToolReturns(k, ok)
    \/ ToolsJoined \/ Output

Next == TakeBatch \/ LoopStep \/ ChangeOutChannel \/ Crash

Spec == Init /\ [][Next]_vars

(* The model and the tools answer or fail, within the timeouts of their       *)
(* clients, and the loop's task keeps being polled.                           *)
FairSpec == Spec /\ WF_vars(LoopStep)

-------------------------------------------------------------------------------
Messages ==
    [kind : {"user", "assistant", "tool"}, id : Nat, n : 0..MaxCalls]

TypeOK ==
    /\ pipeline \in Pipelines
    /\ turn \in Nat
    /\ pc \in Steps
    /\ round \in 0..MaxRounds
    /\ toSend \in Seq(Messages)
    /\ context \in Seq(Messages)
    /\ last \in BOOLEAN
    /\ usage \in BOOLEAN
    /\ answers \in Nat
    /\ calls \in 0..MaxCalls
    /\ running \in SUBSET (1..calls)
    /\ failed \in SUBSET (1..calls)
    /\ bound \in BOOLEAN
    /\ contents \in SUBSET (Nat \X Nat \X {"call", "result"})
    /\ sent \in SUBSET (Nat \X Nat \X {"call", "result"})
    /\ failures \in 0..MaxFailures
    /\ damage \in SUBSET {"reduced", "append", "tool", "crash"}

(* What providers accept: the tool messages that answer the calls of an       *)
(* assistant message follow it at once, one for each call, and there are no   *)
(* others.                                                                    *)
CallsAnswered(c) ==
    \A i \in 1..Len(c) : c[i].kind = "assistant" =>
        \A k \in 1..c[i].n : i + k <= Len(c) /\ c[i + k] = Tool(c[i].id, k)

ToolsCalled(c) ==
    \A j \in 1..Len(c) : c[j].kind = "tool" =>
        c[j].n < j /\ LET i == j - c[j].n
                      IN  c[i].kind = "assistant" /\ c[i].id = c[j].id /\ c[j].n <= c[i].n

WellFormed(c) == CallsAnswered(c) /\ ToolsCalled(c)

Requesting == pc \in {"calling", "summarising"}

(* Every request to the model carries a well-formed context, whatever tools,  *)
(* the model and the turns before did, as long as no append failed, no crash  *)
(* and no reduction cut a tool exchange in two, and "default" met no failing  *)
(* tool.  The order of the appends in run_once is there for this.             *)
EveryRequestWellFormed == Requesting /\ damage = {} => WellFormed(context)

(* The first request of a turn ends with the batch that started it, also when *)
(* the context was reduced before.                                            *)
FirstRequestCarriesBatch ==
    (pc = "calling" /\ round = 1 /\ "append" \notin damage) =>
        /\ context # <<>>
        /\ context[Len(context)] = User(turn)

(* What is to be said of a tool call is sent once, or waits to be sent, until *)
(* a crash: the tasks of the tools and the output share `pending_contents`,   *)
(* and the out channel may come and go.                                       *)
ToolTalkSentOnce ==
    /\ contents \intersect sent = {}
    /\ (pipeline = "default_memory" /\ pc \in {"tools", "output"}) =>
          \A k \in (1..calls) \ running : <<answers, k, "call">> \in contents \union sent

(* Every turn ends: the rounds are bounded, a reduction happens once, and no  *)
(* answer is waited for twice.                                                *)
TurnEnds == (pc # "idle") ~> (pc = "idle")
================================================================================
