------------------------------ MODULE AgentLoop ------------------------------
(***************************************************************************)
(* One run of the agent loop (src/deepseek_mcp/agent_loop.py): turns,        *)
(* provider requests under a token budget, batches of tool calls, steering   *)
(* points, the retry of an empty answer and the ways a run ends.             *)
(*                                                                         *)
(* The run's own thread takes the steps of Loop.  Between any two of them    *)
(* the host may send a message or cancel, and the run deadline may pass.     *)
(*                                                                         *)
(* Data: a message of the conversation is its role and one number, a byte of *)
(* it is one message, and one message is estimated as one token.             *)
(***************************************************************************)
EXTENDS Integers, Sequences

CONSTANTS
  MaxTurns,          \* config.max_turns
  MaxCallsPerTurn,   \* MAX_TOOL_CALLS_PER_TURN
  MaxCallsPerRun,    \* MAX_TOOL_CALLS_PER_RUN
  MaxRecords,        \* MAX_MUTATION_RECORDS
  MaxTokens,         \* MAX_TOTAL_TOKENS_PER_RUN
  MaxOutput,         \* max_output_tokens of one request
  MaxHistory,        \* MAX_PROVIDER_HISTORY_BYTES, in messages
  MaxQueued,         \* MAX_QUEUED_MESSAGES of the job's mailbox
  MaxSent,           \* bound: steering messages the host sends
  Batches,           \* bound: sizes of the batches the model announces
  UsageReported,     \* bound: whether replies may carry usage, may not, or both
  Overruns           \* bound: tokens by which a reported usage may exceed
                     \* the estimate of a request and of its reply

ASSUME AgentLoopAssumption ==
  /\ MaxTurns \in Nat /\ MaxHistory \in Nat
  /\ MaxCallsPerTurn \in Nat /\ MaxCallsPerRun \in Nat /\ MaxRecords \in Nat
  /\ MaxTokens \in Nat /\ MaxOutput \in Nat
  /\ MaxQueued \in Nat /\ MaxSent \in Nat
  /\ MaxCallsPerRun <= MaxRecords
  /\ Batches \subseteq Nat
  /\ UsageReported \subseteq BOOLEAN
  /\ Overruns \subseteq Nat

VARIABLES
  pc, turn, outcome,
  \* state.messages, and of the reply being handled: the number of its tool
  \* calls, the next one to look at, and whether its text is blank
  history, planned, next, blank,
  \* prompt_tokens + completion_tokens, budget_tokens, last_prompt_tokens and
  \* last_request_bytes
  reported, metered, lastPrompt, lastRequest,
  toolCalls, emptyAttempts, records,
  \* the mailbox and the events of the job, the run deadline
  inbox, open, cancelSet, expired,
  \* history variables: messages acknowledged, tools started after a cancel
  sent, late

control == <<pc, turn, outcome>>
reply   == <<planned, next, blank>>
budget  == <<reported, metered, lastPrompt, lastRequest>>
counts  == <<toolCalls, emptyAttempts, records, late>>
mailbox == <<inbox, open, sent>>
signals == <<cancelSet, expired>>
vars    == <<control, history, reply, budget, counts, mailbox, signals>>

Entry == [role : {"task", "assistant", "tool", "steering", "retry"}, n : Nat]
Task      == [role |-> "task", n |-> 0]
Assistant(calls) == [role |-> "assistant", n |-> calls]
Answer(k)   == [role |-> "tool", n |-> k]
Steering(m) == [role |-> "steering", n |-> m]
Retry     == [role |-> "retry", n |-> 0]

Larger(a, b) == IF a >= b THEN a ELSE b

Init ==
  /\ pc = "turn" /\ turn = 0 /\ outcome = "none"
  /\ history = <<Task>>
  /\ planned = 0 /\ next = 1 /\ blank = FALSE
  /\ reported = 0 /\ metered = 0 /\ lastPrompt = 0 /\ lastRequest = 0
  /\ toolCalls = 0 /\ emptyAttempts = 0 /\ records = 0 /\ late = 0
  /\ inbox = 0 /\ open = TRUE /\ sent = 0
  /\ cancelSet = FALSE /\ expired = FALSE

-----------------------------------------------------------------------------
(* The run's exits.                                                          *)
Stop(o) ==
  /\ pc' = "done"
  /\ outcome' = o
  /\ UNCHANGED <<turn, history, reply, budget, counts, mailbox, signals>>

HistoryFits == Len(history) <= MaxHistory

(* _enforce_history_budget follows every append at once.                     *)
HistoryOverflow ==
  /\ pc \notin {"done", "request"}
  /\ ~HistoryFits
  /\ Stop("failed")

At(label) == pc = label /\ HistoryFits

(* check_cancel after a reply, at the start of a batch, before and after     *)
(* each tool.                                                                *)
Mut_CancelSeenPerBatch(label) == At(label) /\ cancelSet /\ label = "reply"
SeesCancel(label) == At(label) /\ cancelSet
CancelBetweenSteps ==
  /\ SeesCancel("reply") \/ SeesCancel("tools")
  /\ Stop("cancelled")

Proceeds(label) == At(label) /\ ~SeesCancel(label)

(* The turn's locals end with it.                                            *)
NextTurn ==
  /\ pc' = "turn"
  /\ turn' = turn + 1
  /\ planned' = 0 /\ next' = 1 /\ blank' = FALSE
  /\ UNCHANGED outcome

(* Messages drained from the mailbox become one steering entry.              *)
Drain ==
  /\ inbox' = 0
  /\ UNCHANGED <<open, sent>>

-----------------------------------------------------------------------------
(* The start of a turn.                                                      *)
Metered == Larger(reported, metered)

BeginFails ==
  /\ At("turn")
  /\ turn = MaxTurns \/ expired \/ Metered >= MaxTokens
  /\ Stop("failed")

BeginCancelled ==
  /\ At("turn")
  /\ turn < MaxTurns /\ ~expired /\ Metered < MaxTokens
  /\ cancelSet
  /\ Stop("cancelled")

BeginTurn ==
  /\ At("turn")
  /\ turn < MaxTurns /\ ~expired /\ Metered < MaxTokens
  /\ ~cancelSet
  /\ pc' = "reserve"
  /\ history' = IF inbox > 0 THEN Append(history, Steering(inbox)) ELSE history
  /\ Drain
  /\ UNCHANGED <<turn, outcome, reply, budget, counts, signals>>

(* _ensure_request_budget: what the next request may cost at most, if the    *)
(* provider honours max_tokens and counts old text as it did before.         *)
Reserved ==
  Larger(Len(history), lastPrompt + Larger(0, Len(history) - lastRequest))
    + MaxOutput

Mut_ReservesOutputOnly == MaxOutput <= MaxTokens - Metered
CanReserve == Reserved <= MaxTokens - Metered

ReserveRequest ==
  /\ At("reserve")
  /\ IF CanReserve
       THEN pc' = "request" /\ UNCHANGED outcome
       ELSE pc' = "done" /\ outcome' = "failed"
  /\ UNCHANGED <<turn, history, reply, budget, counts, mailbox, signals>>

-----------------------------------------------------------------------------
(* The provider request (call_with_retry), then _record_response.            *)
RequestFails ==
  /\ pc = "request"
  /\ \/ Stop("failed")
     \/ cancelSet /\ Stop("cancelled")

(* A reply with `calls` tool calls.  With usage the larger of estimate and   *)
(* report is metered; without it the estimate alone, which a smaller report  *)
(* does not change either.                                                   *)
Receive(calls, isBlank, usage, promptOver, outputOver) ==
  LET prompt == Len(history) + (IF usage THEN promptOver ELSE 0)
      output == 1 + (IF usage THEN outputOver ELSE 0)
  IN
  /\ pc = "request"
  /\ reported' = IF usage THEN reported + prompt + output ELSE reported
  /\ metered' = metered + prompt + output
  /\ lastPrompt' = prompt
  /\ lastRequest' = Len(history)
  /\ IF Larger(reported', metered') > MaxTokens
       THEN /\ pc' = "done" /\ outcome' = "failed"
            /\ UNCHANGED <<history, reply>>
       ELSE /\ pc' = "reply"
            /\ history' = Append(history, Assistant(calls))
            /\ planned' = calls /\ next' = 1 /\ blank' = isBlank
            /\ UNCHANGED outcome
  /\ UNCHANGED <<turn, counts, mailbox, signals>>

-----------------------------------------------------------------------------
(* A reply without tool calls: _finalize_or_steer.                           *)
RetryUsedUp == emptyAttempts > 0 \/ turn + 1 >= MaxTurns

EmptyReply ==
  /\ Proceeds("reply")
  /\ planned = 0 /\ blank
  /\ IF RetryUsedUp
       THEN Stop("failed")
       ELSE /\ NextTurn
            /\ emptyAttempts' = emptyAttempts + 1
            /\ history' = Append(history, Retry)
            /\ UNCHANGED <<budget, toolCalls, records, late, mailbox, signals>>

SteerAnswer ==
  /\ Proceeds("reply")
  /\ planned = 0 /\ ~blank
  /\ inbox > 0
  /\ history' = Append(history, Steering(inbox))
  /\ Drain
  /\ NextTurn
  /\ UNCHANGED <<budget, counts, signals>>

Mut_PollsInsteadOfFinalizing ==
  /\ Proceeds("reply")
  /\ planned = 0 /\ ~blank
  /\ inbox = 0
  /\ pc' = "done" /\ outcome' = "completed"
  /\ UNCHANGED <<turn, history, reply, budget, counts, mailbox, signals>>

(* drain_messages(finalize_if_empty=True) found the mailbox empty.           *)
FinalAnswer ==
  /\ Proceeds("reply")
  /\ planned = 0 /\ ~blank
  /\ inbox = 0
  /\ open' = FALSE
  /\ pc' = "done" /\ outcome' = "completed"
  /\ UNCHANGED <<turn, history, reply, budget, counts, inbox, sent, signals>>

-----------------------------------------------------------------------------
(* A reply with tool calls: _execute_planned_tools.                          *)
BatchAllowed ==
  /\ planned <= MaxCallsPerTurn
  /\ toolCalls + planned <= MaxCallsPerRun

BeginBatch ==
  /\ Proceeds("reply")
  /\ planned > 0
  /\ IF BatchAllowed
       THEN pc' = "tools" /\ UNCHANGED outcome
       ELSE pc' = "done" /\ outcome' = "failed"
  /\ UNCHANGED <<turn, history, reply, budget, counts, mailbox, signals>>

(* The calls that have no answer yet, answered as skipped.                   *)
Mut_SkipsWholeBatch == [i \in 1 .. planned |-> Answer(i)]
Skipped == [i \in 1 .. planned - next + 1 |-> Answer(next + i - 1)]

Mut_SteersThenGoesOn ==
  /\ Proceeds("tools")
  /\ next <= planned
  /\ inbox > 0
  /\ history' = Append(history, Steering(inbox))
  /\ Drain
  /\ UNCHANGED <<control, reply, budget, counts, signals>>

(* _steer_before_tools                                                       *)
SteerBatch ==
  /\ Proceeds("tools")
  /\ next <= planned
  /\ inbox > 0
  /\ history' = Append(history \o Skipped, Steering(inbox))
  /\ Drain
  /\ NextTurn
  /\ UNCHANGED <<budget, counts, signals>>

PassSteeringPoint ==
  /\ Proceeds("tools")
  /\ next <= planned
  /\ inbox = 0
  /\ pc' = "start"
  /\ UNCHANGED <<turn, outcome, history, reply, budget, counts, mailbox, signals>>

StartTool ==
  /\ pc = "start"
  /\ IF expired
       THEN pc' = "done" /\ outcome' = "failed" /\ UNCHANGED <<toolCalls, late>>
       ELSE /\ pc' = "running"
            /\ toolCalls' = toolCalls + 1
            /\ late' = IF cancelSet THEN late + 1 ELSE late
            /\ UNCHANGED outcome
  /\ UNCHANGED <<turn, history, reply, budget, emptyAttempts, records, mailbox, signals>>

(* execute_in_subprocess reports the call's mutation record.                 *)
ReportMutation ==
  /\ pc = "running"
  /\ pc' = "recorded"
  /\ records' = records + 1
  /\ UNCHANGED <<turn, outcome, history, reply, budget, toolCalls, emptyAttempts,
                 late, mailbox, signals>>

ToolReturns ==
  /\ pc \in {"running", "recorded"}
  /\ pc' = "tools"
  /\ history' = Append(history, Answer(next))
  /\ next' = next + 1
  /\ UNCHANGED <<turn, outcome, planned, blank, budget, counts, mailbox, signals>>

ToolRaises ==
  /\ pc \in {"running", "recorded"}
  /\ \/ Stop("failed")
     \/ cancelSet /\ Stop("cancelled")

EndBatch ==
  /\ Proceeds("tools")
  /\ next > planned
  /\ NextTurn
  /\ UNCHANGED <<history, budget, counts, mailbox, signals>>

-----------------------------------------------------------------------------
(* The host and the clock, between any two steps of the run and until the    *)
(* job manager has committed its outcome.                                    *)
SendMessage ==
  /\ open /\ inbox < MaxQueued /\ sent < MaxSent
  /\ inbox' = inbox + 1
  /\ sent' = sent + 1
  /\ UNCHANGED <<control, history, reply, budget, counts, open, signals>>

Cancel ==
  /\ ~cancelSet
  /\ cancelSet' = TRUE
  /\ open' = FALSE
  /\ inbox' = 0
  /\ UNCHANGED <<control, history, reply, budget, counts, sent, expired>>

Expire ==
  /\ ~expired
  /\ expired' = TRUE
  /\ UNCHANGED <<control, history, reply, budget, counts, mailbox, cancelSet>>

-----------------------------------------------------------------------------
Loop ==
  \/ HistoryOverflow \/ CancelBetweenSteps
  \/ BeginFails \/ BeginCancelled \/ BeginTurn \/ ReserveRequest
  \/ RequestFails
  \/ \E calls \in Batches, isBlank \in BOOLEAN, usage \in UsageReported,
        promptOver \in Overruns, outputOver \in Overruns :
       Receive(calls, isBlank, usage, promptOver, outputOver)
  \/ EmptyReply \/ SteerAnswer \/ FinalAnswer
  \/ BeginBatch \/ SteerBatch \/ PassSteeringPoint \/ EndBatch
  \/ StartTool \/ ReportMutation \/ ToolReturns \/ ToolRaises

Next == Loop \/ SendMessage \/ Cancel \/ Expire

Spec == Init /\ [][Next]_vars

-----------------------------------------------------------------------------
TypeOK ==
  /\ pc \in {"turn", "reserve", "request", "reply", "tools", "start", "running",
             "recorded", "done"}
  /\ outcome \in {"none", "completed", "failed", "cancelled"}
  /\ pc = "done" <=> outcome # "none"
  /\ turn \in 0 .. MaxTurns
  /\ history \in Seq(Entry)
  /\ planned \in Nat /\ next \in 1 .. planned + 1 /\ blank \in BOOLEAN
  /\ reported \in Nat /\ metered \in Nat
  /\ lastPrompt \in Nat /\ lastRequest \in Nat
  /\ toolCalls \in 0 .. MaxCallsPerRun
  /\ emptyAttempts \in 0 .. 1
  /\ records \in Nat /\ late \in Nat
  /\ inbox \in 0 .. MaxQueued /\ open \in BOOLEAN /\ sent \in 0 .. MaxSent
  /\ cancelSet \in BOOLEAN /\ expired \in BOOLEAN

(* Every announced tool call has exactly one answer, the answers follow      *)
(* their announcement at once and in order, and nothing else is a tool       *)
(* message: a conversation the provider's API accepts.                       *)
WellFormed(h) ==
  \A i \in DOMAIN h :
    /\ h[i].role = "assistant" =>
         \A k \in 1 .. h[i].n : i + k <= Len(h) /\ h[i + k] = Answer(k)
    /\ h[i].role = "tool" =>
         /\ h[i].n \in 1 .. i - 1
         /\ h[i - h[i].n].role = "assistant"
         /\ h[i].n <= h[i - h[i].n].n

(* Each provider request carries such a conversation, whatever steering cut  *)
(* a batch short (_append_skipped_tool_responses).                           *)
RequestsWellFormed == pc = "request" => WellFormed(history)

(* A tool only runs by a plan the model made knowing all the steering that   *)
(* was drained: since that reply nothing but its answers has been added.     *)
PlanIsCurrent ==
  pc \in {"start", "running", "recorded"} =>
    /\ Len(history) >= next
    /\ history[Len(history) - next + 1] = Assistant(planned)

SteeringIn(h) ==
  LET upTo[i \in 0 .. Len(h)] ==
        IF i = 0 THEN 0
        ELSE upTo[i - 1] + (IF h[i].role = "steering" THEN h[i].n ELSE 0)
  IN upTo[Len(h)]

(* The model has replied to every message that send_message acknowledged     *)
(* when a run that was not cancelled completes.                              *)
AnswerSawAllSteering ==
  outcome = "completed" /\ ~cancelSet =>
    SteeringIn(history) = sent /\ history[Len(history)] = Assistant(0)

(* MutationAccumulator.add never meets its capacity: a RuntimeError there    *)
(* would hide a mutation.                                                    *)
RecordsFit == records <= MaxRecords

(* After an accepted cancellation at most the tool whose steering point was  *)
(* already passed is still started.                                          *)
CancelStopsTools == late <= 1

(* A reply that keeps to what was reserved for it never ends the run over    *)
(* its token budget.                                                         *)
ReservationSuffices ==
  [][metered' - metered <= Reserved /\ pc = "request" /\ metered' # metered
       => outcome' = "none"]_vars

-----------------------------------------------------------------------------
(* What leaves run_agent: _raise_with_mutation_records wraps an error into a  *)
(* MutationOutcomeError that names the records of the run, if it has any.    *)
Exit ==
  IF outcome = "completed" THEN "answer"
  ELSE IF outcome = "cancelled"
  THEN (IF records > 0 THEN "MutationOutcomeCancelled" ELSE "AgentLoopCancelled")
  ELSE (IF records > 0 THEN "MutationOutcomeError" ELSE "AgentLoopError")

(* The job thread as JobManager models it: a job "run" of the only           *)
(* workspace, from _run_job's first lock to _finish_job's.                   *)
Thread == INSTANCE JobManager WITH
  JobId <- {"run"}, NoJob <- "no_job", Client <- {}, Workspace <- {"workspace"},
  MaxRetained <- 1, MaxDoubtful <- 0,
  status <- [j \in {"run"} |-> "running"],
  cancelSet <- [j \in {"run"} |-> cancelSet],
  accepting <- [j \in {"run"} |-> open],
  queued <- [j \in {"run"} |-> inbox],
  usage <- [j \in {"run"} |-> "unclaimed"],
  finishedAt <- [j \in {"run"} |-> 0],
  result <- [j \in {"run"} |-> FALSE],
  error <- [j \in {"run"} |-> FALSE],
  activeJob <- "run", syncActive <- FALSE, opPc <- "idle",
  worker <- [j \in {"run"} |-> IF pc = "done" THEN Exit ELSE "running"],
  mutated <- [j \in {"run"} |-> records > 0],
  recorded <- [j \in {"run"} |-> records > 0],
  clock <- 0, drawn <- {"run"},
  claim <- [c \in {} |-> "no_job"],
  logged <- [j \in {"run"} |-> 0],
  doubtful <- [j \in {"run"} |-> 0],
  lease <- [w \in {"workspace"} |-> "run"],
  pending <- [w \in {"workspace"} |-> records > 0]

(* The loop does to the mailbox, the cancel event and the workspace only     *)
(* what JobManager assumes of a job's thread: run_agent and its callbacks    *)
(* implement PollSteering, MutateWorkspace, FinalizeAnswer and StopAgent.    *)
ThreadContract == [][Thread!Next]_(Thread!vars)

=============================================================================
