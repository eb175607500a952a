-------------------------- MODULE AgentLoop_proofs ---------------------------
(***************************************************************************)
(* Proofs about AgentLoop for every value of its limits.                    *)
(***************************************************************************)
EXTENDS AgentLoop, NaturalsInduction, WellFoundedInduction, TLAPS

(* What BatchAllowed promised for the calls of the batch that are left.      *)
BatchInv ==
  /\ pc \in {"tools", "start"} => toolCalls + (planned - next + 1) <= MaxCallsPerRun
  /\ pc \in {"running", "recorded"} => toolCalls + (planned - next) <= MaxCallsPerRun
  /\ pc \in {"start", "running", "recorded"} => next <= planned
  /\ pc = "reply" => next = 1
  /\ pc \notin {"turn", "done"} => turn < MaxTurns

(* A run has not more mutation records than started tools.                   *)
RecordsInv ==
  /\ records <= toolCalls
  /\ pc = "running" => records + 1 <= toolCalls

LoopInv == TypeOK /\ BatchInv /\ RecordsInv

LEMMA LoopInvInit == Init => LoopInv
<1> SUFFICES ASSUME Init PROVE LoopInv
  OBVIOUS
<1>1. history \in Seq(Entry)
  <2>1. Task \in Entry
    BY DEF Task, Entry
  <2> QED  BY <2>1 DEF Init
<1>2. blank \in BOOLEAN /\ open \in BOOLEAN /\ cancelSet \in BOOLEAN /\ expired \in BOOLEAN
  BY DEF Init
<1>3. /\ planned \in Nat /\ next \in 1 .. planned + 1
      /\ turn \in 0 .. MaxTurns /\ toolCalls \in 0 .. MaxCallsPerRun
      /\ inbox \in 0 .. MaxQueued /\ sent \in 0 .. MaxSent
  BY AgentLoopAssumption DEF AgentLoopAssumption, Init
<1> QED
  BY <1>1, <1>2, <1>3 DEF Init, LoopInv, TypeOK, BatchInv, RecordsInv

(* What a step may add to the conversation.                                  *)
LEMMA EntriesTyped ==
  ASSUME NEW k \in Nat
  PROVE  /\ Assistant(k) \in Entry /\ Answer(k) \in Entry
         /\ Steering(k) \in Entry /\ Retry \in Entry
  BY DEF Assistant, Answer, Steering, Retry, Entry

(* The locals of a turn and its number, after the turn.                      *)
LEMMA NextTurnTyped ==
  ASSUME LoopInv, NextTurn, pc \notin {"turn", "done"}
  PROVE  /\ turn' \in 0 .. MaxTurns
         /\ planned' \in Nat /\ next' \in 1 .. planned' + 1
         /\ blank' \in BOOLEAN
         /\ pc' = "turn" /\ outcome' = "none"
<1> USE AgentLoopAssumption DEF AgentLoopAssumption, LoopInv, TypeOK, BatchInv
<1>1. turn' \in 0 .. MaxTurns
  BY DEF NextTurn
<1>2. planned' \in Nat /\ next' \in 1 .. planned' + 1
  BY DEF NextTurn
<1>3. blank' \in BOOLEAN
  BY DEF NextTurn
<1> QED  BY <1>1, <1>2, <1>3 DEF NextTurn

LEMMA LoopInvStep == LoopInv /\ [Next]_vars => LoopInv'
<1> SUFFICES ASSUME LoopInv, [Next]_vars PROVE LoopInv'
  OBVIOUS
<1> USE AgentLoopAssumption
    DEF AgentLoopAssumption, LoopInv, TypeOK, BatchInv, RecordsInv, control, reply, budget,
        counts, mailbox, signals
<1>1. CASE HistoryOverflow
  BY <1>1 DEF HistoryOverflow, Stop
<1>2. CASE CancelBetweenSteps
  BY <1>2 DEF CancelBetweenSteps, Stop, SeesCancel, At
<1>3. CASE BeginFails
  BY <1>3 DEF BeginFails, Stop, At
<1>4. CASE BeginCancelled
  BY <1>4 DEF BeginCancelled, Stop, At
<1>5. CASE BeginTurn
  <2>1. history' \in Seq(Entry)
    BY <1>5, EntriesTyped DEF BeginTurn
  <2> QED  BY <1>5, <2>1 DEF BeginTurn, At, Drain
<1>6. CASE ReserveRequest
  BY <1>6 DEF ReserveRequest, At
<1>7. CASE RequestFails
  BY <1>7 DEF RequestFails, Stop
<1>8. ASSUME NEW calls \in Batches, NEW isBlank \in BOOLEAN, NEW usage \in UsageReported,
             NEW promptOver \in Overruns, NEW outputOver \in Overruns,
             Receive(calls, isBlank, usage, promptOver, outputOver)
      PROVE  LoopInv'
  <2>1. history' \in Seq(Entry)
    <3>1. history' = history \/ history' = Append(history, Assistant(calls))
      BY <1>8 DEF Receive
    <3>2. Assistant(calls) \in Entry
      BY EntriesTyped
    <3> QED  BY <3>1, <3>2
  <2>2. reported' \in Nat /\ metered' \in Nat /\ lastPrompt' \in Nat /\ lastRequest' \in Nat
    BY <1>8 DEF Receive
  <2>3. /\ pc = "request" /\ UNCHANGED <<turn, counts, mailbox, signals>>
        /\ \/ pc' = "done" /\ outcome' = "failed" /\ UNCHANGED reply
           \/ /\ pc' = "reply" /\ UNCHANGED outcome
              /\ planned' = calls /\ next' = 1 /\ blank' = isBlank
    BY <1>8 DEF Receive
  <2>4. CASE pc' = "done" /\ outcome' = "failed" /\ UNCHANGED reply
    BY <2>1, <2>2, <2>3, <2>4
  <2>5. CASE /\ pc' = "reply" /\ UNCHANGED outcome
             /\ planned' = calls /\ next' = 1 /\ blank' = isBlank
    <3>1. planned' \in Nat /\ next' \in 1 .. planned' + 1 /\ blank' \in BOOLEAN
      BY <1>8, <2>5
    <3> QED  BY <2>1, <2>2, <2>3, <2>5, <3>1
  <2> QED  BY <2>3, <2>4, <2>5
<1>9. CASE EmptyReply
  <2>1. history' \in Seq(Entry)
    <3>1. history' = history \/ history' = Append(history, Retry)
      BY <1>9 DEF EmptyReply, Stop
    <3>2. Retry \in Entry
      BY EntriesTyped
    <3> QED  BY <3>1, <3>2
  <2>2. CASE RetryUsedUp
    BY <1>9, <2>2 DEF EmptyReply, Stop
  <2>3. CASE ~RetryUsedUp
    BY SMTT(30), <1>9, <2>1, <2>3, NextTurnTyped DEF EmptyReply, RetryUsedUp, Proceeds, At
  <2> QED  BY <2>2, <2>3
<1>10. CASE SteerAnswer
  <2>1. history' \in Seq(Entry)
    <3>1. Steering(inbox) \in Entry
      BY EntriesTyped
    <3> QED  BY <1>10, <3>1 DEF SteerAnswer
  <2>2. inbox' \in 0 .. MaxQueued
    BY <1>10 DEF SteerAnswer, Drain
  <2> QED  BY <1>10, <2>1, <2>2, NextTurnTyped DEF SteerAnswer, Proceeds, At, Drain
<1>11. CASE FinalAnswer
  BY <1>11 DEF FinalAnswer, Proceeds, At
<1>12. CASE BeginBatch
  BY <1>12 DEF BeginBatch, BatchAllowed, Proceeds, At
<1>13. CASE SteerBatch
  <2>1. Skipped \in Seq(Entry)
    BY <1>13, EntriesTyped DEF SteerBatch, Skipped
  <2>2. history' \in Seq(Entry)
    <3>1. Steering(inbox) \in Entry
      BY EntriesTyped
    <3> QED  BY <1>13, <2>1, <3>1 DEF SteerBatch
  <2>3. inbox' \in 0 .. MaxQueued
    BY <1>13 DEF SteerBatch, Drain
  <2> QED  BY <1>13, <2>2, <2>3, NextTurnTyped DEF SteerBatch, Proceeds, At, Drain
<1>14. CASE PassSteeringPoint
  BY <1>14 DEF PassSteeringPoint, Proceeds, At
<1>15. CASE EndBatch
  BY <1>15, NextTurnTyped DEF EndBatch, Proceeds, At
<1>16. CASE StartTool
  BY <1>16 DEF StartTool
<1>17. CASE ReportMutation
  BY <1>17 DEF ReportMutation
<1>18. CASE ToolReturns
  <2>1. history' \in Seq(Entry)
    BY <1>18, EntriesTyped DEF ToolReturns
  <2> QED  BY <1>18, <2>1 DEF ToolReturns
<1>19. CASE ToolRaises
  BY <1>19 DEF ToolRaises, Stop
<1>20. CASE SendMessage
  BY <1>20 DEF SendMessage
<1>21. CASE Cancel
  <2>1. open' \in BOOLEAN /\ cancelSet' \in BOOLEAN
    BY <1>21 DEF Cancel
  <2>2. inbox' \in 0 .. MaxQueued
    BY <1>21 DEF Cancel
  <2> QED  BY <1>21, <2>1, <2>2 DEF Cancel
<1>22. CASE Expire
  BY <1>22 DEF Expire
<1>23. CASE UNCHANGED vars
  BY <1>23 DEF vars
<1> QED
  BY <1>1, <1>2, <1>3, <1>4, <1>5, <1>6, <1>7, <1>8, <1>9, <1>10, <1>11, <1>12, <1>13,
     <1>14, <1>15, <1>16, <1>17, <1>18, <1>19, <1>20, <1>21, <1>22, <1>23
  DEF Next, Loop

(* Every variable keeps its type; in particular the calls of a run stay      *)
(* within MAX_TOOL_CALLS_PER_RUN and an empty reply is retried once.         *)
THEOREM TypeCorrect == Spec => []TypeOK
<1>1. LoopInv => TypeOK
  BY DEF LoopInv
<1> QED  BY <1>1, LoopInvInit, LoopInvStep, PTL DEF Spec

(* The accumulator of a run never overflows.                                 *)
THEOREM AccumulatorHasRoom == Spec => []RecordsFit
<1>1. LoopInv => RecordsFit
  BY AgentLoopAssumption DEF AgentLoopAssumption, LoopInv, TypeOK, RecordsInv, RecordsFit
<1> QED  BY <1>1, LoopInvInit, LoopInvStep, PTL DEF Spec

-----------------------------------------------------------------------------
(* The shape of the conversation.  EntryOk: entry i has its answers, or its   *)
(* announcement, among the first `last` entries.                             *)
EntryOk(h, i, last) ==
  /\ h[i].role = "assistant" =>
       \A k \in 1 .. h[i].n : i + k <= last /\ h[i + k] = Answer(k)
  /\ h[i].role = "tool" =>
       /\ h[i].n \in 1 .. i - 1
       /\ h[i - h[i].n].role = "assistant"
       /\ h[i].n <= h[i - h[i].n].n

(* h ends with a batch of c calls of which the first k - 1 are answered.     *)
InBatch(h, c, k) ==
  /\ Len(h) >= k
  /\ h[Len(h) - k + 1] = Assistant(c)
  /\ \A i \in 1 .. k - 1 : h[Len(h) - k + 1 + i] = Answer(i)
  /\ \A i \in 1 .. Len(h) - k : EntryOk(h, i, Len(h) - k)

LEMMA EntryTyped ==
  ASSUME NEW h \in Seq(Entry), NEW i \in 1 .. Len(h)
  PROVE  h[i] \in Entry /\ h[i].n \in Nat
<1>1. h[i] \in Entry
  OBVIOUS
<1> QED  BY <1>1 DEF Entry

LEMMA AppendPlain ==
  ASSUME NEW h \in Seq(Entry), WellFormed(h), NEW e \in Entry,
         e.role \notin {"assistant", "tool"}
  PROVE  WellFormed(Append(h, e))
<1> DEFINE g == Append(h, e)
<1>1. Len(g) = Len(h) + 1 /\ g[Len(h) + 1] = e /\ \A i \in 1 .. Len(h) : g[i] = h[i]
  OBVIOUS
<1>2. ASSUME NEW i \in 1 .. Len(h) PROVE
        /\ g[i].role = "assistant" =>
             \A k \in 1 .. g[i].n : i + k <= Len(g) /\ g[i + k] = Answer(k)
        /\ g[i].role = "tool" =>
             /\ g[i].n \in 1 .. i - 1
             /\ g[i - g[i].n].role = "assistant"
             /\ g[i].n <= g[i - g[i].n].n
  <2>1. h[i].n \in Nat
    BY EntryTyped
  <2>2. ASSUME g[i].role = "assistant", NEW k \in 1 .. g[i].n
        PROVE  i + k <= Len(g) /\ g[i + k] = Answer(k)
    BY <1>1, <2>1, <2>2 DEF WellFormed
  <2>3. ASSUME g[i].role = "tool"
        PROVE  /\ g[i].n \in 1 .. i - 1
               /\ g[i - g[i].n].role = "assistant"
               /\ g[i].n <= g[i - g[i].n].n
    BY <1>1, <2>1, <2>3 DEF WellFormed
  <2> QED  BY <2>2, <2>3
<1> QED  BY <1>1, <1>2 DEF WellFormed

(* A new announcement opens a batch.                                         *)
LEMMA BatchOpens ==
  ASSUME NEW h \in Seq(Entry), WellFormed(h), NEW c \in Nat
  PROVE  InBatch(Append(h, Assistant(c)), c, 1)
<1> DEFINE g == Append(h, Assistant(c))
<1>1. Len(g) = Len(h) + 1 /\ g[Len(h) + 1] = Assistant(c)
      /\ \A i \in 1 .. Len(h) : g[i] = h[i]
  OBVIOUS
<1>2. ASSUME NEW i \in 1 .. Len(h) PROVE EntryOk(g, i, Len(h))
  <2>1. h[i].n \in Nat
    BY EntryTyped
  <2>2. ASSUME g[i].role = "assistant", NEW k \in 1 .. g[i].n
        PROVE  i + k <= Len(h) /\ g[i + k] = Answer(k)
    BY <1>1, <2>1, <2>2 DEF WellFormed
  <2>3. ASSUME g[i].role = "tool"
        PROVE  /\ g[i].n \in 1 .. i - 1
               /\ g[i - g[i].n].role = "assistant"
               /\ g[i].n <= g[i - g[i].n].n
    BY <1>1, <2>1, <2>3 DEF WellFormed
  <2> QED  BY <2>2, <2>3 DEF EntryOk
<1> QED  BY <1>1, <1>2 DEF InBatch

(* The next answer.                                                          *)
LEMMA BatchGrows ==
  ASSUME NEW h \in Seq(Entry), NEW c \in Nat, NEW k \in 1 .. c, InBatch(h, c, k)
  PROVE  InBatch(Append(h, Answer(k)), c, k + 1)
<1> DEFINE g == Append(h, Answer(k))
<1>1. Len(g) = Len(h) + 1 /\ g[Len(h) + 1] = Answer(k)
      /\ \A i \in 1 .. Len(h) : g[i] = h[i]
  OBVIOUS
<1> HIDE DEF g
<1>2. Len(h) \in Nat /\ Len(h) >= k /\ Len(g) - (k + 1) = Len(h) - k
      /\ Len(g) - (k + 1) + 1 = Len(h) - k + 1
  BY <1>1 DEF InBatch
<1>3. g[Len(g) - (k + 1) + 1] = Assistant(c)
  BY <1>1, <1>2 DEF InBatch
<1>4. ASSUME NEW i \in 1 .. k PROVE g[Len(g) - (k + 1) + 1 + i] = Answer(i)
  <2>1. CASE i = k
    BY <1>1, <1>2, <2>1
  <2>2. CASE i < k
    <3>1. h[Len(h) - k + 1 + i] = Answer(i)
      BY <2>2 DEF InBatch
    <3> QED  BY <1>1, <1>2, <2>2, <3>1
  <2>3. i = k \/ i < k
    OBVIOUS
  <2> QED  BY <2>1, <2>2, <2>3
<1>5. ASSUME NEW i \in 1 .. Len(h) - k PROVE EntryOk(g, i, Len(h) - k)
  <2>1. EntryOk(h, i, Len(h) - k)
    BY DEF InBatch
  <2>2. h[i].n \in Nat /\ g[i] = h[i]
    BY <1>1, <1>2, EntryTyped
  <2>3. ASSUME g[i].role = "assistant", NEW m \in 1 .. g[i].n
        PROVE  i + m <= Len(h) - k /\ g[i + m] = Answer(m)
    <3>1. i + m <= Len(h) - k /\ h[i + m] = Answer(m)
      BY <2>1, <2>2, <2>3 DEF EntryOk
    <3>2. i + m \in 1 .. Len(h)
      BY <1>2, <2>2, <2>3, <3>1
    <3> QED  BY <1>1, <3>1, <3>2
  <2>4. ASSUME g[i].role = "tool"
        PROVE  /\ g[i].n \in 1 .. i - 1
               /\ g[i - g[i].n].role = "assistant"
               /\ g[i].n <= g[i - g[i].n].n
    BY <1>1, <1>2, <2>1, <2>2, <2>4 DEF EntryOk
  <2> QED  BY <2>3, <2>4 DEF EntryOk
<1>6. Len(g) >= k + 1
  BY <1>1, <1>2
<1>7. \A i \in 1 .. (k + 1) - 1 : g[Len(g) - (k + 1) + 1 + i] = Answer(i)
  <2>1. (k + 1) - 1 = k
    OBVIOUS
  <2> QED  BY <1>4, <2>1
<1>8. \A i \in 1 .. Len(g) - (k + 1) : EntryOk(g, i, Len(g) - (k + 1))
  BY <1>2, <1>5
<1>9. InBatch(g, c, k + 1)
  BY <1>3, <1>6, <1>7, <1>8 DEF InBatch
<1> QED  BY <1>9 DEF g

(* A batch with all its answers leaves a conversation the API accepts.       *)
LEMMA BatchCloses ==
  ASSUME NEW h \in Seq(Entry), NEW c \in Nat, InBatch(h, c, c + 1)
  PROVE  WellFormed(h)
<1> DEFINE a == Len(h) - c
<1>1. Len(h) \in Nat /\ Len(h) >= c + 1 /\ a \in 1 .. Len(h) /\ h[a] = Assistant(c)
      /\ \A i \in 1 .. c : h[a + i] = Answer(i)
  BY DEF InBatch
<1>3. \A i \in 1 .. a - 1 : EntryOk(h, i, a - 1)
  <2>1. Len(h) - (c + 1) = a - 1
    BY <1>1
  <2>2. \A i \in 1 .. Len(h) - (c + 1) : EntryOk(h, i, Len(h) - (c + 1))
    BY DEF InBatch
  <2> QED  BY <2>1, <2>2
<1> HIDE DEF a
<1>2. ASSUME NEW i \in 1 .. Len(h) PROVE
        /\ h[i].role = "assistant" =>
             \A k \in 1 .. h[i].n : i + k <= Len(h) /\ h[i + k] = Answer(k)
        /\ h[i].role = "tool" =>
             /\ h[i].n \in 1 .. i - 1
             /\ h[i - h[i].n].role = "assistant"
             /\ h[i].n <= h[i - h[i].n].n
  <2>1. CASE i < a
    <3>1. h[i].n \in Nat
      BY EntryTyped
    <3>2. i \in 1 .. a - 1
      BY <1>1, <2>1
    <3>3. EntryOk(h, i, a - 1)
      BY <1>3, <3>2
    <3> QED  BY <1>1, <2>1, <3>1, <3>3 DEF EntryOk
  <2>2. CASE i = a
    BY <1>1, <2>2 DEF Assistant, a
  <2>3. CASE i > a
    <3>1. i - a \in 1 .. c /\ a + (i - a) = i
      BY <1>1, <2>3 DEF a
    <3>2. h[i] = Answer(i - a)
      BY <1>1, <3>1
    <3>3. h[i].role = "tool" /\ h[i].n = i - a
      BY <3>2 DEF Answer
    <3>4. i - h[i].n = a
      BY <1>1, <3>3
    <3>5. h[a].role = "assistant" /\ h[a].n = c
      BY <1>1 DEF Assistant
    <3>6. h[i].n \in 1 .. i - 1
      BY <1>1, <3>1, <3>3
    <3>7. h[i].n <= c
      BY <3>1, <3>3
    <3>8. h[i].role # "assistant"
      BY <3>3
    <3> QED  BY <3>4, <3>5, <3>6, <3>7, <3>8
  <2> QED  BY <1>1, <2>1, <2>2, <2>3
<1> QED  BY <1>2 DEF WellFormed

(* Answering the rest of a batch as skipped completes it.                    *)
LEMMA SkippedCompletes ==
  ASSUME NEW h \in Seq(Entry), NEW c \in Nat, NEW k \in 1 .. c, InBatch(h, c, k)
  PROVE  InBatch(h \o [i \in 1 .. c - k + 1 |-> Answer(k + i - 1)], c, c + 1)
<1> DEFINE rest == [i \in 1 .. c - k + 1 |-> Answer(k + i - 1)]
           g == h \o rest
<1>1. rest \in Seq(Entry) /\ Len(rest) = c - k + 1
  <2>1. ASSUME NEW i \in 1 .. c - k + 1 PROVE Answer(k + i - 1) \in Entry
    BY EntriesTyped
  <2> QED  BY <2>1
<1>2. \A i \in 1 .. c - k + 1 : rest[i] = Answer(k + i - 1)
  OBVIOUS
<1> HIDE DEF rest
<1>3. /\ Len(g) = Len(h) + Len(rest)
      /\ \A i \in 1 .. Len(h) : g[i] = h[i]
      /\ \A i \in 1 .. Len(rest) : g[Len(h) + i] = rest[i]
  BY <1>1
<1> HIDE DEF g
<1>4. Len(h) \in Nat /\ Len(h) >= k /\ Len(g) - (c + 1) = Len(h) - k /\ Len(g) >= c + 1
      /\ Len(g) - (c + 1) + 1 = Len(h) - k + 1
  BY <1>1, <1>3 DEF InBatch
<1>5. g[Len(g) - (c + 1) + 1] = Assistant(c)
  <2>1. Len(h) - k + 1 \in 1 .. Len(h) /\ h[Len(h) - k + 1] = Assistant(c)
    BY <1>4 DEF InBatch
  <2> QED  BY <1>3, <1>4, <2>1
<1>6. ASSUME NEW i \in 1 .. c PROVE g[Len(g) - (c + 1) + 1 + i] = Answer(i)
  <2>1. CASE i < k
    <3>1. h[Len(h) - k + 1 + i] = Answer(i)
      BY <2>1 DEF InBatch
    <3>2. Len(h) - k + 1 + i \in 1 .. Len(h)
      BY <1>4, <2>1
    <3> QED  BY <1>3, <1>4, <3>1, <3>2
  <2>2. CASE i >= k
    <3>1. i - k + 1 \in 1 .. c - k + 1 /\ k + (i - k + 1) - 1 = i
      BY <2>2
    <3>2. rest[i - k + 1] = Answer(i)
      BY <1>2, <3>1
    <3>3. Len(g) - (c + 1) + 1 + i = Len(h) + (i - k + 1)
      BY <1>4
    <3> QED  BY <1>1, <1>3, <3>1, <3>2, <3>3
  <2> QED  BY <2>1, <2>2
<1>7. ASSUME NEW i \in 1 .. Len(h) - k PROVE EntryOk(g, i, Len(h) - k)
  <2>1. EntryOk(h, i, Len(h) - k)
    BY DEF InBatch
  <2>2. h[i].n \in Nat /\ g[i] = h[i]
    BY <1>3, <1>4, EntryTyped
  <2>3. ASSUME g[i].role = "assistant", NEW m \in 1 .. g[i].n
        PROVE  i + m <= Len(h) - k /\ g[i + m] = Answer(m)
    <3>1. i + m <= Len(h) - k /\ h[i + m] = Answer(m)
      BY <2>1, <2>2, <2>3 DEF EntryOk
    <3>2. i + m \in 1 .. Len(h)
      BY <1>4, <2>2, <2>3, <3>1
    <3> QED  BY <1>3, <3>1, <3>2
  <2>4. ASSUME g[i].role = "tool"
        PROVE  /\ g[i].n \in 1 .. i - 1
               /\ g[i - g[i].n].role = "assistant"
               /\ g[i].n <= g[i - g[i].n].n
    <3>1. /\ h[i].n \in 1 .. i - 1
          /\ h[i - h[i].n].role = "assistant"
          /\ h[i].n <= h[i - h[i].n].n
      BY <2>1, <2>2, <2>4 DEF EntryOk
    <3>2. i - h[i].n \in 1 .. Len(h)
      BY SMTT(20), <1>4, <2>2, <3>1
    <3>3. g[i - h[i].n] = h[i - h[i].n]
      BY <1>3, <3>2
    <3> QED  BY <2>2, <3>1, <3>3
  <2> QED  BY <2>3, <2>4 DEF EntryOk
<1>8. \A i \in 1 .. (c + 1) - 1 : g[Len(g) - (c + 1) + 1 + i] = Answer(i)
  <2>1. (c + 1) - 1 = c
    OBVIOUS
  <2> QED  BY <1>6, <2>1
<1>9. \A i \in 1 .. Len(g) - (c + 1) : EntryOk(g, i, Len(g) - (c + 1))
  BY <1>4, <1>7
<1>10. InBatch(g, c, c + 1)
  BY <1>4, <1>5, <1>8, <1>9 DEF InBatch
<1> QED  BY <1>10 DEF g, rest

(* In every state: between batches the conversation is well formed, inside   *)
(* one it ends with the batch and the answers given so far.                  *)
FormInv ==
  /\ pc \in {"turn", "reserve", "request"} => WellFormed(history)
  /\ pc \in {"reply", "tools", "start", "running", "recorded"} =>
       InBatch(history, planned, next)

LEMMA FormInvInit == Init => FormInv
<1> SUFFICES ASSUME Init PROVE WellFormed(history)
  BY DEF Init, FormInv
<1>1. Len(history) = 1 /\ history[1] = Task
  BY DEF Init
<1>2. Task.role = "task"
  BY DEF Task
<1> QED  BY <1>1, <1>2 DEF WellFormed, Init

LEMMA FormInvStep == LoopInv /\ FormInv /\ [Next]_vars => FormInv'
<1> SUFFICES ASSUME LoopInv, FormInv, [Next]_vars PROVE FormInv'
  OBVIOUS
<1>1. /\ history \in Seq(Entry) /\ inbox \in Nat /\ planned \in Nat
      /\ next \in 1 .. planned + 1
      /\ pc = "reply" => next = 1
      /\ pc \in {"start", "running", "recorded"} => next <= planned
  BY AgentLoopAssumption DEF AgentLoopAssumption, LoopInv, TypeOK, BatchInv
<1>2. Steering(inbox) \in Entry /\ Retry \in Entry
      /\ Steering(inbox).role \notin {"assistant", "tool"}
      /\ Retry.role \notin {"assistant", "tool"}
  BY <1>1, EntriesTyped DEF Steering, Retry
<1>3. CASE HistoryOverflow \/ CancelBetweenSteps \/ BeginFails \/ BeginCancelled
           \/ RequestFails \/ FinalAnswer \/ ToolRaises
  BY <1>3 DEF HistoryOverflow, CancelBetweenSteps, BeginFails, BeginCancelled, RequestFails,
     FinalAnswer, ToolRaises, Stop, FormInv
<1>4. CASE BeginTurn
  <2>1. WellFormed(history) /\ pc' = "reserve"
    BY <1>4 DEF BeginTurn, At, FormInv
  <2>2. history' = history \/ history' = Append(history, Steering(inbox))
    BY <1>4 DEF BeginTurn
  <2>3. WellFormed(history')
    BY <1>1, <1>2, <2>1, <2>2, AppendPlain
  <2> QED  BY <2>1, <2>3 DEF FormInv, WellFormed
<1>5. CASE ReserveRequest
  BY <1>5 DEF ReserveRequest, At, FormInv, WellFormed
<1>6. ASSUME NEW calls \in Batches, NEW isBlank \in BOOLEAN, NEW usage \in UsageReported,
             NEW promptOver \in Overruns, NEW outputOver \in Overruns,
             Receive(calls, isBlank, usage, promptOver, outputOver)
      PROVE  FormInv'
  <2>1. WellFormed(history) /\ calls \in Nat
    BY <1>6, AgentLoopAssumption DEF AgentLoopAssumption, Receive, FormInv
  <2>2. InBatch(Append(history, Assistant(calls)), calls, 1)
    BY <1>1, <2>1, BatchOpens
  <2>3. \/ pc' = "done"
        \/ /\ pc' = "reply" /\ history' = Append(history, Assistant(calls))
           /\ planned' = calls /\ next' = 1
    BY <1>6 DEF Receive
  <2>4. CASE pc' = "done"
    BY <2>4 DEF FormInv
  <2>5. CASE pc' = "reply" /\ InBatch(history', planned', next')
    BY <2>5 DEF FormInv, InBatch, EntryOk
  <2> QED  BY <2>2, <2>3, <2>4, <2>5
<1>7. CASE EmptyReply \/ SteerAnswer
  <2>1. pc = "reply" /\ planned = 0 /\ next = 1
    BY <1>1, <1>7 DEF EmptyReply, SteerAnswer, Proceeds, At
  <2>2. WellFormed(history)
    BY <1>1, <2>1, BatchCloses DEF FormInv
  <2>3. \/ pc' = "done"
        \/ pc' = "turn" /\ history' = Append(history, Retry)
        \/ pc' = "turn" /\ history' = Append(history, Steering(inbox))
    BY <1>7 DEF EmptyReply, SteerAnswer, NextTurn, Stop
  <2>4. pc' = "done" \/ (pc' = "turn" /\ WellFormed(history'))
    BY <1>1, <1>2, <2>2, <2>3, AppendPlain
  <2> QED  BY <2>4 DEF FormInv, WellFormed
<1>8. CASE BeginBatch \/ PassSteeringPoint \/ StartTool \/ ReportMutation
  BY <1>8 DEF BeginBatch, PassSteeringPoint, StartTool, ReportMutation, Proceeds, At, reply,
     FormInv, InBatch, EntryOk
<1>9. CASE SteerBatch
  <2>1. /\ InBatch(history, planned, next) /\ next \in 1 .. planned
        /\ history' = Append(history \o Skipped, Steering(inbox)) /\ pc' = "turn"
    BY <1>1, <1>9 DEF SteerBatch, Proceeds, At, NextTurn, FormInv
  <2>2. InBatch(history \o Skipped, planned, planned + 1)
    <3>1. Skipped = [i \in 1 .. planned - next + 1 |-> Answer(next + i - 1)]
      BY DEF Skipped
    <3> QED  BY <1>1, <2>1, <3>1, SkippedCompletes
  <2>3. history \o Skipped \in Seq(Entry)
    <3>1. ASSUME NEW i \in 1 .. planned - next + 1 PROVE Answer(next + i - 1) \in Entry
      BY <1>1, EntriesTyped
    <3>2. Skipped \in Seq(Entry)
      BY <1>1, <2>1, <3>1 DEF Skipped
    <3> QED  BY <1>1, <3>2
  <2>4. WellFormed(history \o Skipped)
    BY <1>1, <2>2, <2>3, BatchCloses
  <2>5. WellFormed(history')
    BY <1>2, <2>1, <2>3, <2>4, AppendPlain
  <2> QED  BY <2>1, <2>5 DEF FormInv, WellFormed
<1>10. CASE ToolReturns
  <2>1. /\ InBatch(history, planned, next) /\ next \in 1 .. planned
        /\ history' = Append(history, Answer(next)) /\ pc' = "tools"
        /\ next' = next + 1 /\ planned' = planned
    BY <1>1, <1>10 DEF ToolReturns, FormInv
  <2>2. InBatch(Append(history, Answer(next)), planned, next + 1)
    BY <1>1, <2>1, BatchGrows
  <2> QED  BY <2>1, <2>2 DEF FormInv, InBatch, EntryOk
<1>11. CASE EndBatch
  <2>1. InBatch(history, planned, next) /\ next = planned + 1
        /\ history' = history /\ pc' = "turn"
    BY <1>1, <1>11 DEF EndBatch, Proceeds, At, NextTurn, FormInv
  <2>2. WellFormed(history)
    BY <1>1, <2>1, BatchCloses
  <2> QED  BY <2>1, <2>2 DEF FormInv, WellFormed
<1>12. CASE SendMessage \/ Cancel \/ Expire \/ UNCHANGED vars
  BY <1>12 DEF SendMessage, Cancel, Expire, vars, control, reply, FormInv, WellFormed, InBatch,
     EntryOk
<1> QED
  BY <1>3, <1>4, <1>5, <1>6, <1>7, <1>8, <1>9, <1>10, <1>11, <1>12 DEF Next, Loop

LEMMA FormCorrect == Spec => [](LoopInv /\ FormInv)
  BY LoopInvInit, LoopInvStep, FormInvInit, FormInvStep, PTL DEF Spec

(* Whatever steering cuts a batch short, each request carries a conversation *)
(* in which every announced call has exactly its answer, in order.           *)
THEOREM ConversationsAreAccepted == Spec => []RequestsWellFormed
<1>1. FormInv => RequestsWellFormed
  BY DEF FormInv, RequestsWellFormed
<1> QED  BY <1>1, FormCorrect, PTL

(* No tool runs by a plan the model made before steering that was drained.   *)
THEOREM PlansAreCurrent == Spec => []PlanIsCurrent
<1>1. FormInv => PlanIsCurrent
  BY DEF FormInv, InBatch, PlanIsCurrent
<1> QED  BY <1>1, FormCorrect, PTL

-----------------------------------------------------------------------------
(* Every set of numbers has a least element: the induction that the lemmas    *)
(* about recursive functions rest on.                                        *)
LEMMA LeastNumber ==
  ASSUME NEW T \in SUBSET Nat, T # {}
  PROVE  \E x \in T : \A y \in T : x <= y
<1>1. IsWellFoundedOn(OpToRel(<, Nat), Nat)
  BY NatLessThanWellFounded, Zenon
<1>2. PICK x \in T : \A y \in T : ~(<<y, x>> \in OpToRel(<, Nat))
  BY <1>1, WFMin, Zenon
<1>3. ASSUME NEW y \in T PROVE ~(y < x)
  BY <1>2, Zenon DEF OpToRel
<1> QED  BY <1>3

(* The recursion of SteeringIn over the first m entries.                     *)
Weight(e) == IF e.role = "steering" THEN e.n ELSE 0
Tallies(s, h, m) ==
  /\ s \in [0 .. m -> Nat] /\ s[0] = 0
  /\ \A i \in 1 .. m : s[i] = s[i - 1] + Weight(h[i])

LEMMA WeightTyped ==
  ASSUME NEW h \in Seq(Entry), NEW i \in 1 .. Len(h)
  PROVE  Weight(h[i]) \in Nat
  BY EntryTyped DEF Weight

(* There is such a function: the least m without one would extend the one of *)
(* m - 1.                                                                    *)
LEMMA TallyExists ==
  ASSUME NEW h \in Seq(Entry)
  PROVE  \E s : Tallies(s, h, Len(h))
<1> DEFINE Bad == {m \in 0 .. Len(h) : ~\E s : Tallies(s, h, m)}
<1>1. Bad = {}
  <2> SUFFICES ASSUME Bad # {} PROVE FALSE
    OBVIOUS
  <2>1. PICK m \in Bad : \A k \in Bad : m <= k
    <3>1. Bad \in SUBSET Nat
      OBVIOUS
    <3> QED  BY <3>1, LeastNumber
  <2>2. m # 0
    <3>1. Tallies([i \in 0 .. 0 |-> 0], h, 0)
      BY DEF Tallies
    <3> QED  BY <3>1
  <2>3. m - 1 \in 0 .. Len(h) /\ m - 1 \notin Bad
    BY <2>1, <2>2
  <2>4. PICK s : Tallies(s, h, m - 1)
    BY <2>3
  <2> DEFINE t == [i \in 0 .. m |-> IF i = m THEN s[m - 1] + Weight(h[m]) ELSE s[i]]
  <2>5. Weight(h[m]) \in Nat
    BY <2>1, <2>2, WeightTyped
  <2>6. t \in [0 .. m -> Nat]
    BY <2>2, <2>4, <2>5 DEF Tallies
  <2>7. t[0] = 0
    BY <2>2, <2>4 DEF Tallies
  <2>8. ASSUME NEW i \in 1 .. m PROVE t[i] = t[i - 1] + Weight(h[i])
    BY <2>2, <2>4 DEF Tallies
  <2>9. Tallies(t, h, m)
    BY <2>6, <2>7, <2>8 DEF Tallies
  <2> QED  BY <2>1, <2>9
<1>2. Len(h) \in 0 .. Len(h)
  OBVIOUS
<1>3. \A m \in 0 .. Len(h) : \E s : Tallies(s, h, m)
  BY <1>1
<1> QED  BY <1>2, <1>3

(* So SteeringIn is what its definition says.                                *)
LEMMA SteeringTally ==
  ASSUME NEW h \in Seq(Entry)
  PROVE  \E s : Tallies(s, h, Len(h)) /\ SteeringIn(h) = s[Len(h)]
<1> DEFINE Step(s) == [i \in 0 .. Len(h) |->
             IF i = 0 THEN 0
             ELSE s[i - 1] + (IF h[i].role = "steering" THEN h[i].n ELSE 0)]
           s == CHOOSE f : f = Step(f)
<1>1. SteeringIn(h) = s[Len(h)]
  BY DEF SteeringIn
<1>2. PICK t : Tallies(t, h, Len(h))
  BY TallyExists
<1>3. t = Step(t)
  <2>1. \A i \in 0 .. Len(h) : t[i] = Step(t)[i]
    BY <1>2 DEF Tallies, Weight
  <2> QED  BY <1>2, <2>1 DEF Tallies
<1>4. s = Step(s)
  BY <1>3
<1> HIDE DEF s
<1>5. DOMAIN s = 0 .. Len(h) /\ s[0] = 0
      /\ \A i \in 1 .. Len(h) : s[i] = s[i - 1] + Weight(h[i])
  BY <1>4 DEF Weight
<1>6. s = t
  <2> DEFINE Bad == {i \in 0 .. Len(h) : s[i] # t[i]}
  <2>1. Bad = {}
    <3> SUFFICES ASSUME Bad # {} PROVE FALSE
      OBVIOUS
    <3>1. PICK m \in Bad : \A k \in Bad : m <= k
      <4>1. Bad \in SUBSET Nat
        OBVIOUS
      <4> QED  BY <4>1, LeastNumber
    <3>2. m # 0
      BY <1>2, <1>5, <3>1 DEF Tallies
    <3>3. s[m - 1] = t[m - 1]
      BY <3>1, <3>2
    <3> QED  BY <1>2, <1>5, <3>1, <3>2, <3>3 DEF Tallies
  <2>2. \A i \in 0 .. Len(h) : s[i] = t[i]
    BY <2>1
  <2>3. DOMAIN t = 0 .. Len(h) /\ t = [i \in DOMAIN t |-> t[i]] /\ s = [i \in DOMAIN s |-> s[i]]
    BY <1>2, <1>4 DEF Tallies
  <2> QED  BY <1>5, <2>2, <2>3
<1> QED  BY <1>1, <1>2, <1>6

(* Conversations that begin with the same entries count the same there, and  *)
(* entries that are not steering change nothing.                             *)
SameSteering(h, g, m, n) ==
  /\ m <= n
  /\ \A i \in 1 .. m : h[i] = g[i]
  /\ \A i \in m + 1 .. n : Weight(g[i]) = 0

LEMMA TalliesAgree ==
  ASSUME NEW h, NEW g, NEW s, NEW t, NEW m \in Nat, NEW n \in Nat,
         Tallies(s, h, m), Tallies(t, g, n), SameSteering(h, g, m, n)
  PROVE  s[m] = t[n]
<1> USE DEF SameSteering
<1> DEFINE Total(i) == IF i <= m THEN s[i] ELSE s[m]
           Bad == {i \in 0 .. n : t[i] # Total(i)}
<1>1. Bad = {}
  <2> SUFFICES ASSUME Bad # {} PROVE FALSE
    OBVIOUS
  <2>1. PICK k \in Bad : \A i \in Bad : k <= i
    <3>1. Bad \in SUBSET Nat
      OBVIOUS
    <3> QED  BY <3>1, LeastNumber
  <2>2. k # 0
    BY <2>1 DEF Tallies
  <2>3. t[k - 1] = Total(k - 1)
    BY <2>1, <2>2
  <2>4. t[k] = t[k - 1] + Weight(g[k]) /\ t[k - 1] \in Nat
    BY <2>1, <2>2 DEF Tallies
  <2>5. CASE k <= m
    <3>1. s[k] = s[k - 1] + Weight(g[k])
      BY <2>1, <2>2, <2>5 DEF Tallies
    <3> QED  BY <2>1, <2>2, <2>3, <2>4, <2>5, <3>1
  <2>6. CASE k > m
    <3>1. Weight(g[k]) = 0 /\ Total(k - 1) = s[m] /\ Total(k) = s[m]
      BY <2>1, <2>6
    <3> QED  BY <2>1, <2>3, <2>4, <3>1
  <2> QED  BY <2>1, <2>5, <2>6
<1>2. n \in 0 .. n
  OBVIOUS
<1>3. t[n] = Total(n)
  BY <1>1, <1>2
<1> QED  BY <1>3

LEMMA SteeringAppend ==
  ASSUME NEW h \in Seq(Entry), NEW e \in Entry
  PROVE  /\ SteeringIn(h) \in Nat
         /\ SteeringIn(Append(h, e)) = SteeringIn(h) + Weight(e)
<1> DEFINE g == Append(h, e)
<1>1. g \in Seq(Entry) /\ Len(g) = Len(h) + 1 /\ g[Len(g)] = e
      /\ Len(h) \in Nat /\ \A i \in 1 .. Len(h) : g[i] = h[i]
  OBVIOUS
<1> HIDE DEF g
<1>2. PICK s : Tallies(s, h, Len(h)) /\ SteeringIn(h) = s[Len(h)]
  BY SteeringTally
<1>3. PICK t : Tallies(t, g, Len(g)) /\ SteeringIn(g) = t[Len(g)]
  BY <1>1, SteeringTally
<1> DEFINE r == [i \in 0 .. Len(h) |-> t[i]]
<1>4. Tallies(r, h, Len(h))
  BY <1>1, <1>3 DEF Tallies
<1>5. s[Len(h)] = r[Len(h)]
  <2>1. SameSteering(h, h, Len(h), Len(h))
    BY <1>1 DEF SameSteering
  <2> HIDE DEF r
  <2> QED  BY <1>1, <1>2, <1>4, <2>1, TalliesAgree
<1>6. SteeringIn(g) = t[Len(h)] + Weight(e) /\ s[Len(h)] \in Nat
  BY SMTT(20), <1>1, <1>2, <1>3 DEF Tallies
<1>7. r[Len(h)] = t[Len(h)]
  BY <1>1
<1> QED  BY <1>2, <1>5, <1>6, <1>7 DEF g

NoSteering(r) == \A i \in 1 .. Len(r) : Weight(r[i]) = 0

LEMMA SteeringUnchanged ==
  ASSUME NEW h \in Seq(Entry), NEW r \in Seq(Entry), NoSteering(r)
  PROVE  SteeringIn(h \o r) = SteeringIn(h)
<1> DEFINE g == h \o r
<1>1. /\ g \in Seq(Entry) /\ Len(g) = Len(h) + Len(r) /\ Len(h) \in Nat /\ Len(r) \in Nat
      /\ \A i \in 1 .. Len(h) : g[i] = h[i]
      /\ \A i \in Len(h) + 1 .. Len(g) : g[i] = r[i - Len(h)] /\ i - Len(h) \in 1 .. Len(r)
  OBVIOUS
<1> HIDE DEF g
<1>2. PICK s : Tallies(s, h, Len(h)) /\ SteeringIn(h) = s[Len(h)]
  BY SteeringTally
<1>3. PICK t : Tallies(t, g, Len(g)) /\ SteeringIn(g) = t[Len(g)]
  BY <1>1, SteeringTally
<1>4. ASSUME NEW i \in Len(h) + 1 .. Len(g) PROVE Weight(g[i]) = 0
  <2>1. g[i] = r[i - Len(h)] /\ i - Len(h) \in 1 .. Len(r)
    BY <1>1
  <2> QED  BY <2>1 DEF NoSteering
<1>5. s[Len(h)] = t[Len(g)]
  <2>1. SameSteering(h, g, Len(h), Len(g))
    BY <1>1, <1>4 DEF SameSteering
  <2> QED  BY <1>1, <1>2, <1>3, <2>1, TalliesAgree
<1> QED  BY <1>2, <1>3, <1>5 DEF g

(* All steering that was acknowledged is in the conversation or the mailbox;  *)
(* a completed run has closed its mailbox empty, after the model's answer.   *)
SteeringInv ==
  /\ ~cancelSet => SteeringIn(history) + inbox = sent
  /\ outcome = "completed" =>
       ~open /\ inbox = 0 /\ history[Len(history)] = Assistant(0)

LEMMA SteeringInvInit == Init => SteeringInv
<1> SUFFICES ASSUME Init PROVE SteeringInv
  OBVIOUS
<1>1. history \in Seq(Entry) /\ Len(history) = 1 /\ history[1] = Task
  BY LoopInvInit DEF LoopInv, TypeOK, Init
<1>2. PICK s : Tallies(s, history, Len(history)) /\ SteeringIn(history) = s[Len(history)]
  BY <1>1, SteeringTally
<1>3. Weight(history[1]) = 0
  BY <1>1 DEF Weight, Task
<1>4. SteeringIn(history) = 0
  BY <1>1, <1>2, <1>3 DEF Tallies
<1> QED  BY <1>4 DEF Init, SteeringInv

(* What a step adds to the conversation, and what that adds to the steering. *)
LEMMA StepSteering ==
  ASSUME LoopInv, NEW e \in Entry
  PROVE  /\ SteeringIn(history) \in Nat
         /\ SteeringIn(Append(history, e)) = SteeringIn(history) + Weight(e)
  BY SteeringAppend DEF LoopInv, TypeOK

LEMMA SteeringInvStep == LoopInv /\ FormInv /\ SteeringInv /\ [Next]_vars => SteeringInv'
<1> SUFFICES ASSUME LoopInv, FormInv, SteeringInv, [Next]_vars PROVE SteeringInv'
  OBVIOUS
<1>1. /\ history \in Seq(Entry) /\ inbox \in Nat /\ planned \in Nat /\ sent \in Nat
      /\ next \in 1 .. planned + 1
      /\ outcome = "completed" => pc = "done"
      /\ SteeringIn(history) \in Nat
  BY AgentLoopAssumption, EntriesTyped, StepSteering DEF AgentLoopAssumption, LoopInv, TypeOK
<1>2. /\ Weight(Steering(inbox)) = inbox /\ Weight(Retry) = 0
      /\ \A k \in Nat : Weight(Assistant(k)) = 0 /\ Weight(Answer(k)) = 0
  BY <1>1 DEF Weight, Steering, Retry, Assistant, Answer
<1>3. /\ \A k \in Nat : /\ SteeringIn(Append(history, Assistant(k))) = SteeringIn(history)
                        /\ SteeringIn(Append(history, Answer(k))) = SteeringIn(history)
      /\ SteeringIn(Append(history, Steering(inbox))) = SteeringIn(history) + inbox
      /\ SteeringIn(Append(history, Retry)) = SteeringIn(history)
  <2>1. ASSUME NEW k \in Nat
        PROVE  /\ SteeringIn(Append(history, Assistant(k))) = SteeringIn(history)
               /\ SteeringIn(Append(history, Answer(k))) = SteeringIn(history)
    BY <1>1, <1>2, EntriesTyped, StepSteering
  <2>2. /\ SteeringIn(Append(history, Steering(inbox))) = SteeringIn(history) + inbox
        /\ SteeringIn(Append(history, Retry)) = SteeringIn(history)
    BY <1>1, <1>2, EntriesTyped, StepSteering
  <2> QED  BY <2>1, <2>2
<1> USE DEF SteeringInv, control, reply, budget, counts, mailbox, signals
<1>4. CASE HistoryOverflow \/ CancelBetweenSteps \/ BeginFails \/ BeginCancelled
           \/ RequestFails \/ ToolRaises
  BY <1>4 DEF HistoryOverflow, CancelBetweenSteps, BeginFails, BeginCancelled, RequestFails,
     ToolRaises, Stop
<1>5. CASE BeginTurn
  BY <1>1, <1>3, <1>5 DEF BeginTurn, Drain, At
<1>6. CASE ReserveRequest \/ BeginBatch \/ PassSteeringPoint \/ StartTool
           \/ ReportMutation \/ EndBatch
  BY <1>1, <1>6 DEF ReserveRequest, BeginBatch, PassSteeringPoint, StartTool, ReportMutation,
     EndBatch, NextTurn, Proceeds, At
<1>7. ASSUME NEW calls \in Batches, NEW isBlank \in BOOLEAN, NEW usage \in UsageReported,
             NEW promptOver \in Overruns, NEW outputOver \in Overruns,
             Receive(calls, isBlank, usage, promptOver, outputOver)
      PROVE  SteeringInv'
  <2>1. calls \in Nat
    BY AgentLoopAssumption DEF AgentLoopAssumption
  <2>2. /\ pc = "request" /\ outcome' \in {"failed", outcome}
        /\ history' \in {history, Append(history, Assistant(calls))}
        /\ UNCHANGED <<inbox, open, sent, cancelSet>>
    BY <1>7 DEF Receive
  <2> QED  BY <1>1, <1>3, <2>1, <2>2
<1>8. CASE EmptyReply
  BY <1>1, <1>3, <1>8 DEF EmptyReply, NextTurn, Stop, Proceeds, At
<1>9. CASE SteerAnswer
  BY <1>1, <1>3, <1>9 DEF SteerAnswer, NextTurn, Drain, Proceeds, At
<1>10. CASE FinalAnswer
  <2>1. InBatch(history, 0, 1)
    BY <1>10 DEF FinalAnswer, Proceeds, At, FormInv, LoopInv, BatchInv
  <2>2. history[Len(history)] = Assistant(0)
    BY <1>1, <2>1 DEF InBatch
  <2> QED  BY <1>10, <2>2 DEF FinalAnswer
<1>11. CASE SteerBatch
  <2>1. next \in 1 .. planned /\ pc = "tools"
    BY <1>1, <1>11 DEF SteerBatch, Proceeds, At
  <2>2. ASSUME NEW i \in 1 .. planned - next + 1
        PROVE  Answer(next + i - 1) \in Entry
    BY <1>1, EntriesTyped
  <2>3. Skipped \in Seq(Entry)
    BY <1>1, <2>1, <2>2 DEF Skipped
  <2>4. NoSteering(Skipped)
    <3> SUFFICES ASSUME NEW i \in 1 .. Len(Skipped) PROVE Weight(Skipped[i]) = 0
      BY DEF NoSteering
    <3>1. i \in 1 .. planned - next + 1 /\ Skipped[i] = Answer(next + i - 1)
      BY <1>1, <2>1 DEF Skipped
    <3>2. next + i - 1 \in Nat
      BY <1>1, <3>1
    <3> QED  BY <1>2, <3>1, <3>2
  <2>5. SteeringIn(Append(history \o Skipped, Steering(inbox))) = SteeringIn(history) + inbox
    <3>1. SteeringIn(history \o Skipped) = SteeringIn(history)
      BY <1>1, <2>3, <2>4, SteeringUnchanged
    <3>2. history \o Skipped \in Seq(Entry) /\ Steering(inbox) \in Entry
      BY <1>1, <2>3, EntriesTyped
    <3> QED  BY <1>2, <3>1, <3>2, SteeringAppend
  <2> QED  BY <1>1, <1>11, <2>1, <2>5 DEF SteerBatch, NextTurn, Drain
<1>12. CASE ToolReturns
  BY <1>1, <1>3, <1>12 DEF ToolReturns
<1>13. CASE SendMessage \/ Cancel \/ Expire \/ UNCHANGED vars
  BY <1>1, <1>13 DEF SendMessage, Cancel, Expire, vars
<1> QED
  BY <1>4, <1>5, <1>6, <1>7, <1>8, <1>9, <1>10, <1>11, <1>12, <1>13 DEF Next, Loop

(* A run that completes without having been cancelled has put every message   *)
(* that send_message acknowledged before the model, and the model's answer    *)
(* came after all of them.                                                   *)
THEOREM SteeringReachesTheModel == Spec => []AnswerSawAllSteering
<1>1. LoopInv /\ SteeringInv => AnswerSawAllSteering
  <2> SUFFICES ASSUME LoopInv, SteeringInv PROVE AnswerSawAllSteering
    OBVIOUS
  <2>1. SteeringIn(history) \in Nat
    BY EntriesTyped, StepSteering
  <2> QED  BY <2>1 DEF SteeringInv, AnswerSawAllSteering
<1> QED  BY <1>1, FormCorrect, SteeringInvInit, SteeringInvStep, PTL DEF Spec

-----------------------------------------------------------------------------
(* Once a cancellation is accepted only a tool past its steering point may    *)
(* still start, and after it no other.                                       *)
LateInv ==
  \/ late = 0
  \/ late = 1 /\ cancelSet /\ pc \in {"running", "recorded", "tools", "done"}

LEMMA LateInvStep == LateInv /\ [Next]_vars => LateInv'
<1> SUFFICES ASSUME LateInv, [Next]_vars PROVE LateInv'
  OBVIOUS
<1> USE DEF LateInv, control, reply, budget, counts, mailbox, signals
<1>1. CASE late = 0
  <2>1. CASE StartTool
    BY <1>1, <2>1 DEF StartTool
  <2>2. CASE ~StartTool
    <3>1. late' = late
      BY <2>2 DEF Next, Loop, vars, HistoryOverflow, CancelBetweenSteps, BeginFails,
         BeginCancelled, BeginTurn, ReserveRequest, RequestFails, Receive, EmptyReply,
         SteerAnswer, FinalAnswer, BeginBatch, SteerBatch, PassSteeringPoint, EndBatch,
         ReportMutation, ToolReturns, ToolRaises, SendMessage, Cancel, Expire, Stop
    <3> QED  BY <1>1, <3>1
  <2> QED  BY <2>1, <2>2
<1>2. CASE late = 1 /\ cancelSet /\ pc \in {"running", "recorded", "tools", "done"}
  <2>1. CASE Loop
    <3>1. late' = late /\ cancelSet' = cancelSet
      BY ZenonT(40), <1>2, <2>1 DEF Loop, HistoryOverflow, CancelBetweenSteps, BeginFails,
         BeginCancelled, BeginTurn, ReserveRequest, RequestFails, Receive, EmptyReply,
         SteerAnswer, FinalAnswer, BeginBatch, SteerBatch, PassSteeringPoint, EndBatch,
         StartTool, ReportMutation, ToolReturns, ToolRaises, Stop, At, Proceeds
    <3>2. pc' \in {"running", "recorded", "tools", "done"}
      BY ZenonT(40), <1>2, <2>1 DEF Loop, HistoryOverflow, CancelBetweenSteps, BeginFails,
         BeginCancelled, BeginTurn, ReserveRequest, RequestFails, Receive, EmptyReply,
         SteerAnswer, FinalAnswer, BeginBatch, SteerBatch, PassSteeringPoint, EndBatch,
         StartTool, ReportMutation, ToolReturns, ToolRaises, Stop, At, Proceeds, SeesCancel
    <3> QED  BY <1>2, <3>1, <3>2
  <2>2. CASE SendMessage \/ Cancel \/ Expire \/ UNCHANGED vars
    BY <1>2, <2>2 DEF SendMessage, Cancel, Expire, vars
  <2> QED  BY <2>1, <2>2 DEF Next
<1> QED  BY <1>1, <1>2

(* After a cancellation at most one more tool starts.                        *)
THEOREM CancelIsPrompt == Spec => []CancelStopsTools
<1>1. Init => LateInv
  BY DEF Init, LateInv
<1>2. LateInv => CancelStopsTools
  BY DEF LateInv, CancelStopsTools
<1> QED  BY <1>1, <1>2, LateInvStep, PTL DEF Spec

-----------------------------------------------------------------------------
(* The token budget: the metered tokens are never fewer than the reported,   *)
(* and a request is only sent when it fits.                                  *)
BudgetInv ==
  /\ reported <= metered
  /\ pc = "request" => Reserved <= MaxTokens - metered

LEMMA BudgetInvStep == LoopInv /\ BudgetInv /\ [Next]_vars => BudgetInv'
<1> SUFFICES ASSUME LoopInv, BudgetInv, [Next]_vars PROVE BudgetInv'
  OBVIOUS
<1> USE DEF BudgetInv, control, reply, budget, counts, mailbox, signals
<1>1. /\ reported \in Nat /\ metered \in Nat /\ history \in Seq(Entry)
      /\ lastPrompt \in Nat /\ lastRequest \in Nat
  BY DEF LoopInv, TypeOK
<1>2. CASE ReserveRequest
  <2>1. CASE CanReserve
    BY <1>1, <1>2, <2>1 DEF ReserveRequest, CanReserve, Metered, Larger, Reserved
  <2>2. CASE ~CanReserve
    BY <1>2, <2>2 DEF ReserveRequest
  <2> QED  BY <2>1, <2>2
<1>3. ASSUME NEW calls \in Batches, NEW isBlank \in BOOLEAN, NEW usage \in UsageReported,
             NEW promptOver \in Overruns, NEW outputOver \in Overruns,
             Receive(calls, isBlank, usage, promptOver, outputOver)
      PROVE  BudgetInv'
  <2>1. pc' # "request"
    BY <1>3 DEF Receive
  <2>2. reported' <= metered'
    BY <1>1, <1>3, AgentLoopAssumption DEF AgentLoopAssumption, Receive
  <2> QED  BY <2>1, <2>2
<1>4. CASE UNCHANGED budget /\ pc' # "request"
  BY <1>4
<1>5. CASE SendMessage \/ Cancel \/ Expire \/ UNCHANGED vars
  BY <1>5 DEF SendMessage, Cancel, Expire, vars, Reserved
<1>6. ASSUME Loop, ~ReserveRequest,
             ~ \E calls \in Batches, isBlank \in BOOLEAN, usage \in UsageReported,
                  promptOver \in Overruns, outputOver \in Overruns :
                 Receive(calls, isBlank, usage, promptOver, outputOver)
      PROVE  UNCHANGED budget /\ pc' # "request"
  BY <1>6 DEF Loop, HistoryOverflow, CancelBetweenSteps, BeginFails, BeginCancelled,
     BeginTurn, RequestFails, EmptyReply, SteerAnswer, FinalAnswer, BeginBatch, SteerBatch,
     PassSteeringPoint, EndBatch, StartTool, ReportMutation, ToolReturns, ToolRaises, Stop,
     NextTurn
<1> QED  BY <1>2, <1>3, <1>4, <1>5, <1>6 DEF Next

(* A step that adds at most what the remainder allows stays below the bound.  *)
LEMMA FitsBelow ==
  ASSUME NEW before \in Nat, NEW after \in Nat, NEW most \in Nat, NEW bound \in Nat,
         after - before <= most, most <= bound - before
  PROVE  after <= bound
OBVIOUS

(* A request that was sent never ends the run over budget if its reply keeps *)
(* to what was reserved, however usage is reported or missing.               *)
THEOREM ReservationIsEnough == Spec => ReservationSuffices
<1>1. ASSUME LoopInv, BudgetInv, [Next]_vars,
             metered' - metered <= Reserved, pc = "request", metered' # metered
      PROVE  outcome' = "none"
  <2>1. reported \in Nat /\ metered \in Nat /\ history \in Seq(Entry) /\ outcome = "none"
        /\ lastPrompt \in Nat /\ lastRequest \in Nat
    BY <1>1 DEF LoopInv, TypeOK
  <2>2. PICK calls \in Batches, isBlank \in BOOLEAN, usage \in UsageReported,
             promptOver \in Overruns, outputOver \in Overruns :
          Receive(calls, isBlank, usage, promptOver, outputOver)
    BY <1>1 DEF Next, Loop, vars, control, reply, budget, counts, mailbox, signals,
       HistoryOverflow, CancelBetweenSteps, BeginFails, BeginCancelled, BeginTurn,
       ReserveRequest, RequestFails, EmptyReply, SteerAnswer, FinalAnswer, BeginBatch,
       SteerBatch, PassSteeringPoint, EndBatch, StartTool, ReportMutation, ToolReturns,
       ToolRaises, SendMessage, Cancel, Expire, Stop
  <2>3. metered' \in Nat /\ reported' \in Nat /\ reported' <= metered'
    BY <1>1, <2>1, <2>2, AgentLoopAssumption DEF AgentLoopAssumption, Receive, BudgetInv
  <2>4. metered' <= MaxTokens
    <3>1. Len(history) \in Nat /\ MaxOutput \in Nat
      BY <2>1, AgentLoopAssumption DEF AgentLoopAssumption
    <3>2. Larger(0, Len(history) - lastRequest) \in Nat
      BY <2>1, <3>1 DEF Larger
    <3>3. lastPrompt + Larger(0, Len(history) - lastRequest) \in Nat
      BY <2>1, <3>2
    <3>4. Reserved \in Nat
      BY <3>1, <3>3 DEF Reserved, Larger
    <3>5. metered' - metered <= Reserved /\ Reserved <= MaxTokens - metered
      BY <1>1 DEF BudgetInv
    <3>6. MaxTokens \in Nat
      BY AgentLoopAssumption DEF AgentLoopAssumption
    <3>7. metered \in Nat /\ metered' \in Nat
      BY <2>1, <2>3
    <3> QED  BY <3>4, <3>5, <3>6, <3>7, FitsBelow
  <2>5. ~(Larger(reported', metered') > MaxTokens)
    BY <2>3, <2>4, AgentLoopAssumption DEF AgentLoopAssumption, Larger
  <2> QED  BY <2>1, <2>2, <2>5 DEF Receive
<1>2. LoopInv /\ BudgetInv /\ [Next]_vars =>
        [metered' - metered <= Reserved /\ pc = "request" /\ metered' # metered
           => outcome' = "none"]_vars
  BY <1>1
<1>3. Init => BudgetInv
  BY DEF Init, BudgetInv
<1> QED
  BY <1>2, <1>3, LoopInvInit, LoopInvStep, BudgetInvStep, PTL DEF Spec, ReservationSuffices

-----------------------------------------------------------------------------
(* The run as a job thread of JobManager: what the thread sees of a step.     *)
Seen == <<pc = "done", outcome, inbox, open, cancelSet, records > 0>>

LEMMA UnseenStep ==
  ASSUME UNCHANGED Seen
  PROVE  UNCHANGED Thread!vars
BY DEF Seen, Exit, Thread!vars, Thread!record, Thread!report, Thread!slot, Thread!threads,
   Thread!changes, Thread!host, Thread!world

LEMMA DrainIsPoll ==
  ASSUME LoopInv, pc # "done", pc' # "done", inbox > 0, inbox' = 0,
         UNCHANGED <<open, cancelSet, records>>
  PROVE  Thread!PollSteering("run")
BY DEF Thread!PollSteering, Thread!Running, Thread!report, Thread!slot, Thread!threads,
   Thread!changes, Thread!host, Thread!world

LEMMA ReportIsMutation ==
  ASSUME LoopInv, pc # "done", pc' # "done", records' = records + 1,
         UNCHANGED <<inbox, open, cancelSet>>
  PROVE  Thread!MutateWorkspace("run", "workspace", TRUE)
<1>1. records \in Nat /\ records' > 0
  BY DEF LoopInv, TypeOK
<1> QED
  BY <1>1 DEF Thread!MutateWorkspace, Thread!Running, Thread!record, Thread!report,
     Thread!slot, Thread!host

LEMMA AnswerIsFinal ==
  ASSUME LoopInv, pc # "done", inbox = 0, pc' = "done", outcome' = "completed",
         open' = FALSE, UNCHANGED <<inbox, cancelSet, records>>
  PROVE  Thread!FinalizeAnswer("run")
BY DEF Exit, Thread!FinalizeAnswer, Thread!Running, Thread!report, Thread!slot,
   Thread!changes, Thread!host, Thread!world

(* What the loop raised when it stops with this outcome.                      *)
Raised(o) == IF o = "cancelled" THEN "AgentLoopCancelled" ELSE "AgentLoopError"

LEMMA ExitIsStop ==
  ASSUME LoopInv, NEW o \in {"failed", "cancelled"}, pc # "done", pc' = "done",
         outcome' = o, o = "cancelled" => cancelSet,
         UNCHANGED <<inbox, open, cancelSet, records>>
  PROVE  Thread!StopAgent("run", Raised(o))
<1>1. Exit' = Thread!Leaving("run", Raised(o))
  BY DEF Exit, Raised, Thread!Leaving
<1> QED
  BY <1>1 DEF Raised, Thread!StopAgent, Thread!Running, Thread!record, Thread!report,
     Thread!slot, Thread!changes, Thread!host, Thread!world

LEMMA HostIsHost ==
  ASSUME LoopInv, SendMessage \/ Cancel
  PROVE  Thread!SendMessage("run") \/ Thread!CancelJob("run")
<1>1. CASE SendMessage
  <2>1. Thread!SendMessage("run")
    BY <1>1 DEF SendMessage, control, counts, signals, Exit, Thread!SendMessage,
       Thread!QueueHasRoom, Thread!Unlocked, Thread!report, Thread!slot, Thread!threads,
       Thread!changes, Thread!host, Thread!world
  <2> QED  BY <2>1
<1>2. CASE Cancel
  <2>1. Thread!CancelJob("run")
    BY <1>2 DEF Cancel, control, counts, Exit, Thread!CancelJob, Thread!Unlocked,
       Thread!report, Thread!slot, Thread!threads, Thread!changes, Thread!host, Thread!world
  <2> QED  BY <2>1
<1> QED  BY <1>1, <1>2

LEMMA ThreadNext ==
  /\ \A o \in {"failed", "cancelled"} : Thread!StopAgent("run", Raised(o)) => Thread!Next
  /\ Thread!PollSteering("run") => Thread!Next
  /\ Thread!FinalizeAnswer("run") => Thread!Next
  /\ Thread!MutateWorkspace("run", "workspace", TRUE) => Thread!Next
  /\ Thread!SendMessage("run") \/ Thread!CancelJob("run") => Thread!Next
BY DEF Raised, Thread!Next, Thread!JobThread, Thread!Host, Thread!Raisable

LEMMA StopIsSeen ==
  ASSUME LoopInv, NEW o \in {"failed", "cancelled"}, pc # "done", o = "cancelled" => cancelSet,
         Stop(o)
  PROVE  Thread!Next
<1>1. /\ pc' = "done" /\ outcome' = o
      /\ UNCHANGED <<inbox, open, cancelSet, records>>
  BY DEF Stop, counts, mailbox, signals
<1> QED  BY <1>1, ExitIsStop, ThreadNext

LEMMA LoopIsThread ==
  ASSUME LoopInv, Loop
  PROVE  Thread!Next \/ UNCHANGED Thread!vars
<1> USE DEF control, reply, budget, counts, mailbox, signals
<1>1. CASE HistoryOverflow \/ BeginFails
  BY <1>1, StopIsSeen DEF HistoryOverflow, BeginFails, At
<1>2. CASE CancelBetweenSteps \/ BeginCancelled
  BY <1>2, StopIsSeen DEF CancelBetweenSteps, BeginCancelled, SeesCancel, At
<1>3. CASE RequestFails \/ ToolRaises
  BY <1>3, StopIsSeen DEF RequestFails, ToolRaises
<1>4. CASE BeginTurn
  <2>1. inbox \in Nat
    BY AgentLoopAssumption DEF LoopInv, TypeOK, AgentLoopAssumption
  <2>2. CASE inbox > 0
    BY <1>4, <2>2, DrainIsPoll, ThreadNext DEF BeginTurn, At, Drain
  <2>3. CASE inbox = 0
    BY <1>4, <2>3, UnseenStep DEF BeginTurn, At, Drain, Seen
  <2> QED  BY <2>1, <2>2, <2>3
<1>5. CASE SteerAnswer \/ SteerBatch
  BY <1>5, DrainIsPoll, ThreadNext DEF SteerAnswer, SteerBatch, NextTurn, Proceeds, At, Drain
<1>6. CASE FinalAnswer
  BY <1>6, AnswerIsFinal, ThreadNext DEF FinalAnswer, Proceeds, At
<1>7. CASE ReportMutation
  BY <1>7, ReportIsMutation, ThreadNext DEF ReportMutation
<1>8. CASE EmptyReply
  <2>1. CASE RetryUsedUp
    BY <1>8, <2>1, StopIsSeen DEF EmptyReply, Proceeds, At
  <2>2. CASE ~RetryUsedUp
    BY <1>8, <2>2, UnseenStep DEF EmptyReply, NextTurn, Proceeds, At, Seen
  <2> QED  BY <2>1, <2>2
<1>9. CASE ReserveRequest \/ BeginBatch \/ StartTool
  <2>1. /\ pc # "done" /\ UNCHANGED <<inbox, open, cancelSet, records>>
        /\ \/ pc' # "done" /\ UNCHANGED outcome
           \/ pc' = "done" /\ outcome' = "failed"
    BY <1>9 DEF ReserveRequest, BeginBatch, StartTool, Proceeds, At
  <2>2. CASE pc' # "done" /\ UNCHANGED outcome
    BY <2>1, <2>2, UnseenStep DEF Seen
  <2>3. CASE pc' = "done" /\ outcome' = "failed"
    BY <2>1, <2>3, ExitIsStop, ThreadNext
  <2> QED  BY <2>1, <2>2, <2>3
<1>10. ASSUME NEW calls \in Batches, NEW isBlank \in BOOLEAN, NEW used \in UsageReported,
              NEW promptOver \in Overruns, NEW outputOver \in Overruns,
              Receive(calls, isBlank, used, promptOver, outputOver)
       PROVE  Thread!Next \/ UNCHANGED Thread!vars
  <2>1. /\ pc # "done" /\ UNCHANGED <<inbox, open, cancelSet, records>>
        /\ \/ pc' # "done" /\ UNCHANGED outcome
           \/ pc' = "done" /\ outcome' = "failed"
    BY <1>10 DEF Receive
  <2>2. CASE pc' # "done" /\ UNCHANGED outcome
    BY <2>1, <2>2, UnseenStep DEF Seen
  <2>3. CASE pc' = "done" /\ outcome' = "failed"
    BY <2>1, <2>3, ExitIsStop, ThreadNext
  <2> QED  BY <2>1, <2>2, <2>3
<1>11. CASE PassSteeringPoint \/ EndBatch \/ ToolReturns
  BY <1>11, UnseenStep DEF PassSteeringPoint, EndBatch, ToolReturns, NextTurn, Proceeds, At, Seen
<1> QED
  BY <1>1, <1>2, <1>3, <1>4, <1>5, <1>6, <1>7, <1>8, <1>9, <1>10, <1>11 DEF Loop

(* run_agent is a job thread as JobManager models it: every step of the loop *)
(* drains the mailbox, closes it with an answer, records a mutation, ends    *)
(* the run, or is invisible to the job manager.                              *)
THEOREM LoopImplementsThread == Spec => ThreadContract
<1>1. LoopInv /\ [Next]_vars => [Thread!Next]_(Thread!vars)
  <2> SUFFICES ASSUME LoopInv, [Next]_vars PROVE Thread!Next \/ UNCHANGED Thread!vars
    OBVIOUS
  <2>1. CASE Loop
    BY <2>1, LoopIsThread
  <2>2. CASE SendMessage \/ Cancel
    BY <2>2, HostIsHost, ThreadNext
  <2>3. CASE Expire
    BY <2>3, UnseenStep DEF Expire, control, counts, mailbox, Seen
  <2>4. CASE UNCHANGED vars
    BY <2>4, UnseenStep DEF vars, control, counts, mailbox, signals, Seen
  <2> QED  BY <2>1, <2>2, <2>3, <2>4 DEF Next
<1> QED
  BY <1>1, LoopInvInit, LoopInvStep, PTL DEF Spec, ThreadContract

=============================================================================
