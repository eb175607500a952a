------------------------ MODULE ProviderRequest_proofs ------------------------
(***************************************************************************)
(* Proofs about ProviderRequest for every number of retries.                *)
(***************************************************************************)
EXTENDS ProviderRequest, TLAPS

(* Before an attempt begins its retry has been paid for.                     *)
PaidInv ==
  pc \in {"check", "spawn", "backoff"} =>
    started <= (ApiRetries - apiLeft) + (ClientRetries - clientLeft)

Inv == TypeOK /\ PaidInv

(* The steps of other actors leave the call and its counters alone.          *)
LEMMA OthersFrame ==
  ASSUME TypeOK, Pipe \/ Child \/ Cancel \/ RunExpires \/ RequestExpires
  PROVE  /\ UNCHANGED <<caller, counts, runLimited, orphaned>>
         /\ cancelSet' \in {TRUE, cancelSet}
         /\ Alive' => Alive
<1> USE DEF Pipe, Child, Cancel, RunExpires, RequestExpires, Communicated,
      CommunicationFails, ChildStarts, ChildAsks, ChildReadFails, ChildAnswers, ChildDies,
      Signalled, WatchdogFires, ChildStep, Exit, caller, counts, process, signals
<1>1. UNCHANGED <<caller, counts, runLimited, orphaned>>
  OBVIOUS
<1>2. cancelSet' \in {TRUE, cancelSet}
  OBVIOUS
<1>3. Alive' => Alive
  BY DEF Alive
<1> QED  BY <1>1, <1>2, <1>3

LEMMA InvInit == Init => Inv
<1> SUFFICES ASSUME Init PROVE Inv
  OBVIOUS
<1> USE ProviderRequestAssumption DEF ProviderRequestAssumption, Init
<1>1. /\ termed \in BOOLEAN /\ killed \in BOOLEAN /\ orphaned \in BOOLEAN
      /\ runLimited \in BOOLEAN
      /\ cancelSet \in BOOLEAN /\ runOver \in BOOLEAN /\ requestOver \in BOOLEAN
  OBVIOUS
<1>2. /\ apiLeft \in 0 .. ApiRetries /\ clientLeft \in 0 .. ClientRetries
      /\ started \in Nat /\ late \in Nat
      /\ started <= (ApiRetries - apiLeft) + (ClientRetries - clientLeft)
      /\ started <= 1 + (ApiRetries - apiLeft) + (ClientRetries - clientLeft)
  OBVIOUS
<1>3. /\ verdict \in Answers \cup {"none", "cancelled", "deadline"}
      /\ answer \in Answers \cup {"none"}
  OBVIOUS
<1> QED  BY <1>1, <1>2, <1>3 DEF Inv, TypeOK, PaidInv

LEMMA InvOthers ==
  ASSUME Inv, Pipe \/ Child \/ Cancel \/ RunExpires \/ RequestExpires
  PROVE  Inv'
<1>1. UNCHANGED <<caller, counts, runLimited, orphaned>>
  BY OthersFrame DEF Inv
<1>2. /\ child' \in {"absent", "starting", "reading", "asking", "exited", "reaped"}
      /\ answer' \in Answers \cup {"none"}
      /\ termed' \in BOOLEAN /\ killed' \in BOOLEAN
      /\ transport' \in {"off", "running", "ready", "broken"}
      /\ cancelSet' \in BOOLEAN /\ runOver' \in BOOLEAN /\ requestOver' \in BOOLEAN
  <2> USE DEF Inv, TypeOK, process, signals
  <2>1. CASE Pipe
    BY <2>1 DEF Pipe, Communicated, CommunicationFails
  <2>2. CASE Child
    BY <2>2 DEF Child, ChildStarts, ChildAsks, ChildReadFails, ChildAnswers, ChildDies,
       Signalled, WatchdogFires, ChildStep, Exit, Answers
  <2>3. CASE Cancel \/ RunExpires \/ RequestExpires
    BY <2>3 DEF Cancel, RunExpires, RequestExpires
  <2> QED  BY <2>1, <2>2, <2>3
<1> QED
  BY <1>1, <1>2 DEF Inv, TypeOK, PaidInv, caller, counts

LEMMA InvCall ==
  ASSUME Inv, Call
  PROVE  Inv'
<1> USE ProviderRequestAssumption
    DEF ProviderRequestAssumption, Inv, TypeOK, PaidInv, process, signals, counts, Answers
<1>1. CASE CancelBetween \/ CannotStart \/ Return \/ BackoffFails
  BY <1>1 DEF CancelBetween, CannotStart, Return, BackoffFails, End, SeesCancel
<1>2. CASE StartProvider
  <2>1. /\ started' \in Nat /\ late' \in Nat
        /\ started' <= 1 + (ApiRetries - apiLeft') + (ClientRetries - clientLeft')
    BY <1>2 DEF StartProvider
  <2>2. /\ termed' \in BOOLEAN /\ killed' \in BOOLEAN /\ orphaned' \in BOOLEAN
        /\ runLimited' \in BOOLEAN
        /\ cancelSet' \in BOOLEAN /\ runOver' \in BOOLEAN /\ requestOver' \in BOOLEAN
    BY <1>2 DEF StartProvider
  <2> QED  BY <1>2, <2>1, <2>2 DEF StartProvider
<1>3. CASE Checked \/ StartTransport \/ BackoffOver
  BY <1>3 DEF Checked, StartTransport, BackoffOver, GoTo
<1>4. CASE TransportFails \/ ReplyReady \/ WaitCancelled \/ WaitTimesOut
  <2>1. ASSUME NEW v \in Answers \cup {"cancelled", "deadline"}, Conclude(v),
               pc \in {"transport", "wait"}
        PROVE  Inv'
    BY <2>1 DEF Conclude
  <2>2. CASE TransportFails
    BY <2>1, <2>2 DEF TransportFails
  <2>3. CASE ReplyReady
    <3>1. (IF transport = "broken" \/ answer = "none" THEN "client" ELSE answer) \in Answers
      OBVIOUS
    <3> QED  BY <2>1, <2>3, <3>1 DEF ReplyReady
  <2>4. CASE WaitCancelled
    BY <2>1, <2>4 DEF WaitCancelled, Waiting
  <2>5. CASE WaitTimesOut
    BY <2>1, <2>5 DEF WaitTimesOut, Waiting
  <2> QED  BY <1>4, <2>2, <2>3, <2>4, <2>5
<1>5. CASE PollChild \/ SendTerm \/ Collect \/ TermTimesOut \/ SendKill \/ Join
  <2>1. CASE PollChild
    BY <2>1 DEF PollChild, GoTo, Alive
  <2>2. CASE SendTerm \/ SendKill
    BY <2>2 DEF SendTerm, SendKill, GoTo
  <2>3. CASE Collect \/ TermTimesOut
    BY <2>3 DEF Collect, TermTimesOut, GoTo
  <2>4. CASE Join
    BY <2>4 DEF Join, GoTo
  <2> QED  BY <1>5, <2>1, <2>2, <2>3, <2>4
<1>6. CASE SignalFails \/ KillFails \/ JoinFails
  BY <1>6 DEF SignalFails, KillFails, JoinFails, CleanupFails
<1>7. CASE Retry
  BY <1>7 DEF Retry, RetriesApi, RetriesClient
<1> QED
  BY <1>1, <1>2, <1>3, <1>4, <1>5, <1>6, <1>7 DEF Call

LEMMA InvStep == Inv /\ [Next]_vars => Inv'
<1> SUFFICES ASSUME Inv, [Next]_vars PROVE Inv'
  OBVIOUS
<1>1. CASE CrashServer
  BY <1>1 DEF CrashServer, Ended, Inv, TypeOK, PaidInv, signals, counts
<1>2. CASE UNCHANGED vars
  BY <1>2 DEF vars, caller, process, signals, counts, Inv, TypeOK, PaidInv
<1> QED
  BY <1>1, <1>2, InvCall, InvOthers DEF Next

(* Type correctness; a call starts at most one child more than it has spent  *)
(* retries.                                                                  *)
THEOREM TypeCorrect == Spec => []TypeOK
<1>1. Inv => TypeOK
  BY DEF Inv
<1> QED  BY <1>1, InvInit, InvStep, PTL DEF Spec

-----------------------------------------------------------------------------
(* Where the caller is, the child is gone; a clean-up that fails ends the    *)
(* call and closes the liveness pipe.                                        *)
GoneInv ==
  /\ pc \in {"check", "spawn", "join", "decide", "backoff"} => ~Alive
  /\ pc = "done" /\ Alive => outcome = "failed" /\ orphaned

LEMMA GoneInvStep == Inv /\ GoneInv /\ [Next]_vars => GoneInv'
<1> SUFFICES ASSUME Inv, GoneInv, [Next]_vars PROVE GoneInv'
  OBVIOUS
<1> USE DEF GoneInv, Alive
<1>1. CASE Call
  <2> USE DEF process
  <2>1. CASE CancelBetween \/ CannotStart \/ Return \/ BackoffFails
    BY <2>1 DEF CancelBetween, CannotStart, Return, BackoffFails, End, SeesCancel
  <2>2. CASE StartProvider
    BY <2>2 DEF StartProvider
  <2>3. CASE Checked \/ StartTransport \/ BackoffOver
    BY <2>3 DEF Checked, StartTransport, BackoffOver, GoTo
  <2>4. CASE TransportFails \/ ReplyReady \/ WaitCancelled \/ WaitTimesOut
    BY <2>4 DEF TransportFails, ReplyReady, WaitCancelled, WaitTimesOut, Waiting, Conclude
  <2>5. CASE PollChild \/ SendTerm \/ Collect \/ TermTimesOut \/ SendKill \/ Join
    BY <2>5 DEF PollChild, SendTerm, Collect, TermTimesOut, SendKill, Join, GoTo
  <2>6. CASE SignalFails \/ KillFails \/ JoinFails
    BY <2>6 DEF SignalFails, KillFails, JoinFails, CleanupFails
  <2>7. CASE Retry
    BY <2>7 DEF Retry
  <2> QED
    BY <1>1, <2>1, <2>2, <2>3, <2>4, <2>5, <2>6, <2>7 DEF Call
<1>2. CASE Pipe \/ Child \/ Cancel \/ RunExpires \/ RequestExpires
  BY <1>2, OthersFrame DEF Inv, caller
<1>3. CASE CrashServer
  BY <1>3 DEF CrashServer
<1>4. CASE UNCHANGED vars
  BY <1>4 DEF vars, caller, process
<1> QED  BY <1>1, <1>2, <1>3, <1>4 DEF Next

(* No attempt begins and no call ends beside a child that is still alive,    *)
(* except that a failed clean-up fails the call.                             *)
THEOREM ChildrenAreGone == Spec => []NoChildLeftBehind
<1>1. Init => GoneInv
  BY DEF Init, GoneInv, Alive
<1>2. GoneInv => NoChildLeftBehind
  BY DEF GoneInv, NoChildLeftBehind
<1> QED  BY <1>1, <1>2, InvInit, InvStep, GoneInvStep, PTL DEF Spec

-----------------------------------------------------------------------------
(* A child started after a cancellation is the last one.                     *)
LastInv == late = 0 \/ (late = 1 /\ cancelSet /\ pc \notin {"check", "spawn"})

LEMMA LastInvStep == Inv /\ LastInv /\ [Next]_vars => LastInv'
<1> SUFFICES ASSUME Inv, LastInv, [Next]_vars PROVE LastInv'
  OBVIOUS
<1> USE DEF LastInv
<1>1. CASE StartProvider
  BY <1>1 DEF StartProvider
<1>2. CASE Call /\ ~StartProvider
  <2>1. late' = late /\ cancelSet' = cancelSet
    BY <1>2 DEF Call, CancelBetween, Checked, CannotStart, StartTransport, TransportFails,
       ReplyReady, WaitCancelled, WaitTimesOut, PollChild, SendTerm, SignalFails, Collect,
       TermTimesOut, SendKill, KillFails, Join, JoinFails, Return, Retry, BackoffFails,
       BackoffOver, End, GoTo, Conclude, CleanupFails, signals, counts
  <2>2. cancelSet /\ pc \notin {"check", "spawn"} => pc' \notin {"check", "spawn"}
    BY <1>2 DEF Call, CancelBetween, Checked, CannotStart, StartTransport, TransportFails,
       ReplyReady, WaitCancelled, WaitTimesOut, PollChild, SendTerm, SignalFails, Collect,
       TermTimesOut, SendKill, KillFails, Join, JoinFails, Return, Retry, BackoffFails,
       BackoffOver, End, GoTo, Conclude, CleanupFails, SeesCancel
  <2> QED  BY <2>1, <2>2
<1>3. CASE Pipe \/ Child \/ Cancel \/ RunExpires \/ RequestExpires
  BY <1>3, OthersFrame DEF Inv, caller, counts
<1>4. CASE CrashServer
  BY <1>4 DEF CrashServer, signals, counts
<1>5. CASE UNCHANGED vars
  BY <1>5 DEF vars, caller, signals, counts
<1> QED  BY <1>1, <1>2, <1>3, <1>4, <1>5 DEF Next

(* After a cancellation at most one more child starts.                       *)
THEOREM CancelIsPrompt == Spec => []CancelStopsRequests
<1>1. Init => LastInv
  BY DEF Init, LastInv
<1>2. LastInv => CancelStopsRequests
  BY DEF LastInv, CancelStopsRequests
<1> QED  BY <1>1, <1>2, InvInit, InvStep, LastInvStep, PTL DEF Spec

=============================================================================
