--------------------------- MODULE ProviderRequest ---------------------------
(***************************************************************************)
(* One provider request of the agent loop: call_with_retry                  *)
(* (src/deepseek_mcp/provider_retry.py) over request_in_subprocess           *)
(* (provider_process.py), which runs each attempt in a child process         *)
(* (provider_child.py) that sends one HTTP request.                          *)
(*                                                                         *)
(* The caller, its pipe thread, the child, the cancellation, the clocks and  *)
(* the end of the server interleave.  Of an answer only its class is kept.   *)
(***************************************************************************)
EXTENDS Naturals

CONSTANTS
  ApiRetries,     \* API_RETRY_ATTEMPTS
  ClientRetries   \* CLIENT_RETRY_ATTEMPTS

ASSUME ProviderRequestAssumption == ApiRetries \in Nat /\ ClientRetries \in Nat

VARIABLES
  \* the thread in call_with_retry; "crashed" once the server process is gone
  pc,
  \* what the attempt has come to, and how the call ended
  verdict, outcome,
  apiLeft, clientLeft,
  \* the attempt's child, what it wrote, the signals and the liveness pipe
  child, answer, termed, killed, orphaned,
  \* the pipe thread: running until communicate() has returned
  transport,
  \* the attempt's end is the run deadline (run_deadline of _request_end)
  runLimited,
  cancelSet, runOver, requestOver,
  \* history variables: children started, and after a cancellation
  started, late

caller  == <<pc, verdict, outcome, apiLeft, clientLeft>>
process == <<child, answer, termed, killed, orphaned>>
signals == <<cancelSet, runOver, requestOver>>
counts  == <<started, late>>
vars == <<caller, process, transport, runLimited, signals, counts>>

(* Classes of what an attempt returns: a response, a retryable failure of    *)
(* the API, a final one, a truncated or filtered output, a local failure.    *)
Answers == {"ok", "retryable", "final", "incomplete", "client"}

(* A child is reaped once poll() or communicate() has collected its status.  *)
Alive == child \in {"starting", "reading", "asking"}
Ended == pc \in {"done", "crashed"}

Init ==
  /\ pc = "check" /\ verdict = "none" /\ outcome = "none"
  /\ apiLeft = ApiRetries /\ clientLeft = ClientRetries
  /\ child = "absent" /\ answer = "none"
  /\ termed = FALSE /\ killed = FALSE /\ orphaned = FALSE
  /\ transport = "off"
  /\ runLimited = FALSE
  /\ cancelSet = FALSE /\ runOver = FALSE /\ requestOver = FALSE
  /\ started = 0 /\ late = 0

-----------------------------------------------------------------------------
End(o) ==
  /\ pc' = "done"
  /\ outcome' = o
  /\ UNCHANGED <<verdict, apiLeft, clientLeft, process, transport, runLimited,
                 signals, counts>>

GoTo(label) ==
  /\ pc' = label
  /\ UNCHANGED <<verdict, outcome, apiLeft, clientLeft, runLimited, signals, counts>>

(* The attempt is decided; the finally clause cleans up before it returns.   *)
Conclude(v) ==
  /\ pc' = "stop"
  /\ verdict' = v
  /\ UNCHANGED <<outcome, apiLeft, clientLeft, process, transport, runLimited,
                 signals, counts>>

(* check_cancel before an attempt, the wait for the child, the backoff.      *)
Mut_CancelUnseenInWait(label) == pc = label /\ cancelSet /\ label # "wait"
SeesCancel(label) == pc = label /\ cancelSet

CancelBetween ==
  /\ SeesCancel("check") \/ SeesCancel("backoff")
  /\ End("cancelled")

Checked ==
  /\ pc = "check" /\ ~SeesCancel("check")
  /\ GoTo("spawn")
  /\ UNCHANGED <<process, transport>>

-----------------------------------------------------------------------------
(* request_in_subprocess up to the wait.                                     *)
CannotStart ==
  /\ pc = "spawn"
  /\ \/ End("failed")   \* no time left, or a request over MAX_REQUEST_BYTES
     \/ /\ ~runOver     \* _start_provider raises: no cleanup, a local failure
        /\ pc' = "decide" /\ verdict' = "client"
        /\ UNCHANGED <<outcome, apiLeft, clientLeft, process, transport, runLimited,
                       signals, counts>>

StartProvider ==
  /\ pc = "spawn" /\ ~runOver
  /\ pc' = "transport" /\ verdict' = "none"
  /\ child' = "starting" /\ answer' = "none"
  /\ termed' = FALSE /\ killed' = FALSE /\ orphaned' = FALSE
  /\ transport' = "off"
  /\ runLimited' \in BOOLEAN
  /\ requestOver' = FALSE
  /\ started' = started + 1
  /\ late' = IF cancelSet THEN late + 1 ELSE late
  /\ UNCHANGED <<outcome, apiLeft, clientLeft, cancelSet, runOver>>

StartTransport ==
  /\ pc = "transport"
  /\ transport' = "running"
  /\ GoTo("wait")
  /\ UNCHANGED process

TransportFails ==
  /\ pc = "transport"
  /\ Conclude("client")

-----------------------------------------------------------------------------
(* The pipe thread: communicate() returns when the child is gone, which it   *)
(* reaps; or it raises, or the output is over its limit.                     *)
Communicated ==
  /\ transport = "running" /\ child \in {"exited", "reaped"}
  /\ transport' = "ready"
  /\ child' = "reaped"
  /\ UNCHANGED <<caller, answer, termed, killed, orphaned, runLimited, signals, counts>>

CommunicationFails ==
  /\ transport = "running" /\ pc # "crashed"
  /\ transport' = "broken"
  /\ UNCHANGED <<caller, process, runLimited, signals, counts>>

(* _wait_for_provider and what follows it.  A child that did not exit with   *)
(* status 0 wrote nothing that counts.                                       *)
ReplyReady ==
  /\ pc = "wait" /\ transport \in {"ready", "broken"}
  /\ Conclude(IF transport = "broken" \/ answer = "none" THEN "client" ELSE answer)

Waiting == pc = "wait" /\ transport = "running"

RequestEnds == runOver \/ (~runLimited /\ requestOver)

WaitCancelled ==
  /\ Waiting /\ SeesCancel("wait")
  /\ Conclude("cancelled")

(* category=timeout is retryable, the run's own deadline is not.             *)
WaitTimesOut ==
  /\ Waiting /\ ~SeesCancel("wait") /\ RequestEnds
  /\ Conclude(IF runLimited THEN "deadline" ELSE "retryable")

-----------------------------------------------------------------------------
(* _cleanup_provider_process.  When it raises, that replaces the verdict.    *)
CleanupFails ==
  /\ pc' = "done" /\ outcome' = "failed"
  /\ orphaned' = TRUE
  /\ UNCHANGED <<verdict, apiLeft, clientLeft, child, answer, termed, killed,
                 transport, runLimited, signals, counts>>

(* _stop_process: poll() sees the child alive, or collects its status.       *)
PollChild ==
  /\ pc = "stop"
  /\ GoTo(IF Alive THEN "sigterm" ELSE "join")
  /\ child' = IF Alive THEN child ELSE "reaped"
  /\ UNCHANGED <<answer, termed, killed, orphaned, transport>>

SendTerm ==
  /\ pc = "sigterm" /\ child # "reaped"
  /\ termed' = TRUE
  /\ GoTo("term")
  /\ UNCHANGED <<child, answer, killed, orphaned, transport>>

(* A child that is gone by now has no group to signal if the pipe thread has *)
(* reaped it (nor, on macOS, while it is a zombie): killpg raises, SIGKILL   *)
(* is tried and raises too.                                                  *)
SignalFails ==
  /\ pc \in {"sigterm", "sigkill"} /\ ~Alive
  /\ CleanupFails

(* wait() collects the status of a child that is gone.                       *)
Collect ==
  /\ pc \in {"term", "kill"} /\ ~Alive
  /\ GoTo("join")
  /\ child' = "reaped"
  /\ UNCHANGED <<answer, termed, killed, orphaned, transport>>

Mut_GivesUpAfterTerm ==
  /\ pc = "term" /\ Alive
  /\ GoTo("join")
  /\ UNCHANGED <<process, transport>>

(* The child survives SIGTERM for PROCESS_STOP_SECONDS.                      *)
TermTimesOut ==
  /\ pc = "term" /\ Alive
  /\ GoTo("sigkill")
  /\ UNCHANGED <<process, transport>>

SendKill ==
  /\ pc = "sigkill" /\ child # "reaped"
  /\ killed' = TRUE
  /\ GoTo("kill")
  /\ UNCHANGED <<child, answer, termed, orphaned, transport>>

(* The child survives SIGKILL for PROCESS_STOP_SECONDS.                      *)
KillFails ==
  /\ pc = "kill" /\ Alive
  /\ CleanupFails

(* communication.join(), close_parent_liveness, capture.close().            *)
Join ==
  /\ pc = "join" /\ transport # "running"
  /\ orphaned' = TRUE
  /\ GoTo("decide")
  /\ UNCHANGED <<child, answer, termed, killed, transport>>

JoinFails ==
  /\ pc = "join" /\ transport = "running"
  /\ CleanupFails

-----------------------------------------------------------------------------
(* call_with_retry: what becomes of the verdict.                             *)
RetriesApi == verdict = "retryable" /\ apiLeft > 0
RetriesClient == verdict = "client" /\ clientLeft > 0

Return ==
  /\ pc = "decide" /\ ~RetriesApi /\ ~RetriesClient
  /\ End(IF verdict = "ok" THEN "response"
         ELSE IF verdict = "cancelled" THEN "cancelled" ELSE "failed")

Retry ==
  /\ pc = "decide"
  /\ RetriesApi \/ RetriesClient
  /\ IF RetriesApi THEN apiLeft' = apiLeft - 1 /\ UNCHANGED clientLeft
                   ELSE clientLeft' = clientLeft - 1 /\ UNCHANGED apiLeft
  /\ pc' = "backoff"
  /\ UNCHANGED <<verdict, outcome, process, transport, runLimited, signals, counts>>

(* No time left at its start; at its end the next attempt finds out.         *)
BackoffFails ==
  /\ pc = "backoff" /\ runOver
  /\ End("failed")

BackoffOver ==
  /\ pc = "backoff" /\ ~SeesCancel("backoff")
  /\ GoTo("check")
  /\ UNCHANGED <<process, transport>>

-----------------------------------------------------------------------------
(* The child.  Its input is complete only while a pipe thread serves it.     *)
Exit(what) ==
  /\ child' = "exited"
  /\ answer' = what
  /\ UNCHANGED <<caller, termed, killed, orphaned, transport, runLimited, signals, counts>>

ChildStep(label) ==
  /\ child' = label
  /\ UNCHANGED <<caller, answer, termed, killed, orphaned, transport, runLimited,
                 signals, counts>>

(* main(): hardening fails, or the watchdog starts.                          *)
ChildStarts ==
  /\ child = "starting"
  /\ ChildStep("reading") \/ Exit("client")

ChildAsks ==
  /\ child = "reading" /\ transport = "running" /\ pc # "crashed"
  /\ ChildStep("asking")

(* Its standard input ends early.                                            *)
ChildReadFails ==
  /\ child = "reading" /\ (pc = "crashed" \/ transport = "broken")
  /\ Exit("client")

ChildAnswers ==
  /\ child = "asking"
  /\ \E what \in Answers : Exit(what)

ChildDies == Alive /\ Exit("none")

Signalled ==
  /\ Alive /\ (termed \/ killed)
  /\ Exit("none")

(* _exit_if_stalled: parent loss, or the timeout it was started with.        *)
WatchdogWakes == orphaned \/ RequestEnds
WatchdogFires ==
  /\ child \in {"reading", "asking"}
  /\ WatchdogWakes
  /\ Exit("none")

-----------------------------------------------------------------------------
(* The host, the clocks and the end of the server.                           *)
Cancel ==
  /\ ~cancelSet
  /\ cancelSet' = TRUE
  /\ UNCHANGED <<caller, process, transport, runLimited, runOver, requestOver, counts>>

RunExpires ==
  /\ ~runOver
  /\ runOver' = TRUE
  /\ UNCHANGED <<caller, process, transport, runLimited, cancelSet, requestOver, counts>>

RequestExpires ==
  /\ ~requestOver
  /\ requestOver' = TRUE
  /\ UNCHANGED <<caller, process, transport, runLimited, cancelSet, runOver, counts>>

CrashServer ==
  /\ ~Ended
  /\ pc' = "crashed"
  /\ orphaned' = TRUE
  /\ transport' = "off"
  /\ UNCHANGED <<verdict, outcome, apiLeft, clientLeft, child, answer, termed, killed,
                 runLimited, signals, counts>>

-----------------------------------------------------------------------------
Call ==
  \/ CancelBetween \/ Checked \/ CannotStart \/ StartProvider
  \/ StartTransport \/ TransportFails
  \/ ReplyReady \/ WaitCancelled \/ WaitTimesOut
  \/ PollChild \/ SendTerm \/ SignalFails \/ Collect \/ TermTimesOut \/ SendKill
  \/ KillFails
  \/ Join \/ JoinFails
  \/ Return \/ Retry \/ BackoffFails \/ BackoffOver

Pipe == Communicated \/ CommunicationFails

Child ==
  \/ ChildStarts \/ ChildAsks \/ ChildReadFails \/ ChildAnswers \/ ChildDies
  \/ Signalled \/ WatchdogFires

Next == Call \/ Pipe \/ Child \/ Cancel \/ RunExpires \/ RequestExpires \/ CrashServer

Spec == Init /\ [][Next]_vars

(* The caller's steps are straight-line code or waits of its own that end;   *)
(* the watchdog thread is scheduled.  No clock, no answer and no signal is    *)
(* assumed to arrive.                                                        *)
FairSpec == Spec /\ WF_vars(Call) /\ WF_vars(WatchdogFires) /\ WF_vars(ChildStarts)

-----------------------------------------------------------------------------
TypeOK ==
  /\ pc \in {"check", "spawn", "transport", "wait", "stop", "sigterm", "term", "sigkill",
             "kill", "join", "decide", "backoff", "done", "crashed"}
  /\ verdict \in Answers \cup {"none", "cancelled", "deadline"}
  /\ outcome \in {"none", "response", "failed", "cancelled"}
  /\ pc = "done" <=> outcome # "none"
  /\ apiLeft \in 0 .. ApiRetries /\ clientLeft \in 0 .. ClientRetries
  /\ child \in {"absent", "starting", "reading", "asking", "exited", "reaped"}
  /\ answer \in Answers \cup {"none"}
  /\ termed \in BOOLEAN /\ killed \in BOOLEAN /\ orphaned \in BOOLEAN
  /\ transport \in {"off", "running", "ready", "broken"}
  /\ runLimited \in BOOLEAN
  /\ cancelSet \in BOOLEAN /\ runOver \in BOOLEAN /\ requestOver \in BOOLEAN
  /\ started \in Nat /\ late \in Nat
  /\ started <= 1 + (ApiRetries - apiLeft) + (ClientRetries - clientLeft)

(* An attempt begins, and a call ends, with no child of the call alive,      *)
(* unless the clean-up has failed: then the call fails, the child has lost   *)
(* its pipe, and no further attempt is made beside it.                       *)
NoChildLeftBehind ==
  pc \in {"check", "spawn", "decide", "backoff", "done"} /\ Alive =>
    outcome = "failed" /\ orphaned

(* After a cancellation at most the attempt whose check was already passed   *)
(* still starts a child, however many retries are left.                      *)
CancelStopsRequests == late <= 1

(* README: a cancellation "wakes retry backoff and promptly terminates an    *)
(* in-flight provider".  The call ends and its child is gone, also when the  *)
(* clean-up fails or the server ends, and whatever the provider does.        *)
CancelWindsUp == cancelSet ~> Ended /\ ~Alive

=============================================================================
