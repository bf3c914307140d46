---------------------------- MODULE ServiceSmoke ----------------------------
(***************************************************************************)
(* The --service-smoke journey of the application (runServiceSmoke in      *)
(* apps/studio/main.cpp) on top of ServiceProcess: start the service, ping *)
(* it once it is ready, stop it, and turn what happened into an exit       *)
(* status.  It configures no automatic restart and starts once, so the     *)
(* constants of ServiceProcess are 0 and 1 here.                           *)
(***************************************************************************)
EXTENDS ServiceProcess

VARIABLES
    loop,     \* "before" exec(), "running", "quit", "leaving" or "returned"
    result,   \* the exit status, "failure" or "success"
    ping,     \* of the client at hand: "unsent", "sent", its answer "good" or
              \* "bad" in flight, or "judged"
    timeout,  \* the overall timer is running
    verdicts  \* history: the answers judged so far

smoke == <<loop, result, ping, timeout, verdicts>>
smokeVars == <<vars, smoke>>

SmokeInit ==
    /\ Init
    /\ loop = "before" /\ result = "failure" /\ ping = "unsent"
    /\ timeout = FALSE /\ verdicts = {}

\* stopped() is emitted by the last branch of handleProcessFinished only.
StoppedEmitted == state # "Stopped" /\ state' = "Stopped" /\ queuedStarts' = queuedStarts

FailedEmitted == reports' > reports

FailureIgnored ==    \* mutant: the failed signal is not connected to the loop
    loop' = IF loop # "leaving" /\ StoppedEmitted THEN "quit" ELSE loop

\* The slots of failed() and stopped() quit the loop, while there is one: it goes
\* before the controller does.
QuitSlots ==
    loop' = IF loop # "leaving" /\ (StoppedEmitted \/ FailedEmitted)
            THEN "quit" ELSE loop

\* Qt dispatches events: what is due when the loop is told to quit may still come.
Dispatching == loop \in {"running", "quit"}

\* The program argument is empty.
NoProgram ==
    /\ loop = "before"
    /\ loop' = "returned"
    /\ UNCHANGED <<vars, result, ping, timeout, verdicts>>

\* process.start() runs before the loop does, so that a failure it reports at
\* once has no loop to quit.
Launching ==
    /\ loop = "before"
    /\ Start
    /\ loop' = "running" /\ timeout' = TRUE
    /\ UNCHANGED <<result, ping, verdicts>>

\* The slot of ready() sends the ping.
Ready ==
    /\ Dispatching
    /\ ClientReady
    /\ ping' = "sent"
    /\ UNCHANGED <<loop, result, timeout, verdicts>>

SucceedAnyway(answer) == IF answer \in {"good", "bad"} THEN "success" ELSE result    \* mutant

\* A wrong answer leaves the result of an earlier one.
ResultOf(answer) == IF answer = "good" THEN "success" ELSE result

\* The slot of responseReceived() for the ping judges it, and stops the service.
PingAnswered ==
    /\ Dispatching /\ client = "Ready"
    /\ ping \in {"good", "bad"}
    /\ ping' = "judged" /\ verdicts' = verdicts \cup {ping}
    /\ result' = ResultOf(ping)
    /\ Stop
    /\ QuitSlots
    /\ UNCHANGED timeout

TimeoutWaits ==    \* mutant: leaves it to the stopped signal to quit the loop
    /\ Dispatching /\ timeout
    /\ timeout' = FALSE
    /\ Stop
    /\ QuitSlots
    /\ UNCHANGED <<result, ping, verdicts>>

\* The overall timeout stops the service and quits without waiting.
Timeout ==
    /\ Dispatching /\ timeout
    /\ timeout' = FALSE
    /\ loop' = "quit"
    /\ Stop
    /\ UNCHANGED <<result, ping, verdicts>>

\* exec() returns; the timer and the loop go out of scope, and the controller begins
\* to.
Leave ==
    /\ loop = "quit"
    /\ Destroy
    /\ loop' = "leaving" /\ timeout' = FALSE
    /\ UNCHANGED <<result, ping, verdicts>>

Return ==
    /\ loop = "leaving"
    /\ Destroyed
    /\ loop' = "returned"
    /\ UNCHANGED <<result, ping, timeout, verdicts>>

\* A ready record creates a client that has not sent the ping yet.
ReadyRecord ==
    /\ Dispatching \/ loop = "leaving"
    /\ HandleReadyLine
    /\ QuitSlots
    /\ ping' = IF client' = "Connecting" THEN "unsent" ELSE ping
    /\ UNCHANGED <<result, timeout, verdicts>>

\* Every other event of the controller, its client and the child.
Event ==
    /\ Dispatching \/ loop = "leaving"
    /\ \/ StartupTimeout \/ ShutdownTimeout
       \/ StandardError \/ FailedToStart \/ Finished
       \/ ClientConnected \/ ClientTransportFails \/ ClientProtocolFails
       \/ ShutdownReply \/ ClientDisconnected
       \/ ChildStarts \/ ChildPrintsReady \/ ChildAnswersHello
       \/ ChildAnswersShutdown \/ ChildBreaksProtocol \/ ChildExits
    /\ QuitSlots
    /\ UNCHANGED <<result, ping, timeout, verdicts>>

ChildAnswersPing ==
    /\ Dispatching /\ proc = "Running"
    /\ ping = "sent" /\ ping' \in {"good", "bad"}
    /\ UNCHANGED <<vars, loop, result, timeout, verdicts>>

SmokeNext ==
    \/ NoProgram \/ Launching \/ Ready \/ PingAnswered \/ Timeout
    \/ Leave \/ Return \/ ReadyRecord \/ Event \/ ChildAnswersPing

\* The overall timer fires, the loop returns once it was told to, and the wait of the
\* destructor ends.
SmokeSpec ==
    /\ SmokeInit /\ [][SmokeNext]_smokeVars
    /\ WF_smokeVars(Launching \/ NoProgram)
    /\ WF_smokeVars(Timeout) /\ WF_smokeVars(Leave) /\ WF_smokeVars(Return)

-----------------------------------------------------------------------------
(* Properties *)

\* Success is reported only for a ping answered over an authenticated session,
\* and never by a run whose only launch failed before it was ready.
SuccessIsEarned ==
    result = "success" => /\ "good" \in verdicts
                          /\ launches = 1 /\ ~tokenFile

\* A run whose service fails before the ping is answered exits with a failure.
FailureIsReported ==
    [][loop = "running" /\ FailedEmitted /\ "good" \notin verdicts'
         => loop' = "quit" /\ result' = "failure"]_smokeVars

\* The command returns, whatever the service does.
SmokeReturns == <>(loop = "returned")

\* docs/GUI040.md:50-52: the command requests a clean shutdown, and returns a
\* nonzero status on failure.
SuccessIsClean == loop = "returned" /\ result = "success" => reports = 0
=============================================================================
