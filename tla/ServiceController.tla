-------------------------- MODULE ServiceController --------------------------
(***************************************************************************)
(* The code of packages/protocol/src/service_process.cpp: one              *)
(* ServiceProcess object, its two timers, its temporary session and the    *)
(* QProcess child it supervises.                                           *)
(*                                                                         *)
(* The operators named On... are what the controller does on an event,     *)
(* with everything it calls except what happens to the ServiceClient it    *)
(* owns.  Module ServiceProcess conjoins them with a summary of that       *)
(* client, module ServiceSession with the client itself.                   *)
(***************************************************************************)
EXTENDS Naturals

CONSTANTS
    MaximumAutomaticRestarts,  \* configuration_.maximumAutomaticRestarts
    MaxRequests                \* bound: start() and restart() calls that are honoured

\* ServiceLaunchConfiguration::isValid accepts exactly this range.
ASSUME RestartsAssumption == MaximumAutomaticRestarts \in 0 .. 8
ASSUME RequestsAssumption == MaxRequests \in Nat

VARIABLES
    \* members of ServiceProcess
    state, stopRequested, explicitRestartRequested, automaticRestartCount,
    failureCode,
    startupTimer,        \* startupTimer_ is running
    shutdownTimer,       \* shutdownTimer_ is running
    queuedStarts,        \* QTimer::singleShot calls of start() not yet run
    session,             \* number of the session endpoint_ belongs to, 0: cleared
    tokenFile,           \* the token file of the session is on disk
    \* the child
    proc,          \* "Exited": dead, but QProcess has not reported it yet
    signal,        \* the strongest signal sent to it
    line,          \* its last ready record: not printed, in the pipe, or read
    childSession,  \* the session on its command line
    \* history
    repeated,  \* the child printed a second ready record
    alive,      \* the destructor has not been called
    leaving,    \* it is running
    requests,   \* start() and restart() calls honoured
    launches,   \* sessions prepared
    mayRun,     \* the application did not call stop() after its last request
    overtaken,  \* that stop() found a start already queued
    reports     \* failed() signals since the last launch attempt, capped

\* The object still takes signals.
Listening == alive \/ leaving

control  == <<state, stopRequested, explicitRestartRequested,
              automaticRestartCount, failureCode>>
timers   == <<startupTimer, shutdownTimer>>
files    == <<session, tokenFile>>
child    == <<proc, line, childSession, repeated>>
object   == <<alive, leaving>>
history  == <<requests, launches, mayRun, overtaken>>
controllerVars == <<control, timers, queuedStarts, files, child, signal, object,
                    history, reports>>

States == {"Stopped", "Starting", "Authenticating", "Ready", "Stopping", "Failed"}

\* SERVICE_CONNECTION_FAILED and SERVICE_WRITE_FAILED are "TRANSPORT"; every
\* other code of the client is "PROTOCOL"; one the child wrote to its standard
\* error is "SERVICE".
FailureCodes == {"none", "INVALID_CONFIGURATION", "SESSION_DIRECTORY_FAILED",
                 "SESSION_TOKEN_FAILED", "SERVICE_PROCESS_FAILED",
                 "SERVICE_STARTUP_TIMEOUT", "PROTOCOL_VERSION_UNSUPPORTED",
                 "SERVICE_PROCESS_EXITED", "TRANSPORT", "PROTOCOL", "SERVICE"}

ReportsCap == 2    \* bound on the history variable reports

ControllerInit ==
    /\ state = "Stopped"
    /\ stopRequested = FALSE /\ explicitRestartRequested = FALSE
    /\ automaticRestartCount = 0
    /\ failureCode = "none"
    /\ startupTimer = FALSE /\ shutdownTimer = FALSE
    /\ queuedStarts = 0
    /\ session = 0 /\ tokenFile = FALSE
    /\ proc = "NotRunning" /\ signal = "none" /\ line = "unwritten"
    /\ childSession = 0 /\ repeated = FALSE
    /\ alive = TRUE /\ leaving = FALSE
    /\ requests = 0 /\ launches = 0 /\ reports = 0
    /\ mayRun = FALSE /\ overtaken = FALSE

-----------------------------------------------------------------------------
(* Helpers of the class *)

\* fail(), the n-th report of this launch attempt being the previous one.
FailAfter(n, code) ==
    /\ failureCode' = code
    /\ state' = "Failed"
    /\ reports' = IF n < ReportsCap THEN n + 1 ELSE n

Fail(code) == FailAfter(reports, code)

KillNothing == UNCHANGED signal    \* mutant: the child outlives its connection

\* process_->kill() does nothing to a process that is not running.
Kill == signal' = IF proc = "NotRunning" THEN signal ELSE "kill"

StopTimers == startupTimer' = FALSE /\ shutdownTimer' = FALSE

ForceStopSparesChild == StopTimers /\ UNCHANGED signal    \* mutant

ForceStop == StopTimers /\ Kill

CleanupKeepsToken == session' = 0 /\ UNCHANGED tokenFile    \* mutant

CleanupSession == session' = 0 /\ tokenFile' = FALSE

NoStartupTimer == UNCHANGED startupTimer    \* mutant: start() arms no deadline

ArmStartupTimer == startupTimer' = TRUE

\* start() past its state guard, with the flags it finds.  Each launch asks the
\* file system anew whether the allowed roots are there.  QProcess::start
\* refuses while the previous child has not been reported finished.
Launch(stop, explicit) ==
    \/ /\ FailAfter(0, "INVALID_CONFIGURATION")
       /\ stopRequested' = stop /\ explicitRestartRequested' = explicit
       /\ UNCHANGED <<startupTimer, files, child, signal, launches>>
    \/ /\ FailAfter(0, "SESSION_DIRECTORY_FAILED")
       /\ CleanupSession
       /\ stopRequested' = stop /\ explicitRestartRequested' = explicit
       /\ UNCHANGED <<startupTimer, child, signal, launches>>
    \/ /\ FailAfter(0, "SESSION_TOKEN_FAILED")
       /\ launches' = launches + 1
       /\ session' = launches' /\ tokenFile' \in BOOLEAN
       /\ stopRequested' = stop /\ explicitRestartRequested' = explicit
       /\ UNCHANGED <<startupTimer, child, signal>>
    \/ /\ launches' = launches + 1
       /\ session' = launches' /\ tokenFile' = TRUE
       /\ stopRequested' = FALSE /\ explicitRestartRequested' = FALSE
       /\ failureCode' = "none" /\ reports' = 0
       /\ state' = "Starting"
       /\ ArmStartupTimer
       /\ IF proc = "NotRunning"
          THEN /\ proc' = "Starting" /\ signal' = "none"
               /\ line' = "unwritten" /\ childSession' = session'
               /\ repeated' = FALSE
          ELSE UNCHANGED <<child, signal>>

RestartsLeftOffByOne == automaticRestartCount <= MaximumAutomaticRestarts    \* mutant
LastRestartUnused == automaticRestartCount + 1 < MaximumAutomaticRestarts    \* mutant

RestartsLeft == automaticRestartCount < MaximumAutomaticRestarts

RestartNotCounted == UNCHANGED automaticRestartCount    \* mutant

CountRestart == automaticRestartCount' = automaticRestartCount + 1

StopForgotten(stop) == stop \in BOOLEAN    \* mutant: every end is unexpected

Unexpected(stop) == ~stop

StartNotQueued == UNCHANGED queuedStarts    \* mutant: the restart stops half-way

QueueStart == queuedStarts' = queuedStarts + 1

NoCodeOfItsOwn == failureCode    \* mutant: only what the child said on its way out

\* The reason given for an end the automatic restarts no longer cover.
ExitReason == IF failureCode = "none" THEN "SERVICE_PROCESS_EXITED" ELSE failureCode

\* handleProcessFinished() with state_ = s and the two request flags.  The
\* client is closed and dropped.
HandleProcessFinished(s, stop, explicit) ==
    /\ StopTimers
    /\ CleanupSession
    /\ explicitRestartRequested' = FALSE
    /\ \/ /\ s = "Failed" /\ ~explicit
          /\ state' = s /\ stopRequested' = stop
          /\ UNCHANGED <<automaticRestartCount, failureCode, queuedStarts,
                         reports>>
       \/ /\ explicit
          /\ state' = "Stopped" /\ stopRequested' = FALSE
          /\ QueueStart
          /\ UNCHANGED <<automaticRestartCount, failureCode, reports>>
       \/ /\ s # "Failed" /\ ~explicit
          /\ Unexpected(stop) /\ RestartsLeft
          /\ CountRestart
          /\ state' = "Stopped" /\ stopRequested' = stop
          /\ QueueStart
          /\ UNCHANGED <<failureCode, reports>>
       \/ /\ s # "Failed" /\ ~explicit
          /\ Unexpected(stop) /\ ~RestartsLeft
          /\ Fail(ExitReason)
          /\ stopRequested' = stop
          /\ UNCHANGED <<automaticRestartCount, queuedStarts>>
       \/ /\ s # "Failed" /\ ~explicit /\ ~Unexpected(stop)
          /\ state' = "Stopped" /\ stopRequested' = FALSE
          /\ UNCHANGED <<automaticRestartCount, failureCode, queuedStarts,
                         reports>>

-----------------------------------------------------------------------------
(* requestGracefulShutdown(), called by stop() and restart() after both have *)
(* set stopRequested_ and moved to Stopping                                  *)

\* The client is ready and sends the shutdown request.
ShutdownAsked(explicit) ==
    /\ state' = "Stopping"
    /\ stopRequested' = TRUE /\ explicitRestartRequested' = explicit
    /\ startupTimer' = FALSE /\ shutdownTimer' = TRUE
    /\ UNCHANGED <<automaticRestartCount, failureCode, queuedStarts, files,
                   child, signal, reports>>

\* The socket refuses the request: the client fails inside the call, and the
\* slot of failed() ends the service before the timer starts.
ShutdownUnwritten(explicit) ==
    /\ Fail("TRANSPORT")
    /\ stopRequested' = TRUE /\ explicitRestartRequested' = explicit
    /\ startupTimer' = FALSE /\ shutdownTimer' = TRUE
    /\ Kill
    /\ UNCHANGED <<automaticRestartCount, queuedStarts, files, child>>

\* There is no client that takes the request.
ChildTerminated(explicit) ==
    /\ proc # "NotRunning"
    /\ state' = "Stopping"
    /\ stopRequested' = TRUE /\ explicitRestartRequested' = explicit
    /\ startupTimer' = FALSE /\ shutdownTimer' = TRUE
    /\ signal' = IF signal = "kill" THEN "kill" ELSE "terminate"
    /\ UNCHANGED <<automaticRestartCount, failureCode, queuedStarts, files,
                   child, reports>>

NothingToShutDown(explicit) ==
    /\ proc = "NotRunning"
    /\ HandleProcessFinished("Stopping", TRUE, explicit)
    /\ UNCHANGED <<child, signal>>

-----------------------------------------------------------------------------
(* Calls of the application *)

\* What the application wants by now, for the properties about stop().
WantsToRun == requests' = requests + 1 /\ mayRun' = TRUE /\ overtaken' = FALSE

WantsToStop ==
    /\ mayRun' = FALSE /\ overtaken' = (queuedStarts # 0)
    /\ UNCHANGED requests

OnStart ==
    /\ alive /\ requests < MaxRequests
    /\ state \in {"Stopped", "Failed"}
    /\ WantsToRun
    /\ Launch(stopRequested, explicitRestartRequested)
    /\ UNCHANGED <<automaticRestartCount, shutdownTimer, queuedStarts, object>>

\* stop(), but for its requestGracefulShutdown().  A start queued by
\* handleProcessFinished before the stop is not withdrawn.
OnStop ==
    /\ alive
    /\ state # "Stopped"
    /\ WantsToStop
    /\ UNCHANGED <<object, launches>>

\* stop() of a controller that is Stopped returns at once, also in the interval
\* before an automatic restart, whose start stays queued.
OnStopIgnored ==
    /\ alive
    /\ state = "Stopped"
    /\ WantsToStop
    /\ UNCHANGED <<control, timers, queuedStarts, files, child, signal, object,
                   launches, reports>>

\* restart() of a service that is not running.
OnRestartIdle ==
    /\ alive /\ requests < MaxRequests
    /\ state \in {"Stopped", "Failed"}
    /\ WantsToRun
    /\ Launch(FALSE, FALSE)
    /\ UNCHANGED <<automaticRestartCount, shutdownTimer, queuedStarts, object>>

\* restart() of one that is, but for its requestGracefulShutdown().
OnRestart ==
    /\ alive /\ requests < MaxRequests
    /\ state \notin {"Stopped", "Failed"}
    /\ WantsToRun
    /\ UNCHANGED <<object, launches>>

\* The destructor, up to waitForFinished(1000).  While it waits the QProcess
\* still delivers its signals, and nothing else runs.
OnDestroy ==
    /\ alive
    /\ alive' = FALSE /\ leaving' = TRUE
    /\ stopRequested' = TRUE
    /\ StopTimers
    /\ Kill
    /\ UNCHANGED <<state, explicitRestartRequested, automaticRestartCount,
                   failureCode, queuedStarts, files, child, history, reports>>

\* The wait is over: the child ended, or a second has passed.  The members go,
\* and queued starts with them; ~QProcess kills a child that is left and waits
\* once more, perhaps in vain.
OnDestroyed ==
    /\ leaving
    /\ leaving' = FALSE
    /\ queuedStarts' = 0
    /\ CleanupSession
    /\ \/ /\ proc' = "NotRunning" /\ signal' = "none" /\ line' = "unwritten"
          /\ childSession' = 0 /\ repeated' = FALSE
       \/ Kill /\ UNCHANGED child
    /\ UNCHANGED <<control, timers, alive, history, reports>>

-----------------------------------------------------------------------------
(* Timers *)

\* A start() queued by QTimer::singleShot runs, and may find nothing to do.
OnQueuedStart ==
    /\ alive /\ queuedStarts > 0
    /\ queuedStarts' = queuedStarts - 1
    /\ IF state \in {"Stopped", "Failed"}
       THEN Launch(stopRequested, explicitRestartRequested)
       ELSE UNCHANGED <<state, stopRequested, explicitRestartRequested,
                        failureCode, startupTimer, files, child, signal,
                        launches, reports>>
    /\ UNCHANGED <<automaticRestartCount, shutdownTimer, object, requests,
                   mayRun, overtaken>>

OnStartupTimeout ==
    /\ alive /\ startupTimer
    /\ Fail("SERVICE_STARTUP_TIMEOUT")
    /\ ForceStop
    /\ UNCHANGED <<stopRequested, explicitRestartRequested,
                   automaticRestartCount, queuedStarts, files, child, object,
                   history>>

OnShutdownTimeout ==
    /\ alive /\ shutdownTimer
    /\ ForceStop
    /\ UNCHANGED <<control, queuedStarts, files, child, object, history,
                   reports>>

-----------------------------------------------------------------------------
(* Signals of the QProcess *)

AnyEndpoint == childSession \in Nat    \* mutant: the endpoint field is not compared

EndpointMatches == childSession = session

\* handleReadyLine, in whatever state the controller is by then; a client is
\* created.
OnReadyLine ==
    /\ Listening /\ line = "compatible" /\ EndpointMatches
    /\ line' = "read"
    /\ state' = "Authenticating"
    /\ UNCHANGED <<stopRequested, explicitRestartRequested,
                   automaticRestartCount, failureCode, timers, queuedStarts,
                   files, proc, signal, childSession, repeated, object,
                   history, reports>>

OnReadyLineRefused ==
    /\ Listening /\ line \in {"compatible", "incompatible"}
    /\ line = "compatible" => ~EndpointMatches
    /\ line' = "read"
    /\ Fail("PROTOCOL_VERSION_UNSUPPORTED")
    /\ ForceStop
    /\ UNCHANGED <<stopRequested, explicitRestartRequested,
                   automaticRestartCount, queuedStarts, files, proc,
                   childSession, repeated, object, history>>

OnStandardError ==
    /\ Listening /\ proc \in {"Running", "Exited"}
    /\ failureCode' = "SERVICE"
    /\ UNCHANGED <<state, stopRequested, explicitRestartRequested,
                   automaticRestartCount, timers, queuedStarts, files, child,
                   signal, object, history, reports>>

\* errorOccurred(FailedToStart): fail() alone, the startup timer keeps running.
OnFailedToStart ==
    /\ Listening /\ proc = "Starting"
    /\ proc' = "NotRunning" /\ signal' = "none" /\ childSession' = 0
    /\ Fail("SERVICE_PROCESS_FAILED")
    /\ UNCHANGED <<stopRequested, explicitRestartRequested,
                   automaticRestartCount, timers, queuedStarts, files, line,
                   repeated, object, history>>

\* QProcess hands over what is left in the pipes before it says finished.
OnFinished ==
    /\ Listening /\ proc = "Exited" /\ line \in {"unwritten", "read"}
    /\ proc' = "NotRunning" /\ signal' = "none" /\ line' = "unwritten"
    /\ childSession' = 0 /\ repeated' = FALSE
    /\ HandleProcessFinished(state, stopRequested, explicitRestartRequested)
    /\ UNCHANGED <<object, history>>

-----------------------------------------------------------------------------
(* Signals of the ServiceClient *)

\* The slot of ready(), in whatever state the controller is by then.
OnClientReady ==
    /\ alive
    /\ startupTimer' = FALSE
    /\ tokenFile' = FALSE
    /\ state' = "Ready"
    /\ UNCHANGED <<stopRequested, explicitRestartRequested,
                   automaticRestartCount, failureCode, shutdownTimer,
                   queuedStarts, session, child, signal, object, history,
                   reports>>

\* The slot of failed() for a lost connection or a failed write while the
\* session is in use: the child is killed, and its end decides.
OnClientLost ==
    /\ Listening
    /\ state \in {"Authenticating", "Ready"}
    /\ failureCode' = "TRANSPORT"
    /\ Kill
    /\ UNCHANGED <<state, stopRequested, explicitRestartRequested,
                   automaticRestartCount, timers, queuedStarts, files, child,
                   object, history, reports>>

\* The slot of failed() in every other case closes the client.
OnClientFailed(code) ==
    /\ Listening
    /\ code = "TRANSPORT" => state \notin {"Authenticating", "Ready"}
    /\ Fail(code)
    /\ ForceStop
    /\ UNCHANGED <<stopRequested, explicitRestartRequested,
                   automaticRestartCount, queuedStarts, files, child, object,
                   history>>

-----------------------------------------------------------------------------
(* The child: outside the repository, known by what the controller expects *)

ControllerUnchanged ==
    UNCHANGED <<control, timers, queuedStarts, files, signal, object, history,
                reports>>

ChildRuns ==
    /\ proc = "Starting"
    /\ proc' = "Running"
    /\ UNCHANGED <<line, childSession, repeated>> /\ ControllerUnchanged

\* It prints a ready record, and may print another one later.
ChildPrints ==
    /\ Listening /\ proc = "Running" /\ line \in {"unwritten", "read"}
    /\ line' \in {"compatible", "incompatible"}
    /\ repeated' = (line = "read")
    /\ UNCHANGED <<proc, childSession>> /\ ControllerUnchanged

\* It obeys a signal or a shutdown request, or it crashes, and need not do so
\* before the controller is gone.
ChildDies ==
    /\ proc = "Running"
    /\ proc' = "Exited"
    /\ UNCHANGED <<line, childSession, repeated>> /\ ControllerUnchanged
=============================================================================
