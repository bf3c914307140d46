--------------------------- MODULE ServiceProcess ---------------------------
(***************************************************************************)
(* The lifecycle controller of the Julia service and its surroundings: the *)
(* controller of module ServiceController, the child, and the              *)
(* ServiceClient it owns.                                                  *)
(*                                                                         *)
(* Every action is one callback of the Qt event loop, or one step of the   *)
(* child.  The client is summarised by its connection state and by the     *)
(* next frame that matters to it; module ServiceSession puts the client    *)
(* itself in that place and implements this module.  A call that Qt may    *)
(* complete before it returns (QProcess reporting FailedToStart from       *)
(* start, the socket refusing a connection from connectToServer) is the    *)
(* same step taken as the next event.                                      *)
(***************************************************************************)
EXTENDS ServiceController

VARIABLES
    client,  \* the state of the ServiceClient, "none" while there is no object
    wire     \* what is in flight between it and the child

peer == <<client, wire>>
vars == <<controllerVars, peer>>

ClientStates == {"Disconnected", "Connecting", "Authenticating", "Ready",
                 "Closing", "Failed"}

Init == ControllerInit /\ client = "none" /\ wire = "idle"

\* Closing a client discards what is in flight.
CloseClient ==
    /\ client' = IF client = "none" THEN "none" ELSE "Disconnected"
    /\ wire' = "idle"

\* The client closes and is deleted.
DropClient == client' = "none" /\ wire' = "idle"

ClientUnchanged == UNCHANGED peer

-----------------------------------------------------------------------------
(* Calls of the application *)

\* The pending table of a client that is ready may be full, and then the child
\* is told to terminate.
RequestGracefulShutdown(explicit) ==
    \/ /\ client = "Ready"
       /\ ShutdownAsked(explicit)
       /\ wire' = IF wire = "idle" THEN "shutdown" ELSE wire
       /\ UNCHANGED client
    \/ /\ client = "Ready"
       /\ ShutdownUnwritten(explicit)
       /\ CloseClient
    \/ ChildTerminated(explicit) /\ ClientUnchanged
    \/ /\ client # "Ready"
       /\ NothingToShutDown(explicit)
       /\ DropClient

Start == OnStart /\ ClientUnchanged

Stop ==
    \/ OnStop /\ RequestGracefulShutdown(FALSE)
    \/ OnStopIgnored /\ ClientUnchanged

Restart ==
    \/ OnRestartIdle /\ ClientUnchanged
    \/ OnRestart /\ RequestGracefulShutdown(TRUE)

Destroy == OnDestroy /\ CloseClient

Destroyed == OnDestroyed /\ DropClient

-----------------------------------------------------------------------------
(* Timers and signals of the QProcess *)

QueuedStart == OnQueuedStart /\ ClientUnchanged

StartupTimeout == OnStartupTimeout /\ CloseClient

ShutdownTimeout == OnShutdownTimeout /\ CloseClient

\* A ready record reaches processStandardOutput.  The new client replaces the
\* one of an earlier record.
HandleReadyLine ==
    \/ OnReadyLine /\ client' = "Connecting" /\ wire' = "idle"
    \/ OnReadyLineRefused /\ CloseClient

StandardError == OnStandardError /\ ClientUnchanged

FailedToStart == OnFailedToStart /\ ClientUnchanged

Finished == OnFinished /\ DropClient

-----------------------------------------------------------------------------
(* Signals of the ServiceClient *)

\* The socket connects and authenticate() sends the hello request.
ClientConnected ==
    /\ Listening /\ client = "Connecting" /\ proc = "Running"
    /\ client' = "Authenticating" /\ wire' = "hello"
    /\ UNCHANGED controllerVars

\* The hello was accepted; a frame the client will reject may follow the answer.
ClientReady ==
    /\ client = "Authenticating" /\ wire = "accept"
    /\ OnClientReady
    /\ client' = "Ready" /\ wire' \in {"idle", "garbage"}

\* A lost connection or a failed write.  Only connectToServer, called for a ready
\* record, can report one while the destructor waits.
ClientTransportFails ==
    /\ \/ client \in {"Connecting", "Authenticating"}
       \/ client = "Ready" /\ alive
    /\ \/ OnClientLost /\ client' = "Failed" /\ wire' = "idle"
       \/ OnClientFailed("TRANSPORT") /\ CloseClient

\* A rejected handshake, a malformed frame, or a hello that does not fit the
\* frame limit.
ClientProtocolFails ==
    /\ \/ client = "Connecting" /\ proc = "Running"
       \/ client \in {"Authenticating", "Ready", "Closing"} /\ wire = "garbage"
    /\ OnClientFailed("PROTOCOL")
    /\ CloseClient

\* The client reads the answer to its shutdown request.
ShutdownReply ==
    /\ alive /\ client = "Ready" /\ wire = "bye"
    /\ client' = "Closing" /\ wire' \in {"idle", "garbage"}
    /\ UNCHANGED controllerVars

\* The child closes its end and the socket reports no error: the client leaves
\* whatever state it is in, and no slot of the controller is told.
ClientDisconnected ==
    /\ alive /\ client \in {"Authenticating", "Ready", "Closing"}
    /\ client' = "Disconnected" /\ wire' = "idle"
    /\ UNCHANGED controllerVars

-----------------------------------------------------------------------------
(* The child: outside the repository, known by what the controller expects *)

ChildStarts == ChildRuns /\ ClientUnchanged

ChildPrintsReady == ChildPrints /\ ClientUnchanged

ChildExits == ChildDies /\ ClientUnchanged

ChildAnswersHello ==
    /\ alive /\ proc = "Running" /\ wire = "hello"
    /\ wire' = "accept"
    /\ UNCHANGED <<controllerVars, client>>

\* A refusal of the shutdown is read and makes no difference.
ChildAnswersShutdown ==
    /\ alive /\ proc = "Running" /\ wire = "shutdown"
    /\ wire' \in {"bye", "idle"}
    /\ UNCHANGED <<controllerVars, client>>

ChildBreaksProtocol ==
    /\ alive /\ proc = "Running"
    /\ client \in {"Authenticating", "Ready", "Closing"}
    /\ wire' = "garbage"
    /\ UNCHANGED <<controllerVars, client>>

-----------------------------------------------------------------------------
Next ==
    \/ Start \/ Stop \/ Restart \/ Destroy \/ Destroyed
    \/ QueuedStart \/ StartupTimeout \/ ShutdownTimeout
    \/ HandleReadyLine \/ StandardError \/ FailedToStart \/ Finished
    \/ ClientConnected \/ ClientReady \/ ClientTransportFails
    \/ ClientProtocolFails \/ ShutdownReply \/ ClientDisconnected
    \/ ChildStarts \/ ChildPrintsReady \/ ChildAnswersHello
    \/ ChildAnswersShutdown \/ ChildBreaksProtocol \/ ChildExits

Spec == Init /\ [][Next]_vars

\* What Qt and the operating system owe: a due timer fires, a process that was
\* launched either starts or fails, a killed one dies, its end and its output
\* are delivered, the wait of the destructor ends.  Neither the application nor
\* the service owes anything.
Fairness ==
    /\ WF_vars(QueuedStart) /\ WF_vars(StartupTimeout) /\ WF_vars(ShutdownTimeout)
    /\ WF_vars(HandleReadyLine) /\ WF_vars(Finished)
    /\ WF_vars(ChildStarts \/ FailedToStart)
    /\ WF_vars(signal = "kill" /\ ChildExits) /\ WF_vars(Destroyed)

FairSpec == Spec /\ Fairness

-----------------------------------------------------------------------------
(* Properties *)

FlagsOK ==
    /\ stopRequested \in BOOLEAN /\ explicitRestartRequested \in BOOLEAN
    /\ startupTimer \in BOOLEAN /\ shutdownTimer \in BOOLEAN
    /\ tokenFile \in BOOLEAN
    /\ alive \in BOOLEAN /\ leaving \in BOOLEAN
    /\ mayRun \in BOOLEAN /\ overtaken \in BOOLEAN /\ repeated \in BOOLEAN

\* The variables keep their types; the counters stay within the two bounds.
TypeOK ==
    /\ FlagsOK
    /\ state \in States
    /\ automaticRestartCount \in 0 .. MaximumAutomaticRestarts
    /\ failureCode \in FailureCodes
    /\ queuedStarts \in Nat
    /\ session \in Nat
    /\ client \in ClientStates \cup {"none"}
    /\ wire \in {"idle", "hello", "accept", "shutdown", "bye", "garbage"}
    /\ proc \in {"NotRunning", "Starting", "Running", "Exited"}
    /\ signal \in {"none", "terminate", "kill"}
    /\ line \in {"unwritten", "compatible", "incompatible", "read"}
    /\ childSession \in Nat
    /\ requests \in 0 .. MaxRequests /\ launches \in Nat
    /\ reports \in 0 .. ReportsCap

\* There is no child, or it is dead, or it is about to be.
Doomed == proc \in {"NotRunning", "Exited"} \/ signal = "kill"

ActiveClient == client \in {"Connecting", "Authenticating", "Ready"}

\* A controller that says it stopped has no child left, and one that says it
\* failed leaves no child alive: every path into fail() from a live child is
\* followed by a kill (service_process.cpp:73-81, 328-330, 367-368).
NoOrphan ==
    /\ state = "Stopped" => proc = "NotRunning"
    /\ state = "Failed" => Doomed

\* A live child is never left without a deadline: unless the service is ready
\* one of the timers will end it, and after a stop the shutdown timer does,
\* even if a late handshake has made the controller Ready again.  Not so after
\* a second ready record, which starts the handshake anew and no timer
\* (service_process.cpp:332-333).
Supervised ==
    ~Doomed => /\ state # "Ready" => startupTimer \/ shutdownTimer \/ repeated
               /\ stopRequested => shutdownTimer

\* A client talks only to the child of the session the controller holds, never
\* to a child left over from an earlier launch.
SessionBinding ==
    ActiveClient => /\ proc # "NotRunning"
                    /\ session # 0 /\ session = childSession

\* Every session beyond those the application asked for is an automatic
\* restart, and those are bounded: a late ready record, a queued start or a
\* second end of the same child launches nothing more.
LaunchBudget ==
    launches + queuedStarts + (IF explicitRestartRequested THEN 1 ELSE 0)
        <= requests + automaticRestartCount

\* The service is given up for a lost connection or an unexpected end only when
\* the automatic restarts are used up or a stop was under way.
BudgetBeforeFailure ==
    state = "Failed" /\ failureCode \in {"TRANSPORT", "SERVICE_PROCESS_EXITED"}
        => automaticRestartCount = MaximumAutomaticRestarts \/ stopRequested

\* The one-use token is off the disk once the service is ready, and no trace of
\* a session survives a stop.
CredentialHygiene ==
    /\ state \in {"Ready", "Stopped"} => ~tokenFile
    /\ state = "Stopped" => session = 0

\* A stop is final unless a start was queued already when it came: stop() withdraws
\* none, and in the interval before an automatic restart it does nothing at all
\* (service_process.cpp:157-160, 418-432).  Until the application asks again such
\* a start is launched, and restarted like any other, each restart counted, but
\* nothing else adds a launch: no end of a child that was stopped, no restart the
\* stop overtook, no second start for the same end.
StopIsRespected ==
    [][~mayRun' =>
         launches' + queuedStarts' <=
             launches + queuedStarts
               + (IF overtaken'
                  THEN automaticRestartCount' - automaticRestartCount ELSE 0)]_vars

\* What the application may rely on, whichever signals, timers and calls meet:
\* launches are asked for or permitted, the end of a child is answered by a
\* restart, a stop or a failure, and a failure always has its reason, also when
\* the child overwrote it (service_process.cpp:316, 439-442).
Promise ==
    INSTANCE Supervision
        WITH MaxRestarts <- MaximumAutomaticRestarts,
             phase <- IF state = "Authenticating" THEN "Starting" ELSE state,
             child <- IF proc = "NotRunning" THEN "none"
                      ELSE IF Doomed THEN "doomed" ELSE "alive",
             asked <- stopRequested,
             permitted <- queuedStarts + (IF explicitRestartRequested THEN 1 ELSE 0),
             spent <- automaticRestartCount,
             blamed <- failureCode # "none"

\* ServiceProcess implements the supervision its application relies on.
SupervisionSpec == Promise!Spec

\* A launch ends: the service becomes ready, or the controller gives up or goes.  A
\* handshake that a second ready record started anew has no deadline.
LaunchSettles ==
    state \in {"Starting", "Authenticating"}
        ~> state \notin {"Starting", "Authenticating"} \/ repeated \/ ~alive

\* A stop or a restart never hangs on an unresponsive service.
StopSettles == state = "Stopping" ~> state \in {"Stopped", "Failed"} \/ ~alive

\* A restart of a running service ends in a launch, or in the reason there is
\* none: a later stop, or a launch that failed because its allowed roots are gone
\* or its session cannot be prepared (service_process.cpp:132-142).
RestartHonoured ==
    explicitRestartRequested /\ proc = "Running"
        ~> \/ state = "Starting"
           \/ /\ state = "Failed"
              /\ failureCode \in {"INVALID_CONFIGURATION",
                                  "SESSION_DIRECTORY_FAILED",
                                  "SESSION_TOKEN_FAILED"}
           \/ ~mayRun \/ ~alive

\* A controller does not stay Ready once its connection failed or its child is
\* gone.  It does when the connection ends without an error: the slot of
\* disconnected() fails nothing and the controller has none
\* (service_client.cpp:47-52), so a client that is merely Disconnected is left out.
LossNoticed ==
    state = "Ready" /\ (client = "Failed" \/ proc = "Exited")
        ~> state # "Ready" \/ ~alive

\* protocol_tests.cpp:262-264: a launch that ends in the startup timeout has
\* reported one failure.
FailureReportedOnce ==
    state = "Failed" /\ failureCode = "SERVICE_STARTUP_TIMEOUT" => reports <= 1

=============================================================================
