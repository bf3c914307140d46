---------------------------- MODULE ServiceSession ----------------------------
(***************************************************************************)
(* The lifecycle controller with the ServiceClient it owns: the controller *)
(* of module ServiceController, the client of module ServiceClient, and a  *)
(* service that talks while its process lives.                             *)
(*                                                                         *)
(* The slots of ready() and failed() run inside the handler of the client  *)
(* that emits the signal, so a step of the client is one step with what    *)
(* the controller does about it.  The application sends requests through   *)
(* the client, though none while a shutdown is answered, and leaves        *)
(* opening and closing it to the controller.                               *)
(***************************************************************************)
EXTENDS ServiceController, Sequences, FiniteSets

CONSTANTS
    MaxPendingRequests,  \* configuration_.limits.maxPendingRequests
    MaxRequestIds,       \* bound: request IDs drawn by one client
    MaxInFlight          \* bound: frames of the service not yet read

ASSUME PendingAssumption == MaxPendingRequests \in 1 .. 4096
ASSUME BoundsAssumption == MaxRequestIds \in Nat \ {0} /\ MaxInFlight \in Nat

VARIABLES
    clientState,  \* the state of the ServiceClient, "none" while there is no object
    pendingRequests, requestSequence, toService, held, toClient

clientVars == <<clientState, pendingRequests, requestSequence, toService, held,
                toClient>>
vars == <<controllerVars, clientVars>>

Connected == clientState \in {"Authenticating", "Ready", "Closing"}

\* The client of one session connects once, so its hello is its first request;
\* its history variables stand still at their caps.
Client ==
    INSTANCE ServiceClient
        WITH MaxConnections <- 1,
             state <- clientState, helloRequestId <- 1,
             configurationValid <- ~FALSE,
             socket <- IF Connected THEN "Connected"
                       ELSE IF clientState = "Connecting" THEN "Connecting"
                       ELSE "Unconnected",
             accepted <- ~FALSE, firstRequest <- 1, connections <- 1,
             overwritten <- ~TRUE, failures <- 3,
             delivered <- [id \in 1 .. MaxRequestIds |-> 2]

Fresh(s) ==
    /\ clientState' = s
    /\ pendingRequests' = {} /\ requestSequence' = 0
    /\ toService' = <<>> /\ held' = {} /\ toClient' = <<>>

Init ==
    /\ ControllerInit
    /\ clientState = "none"
    /\ pendingRequests = {} /\ requestSequence = 0
    /\ toService = <<>> /\ held = {} /\ toClient = <<>>

-----------------------------------------------------------------------------
(* The client the controller owns *)

OldSocketKept ==    \* mutant: what the old socket still holds is read by the new client
    /\ clientState' = "Connecting"
    /\ pendingRequests' = {} /\ requestSequence' = 0
    /\ UNCHANGED <<toService, held, toClient>>

\* connectClient() leaves the client of an earlier ready record behind.
ConnectClient == Fresh("Connecting")

ClientUnchanged == UNCHANGED clientVars

\* client_->close(), if there is a client.  It does nothing for one whose socket hung
\* up, which keeps its table.
CloseClient ==
    \/ clientState \in {"none", "Disconnected"} /\ ClientUnchanged
    \/ /\ clientState \notin {"none", "Disconnected"}
       /\ clientState' = "Disconnected"
       /\ pendingRequests' = {}
       /\ toService' = <<>> /\ held' = {} /\ toClient' = <<>>
       /\ UNCHANGED requestSequence

DropClient == Fresh("none")

\* The client fails in a way that may be closed by the slot of failed().
ClosedOnFailure(code) == OnClientFailed(code) /\ CloseClient

-----------------------------------------------------------------------------
(* Calls of the application *)

\* The shutdown request needs a client that is ready, has room and can encode
\* it; otherwise the child is told to terminate.
RequestGracefulShutdown(explicit) ==
    \/ /\ Client!SendRequest("shutdown")
       /\ clientState' = "Ready"
       /\ IF pendingRequests' # pendingRequests
          THEN ShutdownAsked(explicit)
          ELSE ChildTerminated(explicit)
    \/ /\ Client!CanSend /\ Client!RoomLeft
       /\ ShutdownUnwritten(explicit)
       /\ CloseClient
    \/ /\ ~(Client!CanSend /\ Client!RoomLeft)
       /\ ChildTerminated(explicit)
       /\ ClientUnchanged
    \/ /\ ~Client!CanSend
       /\ NothingToShutDown(explicit)
       /\ DropClient

Start == OnStart /\ ClientUnchanged

Stop ==
    \/ OnStop /\ RequestGracefulShutdown(FALSE)
    \/ OnStopIgnored /\ ClientUnchanged

Restart ==
    \/ OnRestartIdle /\ ClientUnchanged
    \/ OnRestart /\ RequestGracefulShutdown(TRUE)

Destroy == OnDestroy /\ CloseClient

Destroyed == OnDestroyed /\ DropClient

\* ServiceClient::sendRequest of the application.  The write may fail.
SendRequest ==
    /\ alive
    /\ \/ /\ Client!SendRequest("other")
          /\ IF clientState' = "Failed" THEN OnClientLost ELSE UNCHANGED controllerVars
       \/ /\ Client!CanSend /\ Client!RoomLeft
          /\ ClosedOnFailure("TRANSPORT")

-----------------------------------------------------------------------------
(* Timers and signals of the QProcess *)

QueuedStart == OnQueuedStart /\ ClientUnchanged

StartupTimeout == OnStartupTimeout /\ CloseClient

ShutdownTimeout == OnShutdownTimeout /\ CloseClient

HandleReadyLine ==
    \/ OnReadyLine /\ ConnectClient
    \/ OnReadyLineRefused /\ CloseClient

StandardError == OnStandardError /\ ClientUnchanged

FailedToStart == OnFailedToStart /\ ClientUnchanged

Finished == OnFinished /\ DropClient

-----------------------------------------------------------------------------
(* Signals of the socket *)

\* authenticate() sends the hello; one that cannot be encoded or written fails.
Authenticate ==
    \/ /\ Listening /\ proc = "Running" /\ Client!Authenticate
       /\ IF clientState' = "Failed" THEN OnClientLost ELSE UNCHANGED controllerVars
    \/ /\ clientState = "Connecting" /\ proc = "Running"
       /\ \E code \in {"TRANSPORT", "PROTOCOL"} : ClosedOnFailure(code)

\* While the destructor waits only the attempt to connect can fail.
SocketError ==
    /\ alive \/ clientState = "Connecting"
    /\ \/ Client!SocketError /\ OnClientLost
       \/ /\ clientState \in {"Connecting", "Authenticating", "Ready"}
          /\ ClosedOnFailure("TRANSPORT")

SocketDisconnected == alive /\ Client!SocketDisconnected /\ UNCHANGED controllerVars

\* The i-th frame in flight will fail the client when its turn comes: it does
\* not decode, answers nothing that is pending by then, or rejects the hello.
Refused(i) ==
    LET frame == toClient[i]
    IN  \/ frame.kind = "garbage"
        \/ /\ frame.kind = "response"
           /\ \/ frame.id \notin Client!IdsOf(pendingRequests)
              \/ \E j \in 1 .. i - 1 : /\ toClient[j].kind = "response"
                                       /\ toClient[j].id = frame.id
              \/ frame.id = 1 /\ ~Client!Authentic(frame.answer)

\* processInput() takes one frame.
ProcessInput ==
    /\ alive /\ toClient # <<>>
    /\ IF Refused(1)
       THEN ClosedOnFailure("PROTOCOL")
       ELSE /\ Client!ProcessInput
            /\ IF clientState' = "Ready" /\ clientState # "Ready"
               THEN OnClientReady
               ELSE UNCHANGED controllerVars

-----------------------------------------------------------------------------
(* The child: outside the repository *)

ChildStarts == ChildRuns /\ ClientUnchanged

ChildPrintsReady == ChildPrints /\ ClientUnchanged

ChildExits == ChildDies /\ ClientUnchanged

\* The service at the other end of the socket lives in the child.
ServiceSteps ==
    /\ alive /\ proc = "Running"
    /\ \/ Client!ServiceReceives \/ Client!ServiceAnswers
       \/ Client!ServiceSendsBinary \/ Client!ServiceMisbehaves
    /\ UNCHANGED controllerVars

-----------------------------------------------------------------------------
Next ==
    \/ Start \/ Stop \/ Restart \/ Destroy \/ Destroyed \/ SendRequest
    \/ QueuedStart \/ StartupTimeout \/ ShutdownTimeout
    \/ HandleReadyLine \/ StandardError \/ FailedToStart \/ Finished
    \/ Authenticate \/ SocketError \/ SocketDisconnected \/ ProcessInput
    \/ ChildStarts \/ ChildPrintsReady \/ ChildExits \/ ServiceSteps

Spec == Init /\ [][Next]_vars

\* As in module ServiceProcess: Qt and the operating system owe their events,
\* and nobody else owes anything.
Fairness ==
    /\ WF_vars(QueuedStart) /\ WF_vars(StartupTimeout) /\ WF_vars(ShutdownTimeout)
    /\ WF_vars(HandleReadyLine) /\ WF_vars(Finished)
    /\ WF_vars(ChildStarts \/ FailedToStart)
    /\ WF_vars(signal = "kill" /\ ChildExits) /\ WF_vars(Destroyed)

FairSpec == Spec /\ Fairness

-----------------------------------------------------------------------------
(* Properties *)

\* The first frame in flight that makes a difference to the controller.
Notable(i) ==
    \/ Refused(i)
    \/ /\ clientState # "Closing" /\ toClient[i].kind = "response"
       /\ \E r \in pendingRequests :
            /\ r.id = toClient[i].id
            /\ \/ r.method = "hello"
               \/ r.method = "shutdown" /\ toClient[i].answer = "ok"

Unanswered(method) ==
    \E r \in pendingRequests :
        r.method = method /\ r.id \notin Client!IdsOf(Client!Responses)

\* What module ServiceProcess calls the wire.
WireView ==
    IF ~Connected THEN "idle"
    ELSE IF \E i \in DOMAIN toClient : Notable(i)
    THEN LET first == CHOOSE i \in DOMAIN toClient :
                        Notable(i) /\ \A j \in 1 .. i - 1 : ~Notable(j)
         IN  IF Refused(first) THEN "garbage"
             ELSE IF toClient[first].id = 1 THEN "accept" ELSE "bye"
    ELSE IF clientState = "Authenticating" THEN "hello"
    ELSE IF clientState = "Ready" /\ Unanswered("shutdown") THEN "shutdown"
    ELSE "idle"

Summary == INSTANCE ServiceProcess WITH client <- clientState, wire <- WireView

\* The real client, with its table, its queue of frames and its other requests,
\* gives the controller no other events, in no other order, than the summary
\* all results about module ServiceProcess are about: a frame of an earlier
\* socket, an answer that comes twice or late, a request of the application or
\* a full table makes no difference (service_process.cpp:336-372, 374-400).
ControllerSpec == Summary!Spec

\* No request of the application outlives the service it was sent to: after a
\* stop, a lost connection, which leaves the table as it is, or the death of the
\* child the table is emptied, or goes with a client that close() finds
\* disconnected (service_client.cpp:47-52, 113-127, 151-159,
\* service_process.cpp:405-409).
RequestsDieWithService ==
    \A id \in 1 .. MaxRequestIds :
        id \in Client!IdsOf(pendingRequests)
          /\ (stopRequested \/ clientState = "Failed" \/ proc = "Exited")
            ~> id \notin Client!IdsOf(pendingRequests)
=============================================================================
