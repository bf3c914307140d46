---------------------------- MODULE ServiceClient ----------------------------
(***************************************************************************)
(* The authenticated client of the local service                           *)
(* (packages/protocol/src/service_client.cpp), its socket and the service  *)
(* at the other end.                                                       *)
(*                                                                         *)
(* A frame is one element of a sequence; how frames are cut out of the     *)
(* byte stream is the subject of module FrameCodec.  processInput takes    *)
(* the frames of one readyRead in a loop: here each is a step of its own,  *)
(* as when it arrives alone.  A slot may call the client back, and that is *)
(* the step of the call, except where the handler goes on afterwards: the  *)
(* ...DuringShutdownReply actions.  No slot connects the client again.     *)
(***************************************************************************)
EXTENDS Naturals, Sequences, FiniteSets

CONSTANTS
    MaxPendingRequests,  \* configuration_.limits.maxPendingRequests
    MaxRequestIds,       \* bound: request IDs drawn
    MaxConnections,      \* bound: calls of connectToService that are honoured
    MaxInFlight          \* bound: frames of the service not yet read

ASSUME PendingAssumption == MaxPendingRequests \in 1 .. 4096
ASSUME BoundsAssumption == /\ MaxRequestIds \in Nat /\ MaxConnections \in Nat
                           /\ MaxInFlight \in Nat

VARIABLES
    \* members of ServiceClient
    state, pendingRequests, helloRequestId, requestSequence,
    configurationValid,  \* what configuration_.isValid() answers
    \* the socket and the service
    socket, toService, held, toClient,
    \* history
    accepted,      \* the service accepted the hello of this connection
    firstRequest,  \* the first request ID of this connection
    overwritten,   \* a failure of this connection was overwritten by Closing
    failures,      \* failed() signals of this connection, capped
    connections,   \* calls of connectToService honoured
    delivered      \* how often each request was answered to the application

conversation == <<toService, held, toClient>>
members == <<state, pendingRequests, helloRequestId, requestSequence>>
history == <<accepted, firstRequest, connections, overwritten>>
vars == <<members, configurationValid, socket, conversation, history, failures,
          delivered>>

Ids == 1 .. MaxRequestIds
Methods == {"hello", "shutdown", "other"}
Request == [id : Ids, method : Methods]

\* A response names its request and carries one of five contents; "garbage" is
\* every frame that does not decode into a message.
Answers == {"accept", "incompatible", "reject", "ok", "error"}
Frame == [kind : {"response"}, id : Ids, answer : Answers]
           \cup [kind : {"binary", "garbage"}]

IdsOf(requests) == {r.id : r \in requests}
Elements(s) == {s[i] : i \in DOMAIN s}
Responses == {f \in Elements(toClient) : f.kind = "response"}

FailuresCap == 3    \* bound on the history variable failures
DeliveredCap == 2   \* bound on the history variable delivered

Init ==
    /\ state = "Disconnected"
    /\ pendingRequests = {} /\ helloRequestId = 0 /\ requestSequence = 0
    /\ configurationValid \in BOOLEAN
    /\ socket = "Unconnected"
    /\ toService = <<>> /\ held = {} /\ toClient = <<>>
    /\ accepted = FALSE /\ firstRequest = 1 /\ failures = 0 /\ connections = 0
    /\ overwritten = FALSE
    /\ delivered = [id \in Ids |-> 0]

-----------------------------------------------------------------------------
(* Helpers of the class *)

\* Aborting the socket discards both directions.
Abort ==
    /\ socket' = "Unconnected"
    /\ toService' = <<>> /\ held' = {} /\ toClient' = <<>>

Failed(previous) ==
    /\ state' = "Failed"
    /\ failures' = IF previous < FailuresCap THEN previous + 1 ELSE previous

FailKeepsSocket ==    \* mutant: frames of a failed connection are still read
    /\ Failed(failures)
    /\ UNCHANGED <<socket, toService, held>>
    /\ toClient' = IF toClient = <<>> THEN <<>> ELSE Tail(toClient)

\* fail().  The pending table keeps its entries.  So does inputBuffer_, but nothing
\* takes a frame from it any more: processInput leaves its loop, and
\* connectToService clears it.
Fail == Failed(failures) /\ Abort

LastRequestId == requestSequence    \* mutant: incremented after use

\* nextRequestId(); the sequence number makes an ID unique within the client.
NextRequestId == requestSequence + 1

NotCleared == pendingRequests' = pendingRequests    \* mutant: a new connection inherits them

ForgetRequests == pendingRequests' = {}

RoomForOneMore == Cardinality(pendingRequests) <= MaxPendingRequests    \* mutant: off by one

RoomLeft == Cardinality(pendingRequests) < MaxPendingRequests

HandshakeStarted == state \in {"Authenticating", "Ready"}    \* mutant: no need to be ready

CanSend == state = "Ready"

EnteredThenEncoded(request) ==    \* mutant: the table keeps what was never sent
    /\ pendingRequests' = pendingRequests \cup {request}
    /\ UNCHANGED <<state, socket, conversation, failures>>

\* encodeControlMessage returns nothing for a message above the frame limit.
EncodingFails(request) ==
    UNCHANGED <<state, pendingRequests, socket, conversation, failures>>

\* The tail of sendRequestInternal in state s: the request is entered in the
\* table, then written; a write that fails ends the connection.
Send(request, s) ==
    /\ pendingRequests' = pendingRequests \cup {request}
    /\ \/ /\ toService' = Append(toService, request)
          /\ state' = s
          /\ UNCHANGED <<socket, held, toClient, failures>>
       \/ Fail

-----------------------------------------------------------------------------
(* Calls of the application *)

ConnectToService ==
    /\ state \in {"Disconnected", "Failed"}
    /\ connections < MaxConnections
    /\ connections' = connections + 1
    /\ \/ /\ ~configurationValid
          /\ Failed(0)
          /\ UNCHANGED <<pendingRequests, socket, accepted, firstRequest,
                         overwritten>>
       \/ /\ configurationValid
          /\ state' = "Connecting"
          /\ ForgetRequests
          /\ socket' = "Connecting"
          /\ accepted' = FALSE /\ firstRequest' = requestSequence + 1
          /\ failures' = 0 /\ overwritten' = FALSE
    /\ UNCHANGED <<helloRequestId, requestSequence, configurationValid,
                   conversation, delivered>>

Close ==
    /\ state # "Disconnected"
    /\ state' = "Disconnected"
    /\ ForgetRequests
    /\ Abort
    /\ UNCHANGED <<helloRequestId, requestSequence, configurationValid, history,
                   failures, delivered>>

\* sendRequest() and cancelRequest().  Without room, or before the handshake is
\* over, they return no request ID and change nothing.
SendRequest(method) ==
    /\ CanSend /\ RoomLeft
    /\ requestSequence < MaxRequestIds
    /\ requestSequence' = requestSequence + 1
    /\ LET request == [id |-> NextRequestId, method |-> method]
       IN  EncodingFails(request) \/ Send(request, state)
    /\ UNCHANGED <<helloRequestId, configurationValid, history, delivered>>

-----------------------------------------------------------------------------
(* Signals of the socket *)

\* connected: authenticate() sends the hello, or fails when it cannot be
\* encoded or written.
Authenticate ==
    /\ socket = "Connecting"
    /\ requestSequence < MaxRequestIds
    /\ requestSequence' = requestSequence + 1
    /\ LET hello == [id |-> NextRequestId, method |-> "hello"]
       IN  \/ /\ helloRequestId' = 0
              /\ Fail
              /\ UNCHANGED pendingRequests
           \/ /\ helloRequestId' = hello.id
              /\ pendingRequests' = pendingRequests \cup {hello}
              /\ Fail
           \/ /\ helloRequestId' = hello.id
              /\ pendingRequests' = pendingRequests \cup {hello}
              /\ toService' = Append(toService, hello)
              /\ state' = "Authenticating" /\ socket' = "Connected"
              /\ UNCHANGED <<held, toClient, failures>>
    /\ UNCHANGED <<configurationValid, history, delivered>>

\* errorOccurred, for a refused or a lost connection, unless it is expected.
SocketError ==
    /\ socket # "Unconnected"
    /\ state \notin {"Closing", "Disconnected"}
    /\ Fail
    /\ UNCHANGED <<pendingRequests, helloRequestId, requestSequence,
                   configurationValid, history, delivered>>

HangUpIgnored ==    \* mutant: waits for close() instead of the disconnected signal
    /\ socket = "Connected" /\ state # "Failed"
    /\ UNCHANGED vars

\* disconnected, with no error before it: the service closed the connection, whether
\* it was shutting down or not.
SocketDisconnected ==
    /\ socket = "Connected" /\ state # "Failed"
    /\ state' = "Disconnected"
    /\ Abort
    /\ UNCHANGED <<pendingRequests, helloRequestId, requestSequence,
                   configurationValid, history, failures, delivered>>

AnswerKept(request) == UNCHANGED pendingRequests    \* mutant: answered, yet still pending

TakePending(request) == pendingRequests' = pendingRequests \ {request}

\* completeAuthentication(): the hello was accepted, by a compatible service.
Authentic(answer) == answer = "accept"

\* responseReceived() for a request that is not the hello.
Deliver(request) ==
    delivered' = [delivered EXCEPT ![request.id] =
                    IF @ < DeliveredCap THEN @ + 1 ELSE @]

\* processControlFrame() for a response to a pending request.
ProcessResponse(frame, request) ==
    /\ TakePending(request)
    /\ \/ /\ request.id = helloRequestId /\ ~Authentic(frame.answer)
          /\ Fail
          /\ UNCHANGED delivered
       \/ /\ request.id = helloRequestId /\ Authentic(frame.answer)
          /\ state' = "Ready"
          /\ toClient' = Tail(toClient)
          /\ UNCHANGED <<socket, toService, held, failures, delivered>>
       \/ /\ request.id # helloRequestId
          /\ Deliver(request)
          /\ state' = IF request.method = "shutdown" /\ frame.answer = "ok"
                      THEN "Closing" ELSE state
          /\ toClient' = Tail(toClient)
          /\ UNCHANGED <<socket, toService, held, failures>>

\* processInput() takes one frame.
ProcessInput ==
    /\ toClient # <<>>
    /\ LET frame == Head(toClient)
       IN  \/ /\ frame.kind = "garbage"
              /\ Fail
              /\ UNCHANGED <<pendingRequests, delivered>>
           \/ /\ frame.kind = "binary"
              /\ toClient' = Tail(toClient)
              /\ UNCHANGED <<state, pendingRequests, socket, toService, held,
                             failures, delivered>>
           \/ /\ frame.kind = "response" /\ frame.id \notin IdsOf(pendingRequests)
              /\ Fail
              /\ UNCHANGED <<pendingRequests, delivered>>
           \/ /\ frame.kind = "response"
              /\ \E request \in pendingRequests :
                   request.id = frame.id /\ ProcessResponse(frame, request)
    /\ UNCHANGED <<helloRequestId, requestSequence, configurationValid, history>>

-----------------------------------------------------------------------------
(* The slot of responseReceived calls the client while processControlFrame is *)
(* still to set the state of an answered shutdown to Closing.                 *)

\* The next frame is the answer the shutdown request waits for.
ShutdownAnswered(request) ==
    /\ toClient # <<>>
    /\ request.method = "shutdown"
    /\ Head(toClient) = [kind |-> "response", id |-> request.id, answer |-> "ok"]

\* It closes the client.
CloseDuringShutdownReply ==
    /\ \E request \in pendingRequests : ShutdownAnswered(request) /\ Deliver(request)
    /\ ForgetRequests
    /\ Abort
    /\ state' = "Closing"
    /\ UNCHANGED <<helloRequestId, requestSequence, configurationValid, history,
                   failures>>

\* It sends another request, for which the answered one left room.
SendDuringShutdownReply(method) ==
    /\ CanSend /\ requestSequence < MaxRequestIds
    /\ requestSequence' = requestSequence + 1
    /\ \E request \in pendingRequests :
         /\ ShutdownAnswered(request) /\ Deliver(request)
         /\ LET next == [id |-> NextRequestId, method |-> method]
            IN  \/ /\ pendingRequests' = (pendingRequests \ {request}) \cup {next}
                   /\ toService' = Append(toService, next)
                \/ TakePending(request) /\ UNCHANGED toService    \* not encoded
    /\ toClient' = Tail(toClient)
    /\ state' = "Closing"
    /\ UNCHANGED <<helloRequestId, configurationValid, socket, held, history,
                   failures>>

\* The write of that request fails, and with it the connection; but the state Failed
\* is overwritten, and processInput goes on with the frames it had read, unless the
\* slot of failed() closes the client.
FailDuringShutdownReply(method) ==
    /\ CanSend /\ requestSequence < MaxRequestIds
    /\ requestSequence' = requestSequence + 1
    /\ failures' = IF failures < FailuresCap THEN failures + 1 ELSE failures
    /\ overwritten' = TRUE
    /\ \E request \in pendingRequests :
         /\ ShutdownAnswered(request) /\ Deliver(request)
         /\ \/ /\ pendingRequests' = (pendingRequests \ {request})
                                   \cup {[id |-> NextRequestId, method |-> method]}
               /\ \E last \in 1 .. Len(toClient) :
                    toClient' = SubSeq(toClient, 2, last)
            \/ ForgetRequests /\ toClient' = <<>>
    /\ state' = "Closing"
    /\ socket' = "Unconnected" /\ toService' = <<>> /\ held' = {}
    /\ UNCHANGED <<helloRequestId, configurationValid, accepted, firstRequest,
                   connections>>

-----------------------------------------------------------------------------
(* The service: outside the repository, known by the protocol it serves *)

ClientUnchanged == UNCHANGED <<members, configurationValid, socket, firstRequest,
                               connections, overwritten, failures, delivered>>

Post(frame) ==
    /\ Len(toClient) < MaxInFlight
    /\ toClient' = Append(toClient, frame)

Response(request, answer) ==
    [kind |-> "response", id |-> request.id, answer |-> answer]

ServiceReceives ==
    /\ toService # <<>>
    /\ held' = held \cup {Head(toService)}
    /\ toService' = Tail(toService)
    /\ UNCHANGED <<toClient, accepted>> /\ ClientUnchanged

ServiceAnswers ==
    \E request \in held :
        /\ held' = held \ {request}
        /\ \E answer \in Answers :
             /\ request.method = "hello" <=> answer \in {"accept", "incompatible", "reject"}
             /\ Post(Response(request, answer))
             /\ accepted' = (accepted \/ answer = "accept")
        /\ UNCHANGED toService /\ ClientUnchanged

ServiceSendsBinary ==
    /\ socket = "Connected"
    /\ Post([kind |-> "binary"])
    /\ UNCHANGED <<toService, held, accepted>> /\ ClientUnchanged

\* It sends a frame that does not decode, or answers a request again.
ServiceMisbehaves ==
    /\ socket = "Connected"
    /\ \/ Post([kind |-> "garbage"])
       \/ \E id \in 1 .. requestSequence :
            /\ id \notin IdsOf(held) \cup IdsOf(Elements(toService))
            /\ Post([kind |-> "response", id |-> id, answer |-> "ok"])
    /\ UNCHANGED <<toService, held, accepted>> /\ ClientUnchanged

-----------------------------------------------------------------------------
Next ==
    \/ ConnectToService \/ Close
    \/ \E method \in {"shutdown", "other"} : SendRequest(method)
    \/ Authenticate \/ SocketError \/ SocketDisconnected
    \/ ProcessInput \/ CloseDuringShutdownReply
    \/ \E method \in {"shutdown", "other"} : SendDuringShutdownReply(method)
    \/ \E method \in {"shutdown", "other"} : FailDuringShutdownReply(method)
    \/ ServiceReceives \/ ServiceAnswers \/ ServiceSendsBinary \/ ServiceMisbehaves

Spec == Init /\ [][Next]_vars

\* A pending connection is decided and frames in flight are read.  A service that
\* is alive receives, hangs up after a shutdown, and answers what it received
\* however many frames it sends of its own accord.  No connection has to fail.
Fairness ==
    /\ WF_vars(socket = "Connecting" /\ (Authenticate \/ SocketError))
    /\ WF_vars(ProcessInput)
    /\ WF_vars(ServiceReceives) /\ SF_vars(ServiceAnswers)
    /\ WF_vars(state = "Closing" /\ SocketDisconnected)

FairSpec == Spec /\ Fairness

-----------------------------------------------------------------------------
(* Properties *)

\* The members, the two directions of the connection and the history variables
\* keep their types.
TypeOK ==
    /\ state \in {"Disconnected", "Connecting", "Authenticating", "Ready",
                  "Closing", "Failed"}
    /\ pendingRequests \subseteq Request
    /\ helloRequestId \in 0 .. MaxRequestIds
    /\ requestSequence \in 0 .. MaxRequestIds
    /\ configurationValid \in BOOLEAN
    /\ socket \in {"Unconnected", "Connecting", "Connected"}
    /\ toService \in Seq(Request) /\ held \subseteq Request
    /\ toClient \in Seq(Frame)
    /\ accepted \in BOOLEAN /\ overwritten \in BOOLEAN
    /\ firstRequest \in 1 .. MaxRequestIds + 1
    /\ failures \in 0 .. FailuresCap /\ connections \in 0 .. MaxConnections
    /\ delivered \in [Ids -> 0 .. DeliveredCap]

\* The table of outstanding requests respects the negotiated limit, the hello
\* of the handshake included (service_client.cpp:182).
PendingBound == Cardinality(pendingRequests) <= MaxPendingRequests

\* While the connection lasts every pending request is on its way, being
\* served, or answered by a frame still unread: no entry leaks, which would
\* shrink the room for later requests for good.
NothingLost ==
    socket = "Connected" =>
        IdsOf(pendingRequests) \subseteq
            IdsOf(Elements(toService)) \cup IdsOf(held) \cup IdsOf(Responses)

\* The table never holds a request of an earlier connection
\* (service_client.cpp:106).
PendingIsCurrent == \A r \in pendingRequests : r.id >= firstRequest

\* Nothing but the hello leaves the client before the service accepted the token
\* of this very connection, and the client is ready only after that and while
\* the connection stands (service_client.cpp:181-184, 306-351).
AuthenticatedFirst ==
    /\ ~accepted => \A r \in held \cup Elements(toService) : r.method = "hello"
    /\ state = "Ready" => accepted /\ socket = "Connected"

\* No request is answered to the application twice, whatever the service
\* repeats (service_client.cpp:250-259).
AnsweredOnce == \A id \in Ids : delivered[id] <= 1

\* A connection fails once: after fail() neither a handler of the old socket nor a
\* frame that was read with the last one fails it again (service_client.cpp:151-159,
\* 231-233).  It may once more when an answered shutdown has overwritten the state
\* Failed, so that the loop goes on (service_client.cpp:290-292), but no oftener.
FailsOnce == failures <= IF overwritten THEN 2 ELSE 1

\* The application sees a conversation: requests are asked and answered only
\* between a handshake and the end of the connection, each at most once.
Conversation ==
    INSTANCE ClientConversation
        WITH life <- state,
             outstanding <- IdsOf({r \in pendingRequests : r.method # "hello"}),
             answered <- {id \in Ids : delivered[id] > 0}

\* ServiceClient implements the conversation its application relies on.
ConversationSpec == Conversation!Spec

\* A request is not pending forever: it is answered or the connection ends.
RequestsEnd ==
    \A id \in Ids : id \in IdsOf(pendingRequests)
                      ~> id \notin IdsOf(pendingRequests) \/ socket = "Unconnected"

\* A shutdown that was answered ends the connection.  It need not end Closing: a
\* slot that closes the client during the answer leaves it there.
ClosingEnds == state = "Closing" ~> socket = "Unconnected"
=============================================================================
