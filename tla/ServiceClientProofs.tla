------------------------ MODULE ServiceClientProofs ------------------------
(***************************************************************************)
(* Proofs about ServiceClient, for every size of the table and every       *)
(* number of requests, of connections and of frames in flight.             *)
(***************************************************************************)
EXTENDS ServiceClient, FiniteSetTheorems, SequenceTheorems, TLAPS

-----------------------------------------------------------------------------
(* The inductive invariant *)

\* What the state member says about the socket.  A client that is Closing may have
\* been closed by a slot, or have failed in one.  Without a connection nothing is in
\* flight but the frames that were read with the answer of that shutdown.
SocketBookkeeping ==
    /\ socket = "Connecting" <=> state = "Connecting"
    /\ state \in {"Authenticating", "Ready"} => socket = "Connected"
    /\ socket = "Connected" => state \in {"Authenticating", "Ready", "Closing"}
    /\ socket # "Connected" => toService = <<>> /\ held = {}
    /\ socket # "Connected" /\ toClient # <<>> => state = "Closing"

\* The hello is in the table exactly during the handshake, and alone.  What the table
\* holds after a failure or the end of a connection is not said.
HelloBookkeeping ==
    /\ state = "Connecting" => pendingRequests = {}
    /\ state = "Authenticating" =>
         pendingRequests = {[id |-> helloRequestId, method |-> "hello"]}
    /\ state \in {"Ready", "Closing"} =>
         \A r \in pendingRequests : r.id # helloRequestId /\ r.method # "hello"

\* An ID in the table names one request, was drawn in this connection or before, and
\* was never answered; those not yet drawn were not answered either.
TableBookkeeping ==
    /\ IsFiniteSet(pendingRequests)
    /\ \A r \in pendingRequests : r.id <= requestSequence /\ delivered[r.id] = 0
    /\ \A r, s \in pendingRequests : r.id = s.id => r = s
    /\ \A id \in Ids : id > requestSequence => delivered[id] = 0
    /\ helloRequestId <= requestSequence
    /\ firstRequest <= requestSequence + 1

\* An acceptance in flight was given.
AcceptanceGiven == \A f \in Responses : f.answer = "accept" => accepted

\* A connection that stands or is being made has not failed, and one of which frames are
\* left has failed once, its state being overwritten.
NotYetFailed ==
    /\ socket # "Unconnected" => failures = 0 /\ ~overwritten
    /\ socket = "Unconnected" /\ toClient # <<>> => failures = 1 /\ overwritten

\* The table, and the connection: two parts that most actions disturb one of.
TableInv ==
    /\ PendingBound
    /\ PendingIsCurrent
    /\ AnsweredOnce
    /\ TableBookkeeping

ConnectionInv ==
    /\ NothingLost
    /\ AuthenticatedFirst
    /\ FailsOnce
    /\ SocketBookkeeping
    /\ AcceptanceGiven
    /\ NotYetFailed

IInv == TypeOK /\ TableInv /\ HelloBookkeeping /\ ConnectionInv

-----------------------------------------------------------------------------
(* Lemmas about the operators *)

\* Nothing is in an empty queue.
LEMMA ElementsOfEmpty == Elements(<<>>) = {}
BY DEF Elements

\* What is appended to a queue is in it, with what was there.
LEMMA ElementsOfAppend ==
    ASSUME NEW S, NEW s \in Seq(S), NEW e \in S
    PROVE  Elements(Append(s, e)) = Elements(s) \cup {e}
<1>1. /\ Append(s, e) \in Seq(S) /\ Len(Append(s, e)) = Len(s) + 1
      /\ \A i \in 1 .. Len(s) : Append(s, e)[i] = s[i]
      /\ Append(s, e)[Len(s) + 1] = e
  BY AppendProperties
<1>2. /\ DOMAIN s = 1 .. Len(s) /\ Len(s) \in Nat
      /\ DOMAIN Append(s, e) = 1 .. Len(s) + 1
  BY <1>1, LenProperties
<1>3. \A x \in Elements(s) \cup {e} : x \in Elements(Append(s, e))
  BY <1>1, <1>2 DEF Elements
<1>4. \A x \in Elements(Append(s, e)) : x \in Elements(s) \cup {e}
  BY <1>1, <1>2 DEF Elements
<1> QED
  BY <1>3, <1>4

\* A queue consists of its head and the rest.
LEMMA ElementsOfTail ==
    ASSUME NEW S, NEW s \in Seq(S), s # <<>>
    PROVE  /\ Elements(s) = Elements(Tail(s)) \cup {Head(s)}
           /\ Head(s) \in S /\ Tail(s) \in Seq(S)
<1>1. /\ Head(s) \in S /\ Tail(s) \in Seq(S) /\ Len(Tail(s)) = Len(s) - 1
      /\ \A i \in 1 .. Len(Tail(s)) : Tail(s)[i] = s[i + 1]
  BY HeadTailProperties
<1>2. /\ Len(s) \in Nat \ {0} /\ DOMAIN s = 1 .. Len(s)
      /\ DOMAIN Tail(s) = 1 .. Len(s) - 1
  BY <1>1, EmptySeq, LenProperties
<1>3. Head(s) = s[1]
  OBVIOUS
<1>4. \A x \in Elements(s) : x \in Elements(Tail(s)) \cup {Head(s)}
  <2>1. SUFFICES ASSUME NEW i \in DOMAIN s
                 PROVE  s[i] \in Elements(Tail(s)) \cup {Head(s)}
    BY DEF Elements
  <2>2. CASE i = 1
    BY <1>3, <2>2
  <2>3. CASE i # 1
    <3>1. i - 1 \in DOMAIN Tail(s) /\ Tail(s)[i - 1] = s[i]
      BY <1>1, <1>2, <2>3
    <3> QED
      BY <3>1 DEF Elements
  <2> QED
    BY <2>2, <2>3
<1>5. \A x \in Elements(Tail(s)) : x \in Elements(s)
  <2>1. \A i \in DOMAIN Tail(s) : i + 1 \in DOMAIN s /\ Tail(s)[i] = s[i + 1]
    BY <1>1, <1>2
  <2> QED
    BY <2>1 DEF Elements
<1>6. Head(s) \in Elements(s)
  BY <1>2, <1>3 DEF Elements
<1> QED
  BY <1>1, <1>4, <1>5, <1>6

\* The IDs of two sets of requests together.
LEMMA IdsOfUnion ==
    ASSUME NEW A, NEW B PROVE IdsOf(A \cup B) = IdsOf(A) \cup IdsOf(B)
BY DEF IdsOf

-----------------------------------------------------------------------------
(* The table *)

\* A table that loses entries, while the sequence number may grow, stays good.
LEMMA TableShrinks ==
    ASSUME IInv, pendingRequests' \subseteq pendingRequests,
           requestSequence' \in Nat, requestSequence' >= requestSequence,
           helloRequestId' \in Nat, helloRequestId' <= requestSequence',
           UNCHANGED <<firstRequest, delivered>>
    PROVE  TableInv'
<1>1. IsFiniteSet(pendingRequests) /\ Cardinality(pendingRequests) <= MaxPendingRequests
  BY DEF IInv, TableInv, TableBookkeeping, PendingBound
<1>2. /\ IsFiniteSet(pendingRequests')
      /\ Cardinality(pendingRequests') <= Cardinality(pendingRequests)
  BY <1>1, FS_Subset
<1>3. Cardinality(pendingRequests) \in Nat /\ Cardinality(pendingRequests') \in Nat
  BY <1>1, <1>2, FS_CardinalityType
<1>4. PendingBound'
  BY <1>1, <1>2, <1>3, PendingAssumption DEF PendingBound
<1>5. PendingIsCurrent' /\ AnsweredOnce'
  BY DEF IInv, TableInv, PendingIsCurrent, AnsweredOnce
<1>6. TableBookkeeping'
  <2>1. \A r \in pendingRequests : r.id \in Nat /\ r.id <= requestSequence
    BY DEF IInv, TypeOK, Request, Ids, TableInv, TableBookkeeping
  <2>2. \A r \in pendingRequests' : r.id <= requestSequence' /\ delivered'[r.id] = 0
    BY <2>1 DEF IInv, TypeOK, TableInv, TableBookkeeping
  <2>3. \A r, s \in pendingRequests' : r.id = s.id => r = s
    BY DEF IInv, TableInv, TableBookkeeping
  <2>4. requestSequence \in Nat /\ firstRequest \in Nat
    BY DEF IInv, TypeOK
  <2>5. \A id \in Ids : id > requestSequence' => delivered'[id] = 0
    BY <2>4 DEF IInv, Ids, TableInv, TableBookkeeping
  <2>6. firstRequest' <= requestSequence' + 1
    <3>1. firstRequest <= requestSequence + 1 /\ firstRequest' = firstRequest
      BY DEF IInv, TableInv, TableBookkeeping
    <3>2. \A first, last, next \in Nat :
            first <= last + 1 /\ last <= next => first <= next + 1
      OBVIOUS
    <3> QED
      BY <2>4, <3>1, <3>2
  <2> QED
    BY <1>2, <2>2, <2>3, <2>5, <2>6 DEF TableBookkeeping
<1> QED
  BY <1>4, <1>5, <1>6 DEF TableInv

\* A request with a new ID enters a table that has room.
LEMMA TableGrows ==
    ASSUME IInv, NEW method \in Methods, RoomLeft,
           requestSequence < MaxRequestIds, requestSequence' = requestSequence + 1,
           pendingRequests' =
             pendingRequests \cup {[id |-> NextRequestId, method |-> method]},
           helloRequestId' \in {helloRequestId, NextRequestId},
           UNCHANGED <<firstRequest, delivered>>
    PROVE  /\ TableInv'
           /\ [id |-> NextRequestId, method |-> method] \in Request
<1> DEFINE request == [id |-> NextRequestId, method |-> method]
<1>1. /\ request \in Request /\ request.id = requestSequence + 1
      /\ requestSequence + 1 \in Ids
  BY BoundsAssumption DEF IInv, TypeOK, NextRequestId, Request, Ids
<1>2. request \notin pendingRequests
  BY <1>1 DEF IInv, TypeOK, TableInv, TableBookkeeping, Ids
<1>3. /\ IsFiniteSet(pendingRequests)
      /\ Cardinality(pendingRequests) < MaxPendingRequests
  BY DEF IInv, TableInv, TableBookkeeping, RoomLeft
<1>4. /\ IsFiniteSet(pendingRequests')
      /\ Cardinality(pendingRequests') = Cardinality(pendingRequests) + 1
  BY <1>2, <1>3, FS_AddElement
<1>5. PendingBound'
  BY <1>3, <1>4, FS_CardinalityType, PendingAssumption DEF PendingBound
<1>6. PendingIsCurrent' /\ AnsweredOnce'
  BY <1>1 DEF IInv, TypeOK, TableInv, TableBookkeeping, PendingIsCurrent, AnsweredOnce
<1>7. TableBookkeeping'
  <2>1. \A r \in pendingRequests : r.id \in Nat /\ r.id <= requestSequence
    BY DEF IInv, TypeOK, Request, Ids, TableInv, TableBookkeeping
  <2>2. \A r \in pendingRequests' : r.id <= requestSequence' /\ delivered'[r.id] = 0
    BY <1>1, <2>1 DEF IInv, TypeOK, TableInv, TableBookkeeping
  <2>3. \A r, s \in pendingRequests' : r.id = s.id => r = s
    BY <1>1, <2>1 DEF IInv, TypeOK, TableInv, TableBookkeeping
  <2>4. /\ \A id \in Ids : id > requestSequence' => delivered'[id] = 0
        /\ helloRequestId' <= requestSequence'
        /\ firstRequest' <= requestSequence' + 1
    BY <1>1 DEF IInv, TypeOK, NextRequestId, Ids, TableInv, TableBookkeeping
  <2> QED
    BY <1>4, <2>2, <2>3, <2>4 DEF TableBookkeeping
<1> QED
  BY <1>1, <1>5, <1>6, <1>7 DEF TableInv

\* A request that is answered leaves the table, alone or with all others.
LEMMA TableAnswers ==
    ASSUME IInv, NEW request \in pendingRequests,
           pendingRequests' \subseteq pendingRequests \ {request},
           Deliver(request),
           UNCHANGED <<requestSequence, helloRequestId, firstRequest>>
    PROVE  /\ TableInv'
           /\ delivered' = [delivered EXCEPT ![request.id] = 1]
           /\ delivered' \in [Ids -> 0 .. DeliveredCap]
<1>1. /\ request.id \in Ids /\ delivered[request.id] = 0
      /\ request.id <= requestSequence
      /\ \A r \in pendingRequests' : r.id \in Ids /\ r.id # request.id
  BY DEF IInv, TypeOK, Request, TableInv, TableBookkeeping
<1>2. /\ delivered' = [delivered EXCEPT ![request.id] = 1]
      /\ delivered' \in [Ids -> 0 .. DeliveredCap]
  BY <1>1 DEF IInv, TypeOK, Deliver, DeliveredCap
<1>3. /\ delivered'[request.id] = 1
      /\ \A id \in Ids : id # request.id => delivered'[id] = delivered[id]
  BY <1>1, <1>2 DEF IInv, TypeOK
<1>4. IsFiniteSet(pendingRequests) /\ Cardinality(pendingRequests) <= MaxPendingRequests
  BY DEF IInv, TableInv, TableBookkeeping, PendingBound
<1>5. /\ IsFiniteSet(pendingRequests')
      /\ Cardinality(pendingRequests') <= Cardinality(pendingRequests)
  BY <1>4, FS_Subset
<1>6. PendingBound'
  BY <1>4, <1>5, FS_CardinalityType, PendingAssumption DEF PendingBound
<1>7. PendingIsCurrent'
  BY DEF IInv, TableInv, PendingIsCurrent
<1>8. AnsweredOnce'
  BY <1>3 DEF IInv, TableInv, AnsweredOnce
<1>9. TableBookkeeping'
  BY <1>1, <1>3, <1>5 DEF IInv, TypeOK, Ids, TableInv, TableBookkeeping
<1> QED
  BY <1>2, <1>6, <1>7, <1>8, <1>9 DEF TableInv

\* One that is answered may leave its room to a new one.
LEMMA TableReplaces ==
    ASSUME IInv, NEW method \in Methods, NEW request \in pendingRequests,
           Deliver(request),
           requestSequence < MaxRequestIds, requestSequence' = requestSequence + 1,
           pendingRequests' \subseteq
             (pendingRequests \ {request})
               \cup {[id |-> NextRequestId, method |-> method]},
           UNCHANGED <<helloRequestId, firstRequest>>
    PROVE  /\ TableInv'
           /\ delivered' \in [Ids -> 0 .. DeliveredCap]
           /\ [id |-> NextRequestId, method |-> method] \in Request
           /\ requestSequence' \in 0 .. MaxRequestIds
<1> DEFINE next == [id |-> NextRequestId, method |-> method]
           most == (pendingRequests \ {request}) \cup {next}
<1>1. /\ next \in Request /\ next.id = requestSequence + 1
      /\ requestSequence + 1 \in Ids /\ requestSequence \in Nat
  BY BoundsAssumption DEF IInv, TypeOK, NextRequestId, Request, Ids
<1>2. /\ request.id \in Ids /\ request.id <= requestSequence
      /\ \A r \in pendingRequests : r.id \in Nat /\ r.id <= requestSequence
      /\ \A r \in pendingRequests \ {request} : r.id # request.id
  BY DEF IInv, TypeOK, Request, Ids, TableInv, TableBookkeeping
<1>3. /\ delivered' \in [Ids -> 0 .. DeliveredCap]
      /\ delivered'[request.id] = 1
      /\ \A id \in Ids : id # request.id => delivered'[id] = delivered[id]
  BY <1>2 DEF IInv, TypeOK, TableInv, TableBookkeeping, Deliver, DeliveredCap
<1>4. IsFiniteSet(pendingRequests') /\ PendingBound'
  <2>1. /\ IsFiniteSet(pendingRequests)
        /\ Cardinality(pendingRequests) <= MaxPendingRequests
    BY DEF IInv, TableInv, TableBookkeeping, PendingBound
  <2>2. /\ IsFiniteSet(pendingRequests \ {request})
        /\ Cardinality(pendingRequests \ {request}) = Cardinality(pendingRequests) - 1
    BY <2>1, FS_RemoveElement
  <2>3. next \notin pendingRequests \ {request}
    BY <1>1, <1>2
  <2>4. /\ IsFiniteSet(most)
        /\ Cardinality(most) = Cardinality(pendingRequests \ {request}) + 1
    BY <2>2, <2>3, FS_AddElement
  <2>5. /\ IsFiniteSet(pendingRequests')
        /\ Cardinality(pendingRequests') <= Cardinality(most)
    BY <2>4, FS_Subset
  <2>6. /\ Cardinality(pendingRequests) \in Nat /\ Cardinality(most) \in Nat
        /\ Cardinality(pendingRequests') \in Nat
    BY <2>1, <2>4, <2>5, FS_CardinalityType
  <2>7. Cardinality(pendingRequests') <= MaxPendingRequests
    BY <2>1, <2>2, <2>4, <2>5, <2>6, PendingAssumption
  <2> QED
    BY <2>5, <2>7 DEF PendingBound
<1>5. PendingIsCurrent'
  BY <1>1 DEF IInv, TypeOK, TableInv, TableBookkeeping, PendingIsCurrent
<1>6. AnsweredOnce'
  BY <1>3 DEF IInv, TableInv, AnsweredOnce
<1>7. TableBookkeeping'
  <2>1. \A r \in pendingRequests' : r.id <= requestSequence' /\ delivered'[r.id] = 0
    BY <1>1, <1>2, <1>3 DEF IInv, TypeOK, Request, TableInv, TableBookkeeping
  <2>2. \A r, s \in pendingRequests' : r.id = s.id => r = s
    BY <1>1, <1>2 DEF IInv, TypeOK, TableInv, TableBookkeeping
  <2>3. \A id \in Ids : id > requestSequence' => delivered'[id] = 0
    BY <1>1, <1>2, <1>3 DEF Ids, IInv, TableInv, TableBookkeeping
  <2>4. helloRequestId' <= requestSequence' /\ firstRequest' <= requestSequence' + 1
    BY <1>1 DEF IInv, TypeOK, TableInv, TableBookkeeping
  <2> QED
    BY <1>4, <2>1, <2>2, <2>3, <2>4 DEF TableBookkeeping
<1>8. requestSequence' \in 0 .. MaxRequestIds
  BY <1>1, BoundsAssumption
<1> QED
  BY <1>1, <1>3, <1>4, <1>5, <1>6, <1>7, <1>8 DEF TableInv

-----------------------------------------------------------------------------
(* The connection *)

\* Without a connection there is nothing to say of one.
LEMMA AbortedConnection ==
    ASSUME Abort, state' \in {"Disconnected", "Failed", "Closing"}, FailsOnce'
    PROVE  ConnectionInv'
BY ElementsOfEmpty
   DEF Abort, ConnectionInv, NothingLost, AuthenticatedFirst, FailsOnce,
       SocketBookkeeping, AcceptanceGiven, NotYetFailed, Responses

\* fail() on a connection that stands, or is being made, is its first, and for frames
\* that an overwritten failure left its second.
LEMMA FailedConnection ==
    ASSUME IInv, socket # "Unconnected" \/ toClient # <<>>, Fail,
           UNCHANGED overwritten
    PROVE  /\ ConnectionInv' /\ HelloBookkeeping'
           /\ state' = "Failed" /\ socket' = "Unconnected" /\ failures' \in {1, 2}
           /\ toService' = <<>> /\ held' = {} /\ toClient' = <<>>
<1>1. /\ state' = "Failed" /\ failures' \in {1, 2}
      /\ ~overwritten' => failures' = 1
  BY DEF IInv, ConnectionInv, NotYetFailed, Fail, Failed, FailuresCap
<1>2. FailsOnce'
  BY <1>1 DEF FailsOnce
<1>3. ConnectionInv'
  BY <1>1, <1>2, AbortedConnection DEF Fail
<1> QED
  BY <1>1, <1>3 DEF Fail, Abort, HelloBookkeeping

\* An empty queue and no request are well typed.
LEMMA EmptyQueues == <<>> \in Seq(Request) /\ {} \subseteq Request /\ <<>> \in Seq(Frame)
BY EmptySeq

-----------------------------------------------------------------------------
(* One lemma for each action *)

\* The initial states satisfy the inductive invariant.
LEMMA InitIInv == ASSUME Init PROVE IInv
<1>1. IsFiniteSet(pendingRequests) /\ Cardinality(pendingRequests) = 0
  BY FS_EmptySet DEF Init
<1>2. TypeOK
  <2>1. /\ 0 \in 0 .. MaxRequestIds /\ 1 \in 1 .. MaxRequestIds + 1
        /\ 0 \in 0 .. MaxConnections /\ 0 \in 0 .. FailuresCap
        /\ 0 \in 0 .. DeliveredCap
    BY BoundsAssumption DEF FailuresCap, DeliveredCap
  <2> QED
    BY <2>1, EmptyQueues DEF Init, TypeOK
<1>3. TableInv
  <2>1. PendingBound
    BY <1>1, PendingAssumption DEF PendingBound
  <2>2. AnsweredOnce /\ PendingIsCurrent
    BY DEF Init, AnsweredOnce, PendingIsCurrent
  <2>3. TableBookkeeping
    BY <1>1 DEF Init, TableBookkeeping
  <2> QED
    BY <2>1, <2>2, <2>3 DEF TableInv
<1>4. ConnectionInv
  BY ElementsOfEmpty
     DEF Init, ConnectionInv, NothingLost, AuthenticatedFirst, FailsOnce,
         SocketBookkeeping, AcceptanceGiven, NotYetFailed, Responses
<1> QED
  BY <1>2, <1>3, <1>4 DEF Init, IInv, HelloBookkeeping

\* connectToService() finds no connection, and forgets the table with the last one.
LEMMA ConnectToServiceIInv == ASSUME IInv, ConnectToService PROVE IInv'
<1>1. /\ socket = "Unconnected" /\ toService = <<>> /\ held = {} /\ toClient = <<>>
      /\ connections' = connections + 1 /\ connections < MaxConnections
      /\ UNCHANGED <<helloRequestId, requestSequence, configurationValid,
                     conversation, delivered>>
  BY DEF ConnectToService, IInv, TypeOK, ConnectionInv, SocketBookkeeping
<1>2. CASE ~configurationValid
  <2>1. /\ state' = "Failed" /\ failures' = 1
        /\ UNCHANGED <<pendingRequests, socket, accepted, firstRequest, overwritten>>
    BY <1>2 DEF ConnectToService, Failed, FailuresCap
  <2>2. TypeOK'
    BY <1>1, <2>1, BoundsAssumption DEF IInv, TypeOK, conversation, FailuresCap
  <2>3. TableInv'
    BY <1>1, <2>1, TableShrinks DEF IInv, TypeOK, TableInv, TableBookkeeping
  <2>4. ConnectionInv'
    BY <1>1, <2>1, ElementsOfEmpty
       DEF ConnectionInv, NothingLost, AuthenticatedFirst, FailsOnce,
           SocketBookkeeping, AcceptanceGiven, NotYetFailed, Responses,
           conversation
  <2> QED
    BY <2>1, <2>2, <2>3, <2>4 DEF IInv, HelloBookkeeping
<1>3. CASE configurationValid
  <2>1. /\ state' = "Connecting" /\ pendingRequests' = {}
        /\ socket' = "Connecting" /\ accepted' = FALSE /\ failures' = 0
        /\ overwritten' = FALSE
        /\ firstRequest' = requestSequence + 1
    BY <1>3 DEF ConnectToService, ForgetRequests
  <2>2. TypeOK'
    <3>1. /\ firstRequest' \in 1 .. MaxRequestIds + 1 /\ failures' \in 0 .. FailuresCap
          /\ connections' \in 0 .. MaxConnections
      BY <1>1, <2>1, BoundsAssumption DEF IInv, TypeOK, FailuresCap
    <3> QED
      BY <1>1, <2>1, <3>1 DEF IInv, TypeOK, conversation
  <2>3. TableInv'
    <3>1. IsFiniteSet(pendingRequests') /\ Cardinality(pendingRequests') = 0
      BY <2>1, FS_EmptySet
    <3>2. PendingBound'
      BY <3>1, PendingAssumption DEF PendingBound
    <3>3. PendingIsCurrent' /\ AnsweredOnce'
      BY <1>1, <2>1 DEF IInv, TableInv, PendingIsCurrent, AnsweredOnce
    <3>4. TableBookkeeping'
      BY <1>1, <2>1, <3>1 DEF IInv, TypeOK, TableInv, TableBookkeeping
    <3> QED
      BY <3>2, <3>3, <3>4 DEF TableInv
  <2>4. ConnectionInv'
    BY <1>1, <2>1, ElementsOfEmpty
       DEF ConnectionInv, NothingLost, AuthenticatedFirst, FailsOnce,
           SocketBookkeeping, AcceptanceGiven, NotYetFailed, Responses,
           conversation
  <2> QED
    BY <2>1, <2>2, <2>3, <2>4 DEF IInv, HelloBookkeeping
<1> QED
  BY <1>2, <1>3

\* close() forgets the table and the connection.
LEMMA CloseIInv == ASSUME IInv, Close PROVE IInv'
<1>1. /\ state' = "Disconnected" /\ pendingRequests' = {} /\ Abort
      /\ UNCHANGED <<helloRequestId, requestSequence, configurationValid,
                     accepted, firstRequest, overwritten, connections, failures, delivered>>
  BY DEF Close, ForgetRequests, history
<1>2. TypeOK'
  BY <1>1, EmptyQueues DEF IInv, TypeOK, Abort
<1>3. TableInv'
  BY <1>1, TableShrinks DEF IInv, TypeOK, TableInv, TableBookkeeping
<1>4. ConnectionInv'
  BY <1>1, AbortedConnection DEF IInv, TypeOK, ConnectionInv, FailsOnce
<1> QED
  BY <1>1, <1>2, <1>3, <1>4 DEF IInv, HelloBookkeeping

\* A request that is written joins those on their way, and follows an acceptance.
LEMMA WrittenIInv ==
    ASSUME IInv, NEW request \in Request, socket = "Connected",
           request.method = "hello" \/ accepted,
           pendingRequests' = pendingRequests \cup {request},
           toService' = Append(toService, request),
           UNCHANGED <<held, toClient, failures, accepted, overwritten, socket>>,
           state' = state, state = "Ready"
    PROVE  ConnectionInv'
<1>1. /\ Elements(toService') = Elements(toService) \cup {request}
      /\ toService' \in Seq(Request)
  BY ElementsOfAppend, AppendProperties DEF IInv, TypeOK
<1>2. NothingLost'
  <2>1. /\ IdsOf(pendingRequests') = IdsOf(pendingRequests) \cup IdsOf({request})
        /\ IdsOf(Elements(toService')) = IdsOf(Elements(toService)) \cup IdsOf({request})
    BY <1>1, IdsOfUnion
  <2>2. Responses' = Responses
    BY DEF Responses
  <2> QED
    BY <2>1, <2>2 DEF IInv, ConnectionInv, NothingLost
<1>3. AuthenticatedFirst'
  BY <1>1 DEF IInv, ConnectionInv, AuthenticatedFirst
<1>4. SocketBookkeeping' /\ AcceptanceGiven' /\ FailsOnce' /\ NotYetFailed'
  BY DEF IInv, ConnectionInv, SocketBookkeeping, AcceptanceGiven, Responses,
         FailsOnce, NotYetFailed
<1> QED
  BY <1>2, <1>3, <1>4 DEF ConnectionInv

\* sendRequest() and cancelRequest(): the request is not encoded, or entered in the
\* table and written, or the write fails.
LEMMA SendRequestIInv ==
    ASSUME IInv, NEW method \in {"shutdown", "other"}, SendRequest(method)
    PROVE  IInv'
<1> DEFINE request == [id |-> NextRequestId, method |-> method]
<1>1. /\ state = "Ready" /\ socket = "Connected" /\ accepted /\ RoomLeft
      /\ requestSequence < MaxRequestIds /\ requestSequence' = requestSequence + 1
      /\ UNCHANGED <<helloRequestId, configurationValid, accepted, firstRequest,
                     overwritten, connections, delivered>>
  BY DEF SendRequest, CanSend, history, IInv, ConnectionInv, AuthenticatedFirst
<1>2. CASE EncodingFails(request)
  <2>1. UNCHANGED <<state, pendingRequests, socket, conversation, failures>>
    BY <1>2 DEF EncodingFails
  <2>2. TypeOK'
    BY <1>1, <2>1, BoundsAssumption DEF IInv, TypeOK, conversation
  <2>3. TableInv'
    BY <1>1, <2>1, TableShrinks DEF IInv, TypeOK, TableInv, TableBookkeeping
  <2>4. ConnectionInv'
    BY <1>1, <2>1
       DEF IInv, ConnectionInv, NothingLost, AuthenticatedFirst, FailsOnce,
           SocketBookkeeping, AcceptanceGiven, NotYetFailed, Responses,
           conversation
  <2> QED
    BY <1>1, <2>1, <2>2, <2>3, <2>4 DEF IInv, HelloBookkeeping
<1>3. CASE Send(request, state)
  <2>1. pendingRequests' = pendingRequests \cup {request}
    BY <1>3 DEF Send
  <2>2. TableInv' /\ request \in Request
    BY <1>1, <2>1, TableGrows DEF Methods
  <2>3. pendingRequests' \subseteq Request
    BY <2>1, <2>2 DEF IInv, TypeOK
  <2>4. CASE Fail
    <3>1. /\ ConnectionInv' /\ HelloBookkeeping'
          /\ state' = "Failed" /\ socket' = "Unconnected" /\ failures' \in {1, 2}
          /\ toService' = <<>> /\ held' = {} /\ toClient' = <<>>
      BY <1>1, <2>4, FailedConnection
    <3>2. TypeOK'
      BY <1>1, <2>3, <3>1, EmptyQueues, BoundsAssumption
         DEF IInv, TypeOK, FailuresCap
    <3> QED
      BY <2>2, <3>1, <3>2 DEF IInv
  <2>5. CASE /\ toService' = Append(toService, request) /\ state' = state
             /\ UNCHANGED <<socket, held, toClient, failures>>
    <3>1. ConnectionInv'
      BY <1>1, <2>1, <2>2, <2>5, WrittenIInv
    <3>2. toService' \in Seq(Request)
      BY <2>2, <2>5, AppendProperties DEF IInv, TypeOK
    <3>3. TypeOK'
      BY <1>1, <2>3, <2>5, <3>2, BoundsAssumption DEF IInv, TypeOK
    <3>4. HelloBookkeeping'
      BY <1>1, <2>1, <2>5
         DEF IInv, TypeOK, TableInv, TableBookkeeping, HelloBookkeeping,
             NextRequestId
    <3> QED
      BY <2>2, <3>1, <3>3, <3>4 DEF IInv
  <2> QED
    BY <1>3, <2>4, <2>5 DEF Send
<1> QED
  BY <1>2, <1>3 DEF SendRequest

\* authenticate(): the connected socket gets the hello, or fails.
LEMMA AuthenticateIInv == ASSUME IInv, Authenticate PROVE IInv'
<1> DEFINE hello == [id |-> NextRequestId, method |-> "hello"]
<1>1. /\ socket = "Connecting" /\ state = "Connecting" /\ pendingRequests = {}
      /\ toService = <<>> /\ held = {} /\ toClient = <<>> /\ failures = 0
      /\ ~overwritten /\ requestSequence < MaxRequestIds /\ requestSequence' = requestSequence + 1
      /\ UNCHANGED <<configurationValid, accepted, firstRequest, overwritten,
                     connections, delivered>>
  BY DEF Authenticate, history, IInv, ConnectionInv, SocketBookkeeping,
         HelloBookkeeping, NotYetFailed
<1>2. RoomLeft
  <2>1. Cardinality(pendingRequests) = 0
    BY <1>1, FS_EmptySet
  <2> QED
    BY <2>1, PendingAssumption DEF RoomLeft
<1>3. NextRequestId \in Ids /\ hello \in Request
  BY <1>1, BoundsAssumption DEF IInv, TypeOK, NextRequestId, Request, Methods, Ids
<1>4. CASE helloRequestId' = 0 /\ Fail /\ UNCHANGED pendingRequests
  <2>1. /\ ConnectionInv' /\ HelloBookkeeping'
        /\ state' = "Failed" /\ socket' = "Unconnected" /\ failures' \in {1, 2}
        /\ toService' = <<>> /\ held' = {} /\ toClient' = <<>>
    BY <1>1, <1>4, FailedConnection
  <2>2. TypeOK'
    BY <1>1, <1>4, <2>1, EmptyQueues, BoundsAssumption DEF IInv, TypeOK, FailuresCap
  <2>3. TableInv'
    BY <1>1, <1>4, TableShrinks DEF IInv, TypeOK
  <2> QED
    BY <2>1, <2>2, <2>3 DEF IInv
<1>5. CASE /\ helloRequestId' = hello.id
           /\ pendingRequests' = pendingRequests \cup {hello} /\ Fail
  <2>1. /\ ConnectionInv' /\ HelloBookkeeping'
        /\ state' = "Failed" /\ socket' = "Unconnected" /\ failures' \in {1, 2}
        /\ toService' = <<>> /\ held' = {} /\ toClient' = <<>>
    BY <1>1, <1>5, FailedConnection
  <2>2. helloRequestId' \in 0 .. MaxRequestIds
    BY <1>3, <1>5 DEF Ids
  <2>3. TypeOK'
    BY <1>1, <1>3, <1>5, <2>1, <2>2, EmptyQueues, BoundsAssumption
       DEF IInv, TypeOK, FailuresCap
  <2>4. TableInv'
    BY <1>1, <1>2, <1>5, TableGrows DEF Methods
  <2> QED
    BY <2>1, <2>3, <2>4 DEF IInv
<1>6. CASE /\ helloRequestId' = hello.id
           /\ pendingRequests' = pendingRequests \cup {hello}
           /\ toService' = Append(toService, hello)
           /\ state' = "Authenticating" /\ socket' = "Connected"
           /\ UNCHANGED <<held, toClient, failures>>
  <2>1. helloRequestId' \in 0 .. MaxRequestIds
    BY <1>3, <1>6 DEF Ids
  <2>2. toService' \in Seq(Request) /\ Elements(toService') = {hello}
    <3>1. toService \in Seq(Request) /\ Elements(toService) = {}
      BY <1>1, EmptyQueues, ElementsOfEmpty
    <3>2. toService' \in Seq(Request)
      BY <1>3, <1>6, <3>1, AppendProperties
    <3>3. Elements(toService') = Elements(toService) \cup {hello}
      BY <1>3, <1>6, <3>1, ElementsOfAppend
    <3> QED
      BY <3>1, <3>2, <3>3
  <2>3. TypeOK'
    BY <1>1, <1>3, <1>6, <2>1, <2>2, BoundsAssumption DEF IInv, TypeOK
  <2>4. TableInv'
    BY <1>1, <1>2, <1>6, TableGrows DEF Methods
  <2>5. HelloBookkeeping'
    BY <1>1, <1>6 DEF HelloBookkeeping
  <2>6. ConnectionInv'
    <3>1. NothingLost'
      BY <1>1, <1>6, <2>2 DEF NothingLost
    <3>2. AuthenticatedFirst'
      BY <1>1, <1>6, <2>2 DEF AuthenticatedFirst
    <3>3. AcceptanceGiven'
      BY <1>1, <1>6, ElementsOfEmpty DEF AcceptanceGiven, Responses
    <3>4. FailsOnce' /\ SocketBookkeeping' /\ NotYetFailed'
      BY <1>1, <1>6 DEF FailsOnce, SocketBookkeeping, NotYetFailed
    <3> QED
      BY <3>1, <3>2, <3>3, <3>4 DEF ConnectionInv
  <2> QED
    BY <2>3, <2>4, <2>5, <2>6 DEF IInv
<1> QED
  BY <1>4, <1>5, <1>6 DEF Authenticate

\* errorOccurred: the connection fails and the table stays.
LEMMA SocketErrorIInv == ASSUME IInv, SocketError PROVE IInv'
<1>1. /\ socket # "Unconnected" /\ Fail
      /\ UNCHANGED <<pendingRequests, helloRequestId, requestSequence,
                     configurationValid, accepted, firstRequest, overwritten,
                     connections, delivered>>
  BY DEF SocketError, history
<1>2. /\ ConnectionInv' /\ HelloBookkeeping'
      /\ state' = "Failed" /\ socket' = "Unconnected" /\ failures' \in {1, 2}
      /\ toService' = <<>> /\ held' = {} /\ toClient' = <<>>
  BY <1>1, FailedConnection
<1>3. TypeOK'
  BY <1>1, <1>2, EmptyQueues DEF IInv, TypeOK, FailuresCap
<1>4. TableInv'
  BY <1>1, TableShrinks DEF IInv, TypeOK, TableInv, TableBookkeeping
<1> QED
  BY <1>2, <1>3, <1>4 DEF IInv

\* disconnected: the connection ends and the table stays.
LEMMA SocketDisconnectedIInv == ASSUME IInv, SocketDisconnected PROVE IInv'
<1>1. /\ state' = "Disconnected" /\ Abort
      /\ UNCHANGED <<pendingRequests, helloRequestId, requestSequence,
                     configurationValid, accepted, firstRequest, overwritten, connections,
                     failures, delivered>>
  BY DEF SocketDisconnected, history
<1>2. TypeOK'
  BY <1>1, EmptyQueues DEF IInv, TypeOK, Abort
<1>3. TableInv'
  BY <1>1, TableShrinks DEF IInv, TypeOK, TableInv, TableBookkeeping
<1>4. ConnectionInv'
  BY <1>1, AbortedConnection DEF IInv, TypeOK, ConnectionInv, FailsOnce
<1> QED
  BY <1>1, <1>2, <1>3, <1>4 DEF IInv, HelloBookkeeping

\* The frame at the head of the connection, and the connection while it is read.
LEMMA FrameArrived ==
    ASSUME IInv, toClient # <<>>
    PROVE  /\ state \in {"Authenticating", "Ready", "Closing"}
           /\ socket = "Connected" \/ (socket = "Unconnected" /\ state = "Closing")
           /\ Head(toClient) \in Frame /\ Tail(toClient) \in Seq(Frame)
           /\ Elements(toClient) = Elements(Tail(toClient)) \cup {Head(toClient)}
<1>1. toClient \in Seq(Frame)
  BY DEF IInv, TypeOK
<1> QED
  BY <1>1, ElementsOfTail DEF IInv, TypeOK, ConnectionInv, SocketBookkeeping

\* Whose answer it is: in the handshake the hello's, later never the hello's.
LEMMA AnswerOf ==
    ASSUME IInv, toClient # <<>>, NEW request \in pendingRequests
    PROVE  /\ state \in {"Authenticating", "Ready", "Closing"}
           /\ state = "Authenticating" =>
                request.id = helloRequestId /\ request.method = "hello"
           /\ state # "Authenticating" =>
                request.id # helloRequestId /\ request.method # "hello"
           /\ \A r \in pendingRequests \ {request} : r.id # request.id
<1> QED
  BY FrameArrived DEF IInv, HelloBookkeeping, TableInv, TableBookkeeping

\* Taking a frame, with the request it answers if it is a response, loses nothing.
LEMMA TakenFrame ==
    ASSUME IInv, toClient # <<>>, toClient' = Tail(toClient),
           \/ Head(toClient).kind # "response" /\ pendingRequests' = pendingRequests
           \/ \E request \in pendingRequests :
                /\ request.id = Head(toClient).id
                /\ pendingRequests' = pendingRequests \ {request},
           state' \in {"Authenticating", "Ready", "Closing"},
           state' = "Ready" => state = "Ready" \/ accepted,
           state = "Closing" => state' = "Closing",
           UNCHANGED <<socket, toService, held, failures, accepted, overwritten>>
    PROVE  ConnectionInv'
<1> DEFINE frame == Head(toClient)
<1>1. /\ socket = "Connected" \/ (socket = "Unconnected" /\ state = "Closing")
      /\ Elements(toClient) = Elements(toClient') \cup {frame}
  BY FrameArrived
<1>2. IdsOf(pendingRequests') \subseteq IdsOf(pendingRequests)
  BY DEF IdsOf
<1>3. frame.kind = "response" => frame.id \notin IdsOf(pendingRequests')
  BY AnswerOf DEF IdsOf
<1>4. /\ Responses' \subseteq Responses
      /\ \A f \in Responses : f \in Responses' \/ (f = frame /\ frame.kind = "response")
  BY <1>1 DEF Responses
<1>5. NothingLost'
  <2> SUFFICES ASSUME socket = "Connected" PROVE NothingLost'
    BY DEF NothingLost
  <2>1. \A id \in IdsOf(pendingRequests') :
          \/ id \in IdsOf(Elements(toService)) \cup IdsOf(held)
          \/ \E f \in Responses : f.id = id
    BY <1>1, <1>2 DEF IInv, ConnectionInv, NothingLost, IdsOf
  <2>2. \A id \in IdsOf(pendingRequests') :
          (\E f \in Responses : f.id = id) => id \in IdsOf(Responses')
    BY <1>3, <1>4 DEF IdsOf
  <2> QED
    BY <2>1, <2>2 DEF NothingLost
<1>6. AuthenticatedFirst'
  BY <1>1 DEF IInv, ConnectionInv, AuthenticatedFirst
<1>7. AcceptanceGiven'
  BY <1>4 DEF IInv, ConnectionInv, AcceptanceGiven
<1>8. SocketBookkeeping' /\ FailsOnce' /\ NotYetFailed'
  BY <1>1 DEF IInv, ConnectionInv, SocketBookkeeping, FailsOnce, NotYetFailed
<1> QED
  BY <1>5, <1>6, <1>7, <1>8 DEF ConnectionInv

\* processInput() takes one frame: it fails the connection, or passes a binary frame
\* by, or answers a request.
LEMMA ProcessInputIInv == ASSUME IInv, ProcessInput PROVE IInv'
<1> DEFINE frame == Head(toClient)
<1>1. /\ toClient # <<>> /\ Tail(toClient) \in Seq(Frame)
      /\ state \in {"Authenticating", "Ready", "Closing"}
      /\ UNCHANGED <<helloRequestId, requestSequence, configurationValid,
                     accepted, firstRequest, overwritten, connections>>
  BY FrameArrived DEF ProcessInput, history
<1>2. requestSequence' \in Nat /\ requestSequence' >= requestSequence
      /\ helloRequestId' \in Nat /\ helloRequestId' <= requestSequence'
  BY <1>1 DEF IInv, TypeOK, TableInv, TableBookkeeping
<1>3. CASE Fail /\ delivered' = delivered /\ pendingRequests' \subseteq pendingRequests
  <2>1. /\ ConnectionInv' /\ HelloBookkeeping'
        /\ state' = "Failed" /\ socket' = "Unconnected" /\ failures' \in {1, 2}
        /\ toService' = <<>> /\ held' = {} /\ toClient' = <<>>
    BY <1>1, <1>3, FailedConnection
  <2>2. TypeOK'
    BY <1>1, <1>3, <2>1, EmptyQueues DEF IInv, TypeOK, FailuresCap
  <2>3. TableInv'
    BY <1>1, <1>2, <1>3, TableShrinks
  <2> QED
    BY <2>1, <2>2, <2>3 DEF IInv
<1>4. CASE /\ frame.kind = "binary" /\ toClient' = Tail(toClient)
           /\ UNCHANGED <<state, pendingRequests, socket, toService, held,
                          failures, delivered>>
  <2>1. TypeOK'
    BY <1>1, <1>4 DEF IInv, TypeOK
  <2>2. TableInv'
    BY <1>1, <1>2, <1>4, TableShrinks
  <2>3. ConnectionInv'
    <3>1. /\ state' \in {"Authenticating", "Ready", "Closing"}
          /\ state' = "Ready" => state = "Ready" \/ accepted
      BY <1>1, <1>4 DEF IInv, ConnectionInv, SocketBookkeeping
    <3> QED
      BY <1>1, <1>4, <3>1, TakenFrame
  <2> QED
    BY <1>1, <1>4, <2>1, <2>2, <2>3 DEF IInv, HelloBookkeeping
<1>5. ASSUME NEW request \in pendingRequests, frame.kind = "response",
             request.id = frame.id, ProcessResponse(frame, request)
      PROVE  IInv'
  <2>1. pendingRequests' = pendingRequests \ {request}
    BY <1>5 DEF ProcessResponse, TakePending
  <2>2. CASE Fail /\ UNCHANGED delivered
    BY <1>3, <2>1, <2>2
  <2>3. CASE /\ request.id = helloRequestId /\ Authentic(frame.answer)
             /\ state' = "Ready" /\ toClient' = Tail(toClient)
             /\ UNCHANGED <<socket, toService, held, failures, delivered>>
    <3>1. accepted
      BY <1>1, <1>5, <2>3, FrameArrived
         DEF Authentic, Responses, IInv, ConnectionInv, AcceptanceGiven
    <3>2. pendingRequests' = {}
      BY <1>1, <2>1, <2>3, AnswerOf DEF IInv, HelloBookkeeping
    <3>3. TypeOK'
      BY <1>1, <2>3, <3>2 DEF IInv, TypeOK
    <3>4. TableInv'
      BY <1>1, <1>2, <2>1, <2>3, TableShrinks
    <3>5. ConnectionInv'
      <4>1. state = "Authenticating"
        BY <1>1, <2>3, AnswerOf
      <4> QED
        BY <1>1, <1>5, <2>1, <2>3, <3>1, <4>1, TakenFrame
    <3> QED
      BY <2>3, <3>2, <3>3, <3>4, <3>5 DEF IInv, HelloBookkeeping
  <2>4. CASE /\ request.id # helloRequestId
             /\ Deliver(request)
             /\ state' = IF request.method = "shutdown" /\ frame.answer = "ok"
                         THEN "Closing" ELSE state
             /\ toClient' = Tail(toClient)
             /\ UNCHANGED <<socket, toService, held, failures>>
    <3>1. state \in {"Ready", "Closing"} /\ state' \in {state, "Closing"}
      BY <1>1, <2>4, AnswerOf
    <3>2. TableInv' /\ delivered' \in [Ids -> 0 .. DeliveredCap]
      BY <1>1, <2>1, <2>4, TableAnswers
    <3>3. TypeOK'
      BY <1>1, <2>1, <2>4, <3>1, <3>2 DEF IInv, TypeOK
    <3>4. ConnectionInv'
      BY <1>1, <1>5, <2>1, <2>4, <3>1, TakenFrame
    <3>5. HelloBookkeeping'
      BY <1>1, <2>1, <3>1 DEF IInv, HelloBookkeeping
    <3> QED
      BY <3>2, <3>3, <3>4, <3>5 DEF IInv
  <2> QED
    BY <1>5, <2>2, <2>3, <2>4 DEF ProcessResponse
<1> QED
  BY <1>3, <1>4, <1>5 DEF ProcessInput

\* The slot that receives the answer to a shutdown may close the client: the answer
\* counts, the connection is gone and the state is Closing.
LEMMA CloseDuringShutdownReplyIInv ==
    ASSUME IInv, CloseDuringShutdownReply PROVE IInv'
<1>1. PICK request \in pendingRequests :
        Deliver(request)
  BY DEF CloseDuringShutdownReply
<1>2. /\ state' = "Closing" /\ Abort /\ pendingRequests' = {}
      /\ UNCHANGED <<helloRequestId, requestSequence, configurationValid,
                     accepted, firstRequest, overwritten, connections, failures>>
  BY DEF CloseDuringShutdownReply, ForgetRequests, history
<1>3. TableInv' /\ delivered' \in [Ids -> 0 .. DeliveredCap]
  BY <1>1, <1>2, TableAnswers
<1>4. TypeOK'
  BY <1>2, <1>3, EmptyQueues DEF IInv, TypeOK, Abort
<1>5. ConnectionInv'
  BY <1>2, AbortedConnection DEF IInv, TypeOK, ConnectionInv, FailsOnce
<1> QED
  BY <1>2, <1>3, <1>4, <1>5 DEF IInv, HelloBookkeeping

\* The slot may send another request: it takes the room of the answered one.
LEMMA SendDuringShutdownReplyIInv ==
    ASSUME IInv, NEW method \in {"shutdown", "other"},
           SendDuringShutdownReply(method)
    PROVE  IInv'
<1> DEFINE next == [id |-> NextRequestId, method |-> method]
<1>1. PICK request \in pendingRequests :
        /\ ShutdownAnswered(request) /\ Deliver(request)
        /\ \/ /\ pendingRequests' = (pendingRequests \ {request}) \cup {next}
              /\ toService' = Append(toService, next)
           \/ TakePending(request) /\ UNCHANGED toService
  BY DEF SendDuringShutdownReply
<1>2. /\ state = "Ready" /\ state' = "Closing"
      /\ requestSequence < MaxRequestIds /\ requestSequence' = requestSequence + 1
      /\ toClient' = Tail(toClient)
      /\ UNCHANGED <<helloRequestId, configurationValid, socket, held, accepted,
                     firstRequest, overwritten, connections, failures>>
  BY DEF SendDuringShutdownReply, CanSend, history
<1>3. socket = "Connected" /\ accepted
  BY <1>2 DEF IInv, ConnectionInv, AuthenticatedFirst
<1>4. /\ toClient # <<>> /\ request.id = Head(toClient).id
      /\ Head(toClient).kind = "response"
  BY <1>1 DEF ShutdownAnswered
<1>5. pendingRequests' \subseteq (pendingRequests \ {request}) \cup {next}
  BY <1>1 DEF TakePending
<1>6. /\ TableInv' /\ delivered' \in [Ids -> 0 .. DeliveredCap] /\ next \in Request
      /\ requestSequence' \in 0 .. MaxRequestIds
  BY <1>1, <1>2, <1>5, TableReplaces DEF Methods
<1>7. /\ toService' \in Seq(Request)
      /\ Elements(toService) \subseteq Elements(toService')
      /\ \A r \in Elements(toService') : r \in Elements(toService) \/ r = next
      /\ next \in pendingRequests' \ pendingRequests => next \in Elements(toService')
  <2>1. toService \in Seq(Request)
    BY DEF IInv, TypeOK
  <2>2. CASE toService' = Append(toService, next)
    <3>1. /\ toService' \in Seq(Request)
          /\ Elements(toService') = Elements(toService) \cup {next}
      BY <1>6, <2>1, <2>2, AppendProperties, ElementsOfAppend
    <3> QED
      BY <3>1
  <2>3. CASE TakePending(request) /\ UNCHANGED toService
    BY <2>1, <2>3 DEF TakePending
  <2> QED
    BY <1>1, <2>2, <2>3
<1>8. TypeOK'
  BY <1>2, <1>4, <1>5, <1>6, <1>7, FrameArrived DEF IInv, TypeOK
<1>9. HelloBookkeeping'
  BY <1>2, <1>5 DEF IInv, TypeOK, HelloBookkeeping, TableInv, TableBookkeeping,
                    NextRequestId
<1>10. ConnectionInv'
  <2>1. /\ Elements(toClient) = Elements(toClient') \cup {Head(toClient)}
    BY <1>2, <1>4, FrameArrived
  <2>2. NothingLost'
    <3> SUFFICES ASSUME NEW r \in pendingRequests'
                 PROVE  r.id \in IdsOf(Elements(toService')) \cup IdsOf(held')
                                   \cup IdsOf(Responses')
      BY DEF NothingLost, IdsOf
    <3>1. CASE r \notin pendingRequests
      BY <1>5, <1>7, <3>1 DEF IdsOf
    <3>2. CASE r \in pendingRequests
      <4>1. r # request /\ r.id # Head(toClient).id
        <5>1. next \notin pendingRequests
          BY DEF IInv, TypeOK, Request, Ids, TableInv, TableBookkeeping, NextRequestId
        <5>2. r # request
          BY <1>5, <3>2, <5>1
        <5> QED
          BY <1>4, <3>2, <5>2, AnswerOf
      <4>2. r.id \in IdsOf(Elements(toService)) \cup IdsOf(held) \cup IdsOf(Responses)
        BY <1>3, <3>2 DEF IInv, ConnectionInv, NothingLost, IdsOf
      <4>3. r.id \in IdsOf(Responses) => r.id \in IdsOf(Responses')
        BY <2>1, <4>1 DEF Responses, IdsOf
      <4> QED
        BY <1>2, <1>7, <4>2, <4>3 DEF IdsOf
    <3> QED
      BY <3>1, <3>2
  <2>3. AuthenticatedFirst'
    BY <1>2, <1>3 DEF AuthenticatedFirst
  <2>4. AcceptanceGiven'
    BY <1>2, <1>3 DEF AcceptanceGiven
  <2>5. FailsOnce' /\ SocketBookkeeping' /\ NotYetFailed'
    BY <1>2, <1>3 DEF IInv, ConnectionInv, FailsOnce, SocketBookkeeping, NotYetFailed
  <2> QED
    BY <2>2, <2>3, <2>4, <2>5 DEF ConnectionInv
<1> QED
  BY <1>6, <1>8, <1>9, <1>10 DEF IInv

\* Its write may fail: the connection has failed once, and what was read with the answer
\* is still to be processed.
LEMMA FailDuringShutdownReplyIInv ==
    ASSUME IInv, NEW method \in {"shutdown", "other"},
           FailDuringShutdownReply(method)
    PROVE  IInv'
<1> DEFINE next == [id |-> NextRequestId, method |-> method]
<1>1. PICK request \in pendingRequests :
        /\ ShutdownAnswered(request) /\ Deliver(request)
        /\ \/ /\ pendingRequests' = (pendingRequests \ {request}) \cup {next}
              /\ \E last \in 1 .. Len(toClient) : toClient' = SubSeq(toClient, 2, last)
           \/ ForgetRequests /\ toClient' = <<>>
  BY DEF FailDuringShutdownReply
<1>2. /\ state = "Ready" /\ state' = "Closing" /\ overwritten' = TRUE
      /\ requestSequence < MaxRequestIds /\ requestSequence' = requestSequence + 1
      /\ socket' = "Unconnected" /\ toService' = <<>> /\ held' = {}
      /\ UNCHANGED <<helloRequestId, configurationValid, accepted, firstRequest,
                     connections>>
  BY DEF FailDuringShutdownReply, CanSend
<1>3. socket = "Connected" /\ accepted /\ failures' = 1
  BY <1>2 DEF IInv, ConnectionInv, AuthenticatedFirst, NotYetFailed,
              FailDuringShutdownReply, FailuresCap
<1>4. pendingRequests' \subseteq (pendingRequests \ {request}) \cup {next}
  BY <1>1 DEF ForgetRequests
<1>5. /\ TableInv' /\ delivered' \in [Ids -> 0 .. DeliveredCap] /\ next \in Request
      /\ requestSequence' \in 0 .. MaxRequestIds
  BY <1>1, <1>2, <1>4, TableReplaces DEF Methods
<1>6. toClient' \in Seq(Frame)
  <2>1. ASSUME NEW last \in 1 .. Len(toClient), toClient' = SubSeq(toClient, 2, last)
        PROVE  toClient' \in Seq(Frame)
    <3>1. toClient \in Seq(Frame) /\ Len(toClient) \in Nat
      BY LenProperties DEF IInv, TypeOK
    <3>2. \A i \in 2 .. last : toClient[i] \in Frame
      BY <3>1, ElementOfSeq
    <3> QED
      BY <2>1, <3>1, <3>2, SubSeqProperties
  <2> QED
    BY <1>1, <2>1, EmptyQueues
<1>7. TypeOK'
  BY <1>2, <1>3, <1>4, <1>5, <1>6, EmptyQueues DEF IInv, TypeOK, FailuresCap
<1>8. HelloBookkeeping'
  BY <1>2, <1>4 DEF IInv, TypeOK, HelloBookkeeping, TableInv, TableBookkeeping,
                    NextRequestId
<1>9. ConnectionInv'
  BY <1>2, <1>3, ElementsOfEmpty
     DEF ConnectionInv, NothingLost, AuthenticatedFirst, FailsOnce,
         SocketBookkeeping, AcceptanceGiven, NotYetFailed
<1> QED
  BY <1>5, <1>7, <1>8, <1>9 DEF IInv

\* What the service does leaves the client's members alone.
LEMMA ClientKept ==
    ASSUME IInv, ClientUnchanged
    PROVE  TableInv' /\ HelloBookkeeping'
BY DEF IInv, ClientUnchanged, members, TableInv, PendingBound, PendingIsCurrent,
       AnsweredOnce, TableBookkeeping, HelloBookkeeping

\* The service reads a request.
LEMMA ServiceReceivesIInv == ASSUME IInv, ServiceReceives PROVE IInv'
<1>1. /\ toService # <<>> /\ held' = held \cup {Head(toService)}
      /\ toService' = Tail(toService)
      /\ UNCHANGED <<toClient, accepted>> /\ ClientUnchanged
  BY DEF ServiceReceives
<1>2. /\ Elements(toService) = Elements(toService') \cup {Head(toService)}
      /\ Head(toService) \in Request /\ toService' \in Seq(Request)
  BY <1>1, ElementsOfTail DEF IInv, TypeOK
<1>3. TypeOK'
  BY <1>1, <1>2 DEF IInv, TypeOK, ClientUnchanged, members
<1>4. NothingLost'
  <2>1. /\ IdsOf(Elements(toService)) =
             IdsOf(Elements(toService')) \cup IdsOf({Head(toService)})
        /\ IdsOf(held') = IdsOf(held) \cup IdsOf({Head(toService)})
    BY <1>1, <1>2, IdsOfUnion
  <2>2. Responses' = Responses /\ pendingRequests' = pendingRequests /\ socket' = socket
    BY <1>1 DEF Responses, ClientUnchanged, members
  <2> QED
    BY <2>1, <2>2 DEF IInv, ConnectionInv, NothingLost
<1>5. AuthenticatedFirst' /\ AcceptanceGiven'
  BY <1>1, <1>2 DEF IInv, ConnectionInv, AuthenticatedFirst, AcceptanceGiven,
                    Responses, ClientUnchanged, members
<1>6. FailsOnce' /\ SocketBookkeeping' /\ NotYetFailed'
  BY <1>1 DEF IInv, ConnectionInv, FailsOnce, SocketBookkeeping, NotYetFailed,
              ClientUnchanged, members
<1> QED
  BY <1>1, <1>3, <1>4, <1>5, <1>6, ClientKept DEF IInv, ConnectionInv

\* The service posts a frame, which may answer a request it holds.
LEMMA PostedIInv ==
    ASSUME IInv, socket = "Connected", NEW frame \in Frame, Post(frame),
           held' \subseteq held,
           \A r \in held \ held' : frame.kind = "response" /\ frame.id = r.id,
           accepted' \in BOOLEAN, accepted => accepted',
           frame.kind = "response" /\ frame.answer = "accept" => accepted',
           toService' = toService, ClientUnchanged
    PROVE  IInv'
<1>1. /\ toClient' = Append(toClient, frame) /\ toClient' \in Seq(Frame)
      /\ Elements(toClient') = Elements(toClient) \cup {frame}
  BY AppendProperties, ElementsOfAppend DEF IInv, TypeOK, Post
<1>2. TypeOK'
  BY <1>1 DEF IInv, TypeOK, ClientUnchanged, members
<1>3. /\ Responses \subseteq Responses'
      /\ \A f \in Responses' : f \in Responses \/ (f = frame /\ f.kind = "response")
      /\ frame.kind = "response" => frame \in Responses'
  BY <1>1 DEF Responses
<1>4. NothingLost'
  <2>1. IdsOf(held) \subseteq IdsOf(held') \cup IdsOf(Responses')
    BY <1>3 DEF IdsOf
  <2>2. IdsOf(Responses) \subseteq IdsOf(Responses')
    BY <1>3 DEF IdsOf
  <2>3. pendingRequests' = pendingRequests /\ socket' = socket
    BY DEF ClientUnchanged, members
  <2> QED
    BY <2>1, <2>2, <2>3 DEF IInv, ConnectionInv, NothingLost
<1>5. AuthenticatedFirst'
  BY DEF IInv, ConnectionInv, AuthenticatedFirst, ClientUnchanged, members
<1>6. AcceptanceGiven'
  BY <1>3 DEF IInv, ConnectionInv, AcceptanceGiven
<1>7. FailsOnce' /\ SocketBookkeeping' /\ NotYetFailed'
  BY DEF IInv, ConnectionInv, FailsOnce, SocketBookkeeping, NotYetFailed,
         ClientUnchanged, members
<1> QED
  BY <1>2, <1>4, <1>5, <1>6, <1>7, ClientKept DEF IInv, ConnectionInv

\* The service answers a request it holds.
LEMMA ServiceAnswersIInv == ASSUME IInv, ServiceAnswers PROVE IInv'
<1>1. PICK request \in held :
        /\ held' = held \ {request}
        /\ \E answer \in Answers :
             /\ Post(Response(request, answer))
             /\ accepted' = (accepted \/ answer = "accept")
        /\ UNCHANGED toService /\ ClientUnchanged
  BY DEF ServiceAnswers
<1>2. PICK answer \in Answers :
        /\ Post(Response(request, answer))
        /\ accepted' = (accepted \/ answer = "accept")
  BY <1>1
<1>3. socket = "Connected" /\ accepted \in BOOLEAN /\ request.id \in Ids
  BY DEF IInv, TypeOK, Request, ConnectionInv, SocketBookkeeping
<1>4. /\ Response(request, answer) \in Frame
      /\ Response(request, answer).id = request.id
      /\ Response(request, answer).kind = "response"
      /\ Response(request, answer).answer = answer
  BY <1>3 DEF Response, Frame
<1>5. accepted' \in BOOLEAN /\ (accepted => accepted') /\ (answer = "accept" => accepted')
  BY <1>2, <1>3
<1> QED
  BY <1>1, <1>2, <1>3, <1>4, <1>5, PostedIInv

\* The service sends what nobody asked for.
LEMMA ServiceSendsIInv ==
    ASSUME IInv, ServiceSendsBinary \/ ServiceMisbehaves PROVE IInv'
<1>1. /\ socket = "Connected" /\ UNCHANGED <<toService, held, accepted>>
      /\ ClientUnchanged
  BY DEF ServiceSendsBinary, ServiceMisbehaves
<1>2. PICK frame \in Frame :
        Post(frame) /\ (frame.kind = "response" => frame.answer # "accept")
  <2>1. CASE ServiceSendsBinary
    BY <2>1 DEF ServiceSendsBinary, Frame
  <2>2. CASE Post([kind |-> "garbage"])
    BY <2>2 DEF Frame
  <2>3. CASE \E id \in 1 .. requestSequence :
               Post([kind |-> "response", id |-> id, answer |-> "ok"])
    <3>1. 1 .. requestSequence \subseteq Ids
      BY BoundsAssumption DEF IInv, TypeOK, Ids
    <3>2. PICK id \in Ids : Post([kind |-> "response", id |-> id, answer |-> "ok"])
      BY <2>3, <3>1
    <3> QED
      BY <3>2 DEF Frame, Answers
  <2> QED
    BY <2>1, <2>2, <2>3 DEF ServiceMisbehaves
<1>3. accepted \in BOOLEAN
  BY DEF IInv, TypeOK
<1> QED
  BY <1>1, <1>2, <1>3, PostedIInv

\* The invariant is preserved by every step.
LEMMA NextIInv == ASSUME IInv, [Next]_vars PROVE IInv'
<1>1. CASE Next
  BY <1>1, ConnectToServiceIInv, CloseIInv, SendRequestIInv, AuthenticateIInv,
     SocketErrorIInv, SocketDisconnectedIInv, ProcessInputIInv,
     CloseDuringShutdownReplyIInv, SendDuringShutdownReplyIInv,
     FailDuringShutdownReplyIInv, ServiceReceivesIInv, ServiceAnswersIInv,
     ServiceSendsIInv
     DEF Next
<1>2. CASE UNCHANGED vars
  BY <1>2 DEF vars, members, conversation, history, IInv, TypeOK, TableInv,
              PendingBound, PendingIsCurrent, AnsweredOnce, TableBookkeeping,
              HelloBookkeeping, ConnectionInv, NothingLost, AuthenticatedFirst,
              FailsOnce, SocketBookkeeping, AcceptanceGiven, NotYetFailed,
              Responses
<1> QED
  BY <1>1, <1>2

-----------------------------------------------------------------------------
(* The invariants *)

\* The inductive invariant holds in every reachable state.
LEMMA Invariance == Spec => []IInv
<1>1. Init => IInv
  BY InitIInv
<1>2. IInv /\ [Next]_vars => IInv'
  BY NextIInv
<1> QED
  BY <1>1, <1>2, PTL DEF Spec

\* The members, the connection and the history keep their types.
THEOREM TypeCorrect == Spec => []TypeOK
<1>1. IInv => TypeOK
  BY DEF IInv
<1> QED
  BY <1>1, Invariance, PTL

\* The table never exceeds maxPendingRequests, the hello included
\* (service_client.cpp:182).
THEOREM PendingBoundHolds == Spec => []PendingBound
<1>1. IInv => PendingBound
  BY DEF IInv, TableInv
<1> QED
  BY <1>1, Invariance, PTL

\* While the connection lasts no request is pending of which nothing is on its way.
THEOREM NothingLostHolds == Spec => []NothingLost
<1>1. IInv => NothingLost
  BY DEF IInv, ConnectionInv
<1> QED
  BY <1>1, Invariance, PTL

\* No request of an earlier connection is in the table (service_client.cpp:106).
THEOREM PendingIsCurrentHolds == Spec => []PendingIsCurrent
<1>1. IInv => PendingIsCurrent
  BY DEF IInv, TableInv
<1> QED
  BY <1>1, Invariance, PTL

\* Before this connection is accepted nothing but the hello leaves the client
\* (service_client.cpp:181-184, 306-351).
THEOREM AuthenticatedFirstHolds == Spec => []AuthenticatedFirst
<1>1. IInv => AuthenticatedFirst
  BY DEF IInv, ConnectionInv
<1> QED
  BY <1>1, Invariance, PTL

\* No request is answered twice to the application, whatever the service repeats
\* (service_client.cpp:250-259).
THEOREM AnsweredOnceHolds == Spec => []AnsweredOnce
<1>1. IInv => AnsweredOnce
  BY DEF IInv, TableInv
<1> QED
  BY <1>1, Invariance, PTL

\* A connection fails once, and once more only after an answered shutdown has overwritten
\* its failure (service_client.cpp:151-159, 231-233, 290-292).
THEOREM FailsOnceHolds == Spec => []FailsOnce
<1>1. IInv => FailsOnce
  BY DEF IInv, ConnectionInv
<1> QED
  BY <1>1, Invariance, PTL

-----------------------------------------------------------------------------
(* ServiceClient implements the conversation *)

\* What the application sees of the table and of the answers.
Outstanding == IdsOf({r \in pendingRequests : r.method # "hello"})
Answered == {id \in Ids : delivered[id] > 0}

\* No request the application waits for was answered.
LEMMA OutstandingUnanswered ==
    ASSUME IInv, NEW request \in pendingRequests
    PROVE  request.id \in Ids /\ request.id \notin Answered
BY DEF IInv, TypeOK, Request, TableInv, TableBookkeeping, Answered

\* An answer to a request takes its ID, and no other, to the answered ones.
LEMMA AnswerCounts ==
    ASSUME IInv, NEW request \in pendingRequests,
           Deliver(request)
    PROVE  Answered' = Answered \cup {request.id}
<1>1. request.id \in Ids /\ delivered[request.id] = 0
  BY DEF IInv, TypeOK, Request, TableInv, TableBookkeeping
<1>2. /\ delivered'[request.id] = 1
      /\ \A id \in Ids : id # request.id => delivered'[id] = delivered[id]
  BY <1>1 DEF IInv, TypeOK, Deliver, DeliveredCap
<1> QED
  BY <1>1, <1>2 DEF Answered

\* Failures, and the steps of the socket, are steps of a conversation.
LEMMA FailFails ==
    ASSUME state' = "Failed", UNCHANGED <<pendingRequests, delivered>>
    PROVE  Conversation!Fail
BY DEF Conversation!Fail

\* connectToService() connects, or fails when the configuration is not valid.
LEMMA ConnectToServiceConnects ==
    ASSUME IInv, ConnectToService PROVE Conversation!Connect \/ Conversation!Fail
<1>1. CASE ~configurationValid
  BY <1>1, FailFails DEF ConnectToService, Failed
<1>2. CASE configurationValid
  <2>1. /\ state \in {"Disconnected", "Failed"} /\ state' = "Connecting"
        /\ pendingRequests' = {} /\ delivered' = delivered
    BY <1>2 DEF ConnectToService, ForgetRequests
  <2> QED
    BY <2>1 DEF Conversation!Connect, IdsOf
<1> QED
  BY <1>1, <1>2

\* close() ends the conversation, with nothing outstanding.
LEMMA CloseEnds == ASSUME Close PROVE Conversation!End
BY DEF Close, ForgetRequests, Conversation!End, IdsOf

\* sendRequest() asks, also when the write fails; a request that is not encoded was
\* never asked.
LEMMA SendRequestAsks ==
    ASSUME IInv, NEW method \in {"shutdown", "other"}, SendRequest(method)
    PROVE  (\E id \in Ids : Conversation!Ask(id)) \/ UNCHANGED Conversation!vars
<1> DEFINE request == [id |-> NextRequestId, method |-> method]
<1>1. state = "Ready" /\ RoomLeft /\ requestSequence < MaxRequestIds
      /\ delivered' = delivered
  BY DEF SendRequest, CanSend
<1>2. CASE EncodingFails(request)
  BY <1>1, <1>2 DEF EncodingFails, Conversation!vars
<1>3. CASE Send(request, state)
  <2>1. /\ pendingRequests' = pendingRequests \cup {request}
        /\ state' \in {"Ready", "Failed"}
    BY <1>1, <1>3 DEF Send, Fail, Failed
  <2>2. NextRequestId \in Ids
    BY <1>1, BoundsAssumption DEF IInv, TypeOK, NextRequestId, Ids
  <2>3. NextRequestId \notin Outstanding \cup Answered
    <3>1. \A r \in pendingRequests : r.id # NextRequestId
      BY DEF IInv, TypeOK, Request, Ids, TableInv, TableBookkeeping, NextRequestId
    <3>2. delivered[NextRequestId] = 0
      BY <2>2 DEF IInv, TypeOK, TableInv, TableBookkeeping, NextRequestId
    <3> QED
      BY <3>1, <3>2 DEF Outstanding, Answered, IdsOf
  <2>4. Outstanding' = Outstanding \cup {NextRequestId}
    <3>1. {r \in pendingRequests' : r.method # "hello"} =
            {r \in pendingRequests : r.method # "hello"} \cup {request}
      BY <2>1
    <3>2. IdsOf({request}) = {NextRequestId}
      BY DEF IdsOf
    <3> QED
      BY <3>1, <3>2, IdsOfUnion DEF Outstanding
  <2>5. Conversation!Ask(NextRequestId)
    BY <1>1, <2>1, <2>3, <2>4 DEF Outstanding, Answered, Conversation!Ask
  <2> QED
    BY <2>2, <2>5
<1> QED
  BY <1>2, <1>3 DEF SendRequest

\* authenticate() goes on with the handshake, or fails; the hello is no request of
\* the application.
LEMMA AuthenticateShakesHands ==
    ASSUME IInv, Authenticate PROVE Conversation!Handshake \/ Conversation!Fail
<1> DEFINE hello == [id |-> NextRequestId, method |-> "hello"]
<1>1. /\ state = "Connecting" /\ delivered' = delivered
      /\ state' \in {"Authenticating", "Failed"}
      /\ pendingRequests' \in {pendingRequests, pendingRequests \cup {hello}}
  BY DEF Authenticate, Fail, Failed, IInv, ConnectionInv, SocketBookkeeping
<1>2. Outstanding' = Outstanding
  <2>1. {r \in pendingRequests' : r.method # "hello"} =
          {r \in pendingRequests : r.method # "hello"}
    BY <1>1
  <2> QED
    BY <2>1 DEF Outstanding
<1> QED
  BY <1>1, <1>2 DEF Outstanding, Conversation!Handshake, Conversation!Fail

\* An answer to a request of the application is an answer in the conversation, and
\* one to the hello ends the handshake, well or not.
LEMMA ProcessResponseAnswers ==
    ASSUME IInv, toClient # <<>>, NEW frame, NEW request \in pendingRequests,
           ProcessResponse(frame, request)
    PROVE  \/ Conversation!Handshake \/ Conversation!Fail
           \/ \E id \in Ids : Conversation!Answer(id)
<1>1. pendingRequests' = pendingRequests \ {request}
  BY DEF ProcessResponse, TakePending
<1>2. CASE request.id = helloRequestId
  <2>1. state = "Authenticating" /\ request.method = "hello"
    BY <1>2, AnswerOf
  <2>2. delivered' = delivered /\ state' \in {"Failed", "Ready"}
    BY <1>2 DEF ProcessResponse, Fail, Failed
  <2>3. Outstanding' = Outstanding
    BY <1>1, <2>1 DEF Outstanding
  <2> QED
    BY <2>1, <2>2, <2>3
       DEF Outstanding, Conversation!Handshake, Conversation!Fail
<1>3. CASE request.id # helloRequestId
  <2>1. /\ state \in {"Ready", "Closing"} /\ request.method # "hello"
        /\ \A r \in pendingRequests \ {request} : r.id # request.id
    BY <1>3, AnswerOf
  <2>2. /\ state' \in {state, "Closing"}
        /\ Deliver(request)
    BY <1>3 DEF ProcessResponse
  <2>3. request.id \in Outstanding /\ Outstanding' = Outstanding \ {request.id}
    BY <1>1, <2>1 DEF Outstanding, IdsOf
  <2>4. Answered' = Answered \cup {request.id}
    BY <2>2, AnswerCounts
  <2>5. Conversation!Answer(request.id)
    BY <2>1, <2>2, <2>3, <2>4 DEF Outstanding, Answered, Conversation!Answer
  <2> QED
    BY <2>5, OutstandingUnanswered
<1> QED
  BY <1>2, <1>3

\* processInput() answers, goes on with the handshake, fails, or is not seen.
LEMMA ProcessInputAnswers ==
    ASSUME IInv, ProcessInput
    PROVE  \/ Conversation!Handshake \/ Conversation!Fail
           \/ \E id \in Ids : Conversation!Answer(id)
           \/ UNCHANGED Conversation!vars
<1>1. CASE Fail /\ UNCHANGED <<pendingRequests, delivered>>
  BY <1>1, FailFails DEF Fail, Failed
<1>2. CASE UNCHANGED <<state, pendingRequests, delivered>>
  BY <1>2 DEF Conversation!vars
<1>3. CASE \E request \in pendingRequests : ProcessResponse(Head(toClient), request)
  BY <1>3, ProcessResponseAnswers DEF ProcessInput
<1> QED
  BY <1>1, <1>2, <1>3 DEF ProcessInput

\* A slot that closes the client while it is answered leaves it Closing, with nothing
\* outstanding.
LEMMA CloseDuringShutdownReplyAnswers ==
    ASSUME IInv, CloseDuringShutdownReply
    PROVE  \E id \in Ids : Conversation!Answer(id)
<1>1. PICK request \in pendingRequests :
        /\ request.method = "shutdown"
        /\ Deliver(request)
  BY DEF CloseDuringShutdownReply, ShutdownAnswered
<1>2. state' = "Closing" /\ pendingRequests' = {} /\ toClient # <<>>
  BY DEF CloseDuringShutdownReply, ShutdownAnswered, ForgetRequests
<1>3. state \in {"Ready", "Closing"}
  BY <1>1, <1>2, AnswerOf
<1>4. request.id \in Outstanding /\ Outstanding' = {}
  BY <1>1, <1>2 DEF Outstanding, IdsOf
<1>5. Answered' = Answered \cup {request.id}
  BY <1>1, AnswerCounts
<1>6. Conversation!Answer(request.id)
  BY <1>2, <1>3, <1>4, <1>5 DEF Outstanding, Answered, Conversation!Answer
<1> QED
  BY <1>6, OutstandingUnanswered

\* One that sends asks while it is answered, unless the request is not encoded or the
\* client is closed after all.
LEMMA SendDuringShutdownReplyAnswers ==
    ASSUME IInv, NEW method \in {"shutdown", "other"},
           SendDuringShutdownReply(method) \/ FailDuringShutdownReply(method)
    PROVE  \E id \in Ids : Conversation!Answer(id)
<1> DEFINE next == [id |-> NextRequestId, method |-> method]
<1>1. PICK request \in pendingRequests :
        /\ ShutdownAnswered(request) /\ Deliver(request)
        /\ pendingRequests' \in {(pendingRequests \ {request}) \cup {next},
                                 pendingRequests \ {request}, {}}
  BY DEF SendDuringShutdownReply, FailDuringShutdownReply, TakePending,
         ForgetRequests
<1>2. /\ state = "Ready" /\ state' = "Closing" /\ requestSequence < MaxRequestIds
      /\ toClient # <<>> /\ request.method # "hello"
  BY <1>1 DEF SendDuringShutdownReply, FailDuringShutdownReply, CanSend,
              ShutdownAnswered
<1>3. \A r \in pendingRequests \ {request} : r.id # request.id
  BY <1>2, AnswerOf
<1>4. Answered' = Answered \cup {request.id}
  BY <1>1, AnswerCounts
<1>5. request.id \in Outstanding /\ request.id \in Ids
  BY <1>2, OutstandingUnanswered DEF Outstanding, IdsOf
<1>6. CASE pendingRequests' \in {pendingRequests \ {request}, {}}
  <2>1. Outstanding' = Outstanding \ {request.id} \/ Outstanding' = {}
    BY <1>2, <1>3, <1>6 DEF Outstanding, IdsOf
  <2>2. Conversation!Answer(request.id)
    BY <1>2, <1>4, <1>5, <2>1 DEF Outstanding, Answered, Conversation!Answer
  <2> QED
    BY <1>5, <2>2
<1>7. CASE pendingRequests' = (pendingRequests \ {request}) \cup {next}
  <2>1. NextRequestId \in Ids \ (Outstanding \cup Answered)
    <3>1. NextRequestId \in Ids
      BY <1>2, BoundsAssumption DEF IInv, TypeOK, NextRequestId, Ids
    <3>2. \A r \in pendingRequests : r.id # NextRequestId
      BY DEF IInv, TypeOK, Request, Ids, TableInv, TableBookkeeping, NextRequestId
    <3>3. delivered[NextRequestId] = 0
      BY <3>1 DEF IInv, TypeOK, TableInv, TableBookkeeping, NextRequestId
    <3> QED
      BY <3>1, <3>2, <3>3 DEF Outstanding, Answered, IdsOf
  <2>2. Outstanding' = (Outstanding \ {request.id}) \cup {NextRequestId}
    <3> DEFINE kept == {r \in pendingRequests \ {request} : r.method # "hello"}
    <3>1. Outstanding' = IdsOf(kept \cup {next})
      BY <1>7 DEF Outstanding, IdsOf
    <3>2. IdsOf(kept \cup {next}) = IdsOf(kept) \cup IdsOf({next})
      BY IdsOfUnion
    <3>3. IdsOf(kept) = Outstanding \ {request.id}
      BY <1>3 DEF Outstanding, IdsOf
    <3>4. IdsOf({next}) = {NextRequestId}
      BY DEF IdsOf
    <3> QED
      BY <3>1, <3>2, <3>3, <3>4
  <2>3. Conversation!Answer(request.id)
    BY <1>2, <1>4, <1>5, <2>1, <2>2 DEF Outstanding, Answered, Conversation!Answer
  <2> QED
    BY <1>5, <2>3
<1> QED
  BY <1>1, <1>6, <1>7

\* The other steps: the socket's two, and those of the service, which the application
\* does not see.
LEMMA OthersConverse ==
    /\ SocketError => Conversation!Fail
    /\ IInv /\ SocketDisconnected => Conversation!End
    /\ ClientUnchanged \/ UNCHANGED vars => UNCHANGED Conversation!vars
<1>1. SocketError => Conversation!Fail
  BY FailFails DEF SocketError, Fail, Failed
<1>2. IInv /\ SocketDisconnected => Conversation!End
  BY DEF IInv, ConnectionInv, SocketBookkeeping, SocketDisconnected,
         Conversation!End
<1>3. ClientUnchanged \/ UNCHANGED vars => UNCHANGED Conversation!vars
  BY DEF ClientUnchanged, vars, members, Conversation!vars
<1> QED
  BY <1>1, <1>2, <1>3

\* Every step of the client is a step of a conversation, or is not seen.
LEMMA StepConverses ==
    ASSUME IInv, [Next]_vars PROVE [Conversation!Next]_(Conversation!vars)
<1>1. CASE ServiceReceives \/ ServiceAnswers \/ ServiceSendsBinary \/ ServiceMisbehaves
  <2>1. ClientUnchanged
    BY <1>1 DEF ServiceReceives, ServiceAnswers, ServiceSendsBinary, ServiceMisbehaves
  <2> QED
    BY <2>1, OthersConverse
<1>2. CASE \E method \in {"shutdown", "other"} : SendRequest(method)
  BY <1>2, SendRequestAsks DEF Conversation!Next
<1>3. CASE ProcessInput \/ CloseDuringShutdownReply
  BY <1>3, ProcessInputAnswers, CloseDuringShutdownReplyAnswers DEF Conversation!Next
<1>4. CASE \E method \in {"shutdown", "other"} :
             SendDuringShutdownReply(method) \/ FailDuringShutdownReply(method)
  BY <1>4, SendDuringShutdownReplyAnswers DEF Conversation!Next
<1>5. CASE ConnectToService \/ Close \/ Authenticate \/ SocketError \/ SocketDisconnected
  BY <1>5, ConnectToServiceConnects, CloseEnds, AuthenticateShakesHands,
     OthersConverse
     DEF Conversation!Next
<1>6. CASE UNCHANGED vars
  BY <1>6, OthersConverse
<1> QED
  BY <1>1, <1>2, <1>3, <1>4, <1>5, <1>6 DEF Next

\* The client implements the conversation its application relies on, for every size
\* of the table and whatever the service does.
THEOREM ConversationHolds == Spec => ConversationSpec
<1>1. Init => Conversation!Init
  BY DEF Init, Conversation!Init, IdsOf
<1>2. IInv /\ [Next]_vars => [Conversation!Next]_(Conversation!vars)
  BY StepConverses
<1> QED
  BY <1>1, <1>2, Invariance, PTL DEF Spec, ConversationSpec, Conversation!Spec
=============================================================================
