------------------------- MODULE ServiceSmokeProofs -------------------------
(***************************************************************************)
(* Proofs about ServiceSmoke.  Each step of the command is a step of the   *)
(* controller, so that whatever is proved of ServiceProcess holds of the   *)
(* command, too; what is added here ties the exit status to it.            *)
(***************************************************************************)
EXTENDS ServiceSmoke, ServiceProcessProofs

-----------------------------------------------------------------------------
(* The inductive invariant *)

\* Before the command starts the service there is none, and nothing of a session.
NothingYet ==
    loop = "before" => /\ proc = "NotRunning" /\ client = "none"
                       /\ session = 0 /\ ~tokenFile /\ launches = 0

\* There is a child, and then a client, only by the one launch; a client that is ready
\* has taken the token off the disk, and no other launch puts one back.
LaunchedOnce ==
    /\ proc # "NotRunning" => launches = 1
    /\ client # "none" => launches = 1
    /\ client = "Ready" => ~tokenFile

SmokeIInv ==
    /\ IInv
    /\ loop \in {"before", "running", "quit", "leaving", "returned"}
    /\ result \in {"failure", "success"}
    /\ NothingYet
    /\ LaunchedOnce
    /\ SuccessIsEarned

-----------------------------------------------------------------------------
(* The steps of the command *)

\* Whatever the command does is a step of the controller and its surroundings, or none.
LEMMA SmokeStepIsStep == ASSUME [SmokeNext]_smokeVars PROVE [Next]_vars
<1>1. CASE NoProgram \/ ChildAnswersPing
  BY <1>1 DEF NoProgram, ChildAnswersPing
<1>2. CASE Launching
  BY <1>2 DEF Launching, Next
<1>3. CASE Ready
  BY <1>3 DEF Ready, Next
<1>4. CASE PingAnswered \/ Timeout
  BY <1>4 DEF PingAnswered, Timeout, Next
<1>5. CASE Leave \/ Return
  BY <1>5 DEF Leave, Return, Next
<1>6. CASE ReadyRecord
  BY <1>6 DEF ReadyRecord, Next
<1>7. CASE Event
  BY <1>7 DEF Event, Next
<1>8. CASE UNCHANGED smokeVars
  BY <1>8 DEF smokeVars
<1> QED
  BY <1>1, <1>2, <1>3, <1>4, <1>5, <1>6, <1>7, <1>8 DEF SmokeNext

\* Each run of the command is a behaviour of module ServiceProcess, so that its theorems
\* hold of the command.
THEOREM SmokeIsSupervised == SmokeSpec => Spec
<1>1. SmokeInit => Init
  BY DEF SmokeInit
<1>2. [SmokeNext]_smokeVars => [Next]_vars
  BY SmokeStepIsStep
<1> QED
  BY <1>1, <1>2, PTL DEF SmokeSpec, Spec

\* What no step but a start does: prepare a session, write a token, start a child; and a
\* client appears for a child only, and becomes ready without the token.
Quietly ==
    /\ launches' = launches
    /\ tokenFile' => tokenFile
    /\ proc' # "NotRunning" => proc # "NotRunning"
    /\ client' # "none" => client # "none" \/ proc # "NotRunning"
    /\ client' = "Ready" => client = "Ready" \/ ~tokenFile'

\* Stopping the service launches nothing.
LEMMA StopIsQuiet == ASSUME Stop PROVE Quietly
<1> USE DEF Stop, OnStop, OnStopIgnored, RequestGracefulShutdown, Quietly, files,
        child
<1>0. CASE OnStopIgnored /\ ClientUnchanged
  BY <1>0 DEF ClientUnchanged, peer
<1>1. ASSUME ShutdownAsked(FALSE), UNCHANGED client PROVE Quietly
  BY <1>1 DEF ShutdownAsked
<1>2. ASSUME ShutdownUnwritten(FALSE), CloseClient, client = "Ready" PROVE Quietly
  BY <1>2 DEF ShutdownUnwritten, CloseClient
<1>3. ASSUME ChildTerminated(FALSE), ClientUnchanged PROVE Quietly
  BY <1>3 DEF ChildTerminated, ClientUnchanged, peer
<1>4. ASSUME NothingToShutDown(FALSE), DropClient PROVE Quietly
  BY <1>4 DEF NothingToShutDown, HandleProcessFinished, CleanupSession, DropClient
<1> QED
  BY <1>0, <1>1, <1>2, <1>3, <1>4

\* The events of the controller, its client and the child launch nothing.
LEMMA EventIsQuiet == ASSUME Event PROVE Quietly
<1> USE DEF Quietly, files, child, history, timers, control, controllerVars
<1>1. CASE StartupTimeout \/ ShutdownTimeout
  BY <1>1 DEF StartupTimeout, OnStartupTimeout, ShutdownTimeout, OnShutdownTimeout,
              CloseClient
<1>2. CASE StandardError \/ FailedToStart
  BY <1>2 DEF StandardError, OnStandardError, FailedToStart, OnFailedToStart,
              ClientUnchanged, peer
<1>3. CASE Finished
  BY <1>3 DEF Finished, OnFinished, HandleProcessFinished, CleanupSession, DropClient
<1>4. CASE ClientConnected \/ ShutdownReply \/ ClientDisconnected
  BY <1>4 DEF ClientConnected, ShutdownReply, ClientDisconnected
<1>5. CASE ClientTransportFails
  BY <1>5 DEF ClientTransportFails, OnClientLost, OnClientFailed, CloseClient
<1>6. CASE ClientProtocolFails
  BY <1>6 DEF ClientProtocolFails, OnClientFailed, CloseClient
<1>7. CASE ChildStarts \/ ChildPrintsReady \/ ChildExits
  BY <1>7 DEF ChildStarts, ChildRuns, ChildPrintsReady, ChildPrints, ChildExits,
              ChildDies, ControllerUnchanged, ClientUnchanged, peer
<1>8. CASE ChildAnswersHello \/ ChildAnswersShutdown \/ ChildBreaksProtocol
  BY <1>8 DEF ChildAnswersHello, ChildAnswersShutdown, ChildBreaksProtocol
<1> QED
  BY <1>1, <1>2, <1>3, <1>4, <1>5, <1>6, <1>7, <1>8 DEF Event

\* Only the start of the command prepares a session.
LEMMA OnlyLaunchingLaunches ==
  ASSUME IInv, [SmokeNext]_smokeVars PROVE Launching \/ Quietly
<1> USE DEF files, child, history, timers, control, controllerVars, peer, vars
<1>1. CASE NoProgram \/ ChildAnswersPing
  BY <1>1 DEF NoProgram, ChildAnswersPing, Quietly
<1>2. CASE Ready
  BY <1>2 DEF Ready, ClientReady, OnClientReady, Quietly
<1>3. CASE PingAnswered \/ Timeout
  BY <1>3, StopIsQuiet DEF PingAnswered, Timeout
<1>4. CASE Leave \/ Return
  BY <1>4 DEF Leave, Destroy, OnDestroy, CloseClient, Return, Destroyed,
              OnDestroyed, CleanupSession, DropClient, Quietly
<1>5. CASE ReadyRecord
  <2>1. line \in {"compatible", "incompatible"}
    BY <1>5 DEF ReadyRecord, HandleReadyLine, OnReadyLine, OnReadyLineRefused
  <2>2. proc # "NotRunning"
    BY <2>1 DEF IInv, ChildBookkeeping
  <2> QED
    BY <1>5, <2>2 DEF ReadyRecord, HandleReadyLine, OnReadyLine, OnReadyLineRefused,
                      CloseClient, Quietly
<1>6. CASE Event
  BY <1>6, EventIsQuiet
<1>7. CASE UNCHANGED smokeVars
  BY <1>7 DEF smokeVars, Quietly
<1> QED
  BY <1>1, <1>2, <1>3, <1>4, <1>5, <1>6, <1>7 DEF SmokeNext

\* The start of the command launches once, and leaves no client.
LEMMA LaunchingLaunches ==
  ASSUME IInv, NothingYet, Launching
  PROVE  /\ proc' # "NotRunning" => launches' = 1
         /\ client' = "none"
<1> USE DEF Launching, Start, OnStart, ClientUnchanged, peer, NothingYet
<1>1. client' = "none"
  OBVIOUS
<1>2. proc' # "NotRunning" => launches' = 1
  BY DEF Launch, child
<1> QED
  BY <1>1, <1>2

-----------------------------------------------------------------------------
(* The invariant is inductive *)

\* The command starts with a service that is not running, and with a failure.
LEMMA InitSmokeIInv == ASSUME SmokeInit PROVE SmokeIInv
<1>1. IInv
  BY InitIInv DEF SmokeInit
<1>2. NothingYet /\ LaunchedOnce /\ SuccessIsEarned
  BY DEF SmokeInit, Init, ControllerInit, NothingYet, LaunchedOnce, SuccessIsEarned
<1> QED
  BY <1>1, <1>2 DEF SmokeInit, SmokeIInv

\* Every step of the command preserves it.
LEMMA NextSmokeIInv == ASSUME SmokeIInv, [SmokeNext]_smokeVars PROVE SmokeIInv'
<1> USE DEF SmokeIInv
<1>1. IInv'
  BY NextIInv, SmokeStepIsStep
<1>2. loop' \in {"before", "running", "quit", "leaving", "returned"}
      /\ result' \in {"failure", "success"}
  BY DEF SmokeNext, smokeVars, smoke, NoProgram, Launching, Ready, PingAnswered, ResultOf,
         QuitSlots, Timeout, Leave, Return, ReadyRecord, Event, ChildAnswersPing
<1>3. NothingYet'
  <2>1. loop' # "before" \/ UNCHANGED smokeVars
    BY DEF Dispatching, SmokeNext, NoProgram, Launching, Ready, PingAnswered, QuitSlots, Timeout,
           Leave, Return, ReadyRecord, Event, ChildAnswersPing
  <2> QED
    BY <2>1 DEF NothingYet, smokeVars, smoke, vars, controllerVars, child, files, history,
                peer
<1>4. LaunchedOnce'
  <2>1. CASE Launching
    BY <2>1, LaunchingLaunches DEF LaunchedOnce, Launching
  <2>2. CASE Quietly
    BY <2>2 DEF Quietly, LaunchedOnce
  <2> QED
    BY <2>1, <2>2, OnlyLaunchingLaunches
<1>5. SuccessIsEarned'
  <2>1. CASE Launching
    <3>1. result = "failure"
      BY <2>1 DEF Launching, NothingYet, SuccessIsEarned
    <3> QED
      BY <2>1, <3>1 DEF Launching, SuccessIsEarned
  <2>2. CASE PingAnswered
    <3>1. Quietly
      BY <2>2, StopIsQuiet DEF PingAnswered
    <3>2. launches' = 1 /\ ~tokenFile'
      BY <2>2, <3>1 DEF PingAnswered, Quietly, LaunchedOnce
    <3>3. result' = "success" => "good" \in verdicts'
      BY <2>2 DEF PingAnswered, ResultOf, SuccessIsEarned
    <3> QED
      BY <3>2, <3>3 DEF SuccessIsEarned
  <2>3. CASE ~Launching /\ ~PingAnswered
    <3>1. Quietly
      BY <2>3, OnlyLaunchingLaunches
    <3>2. UNCHANGED <<result, verdicts>>
      BY <2>3 DEF SmokeNext, smokeVars, smoke, NoProgram, Ready, Timeout, Leave, Return,
                  ReadyRecord, Event, ChildAnswersPing
    <3> QED
      BY <3>1, <3>2 DEF Quietly, SuccessIsEarned
  <2> QED
    BY <2>1, <2>2, <2>3
<1> QED
  BY <1>1, <1>2, <1>3, <1>4, <1>5

\* The invariant holds in every state of the command.
THEOREM SmokeInvariance == SmokeSpec => []SmokeIInv
<1>1. SmokeInit => SmokeIInv
  BY InitSmokeIInv
<1>2. SmokeIInv /\ [SmokeNext]_smokeVars => SmokeIInv'
  BY NextSmokeIInv
<1> QED
  BY <1>1, <1>2, PTL DEF SmokeSpec

-----------------------------------------------------------------------------
(* What the command promises *)

\* An exit status of success stands for a ping that was answered well, over the one
\* session, whose token is gone.
THEOREM SuccessIsEarnedHolds == SmokeSpec => []SuccessIsEarned
<1>1. SmokeIInv => SuccessIsEarned
  BY DEF SmokeIInv
<1> QED
  BY <1>1, SmokeInvariance, PTL

\* A failure of the service before a good answer quits the loop with a failure.
THEOREM FailureIsReportedHolds == SmokeSpec => FailureIsReported
<1>1. ASSUME SmokeIInv, SmokeNext, loop = "running", FailedEmitted, "good" \notin verdicts'
      PROVE  loop' = "quit" /\ result' = "failure"
  <2>1. SmokeIInv'
    BY <1>1, NextSmokeIInv
  <2>2. result' = "failure"
    BY <1>1, <2>1 DEF SmokeIInv, SuccessIsEarned
  <2>3. ~Ready /\ ~ChildAnswersPing
    BY <1>1 DEF FailedEmitted, Ready, ClientReady, OnClientReady, ChildAnswersPing, vars,
                controllerVars, SmokeIInv, IInv, TypeOK, ReportsCap
  <2>4. loop' = "quit"
    BY <1>1, <2>3 DEF SmokeNext, NoProgram, Launching, Leave, Return, PingAnswered, Timeout,
                      ReadyRecord, Event, QuitSlots
  <2> QED
    BY <2>2, <2>4
<1>2. SmokeIInv /\ [SmokeNext]_smokeVars
        => [loop = "running" /\ FailedEmitted /\ "good" \notin verdicts'
              => loop' = "quit" /\ result' = "failure"]_smokeVars
  BY <1>1
<1> QED
  BY <1>2, SmokeInvariance, PTL DEF SmokeSpec, FailureIsReported
=============================================================================
