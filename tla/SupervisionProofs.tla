-------------------------- MODULE SupervisionProofs --------------------------
(***************************************************************************)
(* ServiceProcess implements module Supervision, for every number of       *)
(* automatic restarts and of requests: each action of the controller is an *)
(* action of the promise, or changes nothing the application can see.      *)
(***************************************************************************)
EXTENDS ServiceProcessProofs

\* start() asks for a launch.
LEMMA StartAsks == ASSUME IInv, Start PROVE Promise!Ask
  BY DEF IInv, TypeOK, FlagsOK, NoOrphan, Doomed, Start, OnStart, Launch,
         FailAfter, CleanupSession, ArmStartupTimer, files, child,
         Promise!Ask, Promise!Launch, Promise!Idle

\* A queued start() uses its permission, whatever it finds.
LEMMA QueuedStartIsPermitted ==
    ASSUME IInv, QueuedStart PROVE Promise!UsePermission
  BY DEF IInv, TypeOK, FlagsOK, NoOrphan, Doomed, QueuedStart, OnQueuedStart,
         Launch, FailAfter, CleanupSession, ArmStartupTimer, files, child,
         Promise!UsePermission, Promise!Launch, Promise!Idle

\* requestGracefulShutdown() ends the service, with or without a permission to
\* launch it again.
LEMMA ShutdownEnds ==
    ASSUME IInv, NEW explicit \in BOOLEAN, RequestGracefulShutdown(explicit),
           proc # "NotRunning"
    PROVE  Promise!EndService
<1> USE DEF IInv, Doomed, Promise!EndService
<1>1. CASE ShutdownAsked(explicit)
  BY <1>1 DEF ShutdownAsked, child, files
<1>2. CASE ShutdownUnwritten(explicit)
  BY <1>2 DEF ShutdownUnwritten, Fail, FailAfter, Kill, child, files
<1>3. CASE ChildTerminated(explicit)
  BY <1>3 DEF ChildTerminated, child, files
<1>4. CASE NothingToShutDown(explicit)
  BY <1>4 DEF NothingToShutDown
<1> QED
  BY <1>1, <1>2, <1>3, <1>4 DEF RequestGracefulShutdown

\* It permits at most one launch more, and none if no restart is asked for.
LEMMA ShutdownPermits ==
    ASSUME IInv, NEW explicit \in BOOLEAN, RequestGracefulShutdown(explicit),
           proc # "NotRunning"
    PROVE  queuedStarts' = queuedStarts /\ explicitRestartRequested' = explicit
<1>1. CASE ShutdownAsked(explicit)
  BY <1>1 DEF ShutdownAsked
<1>2. CASE ShutdownUnwritten(explicit)
  BY <1>2 DEF ShutdownUnwritten
<1>3. CASE ChildTerminated(explicit)
  BY <1>3 DEF ChildTerminated
<1>4. CASE NothingToShutDown(explicit)
  BY <1>4 DEF NothingToShutDown
<1> QED
  BY <1>1, <1>2, <1>3, <1>4 DEF RequestGracefulShutdown

\* stop() asks for the end of the service, or finds nothing to end, and then does
\* nothing.
LEMMA StopStops == ASSUME IInv, Stop PROVE Promise!Stop \/ UNCHANGED Promise!vars
<1>0. CASE OnStopIgnored
  BY <1>0 DEF OnStopIgnored, control, child, Doomed, Promise!vars
<1> SUFFICES ASSUME OnStop /\ RequestGracefulShutdown(FALSE) PROVE Promise!Stop
  BY <1>0 DEF Stop
<1>1. state # "Stopped" /\ RequestGracefulShutdown(FALSE)
  BY DEF OnStop
<1>2. queuedStarts \in Nat /\ explicitRestartRequested \in BOOLEAN
  BY DEF IInv, TypeOK, FlagsOK
<1>3. CASE proc # "NotRunning"
  <2>1. Promise!EndService
    BY <1>1, <1>3, ShutdownEnds
  <2>2. queuedStarts' = queuedStarts /\ explicitRestartRequested' = FALSE
    BY <1>1, <1>3, ShutdownPermits
  <2> QED
    BY <1>1, <1>2, <2>1, <2>2 DEF Promise!Stop
<1>4. CASE proc = "NotRunning"
  <2>1. NothingToShutDown(FALSE)
    BY <1>1, <1>4
       DEF IInv, SessionBinding, ActiveClient, RequestGracefulShutdown,
           ChildTerminated
  <2>2. /\ proc' = "NotRunning" /\ state' = "Stopped" /\ ~stopRequested'
        /\ ~explicitRestartRequested' /\ queuedStarts' = queuedStarts
        /\ UNCHANGED <<automaticRestartCount, failureCode>>
    BY <1>4, <2>1
       DEF NothingToShutDown, HandleProcessFinished, Unexpected, child
  <2> QED
    BY <1>1, <1>2, <1>4, <2>2 DEF Promise!Stop
<1> QED
  BY <1>3, <1>4

\* restart() asks for a launch, or for an end with the permission to launch.
LEMMA RestartRestarts ==
    ASSUME IInv, Restart PROVE Promise!Ask \/ Promise!Restart
<1>1. CASE OnRestartIdle
  BY <1>1 DEF IInv, TypeOK, FlagsOK, NoOrphan, Doomed, OnRestartIdle, Launch,
              FailAfter, CleanupSession, ArmStartupTimer, files, child,
              Promise!Ask, Promise!Launch, Promise!Idle
<1>2. CASE OnRestart /\ RequestGracefulShutdown(TRUE)
  <2>1. state \notin {"Stopped", "Failed"} /\ proc # "NotRunning"
    BY <1>2 DEF OnRestart, Listening, IInv, PromiseBookkeeping
  <2>2. Promise!EndService
    BY <1>2, <2>1, ShutdownEnds
  <2>3. queuedStarts' = queuedStarts /\ explicitRestartRequested' = TRUE
    BY <1>2, <2>1, ShutdownPermits
  <2> QED
    BY <2>1, <2>2, <2>3
       DEF IInv, TypeOK, FlagsOK, Promise!Restart, Promise!Idle
<1> QED
  BY <1>1, <1>2 DEF Restart

\* The destructor dismisses the child.
LEMMA DestroyDismisses == ASSUME IInv, Destroy PROVE Promise!Dismissed
  BY DEF Doomed, Destroy, OnDestroy, Kill, child, Promise!Dismissed,
         Promise!Killed

\* When its wait is over, what is left of the child is dead or killed.
LEMMA DestroyedLeaves == ASSUME IInv, Destroyed PROVE Promise!Gone
<1>1. Doomed /\ queuedStarts \in Nat
  BY DEF IInv, TypeOK, DestroyBookkeeping, Destroyed, OnDestroyed
<1> QED
  BY <1>1 DEF Doomed, Destroyed, OnDestroyed, Kill, control, child,
              Promise!Gone

\* The startup timer gives up.
LEMMA StartupTimeoutGivesUp ==
    ASSUME IInv, StartupTimeout PROVE Promise!GiveUp
  BY DEF IInv, PromiseBookkeeping, Doomed, StartupTimeout, OnStartupTimeout,
         Fail, FailAfter, ForceStop, Kill, files, child,
         Promise!GiveUp, Promise!Killed

\* The shutdown timer ends what is left of the child.
LEMMA ShutdownTimeoutKills ==
    ASSUME IInv, ShutdownTimeout PROVE [Promise!Dying]_(Promise!vars)
  BY DEF Doomed, ShutdownTimeout, OnShutdownTimeout, ForceStop, Kill, control,
         files, child, Promise!Dying, Promise!vars

\* A ready record announces the service, or makes the controller give up.
LEMMA HandleReadyLineAnnounces ==
    ASSUME IInv, HandleReadyLine PROVE Promise!Announced \/ Promise!GiveUp
<1>1. proc # "NotRunning" /\ state # "Stopped"
  BY DEF IInv, NoOrphan, ChildBookkeeping, HandleReadyLine, OnReadyLine,
         OnReadyLineRefused
<1>2. CASE OnReadyLine
  BY <1>1, <1>2 DEF IInv, NoOrphan, Doomed, OnReadyLine, files,
                    Promise!Announced
<1>3. CASE OnReadyLineRefused
  BY <1>1, <1>3 DEF Doomed, OnReadyLineRefused, Fail, FailAfter, ForceStop,
                    Kill, files, Promise!GiveUp, Promise!Killed
<1> QED
  BY <1>2, <1>3 DEF HandleReadyLine

\* What the child writes to its standard error is a reason.
LEMMA StandardErrorComplains ==
    ASSUME IInv, StandardError PROVE Promise!Dying
  BY DEF Doomed, StandardError, OnStandardError, child, Promise!Dying

\* A program that cannot start is a failure.
LEMMA FailedToStartFails ==
    ASSUME IInv, FailedToStart PROVE Promise!NeverStarted
  BY DEF Doomed, FailedToStart, OnFailedToStart, Fail, FailAfter,
         Promise!NeverStarted

\* The end of the child is what was asked for, a restart that is counted, or a
\* failure with its reason.
LEMMA FinishedEnds == ASSUME IInv, Finished PROVE Promise!Ended
<1> DEFINE s == state
           finished == HandleProcessFinished(s, stopRequested,
                                             explicitRestartRequested)
<1>1. /\ proc = "Exited" /\ proc' = "NotRunning" /\ finished
  BY DEF Finished, OnFinished
<1>2. /\ automaticRestartCount \in 0 .. MaximumAutomaticRestarts
      /\ queuedStarts \in Nat
      /\ explicitRestartRequested \in BOOLEAN /\ stopRequested \in BOOLEAN
      /\ explicitRestartRequested => stopRequested
  BY DEF IInv, TypeOK, FlagsOK, PromiseBookkeeping
<1>3. ~explicitRestartRequested'
  BY <1>1 DEF HandleProcessFinished
<1>4. CASE s = "Failed" /\ ~explicitRestartRequested
  BY <1>1, <1>2, <1>3, <1>4
     DEF HandleProcessFinished, Doomed, Promise!Ended
<1>5. CASE explicitRestartRequested
  <2>1. /\ state' = "Stopped" /\ stopRequested' = FALSE
        /\ queuedStarts' = queuedStarts + 1
        /\ UNCHANGED <<automaticRestartCount, failureCode>>
    BY <1>1, <1>5 DEF HandleProcessFinished, QueueStart
  <2>2. queuedStarts' + 0 = queuedStarts + 1
    BY <1>2, <2>1
  <2> QED
    BY <1>1, <1>2, <1>3, <1>5, <2>1, <2>2
       DEF Doomed, Promise!Ended, Promise!EndedAsAsked
<1>6. CASE s # "Failed" /\ ~explicitRestartRequested /\ stopRequested
  BY <1>1, <1>2, <1>3, <1>6
     DEF HandleProcessFinished, Unexpected, Doomed, Promise!Ended,
         Promise!EndedAsAsked
<1>7. CASE s # "Failed" /\ ~explicitRestartRequested /\ ~stopRequested
  <2>1. CASE RestartsLeft
    BY <1>1, <1>2, <1>3, <1>7, <2>1, RestartsAssumption
       DEF HandleProcessFinished, Unexpected, RestartsLeft, CountRestart,
           QueueStart, Doomed, Promise!Ended, Promise!EndedUnasked
  <2>2. CASE ~RestartsLeft
    BY <1>1, <1>2, <1>3, <1>7, <2>2, RestartsAssumption
       DEF HandleProcessFinished, Unexpected, RestartsLeft, ExitReason, Fail,
           FailAfter, Doomed, Promise!Ended, Promise!EndedUnasked
  <2> QED
    BY <2>1, <2>2
<1> QED
  BY <1>2, <1>4, <1>5, <1>6, <1>7

\* A finished handshake establishes the service, even one that is ending.
LEMMA ClientReadyEstablishes ==
    ASSUME IInv, ClientReady PROVE Promise!Established
  BY DEF IInv, StateBookkeeping, ActiveClient, Doomed, ClientReady,
         OnClientReady, child, Promise!Established, Promise!Idle

\* The slot of failed() gives up, unless it leaves the decision to the end of
\* the child.
LEMMA ClientFailedGivesUp ==
    ASSUME IInv, NEW code \in {"TRANSPORT", "PROTOCOL"}, OnClientFailed(code),
           client # "none"
    PROVE  Promise!GiveUp
<1>1. state # "Stopped" /\ proc # "NotRunning"
  BY DEF IInv, NoOrphan, ChildBookkeeping
<1> QED
  BY <1>1 DEF Doomed, OnClientFailed, Fail, FailAfter, ForceStop, Kill, files,
              child, Promise!GiveUp, Promise!Killed

\* A lost connection kills the child, and its end decides, or the service is
\* given up.
LEMMA ClientTransportDooms ==
    ASSUME IInv, ClientTransportFails PROVE Promise!Dying \/ Promise!GiveUp
<1>1. CASE OnClientLost
  <2>1. proc # "NotRunning"
    BY DEF IInv, SessionBinding, ActiveClient, ClientTransportFails
  <2> QED
    BY <1>1, <2>1 DEF Doomed, OnClientLost, Kill, timers, files, child,
                      Promise!Dying
<1>2. CASE OnClientFailed("TRANSPORT")
  BY <1>2, ClientFailedGivesUp DEF ClientTransportFails
<1> QED
  BY <1>1, <1>2 DEF ClientTransportFails

\* A broken protocol gives the service up.
LEMMA ClientProtocolGivesUp ==
    ASSUME IInv, ClientProtocolFails PROVE Promise!GiveUp
  BY ClientFailedGivesUp DEF ClientProtocolFails

\* What the client and the child do among themselves is not seen.
LEMMA PeersUnseen ==
    ASSUME IInv,
           \/ ClientConnected \/ ShutdownReply \/ ClientDisconnected
           \/ ChildStarts \/ ChildPrintsReady \/ ChildExits
           \/ ChildAnswersHello \/ ChildAnswersShutdown \/ ChildBreaksProtocol
    PROVE  [Promise!Dying]_(Promise!vars)
<1> USE DEF controllerVars, control, child, files, Doomed, Promise!vars
<1>1. CASE ClientConnected \/ ShutdownReply \/ ClientDisconnected
  BY <1>1 DEF ClientConnected, ShutdownReply, ClientDisconnected
<1>2. CASE ChildAnswersHello \/ ChildAnswersShutdown \/ ChildBreaksProtocol
  BY <1>2 DEF ChildAnswersHello, ChildAnswersShutdown, ChildBreaksProtocol
<1>3. CASE ChildStarts \/ ChildPrintsReady
  BY <1>3 DEF ChildStarts, ChildRuns, ChildPrintsReady, ChildPrints,
              ControllerUnchanged
<1>4. CASE ChildExits
  BY <1>4 DEF ChildExits, ChildDies, ControllerUnchanged, Promise!Dying
<1> QED
  BY <1>1, <1>2, <1>3, <1>4

-----------------------------------------------------------------------------
\* ServiceProcess keeps its promise: every behaviour of the controller, its
\* client and its child is one that module Supervision allows.
THEOREM SupervisionHolds == Spec => SupervisionSpec
<1>1. Init => Promise!Init
  BY DEF Init, ControllerInit, Doomed, Promise!Init
<1>2. ASSUME IInv, [Next]_vars PROVE [Promise!Next]_(Promise!vars)
  <2>1. CASE Start \/ QueuedStart
    BY <1>2, <2>1, StartAsks, QueuedStartIsPermitted DEF Promise!Next
  <2>2. CASE Stop \/ Restart \/ Destroy \/ Destroyed
    BY <1>2, <2>2, StopStops, RestartRestarts, DestroyDismisses,
       DestroyedLeaves DEF Promise!Next
  <2>3. CASE StartupTimeout \/ ShutdownTimeout
    BY <1>2, <2>3, StartupTimeoutGivesUp, ShutdownTimeoutKills
       DEF Promise!Next
  <2>4. CASE HandleReadyLine \/ StandardError \/ FailedToStart \/ Finished
    BY <1>2, <2>4, HandleReadyLineAnnounces, StandardErrorComplains,
       FailedToStartFails, FinishedEnds DEF Promise!Next
  <2>5. CASE ClientReady \/ ClientTransportFails \/ ClientProtocolFails
    BY <1>2, <2>5, ClientReadyEstablishes, ClientTransportDooms,
       ClientProtocolGivesUp DEF Promise!Next
  <2>6. CASE \/ ClientConnected \/ ShutdownReply \/ ClientDisconnected
             \/ ChildStarts \/ ChildPrintsReady \/ ChildExits
             \/ ChildAnswersHello \/ ChildAnswersShutdown
             \/ ChildBreaksProtocol
    BY <1>2, <2>6, PeersUnseen DEF Promise!Next
  <2>7. CASE UNCHANGED vars
    BY <2>7 DEF vars, controllerVars, control, child, Doomed, Promise!vars
  <2> QED
    BY <1>2, <2>1, <2>2, <2>3, <2>4, <2>5, <2>6, <2>7 DEF Next
<1> QED
  BY <1>1, <1>2, Invariance, PTL DEF Spec, SupervisionSpec, Promise!Spec
=============================================================================
