------------------------ MODULE ServiceProcessProofs ------------------------
(***************************************************************************)
(* Proofs about ServiceProcess, for every number of automatic restarts and *)
(* of requests.                                                            *)
(***************************************************************************)
EXTENDS ServiceProcess, TLAPS

-----------------------------------------------------------------------------
(* The inductive invariant *)

\* A client exists only once its child has printed its ready record, and a
\* child that has printed one was started.
ChildBookkeeping ==
    /\ client # "none" => line = "read" \/ repeated
    /\ repeated => line # "unwritten"
    /\ line # "unwritten" => proc \in {"Running", "Exited"}
    /\ proc # "NotRunning" => childSession # 0

\* What the state member says about the flags and the client.
StateBookkeeping ==
    /\ state \in {"Stopped", "Starting", "Failed"} => ~ActiveClient
    /\ state = "Stopping" => stopRequested
    /\ Listening /\ state = "Ready" => line = "read" \/ repeated

\* After a stop the flags let nothing launch, unless it came after a start was
\* queued.
StopBookkeeping ==
    /\ state = "Stopped" => ~explicitRestartRequested
    /\ ~mayRun => ~explicitRestartRequested
    /\ ~mayRun /\ ~overtaken => /\ queuedStarts = 0
                                /\ stopRequested \/ proc = "NotRunning"

\* What the promise of module Supervision rests on: a restart is a stop, a
\* service that is not idle has a child, one that failed has a reason, and no
\* deadline is left to one that stopped.
PromiseBookkeeping ==
    /\ explicitRestartRequested => stopRequested
    /\ Listening /\ state \notin {"Stopped", "Failed"} => proc # "NotRunning"
    /\ state = "Failed" => failureCode # "none"
    /\ state = "Stopped" => ~startupTimer

\* The destructor spares no child, and nothing it waits for revives one.
DestroyBookkeeping ==
    /\ leaving => ~alive
    /\ ~alive => Doomed

IInv ==
    /\ TypeOK
    /\ NoOrphan
    /\ Supervised
    /\ SessionBinding
    /\ LaunchBudget
    /\ BudgetBeforeFailure
    /\ CredentialHygiene
    /\ ChildBookkeeping
    /\ StateBookkeeping
    /\ StopBookkeeping
    /\ PromiseBookkeeping
    /\ DestroyBookkeeping

-----------------------------------------------------------------------------
\* The initial states satisfy the inductive invariant.
LEMMA InitIInv == ASSUME Init PROVE IInv
<1> USE DEF Init, ControllerInit, Listening
<1>1. FlagsOK
  BY Zenon DEF TypeOK, FlagsOK
<1>2. TypeOK
  BY <1>1, RestartsAssumption, RequestsAssumption
     DEF TypeOK, States, ClientStates, FailureCodes, ReportsCap
<1>3. NoOrphan
  BY DEF NoOrphan, Doomed, StateBookkeeping, ChildBookkeeping
<1>4. Supervised
  BY DEF Supervised, Doomed, NoOrphan, StateBookkeeping, ChildBookkeeping
<1>5. SessionBinding
  BY DEF SessionBinding, ActiveClient, StateBookkeeping, ChildBookkeeping
<1>6. LaunchBudget
  BY DEF LaunchBudget, TypeOK
<1>7. BudgetBeforeFailure
  BY RestartsAssumption
     DEF BudgetBeforeFailure, ActiveClient, StateBookkeeping, TypeOK, States
<1>8. CredentialHygiene
  BY DEF CredentialHygiene
<1>9. ChildBookkeeping
  BY DEF ChildBookkeeping, TypeOK
<1>10. StateBookkeeping
  BY DEF StateBookkeeping, ActiveClient, NoOrphan, ChildBookkeeping, TypeOK,
         States
<1>11. StopBookkeeping
  BY DEF StopBookkeeping, NoOrphan, TypeOK, States
<1>12. PromiseBookkeeping
  BY DEF PromiseBookkeeping, NoOrphan, ActiveClient, StateBookkeeping,
         ChildBookkeeping, TypeOK, States
<1>13. DestroyBookkeeping
  BY DEF DestroyBookkeeping, Doomed, TypeOK, FlagsOK
<1> QED
  BY <1>1, <1>2, <1>3, <1>4, <1>5, <1>6, <1>7, <1>8, <1>9, <1>10, <1>11,
     <1>12, <1>13 DEF IInv

\* The invariant survives start() called by the application.
LEMMA StartIInv == ASSUME IInv, Start PROVE IInv'
<1> USE DEF object, Listening, Start, OnStart, WantsToRun, Launch, FailAfter,
            ReportsCap, files, child,
            CleanupSession, ArmStartupTimer, ClientUnchanged, peer, IInv
<1>1. FlagsOK'
  BY Zenon DEF TypeOK, FlagsOK
<1>2. TypeOK'
  BY <1>1, RestartsAssumption, RequestsAssumption
     DEF TypeOK, States, ClientStates, FailureCodes, ReportsCap
<1>3. NoOrphan'
  BY DEF NoOrphan, Doomed, StateBookkeeping, ChildBookkeeping
<1>4. Supervised'
  BY DEF Supervised, Doomed, NoOrphan, StateBookkeeping, ChildBookkeeping
<1>5. SessionBinding'
  BY DEF SessionBinding, ActiveClient, StateBookkeeping, ChildBookkeeping
<1>6. LaunchBudget'
  BY DEF LaunchBudget, TypeOK
<1>7. BudgetBeforeFailure'
  BY RestartsAssumption
     DEF BudgetBeforeFailure, ActiveClient, StateBookkeeping, TypeOK, States
<1>8. CredentialHygiene'
  BY DEF CredentialHygiene
<1>9. ChildBookkeeping'
  BY DEF ChildBookkeeping, TypeOK
<1>10. StateBookkeeping'
  BY DEF StateBookkeeping, ActiveClient, NoOrphan, ChildBookkeeping, TypeOK,
         States
<1>11. StopBookkeeping'
  BY DEF StopBookkeeping, NoOrphan, TypeOK, States
<1>12. PromiseBookkeeping'
  BY DEF PromiseBookkeeping, NoOrphan, ActiveClient, StateBookkeeping,
         ChildBookkeeping, TypeOK, States
<1>13. DestroyBookkeeping'
  BY DEF DestroyBookkeeping, Doomed, TypeOK, FlagsOK
<1> QED
  BY <1>1, <1>2, <1>3, <1>4, <1>5, <1>6, <1>7, <1>8, <1>9, <1>10, <1>11,
     <1>12, <1>13 DEF IInv

\* The invariant survives stop().
LEMMA StopIInv == ASSUME IInv, Stop PROVE IInv'
<1> USE DEF object, Listening, Stop, OnStop, OnStopIgnored, WantsToStop, control,
            timers, history, RequestGracefulShutdown, ShutdownAsked, files,
            child, ShutdownUnwritten, Fail, FailAfter, ReportsCap, Kill,
            CloseClient, ChildTerminated, ClientUnchanged, peer,
            NothingToShutDown, HandleProcessFinished, StopTimers,
            CleanupSession, QueueStart, Unexpected, RestartsLeft,
            CountRestart, ExitReason, DropClient, IInv
<1>1. FlagsOK'
  BY Zenon DEF TypeOK, FlagsOK
<1>2. TypeOK'
  BY <1>1, RestartsAssumption, RequestsAssumption
     DEF TypeOK, States, ClientStates, FailureCodes, ReportsCap
<1>3. NoOrphan'
  BY DEF NoOrphan, Doomed, StateBookkeeping, ChildBookkeeping
<1>4. Supervised'
  BY DEF Supervised, Doomed, NoOrphan, StateBookkeeping, ChildBookkeeping
<1>5. SessionBinding'
  BY DEF SessionBinding, ActiveClient, StateBookkeeping, ChildBookkeeping
<1>6. LaunchBudget'
  BY DEF LaunchBudget, TypeOK
<1>7. BudgetBeforeFailure'
  BY RestartsAssumption
     DEF BudgetBeforeFailure, ActiveClient, StateBookkeeping, TypeOK, States
<1>8. CredentialHygiene'
  BY DEF CredentialHygiene
<1>9. ChildBookkeeping'
  BY DEF ChildBookkeeping, TypeOK
<1>10. StateBookkeeping'
  BY DEF StateBookkeeping, ActiveClient, NoOrphan, ChildBookkeeping, TypeOK,
         States
<1>11. StopBookkeeping'
  <2>1. CASE OnStop /\ RequestGracefulShutdown(FALSE)
    <3>1. overtaken' <=> queuedStarts # 0
      BY <2>1 DEF TypeOK, FlagsOK
    <3>2. queuedStarts' = queuedStarts
      BY <2>1
    <3>3. ~explicitRestartRequested'
      BY <2>1
    <3>4. stopRequested' \/ proc' = "NotRunning"
      BY <2>1
    <3> QED
      BY <3>1, <3>2, <3>3, <3>4 DEF StopBookkeeping
  <2>2. CASE OnStopIgnored
    <3>1. overtaken' <=> queuedStarts # 0
      BY <2>2 DEF TypeOK, FlagsOK
    <3>2. /\ queuedStarts' = queuedStarts
          /\ explicitRestartRequested' = explicitRestartRequested
          /\ proc' = proc /\ state = "Stopped"
      BY <2>2
    <3> QED
      BY <3>1, <3>2 DEF StopBookkeeping, NoOrphan
  <2> QED
    BY <2>1, <2>2
<1>12. PromiseBookkeeping'
  BY DEF PromiseBookkeeping, NoOrphan, ActiveClient, StateBookkeeping,
         ChildBookkeeping, TypeOK, States
<1>13. DestroyBookkeeping'
  BY DEF DestroyBookkeeping, Doomed, TypeOK, FlagsOK
<1> QED
  BY <1>1, <1>2, <1>3, <1>4, <1>5, <1>6, <1>7, <1>8, <1>9, <1>10, <1>11,
     <1>12, <1>13 DEF IInv

\* The invariant survives restart().
LEMMA RestartIInv == ASSUME IInv, Restart PROVE IInv'
<1> USE DEF object, Listening, Restart, OnRestartIdle, WantsToRun, Launch,
            FailAfter, ReportsCap, files,
            child, CleanupSession, ArmStartupTimer, ClientUnchanged, peer,
            OnRestart, RequestGracefulShutdown, ShutdownAsked,
            ShutdownUnwritten, Fail, Kill, CloseClient, ChildTerminated,
            NothingToShutDown, HandleProcessFinished, StopTimers, QueueStart,
            Unexpected, RestartsLeft, CountRestart, ExitReason, DropClient,
            IInv
<1>1. FlagsOK'
  BY Zenon DEF TypeOK, FlagsOK
<1>2. TypeOK'
  BY <1>1, RestartsAssumption, RequestsAssumption
     DEF TypeOK, States, ClientStates, FailureCodes, ReportsCap
<1>3. NoOrphan'
  BY DEF NoOrphan, Doomed, StateBookkeeping, ChildBookkeeping
<1>4. Supervised'
  BY DEF Supervised, Doomed, NoOrphan, StateBookkeeping, ChildBookkeeping
<1>5. SessionBinding'
  BY DEF SessionBinding, ActiveClient, StateBookkeeping, ChildBookkeeping
<1>6. LaunchBudget'
  BY DEF LaunchBudget, TypeOK
<1>7. BudgetBeforeFailure'
  BY RestartsAssumption
     DEF BudgetBeforeFailure, ActiveClient, StateBookkeeping, TypeOK, States
<1>8. CredentialHygiene'
  BY DEF CredentialHygiene
<1>9. ChildBookkeeping'
  BY DEF ChildBookkeeping, TypeOK
<1>10. StateBookkeeping'
  BY DEF StateBookkeeping, ActiveClient, NoOrphan, ChildBookkeeping, TypeOK,
         States
<1>11. StopBookkeeping'
  BY DEF StopBookkeeping, NoOrphan, TypeOK, States
<1>12. PromiseBookkeeping'
  BY DEF PromiseBookkeeping, NoOrphan, ActiveClient, StateBookkeeping,
         ChildBookkeeping, TypeOK, States
<1>13. DestroyBookkeeping'
  BY DEF DestroyBookkeeping, Doomed, TypeOK, FlagsOK
<1> QED
  BY <1>1, <1>2, <1>3, <1>4, <1>5, <1>6, <1>7, <1>8, <1>9, <1>10, <1>11,
     <1>12, <1>13 DEF IInv

\* The invariant survives the destructor.
LEMMA DestroyIInv == ASSUME IInv, Destroy PROVE IInv'
<1> USE DEF object, Listening, Destroy, OnDestroy, StopTimers, Kill, files, child,
            history, CloseClient, IInv
<1>1. FlagsOK'
  BY Zenon DEF TypeOK, FlagsOK
<1>2. TypeOK'
  BY <1>1, RestartsAssumption, RequestsAssumption
     DEF TypeOK, States, ClientStates, FailureCodes, ReportsCap
<1>3. NoOrphan'
  BY DEF NoOrphan, Doomed, StateBookkeeping, ChildBookkeeping
<1>4. Supervised'
  BY DEF Supervised, Doomed, NoOrphan, StateBookkeeping, ChildBookkeeping
<1>5. SessionBinding'
  BY DEF SessionBinding, ActiveClient, StateBookkeeping, ChildBookkeeping
<1>6. LaunchBudget'
  BY DEF LaunchBudget, TypeOK
<1>7. BudgetBeforeFailure'
  BY RestartsAssumption
     DEF BudgetBeforeFailure, ActiveClient, StateBookkeeping, TypeOK, States
<1>8. CredentialHygiene'
  BY DEF CredentialHygiene
<1>9. ChildBookkeeping'
  BY DEF ChildBookkeeping, TypeOK
<1>10. StateBookkeeping'
  BY DEF StateBookkeeping, ActiveClient, NoOrphan, ChildBookkeeping, TypeOK,
         States
<1>11. StopBookkeeping'
  BY DEF StopBookkeeping, NoOrphan, TypeOK, States
<1>12. PromiseBookkeeping'
  BY DEF PromiseBookkeeping, NoOrphan, ActiveClient, StateBookkeeping,
         ChildBookkeeping, TypeOK, States
<1>13. DestroyBookkeeping'
  BY DEF DestroyBookkeeping, Doomed, TypeOK, FlagsOK
<1> QED
  BY <1>1, <1>2, <1>3, <1>4, <1>5, <1>6, <1>7, <1>8, <1>9, <1>10, <1>11,
     <1>12, <1>13 DEF IInv

\* The invariant survives the end of the destructor.
LEMMA DestroyedIInv == ASSUME IInv, Destroyed PROVE IInv'
<1> USE DEF object, Listening, Destroyed, OnDestroyed, CleanupSession, Kill, child, control,
            timers, history, DropClient, IInv
<1>1. FlagsOK'
  BY Zenon DEF TypeOK, FlagsOK
<1>2. TypeOK'
  BY <1>1, RestartsAssumption, RequestsAssumption
     DEF TypeOK, States, ClientStates, FailureCodes, ReportsCap
<1>3. NoOrphan'
  BY DEF NoOrphan, Doomed, StateBookkeeping, ChildBookkeeping
<1>4. Supervised'
  BY DEF Supervised, Doomed, NoOrphan, StateBookkeeping, ChildBookkeeping
<1>5. SessionBinding'
  BY DEF SessionBinding, ActiveClient, StateBookkeeping, ChildBookkeeping
<1>6. LaunchBudget'
  BY DEF LaunchBudget, TypeOK
<1>7. BudgetBeforeFailure'
  BY RestartsAssumption
     DEF BudgetBeforeFailure, ActiveClient, StateBookkeeping, TypeOK, States
<1>8. CredentialHygiene'
  BY DEF CredentialHygiene
<1>9. ChildBookkeeping'
  BY DEF ChildBookkeeping, TypeOK
<1>10. StateBookkeeping'
  BY DEF StateBookkeeping, DestroyBookkeeping, ActiveClient, NoOrphan, ChildBookkeeping, TypeOK,
         States
<1>11. StopBookkeeping'
  BY DEF StopBookkeeping, NoOrphan, TypeOK, States
<1>12. PromiseBookkeeping'
  BY DEF PromiseBookkeeping, DestroyBookkeeping, NoOrphan, ActiveClient, StateBookkeeping,
         ChildBookkeeping, TypeOK, States
<1>13. DestroyBookkeeping'
  BY DEF DestroyBookkeeping, Doomed, TypeOK, FlagsOK
<1> QED
  BY <1>1, <1>2, <1>3, <1>4, <1>5, <1>6, <1>7, <1>8, <1>9, <1>10, <1>11,
     <1>12, <1>13 DEF IInv

\* The invariant survives a start() queued by handleProcessFinished.
LEMMA QueuedStartIInv == ASSUME IInv, QueuedStart PROVE IInv'
<1> USE DEF object, Listening, QueuedStart, OnQueuedStart, Launch, FailAfter, ReportsCap, files,
            child, CleanupSession, ArmStartupTimer, ClientUnchanged, peer,
            IInv
<1>1. FlagsOK'
  BY Zenon DEF TypeOK, FlagsOK
<1>2. TypeOK'
  BY <1>1, RestartsAssumption, RequestsAssumption
     DEF TypeOK, States, ClientStates, FailureCodes, ReportsCap
<1>3. NoOrphan'
  BY DEF NoOrphan, Doomed, StateBookkeeping, ChildBookkeeping
<1>4. Supervised'
  BY DEF Supervised, Doomed, NoOrphan, StateBookkeeping, ChildBookkeeping
<1>5. SessionBinding'
  BY DEF SessionBinding, ActiveClient, StateBookkeeping, ChildBookkeeping
<1>6. LaunchBudget'
  BY DEF LaunchBudget, TypeOK
<1>7. BudgetBeforeFailure'
  BY RestartsAssumption
     DEF BudgetBeforeFailure, ActiveClient, StateBookkeeping, TypeOK, States
<1>8. CredentialHygiene'
  BY DEF CredentialHygiene
<1>9. ChildBookkeeping'
  BY DEF ChildBookkeeping, TypeOK
<1>10. StateBookkeeping'
  BY DEF StateBookkeeping, ActiveClient, NoOrphan, ChildBookkeeping, TypeOK,
         States
<1>11. StopBookkeeping'
  BY DEF StopBookkeeping, NoOrphan, TypeOK, States
<1>12. PromiseBookkeeping'
  BY DEF PromiseBookkeeping, NoOrphan, ActiveClient, StateBookkeeping,
         ChildBookkeeping, TypeOK, States
<1>13. DestroyBookkeeping'
  BY DEF DestroyBookkeeping, Doomed, TypeOK, FlagsOK
<1> QED
  BY <1>1, <1>2, <1>3, <1>4, <1>5, <1>6, <1>7, <1>8, <1>9, <1>10, <1>11,
     <1>12, <1>13 DEF IInv

\* The invariant survives the startup timer.
LEMMA StartupTimeoutIInv == ASSUME IInv, StartupTimeout PROVE IInv'
<1> USE DEF object, Listening, StartupTimeout, OnStartupTimeout, Fail, FailAfter, ReportsCap,
            ForceStop, StopTimers, Kill, files, child, history, CloseClient,
            IInv
<1>1. FlagsOK'
  BY Zenon DEF TypeOK, FlagsOK
<1>2. TypeOK'
  BY <1>1, RestartsAssumption, RequestsAssumption
     DEF TypeOK, States, ClientStates, FailureCodes, ReportsCap
<1>3. NoOrphan'
  BY DEF NoOrphan, Doomed, StateBookkeeping, ChildBookkeeping
<1>4. Supervised'
  BY DEF Supervised, Doomed, NoOrphan, StateBookkeeping, ChildBookkeeping
<1>5. SessionBinding'
  BY DEF SessionBinding, ActiveClient, StateBookkeeping, ChildBookkeeping
<1>6. LaunchBudget'
  BY DEF LaunchBudget, TypeOK
<1>7. BudgetBeforeFailure'
  BY RestartsAssumption
     DEF BudgetBeforeFailure, ActiveClient, StateBookkeeping, TypeOK, States
<1>8. CredentialHygiene'
  BY DEF CredentialHygiene
<1>9. ChildBookkeeping'
  BY DEF ChildBookkeeping, TypeOK
<1>10. StateBookkeeping'
  BY DEF StateBookkeeping, ActiveClient, NoOrphan, ChildBookkeeping, TypeOK,
         States
<1>11. StopBookkeeping'
  BY DEF StopBookkeeping, NoOrphan, TypeOK, States
<1>12. PromiseBookkeeping'
  BY DEF PromiseBookkeeping, NoOrphan, ActiveClient, StateBookkeeping,
         ChildBookkeeping, TypeOK, States
<1>13. DestroyBookkeeping'
  BY DEF DestroyBookkeeping, Doomed, TypeOK, FlagsOK
<1> QED
  BY <1>1, <1>2, <1>3, <1>4, <1>5, <1>6, <1>7, <1>8, <1>9, <1>10, <1>11,
     <1>12, <1>13 DEF IInv

\* The invariant survives the shutdown timer.
LEMMA ShutdownTimeoutIInv == ASSUME IInv, ShutdownTimeout PROVE IInv'
<1> USE DEF object, Listening, ShutdownTimeout, OnShutdownTimeout, ForceStop, StopTimers, Kill,
            control, files, child, history, CloseClient, IInv
<1>1. FlagsOK'
  BY Zenon DEF TypeOK, FlagsOK
<1>2. TypeOK'
  BY <1>1, RestartsAssumption, RequestsAssumption
     DEF TypeOK, States, ClientStates, FailureCodes, ReportsCap
<1>3. NoOrphan'
  BY DEF NoOrphan, Doomed, StateBookkeeping, ChildBookkeeping
<1>4. Supervised'
  BY DEF Supervised, Doomed, NoOrphan, StateBookkeeping, ChildBookkeeping
<1>5. SessionBinding'
  BY DEF SessionBinding, ActiveClient, StateBookkeeping, ChildBookkeeping
<1>6. LaunchBudget'
  BY DEF LaunchBudget, TypeOK
<1>7. BudgetBeforeFailure'
  BY RestartsAssumption
     DEF BudgetBeforeFailure, ActiveClient, StateBookkeeping, TypeOK, States
<1>8. CredentialHygiene'
  BY DEF CredentialHygiene
<1>9. ChildBookkeeping'
  BY DEF ChildBookkeeping, TypeOK
<1>10. StateBookkeeping'
  BY DEF StateBookkeeping, ActiveClient, NoOrphan, ChildBookkeeping, TypeOK,
         States
<1>11. StopBookkeeping'
  BY DEF StopBookkeeping, NoOrphan, TypeOK, States
<1>12. PromiseBookkeeping'
  BY DEF PromiseBookkeeping, NoOrphan, ActiveClient, StateBookkeeping,
         ChildBookkeeping, TypeOK, States
<1>13. DestroyBookkeeping'
  BY DEF DestroyBookkeeping, Doomed, TypeOK, FlagsOK
<1> QED
  BY <1>1, <1>2, <1>3, <1>4, <1>5, <1>6, <1>7, <1>8, <1>9, <1>10, <1>11,
     <1>12, <1>13 DEF IInv

\* The invariant survives the ready record.
LEMMA HandleReadyLineIInv == ASSUME IInv, HandleReadyLine PROVE IInv'
<1> USE DEF object, Listening, HandleReadyLine, OnReadyLine, EndpointMatches, timers, files,
            history, OnReadyLineRefused, Fail, FailAfter, ReportsCap,
            ForceStop, StopTimers, Kill, CloseClient, IInv
<1>1. FlagsOK'
  BY Zenon DEF TypeOK, FlagsOK
<1>2. TypeOK'
  BY <1>1, RestartsAssumption, RequestsAssumption
     DEF TypeOK, States, ClientStates, FailureCodes, ReportsCap
<1>3. NoOrphan'
  BY DEF NoOrphan, Doomed, StateBookkeeping, ChildBookkeeping
<1>4. Supervised'
  BY DEF Supervised, Doomed, NoOrphan, StateBookkeeping, ChildBookkeeping
<1>5. SessionBinding'
  BY DEF SessionBinding, ActiveClient, StateBookkeeping, ChildBookkeeping
<1>6. LaunchBudget'
  BY DEF LaunchBudget, TypeOK
<1>7. BudgetBeforeFailure'
  BY RestartsAssumption
     DEF BudgetBeforeFailure, ActiveClient, StateBookkeeping, TypeOK, States
<1>8. CredentialHygiene'
  BY DEF CredentialHygiene
<1>9. ChildBookkeeping'
  BY DEF ChildBookkeeping, TypeOK
<1>10. StateBookkeeping'
  BY DEF StateBookkeeping, ActiveClient, NoOrphan, ChildBookkeeping, TypeOK,
         States
<1>11. StopBookkeeping'
  BY DEF StopBookkeeping, NoOrphan, TypeOK, States
<1>12. PromiseBookkeeping'
  BY DEF PromiseBookkeeping, NoOrphan, ActiveClient, StateBookkeeping,
         ChildBookkeeping, TypeOK, States
<1>13. DestroyBookkeeping'
  BY DEF DestroyBookkeeping, Doomed, TypeOK, FlagsOK
<1> QED
  BY <1>1, <1>2, <1>3, <1>4, <1>5, <1>6, <1>7, <1>8, <1>9, <1>10, <1>11,
     <1>12, <1>13 DEF IInv

\* The invariant survives the end of the child.
LEMMA FinishedIInv == ASSUME IInv, Finished PROVE IInv'
<1> USE DEF object, Listening, Finished, OnFinished, HandleProcessFinished, StopTimers,
            CleanupSession, QueueStart, Unexpected, RestartsLeft,
            CountRestart, Fail, FailAfter, ReportsCap, ExitReason, history,
            DropClient, IInv
<1>1. FlagsOK'
  BY Zenon DEF TypeOK, FlagsOK
<1>2. TypeOK'
  BY <1>1, RestartsAssumption, RequestsAssumption
     DEF TypeOK, States, ClientStates, FailureCodes, ReportsCap
<1>3. NoOrphan'
  BY DEF NoOrphan, Doomed, StateBookkeeping, ChildBookkeeping
<1>4. Supervised'
  BY DEF Supervised, Doomed, NoOrphan, StateBookkeeping, ChildBookkeeping
<1>5. SessionBinding'
  BY DEF SessionBinding, ActiveClient, StateBookkeeping, ChildBookkeeping
<1>6. LaunchBudget'
  BY DEF LaunchBudget, TypeOK
<1>7. BudgetBeforeFailure'
  BY RestartsAssumption
     DEF BudgetBeforeFailure, ActiveClient, StateBookkeeping, TypeOK, States
<1>8. CredentialHygiene'
  BY DEF CredentialHygiene
<1>9. ChildBookkeeping'
  BY DEF ChildBookkeeping, TypeOK
<1>10. StateBookkeeping'
  BY DEF StateBookkeeping, ActiveClient, NoOrphan, ChildBookkeeping, TypeOK,
         States
<1>11. StopBookkeeping'
  BY DEF StopBookkeeping, NoOrphan, TypeOK, States
<1>12. PromiseBookkeeping'
  BY DEF PromiseBookkeeping, NoOrphan, ActiveClient, StateBookkeeping,
         ChildBookkeeping, TypeOK, States
<1>13. DestroyBookkeeping'
  BY DEF DestroyBookkeeping, Doomed, TypeOK, FlagsOK
<1> QED
  BY <1>1, <1>2, <1>3, <1>4, <1>5, <1>6, <1>7, <1>8, <1>9, <1>10, <1>11,
     <1>12, <1>13 DEF IInv

\* The invariant survives the end of the handshake.
LEMMA ClientReadyIInv == ASSUME IInv, ClientReady PROVE IInv'
<1> USE DEF object, Listening, ClientReady, OnClientReady, child, history, IInv
<1>1. FlagsOK'
  BY Zenon DEF TypeOK, FlagsOK
<1>2. TypeOK'
  BY <1>1, RestartsAssumption, RequestsAssumption
     DEF TypeOK, States, ClientStates, FailureCodes, ReportsCap
<1>3. NoOrphan'
  BY DEF NoOrphan, Doomed, StateBookkeeping, ChildBookkeeping
<1>4. Supervised'
  BY DEF Supervised, Doomed, NoOrphan, StateBookkeeping, ChildBookkeeping
<1>5. SessionBinding'
  BY DEF SessionBinding, ActiveClient, StateBookkeeping, ChildBookkeeping
<1>6. LaunchBudget'
  BY DEF LaunchBudget, TypeOK
<1>7. BudgetBeforeFailure'
  BY RestartsAssumption
     DEF BudgetBeforeFailure, ActiveClient, StateBookkeeping, TypeOK, States
<1>8. CredentialHygiene'
  BY DEF CredentialHygiene
<1>9. ChildBookkeeping'
  BY DEF ChildBookkeeping, TypeOK
<1>10. StateBookkeeping'
  BY DEF StateBookkeeping, ActiveClient, NoOrphan, ChildBookkeeping, TypeOK,
         States
<1>11. StopBookkeeping'
  BY DEF StopBookkeeping, NoOrphan, TypeOK, States
<1>12. PromiseBookkeeping'
  BY DEF PromiseBookkeeping, NoOrphan, ActiveClient, StateBookkeeping,
         ChildBookkeeping, TypeOK, States
<1>13. DestroyBookkeeping'
  BY DEF DestroyBookkeeping, Doomed, TypeOK, FlagsOK
<1> QED
  BY <1>1, <1>2, <1>3, <1>4, <1>5, <1>6, <1>7, <1>8, <1>9, <1>10, <1>11,
     <1>12, <1>13 DEF IInv

\* The invariant survives a lost connection.
LEMMA ClientTransportFailsIInv == ASSUME IInv, ClientTransportFails PROVE IInv'
<1> USE DEF object, Listening, ClientTransportFails, OnClientLost, Kill, timers, files, child,
            history, OnClientFailed, Fail, FailAfter, ReportsCap, ForceStop,
            StopTimers, CloseClient, IInv
<1>1. FlagsOK'
  BY Zenon DEF TypeOK, FlagsOK
<1>2. TypeOK'
  BY <1>1, RestartsAssumption, RequestsAssumption
     DEF TypeOK, States, ClientStates, FailureCodes, ReportsCap
<1>3. NoOrphan'
  BY DEF NoOrphan, Doomed, StateBookkeeping, ChildBookkeeping
<1>4. Supervised'
  BY DEF Supervised, Doomed, NoOrphan, StateBookkeeping, ChildBookkeeping
<1>5. SessionBinding'
  BY DEF SessionBinding, ActiveClient, StateBookkeeping, ChildBookkeeping
<1>6. LaunchBudget'
  BY DEF LaunchBudget, TypeOK
<1>7. BudgetBeforeFailure'
  BY RestartsAssumption
     DEF BudgetBeforeFailure, ActiveClient, StateBookkeeping, TypeOK, States
<1>8. CredentialHygiene'
  BY DEF CredentialHygiene
<1>9. ChildBookkeeping'
  BY DEF ChildBookkeeping, TypeOK
<1>10. StateBookkeeping'
  BY DEF StateBookkeeping, ActiveClient, NoOrphan, ChildBookkeeping, TypeOK,
         States
<1>11. StopBookkeeping'
  BY DEF StopBookkeeping, NoOrphan, TypeOK, States
<1>12. PromiseBookkeeping'
  BY DEF PromiseBookkeeping, NoOrphan, ActiveClient, StateBookkeeping,
         ChildBookkeeping, TypeOK, States
<1>13. DestroyBookkeeping'
  BY DEF DestroyBookkeeping, Doomed, TypeOK, FlagsOK
<1> QED
  BY <1>1, <1>2, <1>3, <1>4, <1>5, <1>6, <1>7, <1>8, <1>9, <1>10, <1>11,
     <1>12, <1>13 DEF IInv

\* The invariant survives a broken protocol.
LEMMA ClientProtocolFailsIInv == ASSUME IInv, ClientProtocolFails PROVE IInv'
<1> USE DEF object, Listening, ClientProtocolFails, OnClientFailed, Fail, FailAfter, ReportsCap,
            ForceStop, StopTimers, Kill, files, child, history, CloseClient,
            IInv
<1>1. FlagsOK'
  BY Zenon DEF TypeOK, FlagsOK
<1>2. TypeOK'
  BY <1>1, RestartsAssumption, RequestsAssumption
     DEF TypeOK, States, ClientStates, FailureCodes, ReportsCap
<1>3. NoOrphan'
  BY DEF NoOrphan, Doomed, StateBookkeeping, ChildBookkeeping
<1>4. Supervised'
  BY DEF Supervised, Doomed, NoOrphan, StateBookkeeping, ChildBookkeeping
<1>5. SessionBinding'
  BY DEF SessionBinding, ActiveClient, StateBookkeeping, ChildBookkeeping
<1>6. LaunchBudget'
  BY DEF LaunchBudget, TypeOK
<1>7. BudgetBeforeFailure'
  BY RestartsAssumption
     DEF BudgetBeforeFailure, ActiveClient, StateBookkeeping, TypeOK, States
<1>8. CredentialHygiene'
  BY DEF CredentialHygiene
<1>9. ChildBookkeeping'
  BY DEF ChildBookkeeping, TypeOK
<1>10. StateBookkeeping'
  BY DEF StateBookkeeping, ActiveClient, NoOrphan, ChildBookkeeping, TypeOK,
         States
<1>11. StopBookkeeping'
  BY DEF StopBookkeeping, NoOrphan, TypeOK, States
<1>12. PromiseBookkeeping'
  BY DEF PromiseBookkeeping, NoOrphan, ActiveClient, StateBookkeeping,
         ChildBookkeeping, TypeOK, States
<1>13. DestroyBookkeeping'
  BY DEF DestroyBookkeeping, Doomed, TypeOK, FlagsOK
<1> QED
  BY <1>1, <1>2, <1>3, <1>4, <1>5, <1>6, <1>7, <1>8, <1>9, <1>10, <1>11,
     <1>12, <1>13 DEF IInv

\* Every step, and every stuttering step, preserves the inductive invariant.
LEMMA NextIInv == ASSUME IInv, [Next]_vars PROVE IInv'
<1> USE DEF IInv, TypeOK, FlagsOK, NoOrphan, Doomed, ActiveClient, Supervised,
            SessionBinding, LaunchBudget, BudgetBeforeFailure,
            CredentialHygiene, ChildBookkeeping, StateBookkeeping,
            StopBookkeeping, PromiseBookkeeping, DestroyBookkeeping, Listening,
            object
<1>1. CASE Start
  BY <1>1, StartIInv
<1>2. CASE Stop
  BY <1>2, StopIInv
<1>3. CASE Restart
  BY <1>3, RestartIInv
<1>4. CASE Destroy
  BY <1>4, DestroyIInv
<1>5. CASE QueuedStart
  BY <1>5, QueuedStartIInv
<1>6. CASE StartupTimeout
  BY <1>6, StartupTimeoutIInv
<1>7. CASE ShutdownTimeout
  BY <1>7, ShutdownTimeoutIInv
<1>8. CASE HandleReadyLine
  BY <1>8, HandleReadyLineIInv
<1>9. CASE Finished
  BY <1>9, FinishedIInv
<1>10. CASE ClientReady
  BY <1>10, ClientReadyIInv
<1>11. CASE ClientTransportFails
  BY <1>11, ClientTransportFailsIInv
<1>12. CASE ClientProtocolFails
  BY <1>12, ClientProtocolFailsIInv
<1>13. CASE StandardError
  BY <1>13 DEF StandardError, OnStandardError, timers, files, child, history,
               ClientUnchanged, peer, FailureCodes
<1>14. CASE FailedToStart
  BY <1>14 DEF FailedToStart, OnFailedToStart, Fail, FailAfter, ReportsCap,
               timers, files, history, ClientUnchanged, peer, FailureCodes,
               States, ReportsCap
<1>15. CASE ClientConnected
  BY <1>15 DEF ClientConnected, controllerVars, control, timers, files,
               child, history, ClientStates
<1>16. CASE ShutdownReply
  BY <1>16 DEF ShutdownReply, controllerVars, control, timers, files, child,
               history, ClientStates
<1>17. CASE ClientDisconnected
  BY <1>17 DEF ClientDisconnected, controllerVars, control, timers, files,
               child, history, ClientStates
<1>18. CASE ChildStarts
  BY <1>18 DEF ChildStarts, ChildRuns, ControllerUnchanged, control, timers,
               files, history, ClientUnchanged, peer
<1>19. CASE ChildPrintsReady
  BY <1>19 DEF ChildPrintsReady, ChildPrints, ControllerUnchanged, control,
               timers, files, history, ClientUnchanged, peer
<1>20. CASE ChildAnswersHello
  BY <1>20 DEF ChildAnswersHello, controllerVars, control, timers, files,
               child, history
<1>21. CASE ChildAnswersShutdown
  BY <1>21 DEF ChildAnswersShutdown, controllerVars, control, timers, files,
               child, history
<1>22. CASE ChildBreaksProtocol
  BY <1>22 DEF ChildBreaksProtocol, controllerVars, control, timers, files,
               child, history
<1>23. CASE ChildExits
  BY <1>23 DEF ChildExits, ChildDies, ControllerUnchanged, control, timers,
               files, history, ClientUnchanged, peer
<1>25. CASE Destroyed
  BY <1>25, DestroyedIInv
<1>24. CASE UNCHANGED vars
  BY <1>24 DEF vars, controllerVars, control, timers, files, peer, child,
              history
<1> QED
  BY <1>1, <1>2, <1>3, <1>4, <1>5, <1>6, <1>7, <1>8, <1>9, <1>10, <1>11,
     <1>12, <1>13, <1>14, <1>15, <1>16, <1>17, <1>18, <1>19, <1>20, <1>21,
     <1>22, <1>23, <1>24, <1>25 DEF Next

\* The inductive invariant holds in every reachable state.
THEOREM Invariance == Spec => []IInv
<1>1. Init => IInv
  BY InitIInv
<1>2. IInv /\ [Next]_vars => IInv'
  BY NextIInv
<1> QED
  BY <1>1, <1>2, PTL DEF Spec

\* Every variable keeps its type, and the counters their bounds.
THEOREM TypeCorrect == Spec => []TypeOK
<1>1. IInv => TypeOK
  BY DEF IInv
<1> QED
  BY <1>1, Invariance, PTL

\* A controller that is Stopped has no child, one that is Failed no child it has not
\* killed (service_process.cpp:391-400).
THEOREM NoOrphanHolds == Spec => []NoOrphan
<1>1. IInv => NoOrphan
  BY DEF IInv
<1> QED
  BY <1>1, Invariance, PTL

\* A live child that is not ready has a deadline, and a stop always sets one.
THEOREM SupervisedHolds == Spec => []Supervised
<1>1. IInv => Supervised
  BY DEF IInv
<1> QED
  BY <1>1, Invariance, PTL

\* The client never talks to a child of an earlier session.
THEOREM SessionBindingHolds == Spec => []SessionBinding
<1>1. IInv => SessionBinding
  BY DEF IInv
<1> QED
  BY <1>1, Invariance, PTL

\* Launches are requests plus counted automatic restarts.
THEOREM LaunchBudgetHolds == Spec => []LaunchBudget
<1>1. IInv => LaunchBudget
  BY DEF IInv
<1> QED
  BY <1>1, Invariance, PTL

\* A crash is fatal only with the restart budget spent or a stop under way.
THEOREM BudgetBeforeFailureHolds == Spec => []BudgetBeforeFailure
<1>1. IInv => BudgetBeforeFailure
  BY DEF IInv
<1> QED
  BY <1>1, Invariance, PTL

\* The token is gone once the service is ready, the session once it stopped.
THEOREM CredentialHygieneHolds == Spec => []CredentialHygiene
<1>1. IInv => CredentialHygiene
  BY DEF IInv
<1> QED
  BY <1>1, Invariance, PTL

\* After a stop nothing adds a launch, except that what was queued before it may be
\* launched and restarted, each restart counted.
THEOREM StopIsRespectedHolds == Spec => StopIsRespected
<1> DEFINE Allowed ==
             ~mayRun' =>
               launches' + queuedStarts' <=
                   launches + queuedStarts
                     + (IF overtaken'
                        THEN automaticRestartCount' - automaticRestartCount ELSE 0)
<1>1. ASSUME IInv, [Next]_vars PROVE Allowed
  <2>0. /\ launches \in Nat /\ queuedStarts \in Nat /\ automaticRestartCount \in Nat
        /\ overtaken \in BOOLEAN /\ mayRun \in BOOLEAN
    BY <1>1, RestartsAssumption DEF IInv, TypeOK, FlagsOK
  <2>1. CASE Start
    BY <2>1 DEF Start, OnStart, WantsToRun
  <2>2. CASE Restart
    BY <2>2 DEF Restart, OnRestart, OnRestartIdle, WantsToRun
  <2>3. CASE QueuedStart
    <3>1. /\ automaticRestartCount' = automaticRestartCount
          /\ queuedStarts' = queuedStarts - 1
      BY <2>3 DEF QueuedStart, OnQueuedStart
    <3>2. launches' = launches \/ launches' = launches + 1
      BY <2>3 DEF QueuedStart, OnQueuedStart, Launch
    <3> QED
      BY <2>0, <3>1, <3>2
  <2>4. CASE Stop
    <3>1. launches' = launches
      BY <2>4 DEF Stop, OnStop, OnStopIgnored
    <3>2. /\ queuedStarts' = queuedStarts
          /\ automaticRestartCount' = automaticRestartCount
      BY <2>4 DEF Stop, OnStop, OnStopIgnored, control, RequestGracefulShutdown,
           ShutdownAsked, ShutdownUnwritten, ChildTerminated, NothingToShutDown,
           HandleProcessFinished, Unexpected
    <3> QED
      BY <2>0, <3>1, <3>2
  <2>5. CASE Finished
    <3>1. launches' = launches /\ mayRun' = mayRun /\ overtaken' = overtaken
      BY <2>5 DEF Finished, OnFinished, history
    <3>2. CASE mayRun
      BY <3>1, <3>2
    <3>3. CASE ~mayRun /\ ~overtaken
      <4>1. stopRequested /\ ~explicitRestartRequested
        BY <1>1, <2>5, <3>3 DEF IInv, StopBookkeeping, Finished, OnFinished
      <4>2. queuedStarts' = queuedStarts
        BY <4>1, <2>5 DEF Finished, OnFinished, HandleProcessFinished, Unexpected
      <4> QED
        BY <2>0, <3>1, <3>3, <4>2
    <3>4. CASE ~mayRun /\ overtaken
      <4>1. ~explicitRestartRequested
        BY <1>1, <3>4 DEF IInv, StopBookkeeping
      <4>2. \/ /\ queuedStarts' = queuedStarts
               /\ automaticRestartCount' = automaticRestartCount
            \/ /\ queuedStarts' = queuedStarts + 1
               /\ automaticRestartCount' = automaticRestartCount + 1
        BY <4>1, <2>5 DEF Finished, OnFinished, HandleProcessFinished, CountRestart,
             QueueStart
      <4> QED
        BY <2>0, <3>1, <3>4, <4>2
    <3> QED
      BY <2>0, <3>2, <3>3, <3>4
  <2>6. CASE Destroyed
    <3>1. /\ launches' = launches /\ queuedStarts' = 0
          /\ automaticRestartCount' = automaticRestartCount
      BY <2>6 DEF Destroyed, OnDestroyed, history, control
    <3> QED
      BY <2>0, <3>1
  <2>7. CASE /\ launches' = launches /\ queuedStarts' = queuedStarts
             /\ automaticRestartCount' = automaticRestartCount
    BY <2>0, <2>7
  <2>8. \/ Start \/ Restart \/ QueuedStart \/ Stop \/ Finished \/ Destroyed
        \/ /\ launches' = launches /\ queuedStarts' = queuedStarts
           /\ automaticRestartCount' = automaticRestartCount
    BY <1>1 DEF Next, vars, controllerVars, control, history, Destroy,
         OnDestroy, StartupTimeout, OnStartupTimeout, ShutdownTimeout,
         OnShutdownTimeout, HandleReadyLine, OnReadyLine, OnReadyLineRefused,
         StandardError, OnStandardError, FailedToStart, OnFailedToStart,
         ClientConnected, ClientReady, OnClientReady,
         ClientTransportFails, OnClientLost, OnClientFailed,
         ClientProtocolFails, ShutdownReply, ClientDisconnected, ChildStarts,
         ChildRuns, ControllerUnchanged, ChildPrintsReady, ChildPrints,
         ChildAnswersHello, ChildAnswersShutdown, ChildBreaksProtocol,
         ChildExits, ChildDies
  <2> QED
    BY <2>1, <2>2, <2>3, <2>4, <2>5, <2>6, <2>7, <2>8
<1>2. IInv /\ [Next]_vars => [Allowed]_vars
  BY <1>1
<1> QED
  BY <1>2, Invariance, PTL DEF Spec, StopIsRespected
=============================================================================
