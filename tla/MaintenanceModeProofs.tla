------------------------ MODULE MaintenanceModeProofs ------------------------
(***************************************************************************)
(* What holds of the maintenance mode, for every build and environment and *)
(* any number of mode requests: the types, that the mode is frozen while a *)
(* cycle is at its tasks, and that requests take nothing from what is      *)
(* proved of the cycle.                                                    *)
(*                                                                         *)
(* The status is read without m_statusMutex, so the second rests on two    *)
(* facts: the invariants of the cycle, which the requests do not disturb,  *)
(* and m_callMutex, which keeps the worker from its tasks while a request  *)
(* that found no cycle is between its check and its writes.                *)
(***************************************************************************)
EXTENDS MaintenanceMode, MaintenanceAwaits, MaintenanceRefinement

\* The places of the worker after it has taken m_callMutex for its tasks.
Frozen == TaskPlaces \ {"build", "skipFirmware", "lock"}

\* Who holds the mutex serves a request, and one that found no cycle keeps the worker away
\* from its tasks.
RequestInv ==
    /\ callMutex = "client" => request \in Requests
    /\ callMutex = "client" /\ allowed = "idle" => wpc \notin Frozen

ModeInv == IInv /\ ModeTypeOK /\ RequestInv

LEMMA ModeInitInv == ModeInit => ModeInv
<1> SUFFICES ASSUME ModeInit PROVE ModeInv
  OBVIOUS
<1>1. IInv
  BY InitInv DEF ModeInit
<1>2. ModeTypeOK /\ RequestInv
  BY DEF ModeInit, Init, ModeTypeOK, RequestInv
<1> QED
  BY <1>1, <1>2 DEF ModeInv

\* The requests take and give m_callMutex, of which the cycle's invariants know only the type.
LEMMA CycleUndisturbed ==
    ASSUME IInv, SetModeCheck \/ SetModeWrite
    PROVE  IInv'
<1>1. UNCHANGED <<sharedVars, net, workerVars, scripts>> /\ callMutex' \in {"free", "client"}
  BY DEF SetModeCheck, SetModeWrite
<1> QED
  BY <1>1 DEF IInv, TypeOK, ThreadInv, StartInv, BootCycleFirst, PlaceInv, sharedVars, ownerVars,
              recordVars, workerVars

LEMMA ModeTyping ==
    ASSUME ModeTypeOK, RequestInv, ModeNext
    PROVE  ModeTypeOK'
<1>1. CASE CycleStep
  BY <1>1 DEF CycleStep, ModeTypeOK
<1>2. CASE SetModeCheck
  <2>1. allowed' \in {"no", "idle", "rfc"}
    BY <1>2 DEF SetModeCheck, Allowance
  <2> QED
    BY <1>2, <2>1 DEF SetModeCheck, ModeTypeOK
<1>3. CASE SetModeWrite
  <2>1. request \in [mode : {"FOREGROUND", "BACKGROUND"}, optOut : {"NONE", "IGNORE_UPDATE", "invalid"}]
    BY <1>3, RequestAssumption DEF SetModeWrite, RequestInv
  <2>2. mode' \in {"FOREGROUND", "BACKGROUND"}
    BY <1>3, <2>1 DEF SetModeWrite, ModeTypeOK
  <2>3. record' \in [background : BOOLEAN, optOut : {"NONE", "IGNORE_UPDATE"}]
    BY <1>3, <2>1 DEF SetModeWrite, ModeTypeOK, ValidOptOut
  <2> QED
    BY <1>3, <2>2, <2>3 DEF SetModeWrite, ModeTypeOK
<1> QED
  BY <1>1, <1>2, <1>3 DEF ModeNext

\* The worker comes to its tasks with m_callMutex, and no step of the cycle hands it to a client.
LEMMA FrozenEntered ==
    ASSUME TypeOK, Next, callMutex' = "client"
    PROVE  callMutex = "client" /\ (wpc' \in Frozen => wpc \in Frozen)
<1> USE DEF sharedVars, ownerVars, recordVars, workerVars, Frozen, TaskPlaces
<1>0. Notified \in Frozen => wpc \in Frozen
  BY DEF Notified, TypeOK
<1>1. CASE WorkerStep \/ WSpurious
  <2>1. CASE WBegin \/ WActivation \/ WNetwork \/ WIdentity \/ WKnowWhoAmI \/ WDecide
    BY <2>1 DEF WBegin, WActivation, WNetwork, WIdentity, WKnowWhoAmI, WDecide
  <2>2. CASE WContextWait \/ WAnnounce \/ WOffline \/ WOfflineTail \/ WBuild \/ WSkipFirmware
    BY <2>2 DEF WContextWait, WAnnounce, WOffline, WOfflineTail, WBuild, WSkipFirmware
  <2>3. CASE WLock \/ WLoop \/ WRecheck \/ WLaunch \/ WWait \/ WWake \/ WExit
    BY <2>3 DEF WLock, WLoop, WRecheck, WLaunch, WWait, WWake, WExit
  <2>4. CASE WSpurious
    BY <2>4, <1>0 DEF WSpurious
  <2> QED
    BY <1>1, <2>1, <2>2, <2>3, <2>4 DEF WorkerStep
<1>2. CASE EventStep
  <2>1. ASSUME NEW t \in Tasks, Report(t) \/ ScriptDies(t)
        PROVE  callMutex' = callMutex /\ wpc' \in {wpc, Notified}
    BY <2>1 DEF Report, TaskEnded, TaskEndIgnored, ScriptDies
  <2>2. ASSUME NEW kind \in InfoEvents, NEW t \in Tasks, InfoEvent(kind, t)
        PROVE  callMutex' = callMutex /\ wpc' = wpc
    BY <2>2 DEF InfoEvent
  <2>3. CASE NewStartTime \/ EndCycle
    BY <2>3 DEF NewStartTime, EndCycle
  <2>4. CASE InternetConnected \/ ContextUpdated
    BY <2>4, <1>0 DEF InternetConnected, ContextUpdated
  <2> QED
    BY <1>0, <1>2, <2>1, <2>2, <2>3, <2>4 DEF EventStep
<1>3. CASE CallStep
  <2>1. CASE StartMaintenance \/ StartJoined \/ StopJoined \/ Initialize
    BY <2>1 DEF StartMaintenance, StartJoined, StopJoined, Initialize
  <2>2. ASSUME NEW caller \in {"stop", "deinit"}, StopMaintenance(caller)
        PROVE  callMutex' = callMutex /\ wpc' \in {wpc, Notified}
    BY <2>2 DEF StopMaintenance
  <2> QED
    BY <1>0, <1>3, <2>1, <2>2 DEF CallStep
<1> QED
  BY <1>1, <1>2, <1>3 DEF Next, EventStep, CallStep

LEMMA ModeStepInv == ModeInv /\ [ModeNext]_<<vars, modeVars>> => ModeInv'
<1> SUFFICES ASSUME ModeInv, [ModeNext]_<<vars, modeVars>> PROVE ModeInv'
  OBVIOUS
<1>1. CASE CycleStep
  <2>1. IInv'
    BY <1>1, StepInv DEF CycleStep, ModeInv
  <2>2. RequestInv'
    BY <1>1, FrozenEntered DEF CycleStep, ModeInv, IInv, RequestInv
  <2> QED
    BY <1>1, <2>1, <2>2, ModeTyping DEF ModeInv, ModeNext
<1>2. CASE SetModeCheck
  <2>1. allowed' = "idle" => notifyStatus # "STARTED"
    BY <1>2 DEF SetModeCheck, Allowance
  <2>2. RequestInv'
    BY <1>2, <2>1 DEF SetModeCheck, RequestInv, Frozen, ModeInv, IInv, PlaceInv, workerVars
  <2> QED
    BY <1>2, <2>2, CycleUndisturbed, ModeTyping DEF ModeInv, ModeNext
<1>3. CASE SetModeWrite
  <2>1. RequestInv'
    BY <1>3 DEF SetModeWrite, RequestInv
  <2> QED
    BY <1>3, <2>1, CycleUndisturbed, ModeTyping DEF ModeInv, ModeNext
<1>4. CASE UNCHANGED <<vars, modeVars>>
  <2>1. IInv'
    BY <1>4, StepInv DEF ModeInv
  <2> QED
    BY <1>4, <2>1 DEF ModeInv, ModeTypeOK, RequestInv, modeVars, vars, workerVars
<1> QED
  BY <1>1, <1>2, <1>3, <1>4 DEF ModeNext

\* The mode, the record file and the request that is served keep the values the code allows.
THEOREM ModeTypes == ModeSpec => []ModeTypeOK
<1>1. ModeInv => ModeTypeOK
  BY DEF ModeInv
<1> QED
  BY <1>1, ModeInitInv, ModeStepInv, PTL DEF ModeSpec

\* From a cycle's first task on, setMaintenanceMode() changes the mode only by the RFC.
THEOREM ModeIsFrozen == ModeSpec => ModeFrozenDuringTasks
<1>1. ASSUME ModeInv, [ModeNext]_<<vars, modeVars>>
      PROVE  [mode' # mode /\ wpc \in TaskPlaces \ {"build", "skipFirmware", "lock"}
              => allowed = "rfc"]_<<vars, modeVars>>
  <2>1. CASE CycleStep
    BY <1>1, <2>1 DEF CycleStep, ModeInv, IInv, ThreadInv, TaskPlaces
  <2>2. CASE SetModeCheck
    BY <2>2 DEF SetModeCheck
  <2>3. CASE SetModeWrite
    BY <1>1, <2>3 DEF SetModeWrite, ModeInv, ModeTypeOK, RequestInv, Frozen
  <2>4. CASE UNCHANGED <<vars, modeVars>>
    BY <2>4
  <2> QED
    BY <1>1, <2>1, <2>2, <2>3, <2>4 DEF ModeNext
<1> QED
  BY <1>1, ModeInitInv, ModeStepInv, PTL DEF ModeSpec, ModeFrozenDuringTasks

-----------------------------------------------------------------------------
(* What the requests leave of the cycle: all of it.                        *)

\* Of a step of the two modules together the cycle sees a step of its own, or nothing but
\* m_callMutex.
LEMMA ModeStepOfCycle ==
    ASSUME [ModeNext]_<<vars, modeVars>>
    PROVE  [Next]_vars \/ (SetModeCheck \/ SetModeWrite)
  BY DEF ModeNext, CycleStep

\* With requests for the mode at every point a finished cycle has no worker left, tasks run only
\* in a started cycle, and the boot cycle comes first.
THEOREM ModeKeepsCycle ==
    ModeSpec => [](FinishedMeansQuiescent /\ TasksOnlyWhileStarted /\ BootCycleFirst)
<1>1. ModeInv => FinishedMeansQuiescent /\ TasksOnlyWhileStarted /\ BootCycleFirst
  BY DEF ModeInv, IInv, TypeOK, Places, PlaceInv, FinishedMeansQuiescent, TasksOnlyWhileStarted
<1> QED
  BY <1>1, ModeInitInv, ModeStepInv, PTL DEF ModeSpec

LEMMA ModeStepAInv ==
    ASSUME Undisturbed, AInv, [ModeNext]_<<vars, modeVars>>
    PROVE  AInv'
<1>1. CASE SetModeCheck \/ SetModeWrite
  <2>1. UNCHANGED <<sharedVars, net, workerVars, scripts>>
    BY <1>1 DEF SetModeCheck, SetModeWrite
  <2>2. IInv'
    BY <1>1, CycleUndisturbed DEF AInv
  <2>3. Awaits'
    BY <2>1, WokenAwaits DEF sharedVars, ownerVars, workerVars
  <2> QED
    BY <2>2, <2>3 DEF AInv, Awaits
<1>2. CASE [Next]_vars
  BY <1>2, StepAInv
<1> QED
  BY <1>1, <1>2, ModeStepOfCycle

\* A request that takes m_callMutex before the worker leaves nobody waiting in vain.
THEOREM ModeNobodyWaitsInVain ==
    ASSUME Undisturbed
    PROVE  ModeSpec => []SomebodyToWaitFor
<1>1. ModeInit => AInv
  BY InitAInv DEF ModeInit
<1>2. AInv /\ [ModeNext]_<<vars, modeVars>> => AInv'
  BY ModeStepAInv
<1> QED
  BY <1>1, <1>2, AInvAnswers, PTL DEF ModeSpec

\* Clients that also set the mode see the same cycles.
THEOREM ModeCycleImplemented ==
    ASSUME FullBuild
    PROVE  ModeSpec => CycleSpec
<1>1. ModeInit => RInv /\ Cycle!CycleInit
  BY InitRInv, InitImage DEF ModeInit
<1>2. RInv /\ [ModeNext]_<<vars, modeVars>> => RInv' /\ [Cycle!CycleNext]_cycleImage
  <2> SUFFICES ASSUME RInv, [ModeNext]_<<vars, modeVars>>
               PROVE  RInv' /\ [Cycle!CycleNext]_cycleImage
    OBVIOUS
  <2>1. CASE SetModeCheck \/ SetModeWrite
    <3>1. UNCHANGED <<sharedVars, net, workerVars, scripts>>
      BY <2>1 DEF SetModeCheck, SetModeWrite
    <3>2. IInv'
      BY <2>1, CycleUndisturbed DEF RInv
    <3>3. UNCHANGED cycleImage
      BY <3>1 DEF cycleImage, working, sharedVars, workerVars
    <3> QED
      BY <3>1, <3>2, <3>3 DEF RInv, NoSkip, EndInv, sharedVars, ownerVars, workerVars
  <2>2. CASE [Next]_vars
    BY <2>2, StepRInv, StepImage
  <2> QED
    BY <2>1, <2>2, ModeStepOfCycle
<1>3. [Cycle!CycleNext]_cycleImage => [Cycle!CycleNext]_(Cycle!cycleVars)
  BY DEF cycleImage, working, Cycle!cycleVars
<1> QED
  BY <1>1, <1>2, <1>3, PTL DEF ModeSpec, CycleSpec, Cycle!CycleSpec
=============================================================================
