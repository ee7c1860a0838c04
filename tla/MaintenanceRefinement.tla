----------------------- MODULE MaintenanceRefinement -----------------------
(***************************************************************************)
(* The MaintenanceManager plugin keeps what module MaintenanceCycle        *)
(* promises, in every build but the one that suppresses firmware updates   *)
(* without asking who the device is: there the worker writes g_task_status *)
(* without m_statusMutex.                                                  *)
(***************************************************************************)
EXTENDS MaintenanceManagerProofs

\* The worker never takes the path that skips the firmware update.
NoSkip == wpc \notin {"activation", "skipFirmware"} /\ loc.skip = FALSE

\* What the handler is about to post was earned, and still is.
EndInv ==
    statusMutex = "event" =>
        /\ endStatus \in {"COMPLETE", "INCOMPLETE", "ERROR"}
        /\ endStatus = "COMPLETE" => taskStatus.success = Tasks

RInv == IInv /\ NoSkip /\ EndInv

FullBuild == WhoAmI \/ ~Suppress

LEMMA InitRInv == Init => RInv
  BY InitInv DEF Init, RInv, NoSkip, EndInv, NoLocals

\* The completion check of the handler earns the status it prepares.
LEMMA CheckCompletedEarned ==
    ASSUME statusMutex = "free", CheckCompleted
    PROVE  EndInv'
<1>1. CASE taskStatus'.complete = Tasks
  <2>1. statusMutex' = "event" /\ endStatus' = EndStatus(taskStatus')
    BY <1>1 DEF CheckCompleted
  <2>2. /\ EndStatus(taskStatus') \in {"COMPLETE", "INCOMPLETE", "ERROR"}
        /\ EndStatus(taskStatus') = "COMPLETE" => taskStatus'.success = Tasks
    BY DEF EndStatus
  <2> QED
    BY <2>1, <2>2 DEF EndInv
<1>2. CASE taskStatus'.complete # Tasks
  BY <1>2 DEF CheckCompleted, EndInv
<1> QED
  BY <1>1, <1>2

\* The worker's steps stay off that path and leave the handler's mutex alone.
LEMMA WorkerRInv ==
    ASSUME FullBuild, RInv, WorkerStep \/ WSpurious
    PROVE  NoSkip' /\ EndInv'
<1>0. TypeOK
  BY DEF RInv, IInv
<1> USE DEF RInv, NoSkip, EndInv, sharedVars, ownerVars, recordVars
<1>1. CASE WBegin
  <2>1. loc'.skip = FALSE
    BY <1>1 DEF WBegin, NoLocals
  <2> QED
    BY <1>1, <2>1 DEF WBegin, FullBuild
<1>2. CASE WNetwork \/ WIdentity \/ WKnowWhoAmI
  <2>1. loc'.skip = loc.skip
    BY <1>0, <1>2 DEF WNetwork, WIdentity, WKnowWhoAmI, TypeOK, Locals
  <2> QED
    BY <1>2, <2>1 DEF WNetwork, WIdentity, WKnowWhoAmI
<1>3. CASE WDecide \/ WContextWait \/ WAnnounce \/ WOffline
  BY <1>3 DEF WDecide, WContextWait, WAnnounce, WOffline
<1>4. CASE WOfflineTail
  BY <1>4 DEF WOfflineTail, NoLocals
<1>5. CASE WBuild
  <2>1. loc'.skip = FALSE
    BY <1>5 DEF WBuild, NoLocals
  <2> QED
    BY <1>5, <2>1 DEF WBuild
<1>6. CASE WLock \/ WLoop \/ WRecheck \/ WLaunch
  BY <1>6 DEF WLock, WLoop, WRecheck, WLaunch
<1>7. CASE WWait \/ WWake \/ WExit
  BY <1>7 DEF WWait, WWake, WExit
<1>8. CASE WSpurious
  BY <1>8 DEF WSpurious, Notified
<1>9. CASE WActivation \/ WSkipFirmware
  BY <1>9 DEF WActivation, WSkipFirmware
<1> QED
  BY <1>1, <1>2, <1>3, <1>4, <1>5, <1>6, <1>7, <1>8, <1>9 DEF WorkerStep

\* Nor does anybody else lead it there.
LEMMA OtherRInv ==
    ASSUME RInv, EventStep \/ CallStep
    PROVE  NoSkip' /\ EndInv'
<1> USE DEF sharedVars, ownerVars, recordVars, workerVars
<1>1. ASSUME NEW t \in Tasks, Report(t) \/ ScriptDies(t) PROVE NoSkip' /\ EndInv'
  <2>1. CASE \E outcome \in Outcomes(t) : TaskEnded(t, outcome)
    <3>1. EndInv'
      BY <2>1, CheckCompletedEarned DEF TaskEnded, Accepting, Listening
    <3>2. NoSkip'
      BY <2>1 DEF TaskEnded, RInv, NoSkip, Notified
    <3> QED
      BY <3>1, <3>2
  <2>2. CASE TaskEndIgnored(t) \/ ScriptDies(t)
    BY <2>2 DEF TaskEndIgnored, ScriptDies, RInv, NoSkip, EndInv
  <2> QED
    BY <1>1, <2>1, <2>2 DEF Report
<1>2. ASSUME NEW kind \in InfoEvents, NEW t \in Tasks, InfoEvent(kind, t)
      PROVE  NoSkip' /\ EndInv'
  BY <1>2, CheckCompletedEarned DEF InfoEvent, Accepting, Listening, RInv, NoSkip
<1>3. ASSUME NewStartTime PROVE NoSkip' /\ EndInv'
  BY <1>3, CheckCompletedEarned DEF NewStartTime, Listening, RInv, NoSkip
<1>4. ASSUME EndCycle \/ InternetConnected \/ ContextUpdated PROVE NoSkip' /\ EndInv'
  BY <1>4 DEF EndCycle, InternetConnected, ContextUpdated, Notified, RInv, NoSkip, EndInv
<1>5. ASSUME StartMaintenance \/ StartJoined PROVE NoSkip' /\ EndInv'
  BY <1>5 DEF StartMaintenance, StartJoined, RInv, NoSkip, EndInv
<1>6. ASSUME NEW caller \in {"stop", "deinit"}, StopMaintenance(caller)
      PROVE  NoSkip' /\ EndInv'
  BY <1>6 DEF StopMaintenance, Notified, RInv, NoSkip, EndInv
<1>7. ASSUME StopJoined PROVE NoSkip' /\ EndInv'
  BY <1>7 DEF StopJoined, RInv, NoSkip, EndInv
<1>8. ASSUME Initialize PROVE NoSkip' /\ EndInv'
  BY <1>8 DEF Initialize, NoSkip, EndInv, NoLocals
<1> QED
  BY <1>1, <1>2, <1>3, <1>4, <1>5, <1>6, <1>7, <1>8 DEF EventStep, CallStep

LEMMA StepRInv == FullBuild /\ RInv /\ [Next]_vars => RInv'
<1> SUFFICES ASSUME FullBuild, RInv, [Next]_vars PROVE RInv'
  OBVIOUS
<1>1. IInv'
  BY StepInv DEF RInv
<1>2. NoSkip' /\ EndInv'
  <2>1. CASE UNCHANGED vars
    BY <2>1 DEF RInv, NoSkip, EndInv, vars, sharedVars, ownerVars, workerVars
  <2>2. CASE WorkerStep \/ WSpurious
    BY <2>2, WorkerRInv
  <2>3. CASE EventStep \/ CallStep
    BY <2>3, OtherRInv
  <2> QED
    BY <2>1, <2>2, <2>3 DEF Next, EventStep, CallStep
<1> QED
  BY <1>1, <1>2 DEF RInv

-----------------------------------------------------------------------------
(* The steps of the plugin as steps of a cycle.                            *)

working == wpc \in TaskPlaces \ {"build"}

\* The members that a client's picture of a cycle is made of.
cycleImage == <<notifyStatus, working, taskStatus.success>>

\* A notification neither begins nor ends a cycle's tasks.
LEMMA NotifiedWorking == Notified \in TaskPlaces \ {"build"} <=> working
  BY DEF Notified, working, TaskPlaces

LEMMA InitImage == Init => Cycle!CycleInit
  BY DEF Init, Cycle!CycleInit, NoBits, TaskPlaces

LEMMA WorkerImage ==
    ASSUME RInv, WorkerStep \/ WSpurious
    PROVE  Cycle!CycleNext \/ UNCHANGED cycleImage
<1> USE DEF cycleImage, working, TaskPlaces, sharedVars, ownerVars
<1>1. CASE WBegin
  BY <1>1 DEF WBegin, Cycle!CycleNext, Cycle!Announce
<1>2. CASE WAnnounce
  BY <1>2 DEF WAnnounce, Cycle!CycleNext, Cycle!Announce
<1>3. CASE WOffline
  <2>1. Cycle!Finish("ERROR")
    BY <1>3 DEF WOffline, Cycle!Finish
  <2> QED
    BY <2>1 DEF Cycle!CycleNext
<1>4. CASE WBuild
  BY <1>4 DEF WBuild, RInv, IInv, PlaceInv, NoSkip, Cycle!CycleNext, Cycle!BeginTasks
<1>5. CASE WExit
  BY <1>5 DEF WExit, Cycle!CycleNext, Cycle!EndTasks
<1>6. CASE WActivation \/ WSkipFirmware
  BY <1>6 DEF WActivation, WSkipFirmware, RInv, NoSkip
<1>7. CASE WNetwork \/ WIdentity \/ WKnowWhoAmI \/ WDecide
  <2>1. UNCHANGED working
    <3>1. ~working
      BY <1>7 DEF WNetwork, WIdentity, WKnowWhoAmI, WDecide
    <3>2. ~working'
      BY <1>7 DEF WNetwork, WIdentity, WKnowWhoAmI, WDecide
    <3> QED
      BY <3>1, <3>2
  <2>2. UNCHANGED <<notifyStatus, taskStatus>>
    BY <1>7 DEF WNetwork, WIdentity, WKnowWhoAmI, WDecide
  <2> HIDE DEF working
  <2> QED
    BY <2>1, <2>2
<1>8. CASE WContextWait \/ WOfflineTail
  BY <1>8 DEF WContextWait, WOfflineTail
<1>9. CASE WLock \/ WLoop \/ WRecheck \/ WLaunch \/ WWait \/ WWake
  BY <1>9 DEF WLock, WLoop, WRecheck, WLaunch, WWait, WWake
<1>10. CASE WSpurious
  BY <1>10, NotifiedWorking DEF WSpurious
<1> QED
  BY <1>1, <1>2, <1>3, <1>4, <1>5, <1>6, <1>7, <1>8, <1>9, <1>10 DEF WorkerStep

LEMMA EventImage ==
    ASSUME RInv, EventStep
    PROVE  Cycle!CycleNext \/ UNCHANGED cycleImage
<1> USE DEF cycleImage, sharedVars, ownerVars, workerVars
<1>1. ASSUME NEW t \in Tasks, Report(t) \/ ScriptDies(t)
      PROVE  Cycle!CycleNext \/ UNCHANGED cycleImage
  <2>1. ASSUME NEW outcome \in Outcomes(t), TaskEnded(t, outcome)
        PROVE  Cycle!Succeed(t) \/ UNCHANGED cycleImage
    <3>1. UNCHANGED <<notifyStatus, working>> /\ notifyStatus = "STARTED"
      BY <2>1, NotifiedWorking DEF TaskEnded, Accepting, working
    <3>2. taskStatus'.success \in {taskStatus.success, taskStatus.success \cup {t}}
      BY <2>1 DEF TaskEnded
    <3> QED
      BY <3>1, <3>2 DEF Cycle!Succeed, working
  <2>2. CASE TaskEndIgnored(t) \/ ScriptDies(t)
    BY <2>2 DEF TaskEndIgnored, ScriptDies, working
  <2> QED
    BY <1>1, <2>1, <2>2 DEF Report, Cycle!CycleNext
<1>2. ASSUME NEW kind \in InfoEvents, NEW t \in Tasks, InfoEvent(kind, t)
      PROVE  UNCHANGED cycleImage
  BY <1>2 DEF InfoEvent, working
<1>3. ASSUME NewStartTime \/ InternetConnected \/ ContextUpdated PROVE UNCHANGED cycleImage
  BY <1>3, NotifiedWorking DEF NewStartTime, InternetConnected, ContextUpdated, working
<1>4. ASSUME EndCycle PROVE Cycle!CycleNext
  <2>1. Cycle!Finish(endStatus)
    BY <1>4 DEF EndCycle, Joined, RInv, IInv, ThreadInv, EndInv, TaskPlaces, Cycle!Finish
  <2> QED
    BY <1>4, <2>1 DEF EndCycle, RInv, EndInv, Cycle!CycleNext
<1> QED
  BY <1>1, <1>2, <1>3, <1>4 DEF EventStep

LEMMA CallImage ==
    ASSUME RInv, CallStep
    PROVE  Cycle!CycleNext \/ UNCHANGED cycleImage
<1> USE DEF cycleImage, sharedVars, ownerVars, workerVars
<1>1. ASSUME StartMaintenance PROVE Cycle!Request
  BY <1>1 DEF StartMaintenance, RequestAccepted, RInv, IInv, PlaceInv, Cycle!Request
<1>2. ASSUME StartJoined PROVE UNCHANGED cycleImage
  BY <1>2 DEF StartJoined, Joined, RInv, IInv, ThreadInv, working, TaskPlaces
<1>3. ASSUME NEW caller \in {"stop", "deinit"}, StopMaintenance(caller)
      PROVE  UNCHANGED cycleImage
  BY <1>3, NotifiedWorking DEF StopMaintenance, working
<1>4. ASSUME StopJoined PROVE Cycle!Finish("ERROR")
  BY <1>4 DEF StopJoined, Joined, RInv, IInv, ThreadInv, TaskPlaces, Cycle!Finish
<1>5. ASSUME Initialize PROVE Cycle!Restart
  BY <1>5 DEF Initialize, RInv, IInv, ThreadInv, TaskPlaces, NoBits, Cycle!Restart,
              Cycle!CycleInit
<1> QED
  BY <1>1, <1>2, <1>3, <1>4, <1>5 DEF CallStep, Cycle!CycleNext

\* Every step of the plugin is a step of a cycle, as clients see it, or none.
LEMMA StepImage == RInv /\ [Next]_vars => [Cycle!CycleNext]_cycleImage
<1> SUFFICES ASSUME RInv, [Next]_vars PROVE Cycle!CycleNext \/ UNCHANGED cycleImage
  OBVIOUS
<1>1. CASE UNCHANGED vars
  BY <1>1 DEF vars, sharedVars, ownerVars, workerVars, cycleImage, working
<1> QED
  BY <1>1, WorkerImage, EventImage, CallImage DEF Next, EventStep, CallStep

\* Clients see cycles: the tasks of one at a time, between MAINTENANCE_STARTED and
\* the status that ends it, and MAINTENANCE_COMPLETE for what succeeded as a whole.
THEOREM CycleImplemented ==
    ASSUME FullBuild
    PROVE  Spec => CycleSpec
<1>1. [Cycle!CycleNext]_cycleImage => [Cycle!CycleNext]_(Cycle!cycleVars)
  BY DEF cycleImage, working, Cycle!cycleVars
<1>2. RInv /\ [Next]_vars => RInv'
  BY StepRInv
<1> QED
  BY <1>1, <1>2, InitRInv, InitImage, StepImage, PTL DEF Spec, CycleSpec, Cycle!CycleSpec
=============================================================================
