---------------------- MODULE MaintenanceManagerProofs ----------------------
(***************************************************************************)
(* Proofs about MaintenanceManager, for every build, every number of       *)
(* network checks and script instances and every environment.              *)
(***************************************************************************)
EXTENDS MaintenanceManager, TLAPS

\* The steps of Next that are not the worker's: what the plugin is told ...
EventStep ==
    \/ \E t \in Tasks : Report(t) \/ ScriptDies(t)
    \/ \E kind \in InfoEvents, t \in Tasks : InfoEvent(kind, t)
    \/ NewStartTime \/ EndCycle \/ InternetConnected \/ ContextUpdated

\* ... and what it is asked.
CallStep ==
    \/ StartMaintenance \/ StartJoined
    \/ StopMaintenance("stop") \/ StopMaintenance("deinit") \/ StopJoined \/ Initialize

\* The task list of every build and type of cycle is a sequence of tasks.
LEMMA TaskListTyping ==
    ASSUME NEW skip \in BOOLEAN
    PROVE  TaskList(skip) \in Seq(Tasks)
<1>1. /\ <<>> \in Seq(Tasks)
      /\ <<"DCM">> \in Seq(Tasks)
      /\ <<"LOGUPLOAD">> \in Seq(Tasks)
  BY DEF Tasks
<1>2. /\ <<"RFC", "LOGUPLOAD">> \in Seq(Tasks)
      /\ <<"RFC", "SWUPDATE">> \in Seq(Tasks)
  BY DEF Tasks
<1>3. <<"RFC", "SWUPDATE", "LOGUPLOAD">> \in Seq(Tasks)
  BY DEF Tasks
<1>4. \A s, t \in Seq(Tasks) : s \o t \in Seq(Tasks)
  OBVIOUS
<1> HIDE DEF Tasks
<1> QED
  BY <1>1, <1>2, <1>3, <1>4 DEF TaskList

\* One more script instance keeps the count of every task within its bound.
LEMMA RunTyping ==
    ASSUME scripts \in [Tasks -> 0..MaxInstances], NEW ts
    PROVE  Run(ts) \in [Tasks -> 0..MaxInstances]
  BY BoundAssumption DEF Run

\* A notification takes the worker from one of its places to another.
LEMMA NotifiedTyping ==
    ASSUME wpc \in Places
    PROVE  Notified \in Places
  BY DEF Notified, Places, CheckPlaces, TaskPlaces

\* The completion check gives endStatus a status and m_statusMutex to the handler.
LEMMA CheckCompletedTyping ==
    ASSUME TypeOK, CheckCompleted
    PROVE  /\ statusMutex' \in {"free", "event", "start", "stop", "deinit"}
           /\ endStatus' \in Statuses
           /\ lastSuccess' \in 0..1
  BY DEF TypeOK, CheckCompleted, EndStatus, Statuses

\* Marking a task as ended keeps the bits of g_task_status apart.
LEMMA MarkTyping ==
    ASSUME NEW bits \in TaskBits, NEW t \in Tasks, NEW outcome
    PROVE  [complete |-> bits.complete \cup {t},
            success  |-> IF outcome = "COMPLETE" THEN bits.success \cup {t} ELSE bits.success,
            skipped  |-> bits.skipped \/ outcome = "ABORTED"] \in TaskBits
<1>1. bits.complete \cup {t} \in SUBSET Tasks
  BY DEF TaskBits
<1>2. (IF outcome = "COMPLETE" THEN bits.success \cup {t} ELSE bits.success) \in SUBSET Tasks
  BY DEF TaskBits
<1>3. (bits.skipped \/ outcome = "ABORTED") \in BOOLEAN
  BY DEF TaskBits
<1> QED
  BY <1>1, <1>2, <1>3, Zenon DEF TaskBits

\* What the members start from is typed.
LEMMA StartTyping ==
    /\ <<>> \in Seq(Tasks)
    /\ NoBits \in TaskBits
    /\ NoLocals \in Locals
<1>1. NoBits \in TaskBits
  BY DEF NoBits, TaskBits
<1>2. NoLocals \in Locals
  BY <1>1, BoundAssumption DEF NoLocals, Locals
<1> QED
  BY <1>1, <1>2

LEMMA InitTyping == Init => TypeOK
<1> SUFFICES ASSUME Init PROVE TypeOK
  OBVIOUS
<1>1. scripts \in [Tasks -> 0..MaxInstances]
  BY BoundAssumption DEF Init
<1>2. net \subseteq NetFlags
  BY DEF Init, NetFlags
<1>3. i \in Nat \ {0} /\ lastSuccess \in 0..1
  BY DEF Init
<1> QED
  BY <1>1, <1>2, <1>3, StartTyping
     DEF Init, TypeOK, Statuses, Places, CheckPlaces, TaskPlaces

\* The worker's steps keep the types.
LEMMA WorkerTyping == TypeOK /\ (WorkerStep \/ WSpurious) => TypeOK'
<1> SUFFICES ASSUME TypeOK, WorkerStep \/ WSpurious PROVE TypeOK'
  OBVIOUS
<1> USE DEF TypeOK, sharedVars, ownerVars, recordVars, Places, CheckPlaces, TaskPlaces
<1>1. CASE WBegin
  <2>1. loc' \in Locals
    BY <1>1, StartTyping DEF WBegin, Locals
  <2>2. notifyStatus' \in Statuses
    BY <1>1 DEF WBegin, Statuses
  <2> QED
    BY <1>1, <2>1, <2>2, StartTyping DEF WBegin
<1>2. CASE WActivation
  <2>1. loc' \in Locals
    BY <1>2 DEF WActivation, Locals
  <2> QED
    BY <1>2, <2>1 DEF WActivation
<1>3. CASE WNetwork
  BY <1>3, BoundAssumption DEF WNetwork, MayRetry, Locals, NetFlags
<1>4. CASE WIdentity
  BY <1>4 DEF WIdentity, Locals
<1>5. CASE WKnowWhoAmI
  <2>1. loc' \in Locals
    BY <1>5 DEF WKnowWhoAmI, Locals
  <2>2. net' \subseteq NetFlags
    BY <1>5 DEF WKnowWhoAmI, NetFlags
  <2> QED
    BY <1>5, <2>1, <2>2 DEF WKnowWhoAmI
<1>6. CASE WDecide
  BY <1>6 DEF WDecide, NetFlags
<1>7. CASE WContextWait
  BY <1>7 DEF WContextWait
<1>8. CASE WAnnounce
  BY <1>8 DEF WAnnounce, Statuses
<1>9. CASE WOffline
  BY <1>9 DEF WOffline, Statuses
<1>10. CASE WOfflineTail
  BY <1>10, StartTyping DEF WOfflineTail, NetFlags
<1>11. CASE WBuild
  <2>1. tasks' \in Seq(Tasks)
    BY <1>11, TaskListTyping DEF WBuild, Locals
  <2>2. loc' \in Locals
    BY <1>11, StartTyping DEF WBuild, Locals
  <2> QED
    BY <1>11, <2>1, <2>2 DEF WBuild
<1>12. CASE WSkipFirmware
  <2>1. taskStatus' \in TaskBits
    BY <1>12 DEF WSkipFirmware, Locals, TaskBits, Tasks
  <2> QED
    BY <1>12, <2>1, StartTyping DEF WSkipFirmware
<1>13. CASE WLock
  BY <1>13 DEF WLock
<1>14. CASE WWait
  BY <1>14 DEF WWait
<1>15. CASE WRecheck
  BY <1>15 DEF WRecheck
<1>16. CASE WLoop
  BY <1>16 DEF WLoop
<1>17. CASE WLaunch
  BY <1>17, RunTyping DEF WLaunch
<1>18. CASE WWake
  BY <1>18 DEF WWake
<1>19. CASE WExit
  <2>1. i' \in Nat \ {0}
    BY <1>19 DEF WExit
  <2> QED
    BY <1>19, <2>1 DEF WExit
<1>20. CASE WSpurious
  BY <1>20, NotifiedTyping DEF WSpurious
<1> QED
  BY <1>1, <1>2, <1>3, <1>4, <1>5, <1>6, <1>7, <1>8, <1>9, <1>10, <1>11,
     <1>12, <1>13, <1>14, <1>15, <1>16, <1>17, <1>18, <1>19, <1>20 DEF WorkerStep

\* So do the events.
LEMMA EventTyping == TypeOK /\ EventStep => TypeOK'
<1> USE DEF TypeOK, sharedVars, ownerVars, recordVars, workerVars
<1>1. ASSUME TypeOK, NEW t \in Tasks, ScriptEnds(t)
      PROVE  scripts' \in [Tasks -> 0..MaxInstances]
  BY <1>1, BoundAssumption DEF ScriptEnds
<1>2. ASSUME TypeOK, NEW t \in Tasks, NEW outcome \in Outcomes(t), TaskEnded(t, outcome)
      PROVE  TypeOK'
  <2>1. scripts' \in [Tasks -> 0..MaxInstances]
    BY <1>1, <1>2 DEF TaskEnded
  <2>2. wpc' \in Places /\ taskMap' \subseteq Tasks /\ taskStatus' \in TaskBits
    <3>1. CASE t \in taskMap \/ outcome = "ABORTED"
      <4>1. taskStatus' \in TaskBits
        BY <1>2, <3>1, MarkTyping DEF TaskEnded
      <4>2. wpc' \in Places /\ taskMap' \subseteq Tasks
        BY <1>2, <3>1, NotifiedTyping DEF TaskEnded
      <4> QED
        BY <4>1, <4>2
    <3>2. CASE ~(t \in taskMap \/ outcome = "ABORTED")
      BY <1>2, <3>2 DEF TaskEnded
    <3> QED
      BY <3>1, <3>2
  <2>3. CheckCompleted
    BY <1>2 DEF TaskEnded
  <2> QED
    BY <1>2, <2>1, <2>2, <2>3, CheckCompletedTyping DEF TaskEnded
<1>3. ASSUME TypeOK, NEW t \in Tasks, TaskEndIgnored(t) \/ ScriptDies(t) PROVE TypeOK'
  BY <1>1, <1>3 DEF TaskEndIgnored, ScriptDies
<1>4. ASSUME TypeOK, NEW kind \in InfoEvents, NEW t \in Tasks, InfoEvent(kind, t) PROVE TypeOK'
  BY <1>4, CheckCompletedTyping DEF InfoEvent
<1>5. ASSUME TypeOK, NewStartTime PROVE TypeOK'
  BY <1>5, CheckCompletedTyping DEF NewStartTime
<1>6. ASSUME TypeOK, EndCycle PROVE TypeOK'
  BY <1>6 DEF EndCycle, Statuses, Places
<1>7. ASSUME TypeOK, InternetConnected PROVE TypeOK'
  BY <1>7, RunTyping DEF InternetConnected
<1>8. ASSUME TypeOK, ContextUpdated PROVE TypeOK'
  BY <1>8, NotifiedTyping DEF ContextUpdated
<1> HIDE DEF TypeOK
<1> QED
  BY <1>2, <1>3, <1>4, <1>5, <1>6, <1>7, <1>8 DEF EventStep, Report

\* And the calls and the plugin's life.
LEMMA CallTyping == TypeOK /\ CallStep => TypeOK'
<1> USE DEF TypeOK, sharedVars, ownerVars, recordVars, workerVars
<1>1. ASSUME TypeOK, StartMaintenance PROVE TypeOK'
  BY <1>1 DEF StartMaintenance, TaskBits, Tasks
<1>2. ASSUME TypeOK, StartJoined PROVE TypeOK'
  BY <1>2 DEF StartJoined, Places
<1>3. ASSUME TypeOK, AbortTask
      PROVE  taskMap' \subseteq Tasks /\ scripts' \in [Tasks -> 0..MaxInstances]
  BY <1>3, BoundAssumption DEF AbortTask
<1>4. ASSUME TypeOK, NEW caller \in {"stop", "deinit"}, StopMaintenance(caller) PROVE TypeOK'
  BY <1>3, <1>4, NotifiedTyping DEF StopMaintenance
<1>5. ASSUME TypeOK, StopJoined PROVE TypeOK'
  BY <1>5 DEF StopJoined, Statuses, Places
<1>6. ASSUME TypeOK, Initialize PROVE TypeOK'
  <2>1. net' \subseteq NetFlags
    BY <1>6 DEF Initialize, NetFlags
  <2>2. wpc' \in Places /\ notifyStatus' \in Statuses /\ endStatus' \in Statuses
    BY <1>6 DEF Initialize, Places, Statuses
  <2>3. i' \in Nat \ {0} /\ lastSuccess' \in 0..1 /\ flags' \subseteq {"reboot", "critical"}
    BY <1>6 DEF Initialize
  <2>4. taskStatus' \in TaskBits /\ loc' \in Locals /\ taskMap' \subseteq Tasks
    BY <1>6, StartTyping DEF Initialize
  <2>5. tasks' \in Seq(Tasks) /\ scripts' \in [Tasks -> 0..MaxInstances]
    BY <1>6 DEF Initialize
  <2> QED
    BY <1>6, <2>1, <2>2, <2>3, <2>4, <2>5 DEF Initialize
<1> HIDE DEF TypeOK
<1> QED
  BY <1>1, <1>2, <1>4, <1>5, <1>6 DEF CallStep

\* Every step of the plugin and of its environment keeps the types.
LEMMA StepTyping == TypeOK /\ [Next]_vars => TypeOK'
<1> SUFFICES ASSUME TypeOK, [Next]_vars PROVE TypeOK'
  OBVIOUS
<1>1. CASE UNCHANGED vars
  BY <1>1 DEF TypeOK, vars, sharedVars, ownerVars, recordVars, workerVars
<1>2. CASE Next
  <2>1. CASE WorkerStep \/ WSpurious
    BY <2>1, WorkerTyping
  <2>2. CASE EventStep
    BY <2>2, EventTyping
  <2>3. CASE CallStep
    BY <2>3, CallTyping
  <2> QED
    BY <1>2, <2>1, <2>2, <2>3 DEF Next, EventStep, CallStep
<1> QED
  BY <1>1, <1>2

\* Every member of the plugin keeps the values its declaration and its code allow.
THEOREM TypeCorrect == Spec => []TypeOK
  BY InitTyping, StepTyping, PTL DEF Spec
-----------------------------------------------------------------------------
(* The safety invariants.  Every one needs to know what the status is at   *)
(* each place of the worker, so the inductive invariant says just that.    *)

\* There is a thread to join exactly when the worker is somewhere, and none of it
\* is left in a plugin that is not initialized.
ThreadInv ==
    /\ thread <=> wpc # "none"
    /\ ~up => wpc = "none" /\ statusMutex = "free"

\* startMaintenance() joins and restarts the worker for a requested cycle only.
StartInv == statusMutex = "start" => maintenanceType = "SOLICITED" /\ unsolicitedComplete

\* What the status is at each place of the worker.
PlaceInv ==
    /\ wpc = "begin" /\ maintenanceType = "UNSOLICITED" => notifyStatus = "IDLE"
    /\ wpc \in CheckPlaces => IF loc.delay THEN WhoAmI /\ notifyStatus = "IDLE"
                              ELSE notifyStatus = "STARTED"
    /\ wpc \in TaskPlaces => notifyStatus = "STARTED"
    /\ wpc = "offlineTail" => notifyStatus = "ERROR"
    /\ wpc = "done" => notifyStatus \in {"STARTED", "ERROR"}

IInv == TypeOK /\ ThreadInv /\ StartInv /\ BootCycleFirst /\ PlaceInv

LEMMA InitInv == Init => IInv
  BY InitTyping DEF Init, IInv, ThreadInv, StartInv, BootCycleFirst, PlaceInv, CheckPlaces,
                    TaskPlaces

\* A notification leaves a place only for one where the status is the same.
LEMMA NotifiedPlace ==
    ASSUME TypeOK
    PROVE  /\ Notified \in CheckPlaces <=> wpc \in CheckPlaces
           /\ Notified \in TaskPlaces <=> wpc \in TaskPlaces
           /\ \A p \in {"none", "begin", "offlineTail", "done"} : Notified = p <=> wpc = p
  BY DEF TypeOK, Notified, Places, CheckPlaces, TaskPlaces

\* The worker's steps keep the invariant.
LEMMA WorkerInv == IInv /\ (WorkerStep \/ WSpurious) => ThreadInv' /\ StartInv' /\ BootCycleFirst' /\ PlaceInv'
<1> SUFFICES ASSUME IInv, WorkerStep \/ WSpurious
             PROVE  ThreadInv' /\ StartInv' /\ BootCycleFirst' /\ PlaceInv'
  OBVIOUS
<1>0. TypeOK
  BY DEF IInv
<1> USE DEF IInv, ThreadInv, StartInv, BootCycleFirst, PlaceInv, CheckPlaces, TaskPlaces,
            sharedVars, ownerVars, recordVars
<1>1. CASE WBegin
  <2>1. loc'.delay = (WhoAmI /\ maintenanceType = "UNSOLICITED")
    BY <1>1 DEF WBegin, NoLocals
  <2> QED
    BY <1>0, <1>1, <2>1 DEF WBegin, TypeOK
<1>2. CASE WActivation
  <2>1. loc'.delay = loc.delay
    BY <1>0, <1>2 DEF WActivation, TypeOK, Locals
  <2> QED
    BY <1>2, <2>1 DEF WActivation
<1>3. CASE WNetwork
  <2>1. loc'.delay = loc.delay
    BY <1>0, <1>3 DEF WNetwork, MayRetry, TypeOK, Locals
  <2> QED
    BY <1>3, <2>1 DEF WNetwork
<1>4. CASE WIdentity
  <2>1. loc'.delay = loc.delay
    BY <1>0, <1>4 DEF WIdentity, TypeOK, Locals
  <2> QED
    BY <1>4, <2>1 DEF WIdentity
<1>5. CASE WKnowWhoAmI
  <2>1. loc'.delay = loc.delay
    BY <1>0, <1>5 DEF WKnowWhoAmI, TypeOK, Locals
  <2> QED
    BY <1>5, <2>1 DEF WKnowWhoAmI
<1>6. CASE WDecide
  BY <1>6 DEF WDecide
<1>7. CASE WContextWait
  BY <1>7 DEF WContextWait
<1>8. CASE WAnnounce
  BY <1>8 DEF WAnnounce
<1>9. CASE WOffline
  BY <1>9 DEF WOffline
<1>10. CASE WOfflineTail
  BY <1>0, <1>10 DEF WOfflineTail, TypeOK
<1>11. CASE WBuild
  BY <1>11 DEF WBuild
<1>12. CASE WSkipFirmware
  BY <1>12 DEF WSkipFirmware
<1>13. CASE WLock
  BY <1>13 DEF WLock
<1>14. CASE WWait
  BY <1>14 DEF WWait
<1>15. CASE WRecheck
  BY <1>15 DEF WRecheck
<1>16. CASE WLoop
  BY <1>16 DEF WLoop
<1>17. CASE WLaunch
  BY <1>17 DEF WLaunch
<1>18. CASE WWake
  BY <1>18 DEF WWake
<1>19. CASE WExit
  BY <1>19 DEF WExit
<1>20. CASE WSpurious
  BY <1>20 DEF WSpurious, Notified
<1> QED
  BY <1>1, <1>2, <1>3, <1>4, <1>5, <1>6, <1>7, <1>8, <1>9, <1>10, <1>11,
     <1>12, <1>13, <1>14, <1>15, <1>16, <1>17, <1>18, <1>19, <1>20 DEF WorkerStep

\* So do the steps that touch no member the invariant is about, but for a notification.
LEMMA QuietInv ==
    ASSUME IInv, wpc' \in {wpc, Notified}, statusMutex' = statusMutex \/ up, statusMutex' # "start",
           UNCHANGED <<notifyStatus, maintenanceType, unsolicitedComplete, up, thread, loc>>
    PROVE  ThreadInv' /\ StartInv' /\ BootCycleFirst' /\ PlaceInv'
<1>1. TypeOK
  BY DEF IInv
<1> QED
  BY <1>1, NotifiedPlace DEF IInv, ThreadInv, StartInv, BootCycleFirst, PlaceInv

\* So do the events.
LEMMA EventInv == IInv /\ EventStep => ThreadInv' /\ StartInv' /\ BootCycleFirst' /\ PlaceInv'
<1> USE DEF sharedVars, ownerVars, recordVars, workerVars
<1> DEFINE Inv == ThreadInv /\ StartInv /\ BootCycleFirst /\ PlaceInv
<1>1. ASSUME IInv, NEW t \in Tasks, Report(t) \/ ScriptDies(t) PROVE Inv'
  <2>1. CASE \E outcome \in Outcomes(t) : TaskEnded(t, outcome)
    BY <1>1, <2>1, QuietInv DEF TaskEnded, CheckCompleted, Accepting, Listening
  <2>2. CASE TaskEndIgnored(t) \/ ScriptDies(t)
    BY <1>1, <2>2 DEF TaskEndIgnored, ScriptDies, IInv, ThreadInv, StartInv, BootCycleFirst,
                      PlaceInv
  <2> QED
    BY <1>1, <2>1, <2>2 DEF Report
<1>2. ASSUME IInv, NEW kind \in InfoEvents, NEW t \in Tasks, InfoEvent(kind, t) PROVE Inv'
  BY <1>2, QuietInv DEF InfoEvent, CheckCompleted, Accepting, Listening
<1>3. ASSUME IInv, NewStartTime PROVE Inv'
  BY <1>3, QuietInv DEF NewStartTime, CheckCompleted, Listening
<1>4. ASSUME IInv, EndCycle PROVE Inv'
  BY <1>4 DEF EndCycle, IInv, ThreadInv, StartInv, BootCycleFirst, PlaceInv, CheckPlaces,
              TaskPlaces
<1>5. ASSUME IInv, InternetConnected PROVE Inv'
  BY <1>5 DEF InternetConnected, IInv, ThreadInv, StartInv, BootCycleFirst, PlaceInv
<1>6. ASSUME IInv, ContextUpdated PROVE Inv'
  BY <1>6, NotifiedPlace DEF ContextUpdated, IInv, ThreadInv, StartInv, BootCycleFirst, PlaceInv
<1> QED
  BY <1>1, <1>2, <1>3, <1>4, <1>5, <1>6 DEF EventStep

\* And the calls and the plugin's life.
LEMMA CallInv == IInv /\ CallStep => ThreadInv' /\ StartInv' /\ BootCycleFirst' /\ PlaceInv'
<1> USE DEF sharedVars, ownerVars, recordVars, workerVars
<1> DEFINE Inv == ThreadInv /\ StartInv /\ BootCycleFirst /\ PlaceInv
<1>1. ASSUME IInv, StartMaintenance PROVE Inv'
  BY <1>1 DEF StartMaintenance, RequestAccepted, Listening, IInv, ThreadInv, StartInv,
              BootCycleFirst, PlaceInv
<1>2. ASSUME IInv, StartJoined PROVE Inv'
  BY <1>2 DEF StartJoined, IInv, ThreadInv, StartInv, BootCycleFirst, PlaceInv, CheckPlaces,
              TaskPlaces
<1>3. ASSUME IInv, NEW caller \in {"stop", "deinit"}, StopMaintenance(caller) PROVE Inv'
  BY <1>3, QuietInv DEF StopMaintenance, Listening
<1>4. ASSUME IInv, StopJoined PROVE Inv'
  BY <1>4 DEF StopJoined, IInv, ThreadInv, StartInv, BootCycleFirst, PlaceInv, CheckPlaces,
              TaskPlaces
<1>5. ASSUME IInv, Initialize PROVE Inv'
  BY <1>5 DEF Initialize, IInv, ThreadInv, StartInv, BootCycleFirst, PlaceInv, CheckPlaces,
              TaskPlaces
<1> QED
  BY <1>1, <1>2, <1>3, <1>4, <1>5 DEF CallStep

LEMMA StepInv == IInv /\ [Next]_vars => IInv'
<1> SUFFICES ASSUME IInv, [Next]_vars PROVE IInv'
  OBVIOUS
<1>1. TypeOK'
  BY StepTyping DEF IInv
<1>2. CASE UNCHANGED vars
  BY <1>2, <1>1 DEF IInv, ThreadInv, StartInv, BootCycleFirst, PlaceInv, vars, sharedVars, ownerVars,
             workerVars
<1>3. CASE Next
  BY <1>1, <1>3, WorkerInv, EventInv, CallInv DEF Next, EventStep, CallStep, IInv
<1> QED
  BY <1>2, <1>3

\* Each cycle's tasks run in a started cycle, whatever is called and whatever arrives.
THEOREM TasksRunStarted == Spec => []TasksOnlyWhileStarted
<1>1. IInv => TasksOnlyWhileStarted
  BY DEF IInv, PlaceInv, TasksOnlyWhileStarted
<1> QED
  BY <1>1, InitInv, StepInv, PTL DEF Spec

\* The boot cycle is over before any requested cycle is at work.
THEOREM BootComesFirst == Spec => []BootCycleFirst
<1>1. IInv => BootCycleFirst
  BY DEF IInv
<1> QED
  BY <1>1, InitInv, StepInv, PTL DEF Spec

\* No worker is left of a cycle that was reported complete or incomplete.
THEOREM FinishedIsQuiescent == Spec => []FinishedMeansQuiescent
<1>1. IInv => FinishedMeansQuiescent
  BY DEF IInv, TypeOK, Places, PlaceInv, FinishedMeansQuiescent
<1> QED
  BY <1>1, InitInv, StepInv, PTL DEF Spec
=============================================================================
